------------------------------ MODULE MCTrust -------------------------------
(***************************************************************************)
(* Three tb commands, two hooks whose commands are two files, two boards.   *)
(* A behaviour starts with commands that change the settings, or with one  *)
(* of them and changes that ask hooks, or with changes whose hooks call    *)
(* tb.                                                                     *)
(***************************************************************************)
EXTENDS Trust

CONSTANTS h1, h2, v1, v2, q1, q2, f1, f2, x1, x2, b1, b2, p1, p2, p3

Base == [op |-> "change", hook |-> h1, argv |-> v1, list |-> <<>>, board |-> b1, glass |-> FALSE]
Saves(ops, h) == {[Base EXCEPT !.op = o, !.hook = h] : o \in ops}
Elsewhere == [Base EXCEPT !.board = b2]
Forced == [Base EXCEPT !.glass = TRUE]
Unasked == [Base EXCEPT !.op = "config", !.list = <<h2>>]

Known(v, q, x) == [argv |-> v, path |-> q, digest |-> x, secs |-> "usual"]
BothTrusted == [h \in Hook |-> IF h = h1 THEN Known(v1, q1, x1) ELSE Known(v2, q2, x2)]

World(pre, post, plans, nested, used) ==
  [meddled |-> used, hooks |-> BothTrusted,
   leads |-> [v \in Argv |-> IF v = v1 THEN q1 ELSE q2],
   bin |-> [q \in Path |-> IF q = q1 THEN f1 ELSE f2],
   bytes |-> [f \in File |-> IF f = f1 THEN x1 ELSE x2],
   asks |-> [b \in Board |-> [pre |-> pre, post |-> post]],
   plans |-> [p \in Proc |-> IF p \in DOMAIN plans THEN plans[p] ELSE {Base}],
   runs |-> DOMAIN plans \ nested, nested |-> nested]

Savers == [p \in {p1, p2, p3} |->
             CASE p = p1 -> Saves({"confirm", "forget", "record"}, h1)
               [] p = p2 -> Saves({"timeout", "forget"}, h2)
               [] OTHER -> Saves({"default"}, h1)]
SaverAndChange == [p \in {p1, p2} |-> IF p = p1 THEN Saves({"forget", "record"}, h1) \cup {Unasked}
                                      ELSE {Base}]
Nesting == [p \in {p1, p2} |-> IF p = p1 THEN {Base} ELSE {Base, Elsewhere, Forced}]
Chain == [p \in Proc |-> IF p = p2 THEN {Elsewhere} ELSE {Base}]
TwoChanges == [p \in {p1, p2, p3} |-> {Base}]

MCWorlds == {World(<<h1>>, None, Savers, {}, 0),
             World(<<h1, h2>>, None, SaverAndChange, {}, 0),
             World(<<h1>>, h2, Nesting, {p2}, MaxMeddle),
             World(<<h1>>, None, Chain, {p2, p3}, MaxMeddle),
             World(<<h1>>, None, TwoChanges, {p3}, MaxMeddle)}
=============================================================================
