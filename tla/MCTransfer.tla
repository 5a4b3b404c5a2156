----------------------------- MODULE MCTransfer -----------------------------
(* Two boards with a card filed on each, and two moves: ann's, and bob's,  *)
(* who also takes cards.                                                   *)
EXTENDS Transfer

CONSTANTS home, office, ann, bob, mvAnn, mvBob, w1, w2, note

MCFiledOn == [w \in {w1, w2} |-> IF w = w1 THEN home ELSE office]
MCNameOf == [m \in {mvAnn, mvBob} |-> IF m = mvAnn THEN ann ELSE bob]
=============================================================================
