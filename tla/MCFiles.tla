------------------------------ MODULE MCFiles ------------------------------
(* Two board names, a board written by an older tb with a hot -wal and an  *)
(* archive of the same name; or the same two files in the directory of the *)
(* time before the rename.  Three commands of every kind at once.          *)
EXTENDS BoardFiles, TLC

CONSTANTS default, work, p1, p2, p3, f1, f2, f3, f4

P(op, board, env) ==
  [op |-> op, board |-> board, env |-> env, pinned |-> FALSE, person |-> TRUE, backups |-> FALSE]

MCPlans ==
  [p \in {p1, p2, p3} |->
     CASE p = p1 -> {P("add", work, None), P("add", None, None), P("rows", None, None), P("pick", work, None)}
       [] p = p2 -> {P("archive", work, default), P("restore", work, None),
                     P("write", work, None), P("new", work, None), P("discard", work, default)}
       [] OTHER  -> {[P("delete", work, None) EXCEPT !.backups = TRUE], P("older", work, None),
                     P("point", work, None), P("clear", work, None), P("peek", work, None), P("archive", work, default),
                     [P("add", work, None) EXCEPT !.pinned = TRUE]}]

Bare == [n \in {default, work} |-> None]
Dry == [n \in {default, work} |-> {}]
Ages == [f \in {f1, f2, f3, f4} |-> CASE f = f1 -> "old" [] f = f2 -> "new" [] OTHER -> "none"]

\* f2 was last opened by a tb that knew of actors, but not yet of a board's creator.
Sides == [f \in {f1, f2, f3, f4} |-> IF f = f2 THEN {"actors"} ELSE {}]

Put(f) == [file |-> f, there |-> TRUE]
Here == [live |-> [Bare EXCEPT ![work] = f1], wal |-> [Dry EXCEPT ![work] = {Hot}],
         arch |-> [n \in {default, work} |-> IF n = work THEN <<Put(f2)>> ELSE <<>>],
         old |-> Bare, oldWal |-> Dry, schema |-> Ages, side |-> Sides, saved |-> work,
         runs |-> {p1, p2, p3}]
Shelved == [Here EXCEPT !.live = Bare, !.wal = Dry, !.saved = None,
                        !.arch = [@ EXCEPT ![work] = <<Put(f2), Put(f1)>>]]
Ancient == [Here EXCEPT !.live = Bare, !.wal = Dry, !.arch = [n \in {default, work} |-> <<>>],
                        !.old = [Bare EXCEPT ![work] = f1, ![default] = f2],
                        !.oldWal = [Dry EXCEPT ![work] = {Hot}], !.saved = None,
                        !.runs = {p1, p2}]
NewFiles == Permutations({f3, f4})
MCWorlds == {Here, Shelved, Ancient}
=============================================================================
