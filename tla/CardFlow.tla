------------------------------ MODULE CardFlow ------------------------------
(***************************************************************************)
(* What a board promises about a card, with no process, probe, hook or     *)
(* event log in sight: work has one holder at a time, a holder is only     *)
(* replaced by way of TODO, and a finished card keeps the claim it was     *)
(* finished under.  Board implements it (see Flow in Board.tla).           *)
(***************************************************************************)
CONSTANTS Card, Name, None

VARIABLES
  place,     \* place[c]: "new", "board", "archive" or "gone"
  row        \* row[c]: the card's column, owner and reviewer

Column == {"todo", "doing", "review", "done"}
Row == [col : Column, owner : Name \cup {None}, reviewer : Name \cup {None}]
Fresh == [col |-> "todo", owner |-> None, reviewer |-> None]

Init ==
  /\ place = [c \in Card |-> "new"]
  /\ row = [c \in Card |-> Fresh]

\* The owners a card may have after it moves to column `to'.
OwnersIn(c, to) ==
  CASE to = "todo" -> {None}
    [] to = "doing" /\ row[c].owner = None -> Name
    [] OTHER -> {row[c].owner}

Move(c, to) ==
  /\ place[c] = "board" /\ to # row[c].col
  /\ \E n \in OwnersIn(c, to) :
       row' = [row EXCEPT ![c] = [col |-> to, owner |-> n,
                                  reviewer |-> IF to = "done" THEN row[c].reviewer ELSE None]]
  /\ UNCHANGED place

Claim(c, n) ==
  /\ place[c] = "board" /\ row[c].col = "review"
  /\ row' = [row EXCEPT ![c].reviewer = n]
  /\ UNCHANGED place

Appear(c) == place[c] = "new" /\ place' = [place EXCEPT ![c] = "board"] /\ UNCHANGED row
Shelve(c) == place[c] = "board" /\ place' = [place EXCEPT ![c] = "archive"] /\ UNCHANGED row
Return(c) == place[c] = "archive" /\ place' = [place EXCEPT ![c] = "board"] /\ UNCHANGED row
Destroy(c) ==
  /\ place[c] = "board"
  /\ place' = [place EXCEPT ![c] = "gone"]
  /\ row' = [row EXCEPT ![c] = Fresh]

Next ==
  \E c \in Card :
    \/ \E to \in Column : Move(c, to)
    \/ \E n \in Name \cup {None} : Claim(c, n)
    \/ Appear(c) \/ Shelve(c) \/ Return(c) \/ Destroy(c)

Spec == Init /\ [][Next]_<<place, row>>
=============================================================================
