------------------------------ MODULE Transfer ------------------------------
(***************************************************************************)
(* `tb mv ID --to BOARD': a card sent from one board file to another.      *)
(*                                                                         *)
(* No transaction spans two SQLite files, so the order is the design: the  *)
(* source is held under its write lock for the whole move, the card is     *)
(* committed at the destination, and only then deleted at the source.      *)
(* A command is four steps here:                                           *)
(*    Check    main.rs reads the card and applies the holder rule;         *)
(*    Hold     BEGIN IMMEDIATE on the source, the card packed under it;    *)
(*    Receive  the destination's own transaction, from BEGIN to COMMIT;    *)
(*    Clear    the deletes and the COMMIT at the source.                   *)
(* Other commands (add, note, take, drop, block, rm) are single            *)
(* transactions that wait for the lock; they are one action each.          *)
(*                                                                         *)
(* A card has a number per board.  A place is a board and a number; the    *)
(* histories (`work', `acked', `removed', `spare') are kept by place.      *)
(***************************************************************************)
EXTENDS Naturals

CONSTANTS
  Board,     \* board files
  MaxId,     \* bound: card numbers handed out per board
  Work,      \* the pieces of work people file as cards
  FiledOn,   \* FiledOn[w]: the board work w is filed on first
  Entry,     \* events a card can carry
  Name,      \* people and agents who take cards
  Mover,     \* processes that run tb mv, once each
  NameOf,    \* NameOf[m]: the name a mover acts under
  Forcing,   \* the movers that were given --force
  None

Id == 1..MaxId
Place == Board \X Id

ASSUME TransferAssumption ==
  /\ MaxId \in Nat /\ FiledOn \in [Work -> Board]
  /\ Forcing \subseteq Mover
  /\ None \notin Id /\ None \notin Name /\ None \notin Mover /\ None \notin Work

VARIABLES
  rows,     \* rows[b][i]: the row of table cards, with its events, or None
  made,     \* made[b]: the largest number board b ever handed out (AUTOINCREMENT)
  outs,     \* outs[b]: the `moved-out #NEW to BOARD' records of b's log
  writer,   \* writer[b]: the mover that holds b's write lock
  mv,       \* mv[m]: what mover m holds in local variables
  work,     \* history: work[b][i]: what was filed under that number
  acked,    \* history: acked[b][i]: the events whose writer was told they are kept
  removed,  \* history: the places somebody removed a card from on purpose
  spare     \* history: the places that hold a second copy since a move broke off

vars == <<rows, made, outs, writer, mv, work, acked, removed, spare>>

Row == [col : {"todo", "doing"}, owner : Name \cup {None},
        events : SUBSET Entry, on : Id \cup {None}, onWork : Work \cup {None}]
\* `onWork' is history: the work that number stood for when the block was set.
Out == [old : Id, to : Board, new : Id]
Move == [pc : {"checked", "holding", "copied", "ended"}, from : Board, id : Id, to : Board,
         packed : Row \cup {None}, new : Id \cup {None}]

\* NULL is no row and no command.
ASSUME NullAssumption == None \notin Row /\ None \notin Move

TypeOK ==
  /\ rows \in [Board -> [Id -> Row \cup {None}]]
  /\ made \in [Board -> 0..MaxId]
  /\ outs \in [Board -> SUBSET Out]
  /\ writer \in [Board -> Mover \cup {None}]
  /\ mv \in [Mover -> Move \cup {None}]
  /\ work \in [Board -> [Id -> Work \cup {None}]]
  /\ acked \in [Board -> [Id -> SUBSET Entry]]
  /\ removed \subseteq Place
  /\ spare \subseteq Place

Init ==
  /\ rows = [b \in Board |-> [i \in Id |-> None]]
  /\ made = [b \in Board |-> 0]
  /\ outs = [b \in Board |-> {}]
  /\ writer = [b \in Board |-> None]
  /\ mv = [m \in Mover |-> None]
  /\ work = [b \in Board |-> [i \in Id |-> None]]
  /\ acked = [b \in Board |-> [i \in Id |-> {}]]
  /\ removed = {}
  /\ spare = {}

Live(b, i) == rows[b][i] # None

\* BEGIN IMMEDIATE goes ahead: nobody is inside a write transaction of b.
FreeAlways(b) == TRUE
Free(b) == writer[b] = None

\* INSERT INTO cards: the table is AUTOINCREMENT, a number never comes back.
NewIdAfterLast(b) == 1 + CHOOSE n \in 0..MaxId :
  /\ n > 0 => Live(b, n)
  /\ \A i \in Id : Live(b, i) => i <= n
NewId(b) == made[b] + 1

HeldByOther(row, n) == row.col = "doing" /\ row.owner \notin {None, n}

-----------------------------------------------------------------------------
(* The other commands of a board, a transaction each                       *)

Add(b, w) ==
  /\ Free(b) /\ made[b] < MaxId /\ FiledOn[w] = b
  /\ \A c \in Board, i \in Id : work[c][i] # w
  /\ rows' = [rows EXCEPT ![b][NewId(b)] =
                [col |-> "todo", owner |-> None, events |-> {}, on |-> None, onWork |-> None]]
  /\ made' = [made EXCEPT ![b] = NewId(b)]
  /\ work' = [work EXCEPT ![b][NewId(b)] = w]
  /\ acked' = [acked EXCEPT ![b][NewId(b)] = {}]
  /\ UNCHANGED <<outs, writer, mv, removed, spare>>

\* A note, or any other event: its writer is told once it is committed.
Note(b, i, e) ==
  /\ Free(b) /\ Live(b, i)
  /\ rows' = [rows EXCEPT ![b][i].events = @ \cup {e}]
  /\ acked' = [acked EXCEPT ![b][i] = @ \cup {e}]
  /\ UNCHANGED <<made, outs, writer, mv, work, removed, spare>>

Take(b, i, n) ==
  /\ Free(b) /\ Live(b, i) /\ rows[b][i].col = "todo"
  /\ rows' = [rows EXCEPT ![b][i] = [@ EXCEPT !.col = "doing", !.owner = n]]
  /\ UNCHANGED <<made, outs, writer, mv, work, acked, removed, spare>>

PutBack(b, i) ==
  /\ Free(b) /\ Live(b, i) /\ rows[b][i].col = "doing"
  /\ rows' = [rows EXCEPT ![b][i] = [@ EXCEPT !.col = "todo", !.owner = None]]
  /\ UNCHANGED <<made, outs, writer, mv, work, acked, removed, spare>>

\* The card to wait for is read before the lock: it may have left the board since.
BlockOn(b, i, j) ==
  /\ Free(b) /\ Live(b, i) /\ work[b][j] # None /\ i # j
  /\ rows' = [rows EXCEPT ![b][i] = [@ EXCEPT !.on = j, !.onWork = work[b][j]]]
  /\ UNCHANGED <<made, outs, writer, mv, work, acked, removed, spare>>

Remove(b, i) ==
  /\ Free(b) /\ Live(b, i)
  /\ rows' = [rows EXCEPT ![b][i] = None]
  /\ removed' = removed \cup {<<b, i>>}
  /\ UNCHANGED <<made, outs, writer, mv, work, acked, spare>>

Command ==
  \E b \in Board :
    \/ \E w \in Work : Add(b, w)
    \/ \E i \in Id : \/ \E e \in Entry : Note(b, i, e)
                     \/ \E n \in Name : Take(b, i, n)
                     \/ \E j \in Id : BlockOn(b, i, j)
                     \/ PutBack(b, i)
                     \/ Remove(b, i)

-----------------------------------------------------------------------------
(* The move                                                                *)

\* What lands: in TODO, nobody's, with its history; a number of the old board
\* names nothing here.
ReceivedWhole(row) == [row EXCEPT !.col = "todo", !.owner = None]
ReceivedBare(row) == [row EXCEPT !.col = "todo", !.owner = None, !.on = None, !.onWork = None,
                                 !.events = {}]
Received(row) == [row EXCEPT !.col = "todo", !.owner = None, !.on = None, !.onWork = None]

Check(m, b, i, to) ==
  /\ mv[m] = None /\ to # b /\ Live(b, i)
  /\ HeldByOther(rows[b][i], NameOf[m]) => m \in Forcing
  /\ mv' = [mv EXCEPT ![m] = [pc |-> "checked", from |-> b, id |-> i, to |-> to,
                              packed |-> None, new |-> None]]
  /\ UNCHANGED <<rows, made, outs, writer, work, acked, removed, spare>>

At(m, pc) == mv[m] # None /\ mv[m].pc = pc

Hold(m) ==
  /\ At(m, "checked")
  /\ LET b == mv[m].from IN
     /\ Free(b) /\ Live(b, mv[m].id)
     /\ writer' = [writer EXCEPT ![b] = m]
     /\ mv' = [mv EXCEPT ![m].pc = "holding", ![m].packed = rows[b][mv[m].id]]
  /\ UNCHANGED <<rows, made, outs, work, acked, removed, spare>>

Receive(m) ==
  /\ At(m, "holding")
  /\ LET b == mv[m].from  i == mv[m].id  to == mv[m].to  new == NewId(to) IN
     /\ Free(to) /\ made[to] < MaxId
     /\ rows' = [rows EXCEPT ![to][new] = Received(mv[m].packed)]
     /\ made' = [made EXCEPT ![to] = new]
     /\ mv' = [mv EXCEPT ![m].pc = "copied", ![m].new = new]
     /\ work' = [work EXCEPT ![to][new] = work[b][i]]
     /\ acked' = [acked EXCEPT ![to][new] = acked[b][i]]
     /\ spare' = IF <<b, i>> \in spare THEN spare \cup {<<to, new>>} ELSE spare
  /\ UNCHANGED <<outs, writer, removed>>

Ended(m) == [mv EXCEPT ![m].pc = "ended", ![m].packed = None]

\* The locks of a process go with its transactions.
Released(m) == [b \in Board |-> IF writer[b] = m THEN None ELSE writer[b]]

Clear(m) ==
  /\ At(m, "copied")
  /\ LET b == mv[m].from  i == mv[m].id IN
     /\ rows' = [rows EXCEPT ![b][i] = None]
     /\ outs' = [outs EXCEPT ![b] = @ \cup {[old |-> i, to |-> mv[m].to, new |-> mv[m].new]}]
  /\ writer' = Released(m)
  /\ mv' = Ended(m)
  /\ UNCHANGED <<made, work, acked, removed, spare>>

\* Under its own lock the card is gone: `no card #N'.
Missing(m) == At(m, "checked") /\ Free(mv[m].from) /\ ~Live(mv[m].from, mv[m].id)

\* Ten seconds of waiting for a write lock somebody else holds.
BusyAtSource(m) == At(m, "checked") /\ ~Free(mv[m].from)
Busy(m) == BusyAtSource(m) \/ (At(m, "holding") /\ ~Free(mv[m].to))

\* The destination cannot take another card: SQLite has no number left.
Full(m) == At(m, "holding") /\ made[mv[m].to] = MaxId

\* The command ends before anything is written, and the source is rolled back.
Drop(m) ==
  /\ writer' = Released(m)
  /\ mv' = Ended(m)
  /\ UNCHANGED <<rows, made, outs, work, acked, removed, spare>>

Refuse(m) == (Missing(m) \/ Busy(m) \/ Full(m)) /\ Drop(m)

\* The actor is not on a board's list, an error, a kill: before the far commit.
Undone(m) == (At(m, "checked") \/ At(m, "holding")) /\ Drop(m)

\* A kill or a failed delete after it: the card is on both boards.
BreakOff(m) ==
  /\ At(m, "copied")
  /\ writer' = Released(m)
  /\ mv' = Ended(m)
  /\ spare' = spare \cup {<<mv[m].from, mv[m].id>>}
  /\ UNCHANGED <<rows, made, outs, work, acked, removed>>

Step(m) == Hold(m) \/ Receive(m) \/ Clear(m) \/ Refuse(m)

Start(m) == \E b, to \in Board, i \in Id : Check(m, b, i, to)

Next == Command \/ \E m \in Mover : Start(m) \/ Step(m) \/ Undone(m) \/ BreakOff(m)

Spec == Init /\ [][Next]_vars

\* A mover is a running process and SQLite's busy timeout fires: it takes its
\* next step or gives up.  Nothing is assumed of anyone else.
FairSpec == Spec /\ \A m \in Mover : WF_vars(Step(m))

-----------------------------------------------------------------------------
(* What a move promises                                                    *)

\* A card is never lost: every number a board handed out is a card there, or was
\* removed on purpose, or the board's log says which number of which board has it now.
Whereabouts ==
  \A b \in Board, i \in Id :
    work[b][i] # None =>
      \/ Live(b, i)
      \/ <<b, i>> \in removed
      \/ \E r \in outs[b] : r.old = i /\ r.new <= made[r.to] /\ work[r.to][r.new] = work[b][i]

Copying(b, i) == \E m \in Mover : At(m, "copied") /\ mv[m].from = b /\ mv[m].id = i

\* Two moves of one card never make a second copy: two boards show the same work
\* only while a move is between its two commits, or after one broke off there.
OneCopy ==
  \A b, c \in Board, i, j \in Id :
    /\ Live(b, i) /\ Live(c, j) /\ work[b][i] = work[c][j] /\ <<b, i>> # <<c, j>>
    => \/ <<b, i>> \in spare \/ <<c, j>> \in spare
       \/ Copying(b, i) \/ Copying(c, j)

\* An event whose writer was told it is kept is on the card, wherever the card went,
\* unless the card was removed on purpose: no note is thrown away by a move.
AckedKept ==
  \A b \in Board, i \in Id :
    work[b][i] # None =>
      \/ Live(b, i) /\ acked[b][i] \subseteq rows[b][i].events
      \/ <<b, i>> \in removed
      \/ \E r \in outs[b] : r.old = i /\ acked[b][i] \subseteq acked[r.to][r.new]

\* A block that names a card by number names the card it was set on, on every board.
BlockNamesItsCard ==
  \A b \in Board, i \in Id :
    Live(b, i) /\ rows[b][i].on # None => work[b][rows[b][i].on] = rows[b][i].onWork

\* Every move ends, also two opposite moves that hold each other's destination.
MovesEnd == \A m \in Mover : (mv[m] # None) ~> At(m, "ended")

\* README.md:832: a card somebody else is holding is not moved out from under them
\* without --force.  The holder is looked up before the source is held.
\* Does not hold: README, known disagreements.
HoldersKeepTheirCards ==
  [][\A m \in Mover : Clear(m) /\ HeldByOther(rows[mv[m].from][mv[m].id], NameOf[m])
                        => m \in Forcing]_vars
=============================================================================
