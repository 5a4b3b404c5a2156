---------------------------- MODULE BoardProofs ----------------------------
(***************************************************************************)
(* What holds of a board for every set of cards, names, processes and      *)
(* command lines and every setting, proved from the assumptions Board      *)
(* makes about its constants.                                              *)
(***************************************************************************)
EXTENDS Board, TLAPS

USE DEF Column, Actor, MaybeName, MaybeActor, Transitions, Stepped, Kinds

-----------------------------------------------------------------------------
(* What a command under way means: what Begin left in op, until it ends    *)

Meant(p, o) ==
  /\ o.ask \in Menu[p]
  /\ o.ask.kind \in Stepped
  /\ o.as = ActsAs(p, o.ask)
  /\ o.ask.kind \in {"next", "take", "assign"} => o.to = "doing"
  /\ o.ask.kind \in {"drop", "release"} => o.to = "todo"
  /\ o.ask.kind \in {"move", "sync"} => o.to = o.ask.to
  /\ o.ask.kind = "done" => o.to \in {"review", "done"}

CommandsMeant == \A p \in Proc : op[p] # None => Meant(p, op[p])

\* A command line, and a command under way, is what its type says.
LEMMA AskTyped ==
  ASSUME NEW p \in Proc, NEW a \in Menu[p]
  PROVE  a \in Ask
BY MenuAssumption

\* A row is not None, so neither is a command under way: records are told from NULL by type.
LEMMA Whoever ==
  ASSUME NEW p \in Proc
  PROVE  /\ Who[p] \in Identity
         /\ Who[p].name \in Name
         /\ Who[p].session # None => Who[p].session \in Session
BY WhoAssumption DEF Identity

\* Begin leaves a command that means what was asked.
LEMMA BeginMeans ==
  ASSUME TypeOK, CommandsMeant, NEW p \in Proc, Begin(p)
  PROVE  (op \in [Proc -> Command \cup {None}])' /\ CommandsMeant'
<1>1. PICK a \in Menu[p] :
        /\ a.kind \in Stepped
        /\ Accepted(p, a)
        /\ \E snap \in Snapshots(a) :
             op' = [op EXCEPT ![p] =
                     [ask |-> a, as |-> ActsAs(p, a), to |-> Goal(a), snap |-> snap,
                      probe |-> IF a.kind \in {"move", "done", "claim"} THEN "pending" ELSE "none",
                      seen |-> IF a.kind = "release" THEN card[a.card].owner ELSE None]]
  BY DEF Begin
<1>2. PICK snap \in Snapshots(a) :
        op' = [op EXCEPT ![p] =
                [ask |-> a, as |-> ActsAs(p, a), to |-> Goal(a), snap |-> snap,
                 probe |-> IF a.kind \in {"move", "done", "claim"} THEN "pending" ELSE "none",
                 seen |-> IF a.kind = "release" THEN card[a.card].owner ELSE None]]
  BY <1>1
<1>3. a \in Ask BY AskTyped
<1>4. snap \in Snapshot \cup {None}
  BY DEF Snapshots, Shown, Queue, In, OnBoard, TypeOK, CardRow, Snapshot
<1>5. ActsAs(p, a) \in Actor BY Whoever DEF ActsAs
<1>6. Goal(a) \in Column \cup {None}
  BY <1>3 DEF Goal, Ask
<1>7. (IF a.kind = "release" THEN card[a.card].owner ELSE None) \in MaybeName
  BY <1>1, MenuAssumption DEF TypeOK, CardRow
<1>8. op'[p] \in Command
  BY <1>2, <1>3, <1>4, <1>5, <1>6, <1>7 DEF TypeOK, Command
<1>9. Meant(p, op'[p])
  BY <1>1, <1>2, <1>3 DEF TypeOK, Meant, Goal, Ask
<1> QED
  BY <1>2, <1>8, <1>9 DEF TypeOK, CommandsMeant, Meant, ActsAs

\* The probe only answers about liveness: the command still means what was asked.
LEMMA ProbeMeans ==
  ASSUME TypeOK, CommandsMeant, NEW p \in Proc, Probe(p)
  PROVE  (op \in [Proc -> Command \cup {None}])' /\ CommandsMeant'
<1> DEFINE o == op[p]
           r == card[o.ask.card].reviewer
<1>1. o \in Command /\ o # None BY DEF Probe, TypeOK
<1>2. o.ask.card \in Card BY DEF Probe, OnBoard
<1>3. CASE Asks(o)
  <2>1. r \in MaybeName BY <1>2 DEF TypeOK, CardRow
  <2>2. op' = [op EXCEPT ![p].probe = IF alive[r] THEN "alive" ELSE "dead", ![p].seen = r]
    BY <1>3 DEF Probe
  <2>3. op'[p] = [o EXCEPT !.probe = IF alive[r] THEN "alive" ELSE "dead", !.seen = r]
    BY <2>2 DEF TypeOK
  <2>4. op'[p] \in Command BY <1>1, <2>1, <2>3 DEF Command
  <2>5. Meant(p, op'[p]) BY <1>1, <2>3 DEF CommandsMeant, Meant, Command
  <2> QED BY <2>2, <2>4, <2>5 DEF TypeOK, CommandsMeant, Meant
<1>4. CASE ~Asks(o)
  <2>2. op' = [op EXCEPT ![p].probe = "none"] BY <1>4 DEF Probe
  <2>3. op'[p] = [o EXCEPT !.probe = "none"] BY <2>2 DEF TypeOK
  <2>4. op'[p] \in Command BY <1>1, <2>3 DEF Command
  <2>5. Meant(p, op'[p]) BY <1>1, <2>3 DEF CommandsMeant, Meant, Command
  <2> QED BY <2>2, <2>4, <2>5 DEF TypeOK, CommandsMeant, Meant
<1> QED BY <1>3, <1>4

\* A command that ends, committed or aborted, leaves the others as they were.
LEMMA EndMeans ==
  ASSUME TypeOK, CommandsMeant, NEW p \in Proc, op' = [op EXCEPT ![p] = None]
  PROVE  (op \in [Proc -> Command \cup {None}])' /\ CommandsMeant'
BY DEF TypeOK, CommandsMeant, Meant, ActsAs

-----------------------------------------------------------------------------
(* What a change of column does to the card                                *)

\* The transaction changes a card of the board, to a column it was asked for, on behalf of
\* somebody; only GitHub's sync acts for no name, and it only ever moves to REVIEW.
LEMMA ChangeAsked ==
  ASSUME TypeOK, CommandsMeant, NEW p \in Proc, op[p] # None, NEW c \in Card, Change(p, c)
  PROVE  /\ op[p] \in Command
         /\ op[p].ask \in Ask
         /\ op[p].ask.kind \in Transitions
         /\ op[p].to \in Column
         /\ op[p].as \in Actor
         /\ op[p].to # "review" => op[p].as = Who[p].name
         /\ op[p].ask.kind = "assign" => op[p].ask.name \in Name
         /\ Takes(op[p]) => op[p].as = Who[p].name
<1> DEFINE o == op[p]
<1>1. o \in Command BY DEF TypeOK
<1>2. o.ask \in Menu[p] /\ o.ask \in Ask BY AskTyped DEF CommandsMeant, Meant
<1>3. o.ask.kind \in Transitions BY DEF Change
<1>4. o.ask.kind \in {"move", "sync"} => o.to \in Column
  BY <1>2, MenuAssumption DEF CommandsMeant, Meant
<1>5. o.to \in Column BY <1>3, <1>4 DEF CommandsMeant, Meant
<1>6. o.ask.kind = "sync" => o.to = "review"
  BY <1>2, MenuAssumption DEF CommandsMeant, Meant
<1>7. o.ask.kind = "assign" => o.ask.name \in Name BY <1>2, MenuAssumption
<1>8. o.as \in Actor BY <1>1 DEF Command
<1>9. o.ask.kind # "sync" => o.as = Who[p].name BY DEF CommandsMeant, Meant, ActsAs
<1> QED BY <1>1, <1>2, <1>3, <1>5, <1>6, <1>7, <1>8, <1>9 DEF Takes

\* The card found is on the board, not yet in that column; a card that is taken or given
\* out is in TODO.
LEMMA ChangeFound ==
  ASSUME NEW p \in Proc, NEW c \in Card, Change(p, c)
  PROVE  /\ shelf[c] = "board"
         /\ op[p].to # card[c].col
         /\ Takes(op[p]) \/ op[p].ask.kind = "assign" => card[c].col = "todo"
BY DEF Change, Resolved, Queue, In, OnBoard, Takes

\* The owner a change leaves: nobody in TODO, somebody in DOING, and no holder is replaced.
LEMMA NewOwnerIs ==
  ASSUME TypeOK, CommandsMeant, OwnedByColumn,
         NEW p \in Proc, op[p] # None, NEW c \in Card, Change(p, c)
  PROVE  /\ NewOwner(op[p], c) \in MaybeName
         /\ op[p].to = "todo" => NewOwner(op[p], c) = None
         /\ op[p].to = "doing" => NewOwner(op[p], c) # None
         /\ op[p].to # "todo" /\ card[c].owner # None => NewOwner(op[p], c) = card[c].owner
         /\ op[p].to \in {"review", "done"} => NewOwner(op[p], c) = card[c].owner
<1> DEFINE o == op[p]
<1>1. card[c].owner \in MaybeName BY DEF TypeOK, CardRow
<1>2. card[c].col = "todo" => card[c].owner = None BY DEF OwnedByColumn
<1>3. Who[p].name \in Name BY Whoever
<1>4. CASE o.ask.kind = "assign" \/ Takes(o)
  <2>1. NewOwner(o, c) \in Name
    BY <1>3, <1>4, ChangeAsked DEF NewOwner
  <2>2. o.to = "doing" BY <1>4 DEF CommandsMeant, Meant, Takes
  <2>3. card[c].owner = None BY <1>2, <1>4, ChangeFound
  <2> QED BY <2>1, <2>2, <2>3, NamesAssumption
<1>5. CASE o.ask.kind # "assign" /\ ~Takes(o) /\ o.to = "doing" /\ card[c].owner = None
  <2>1. o.as \in Name BY <1>3, <1>5, ChangeAsked
  <2> QED BY <1>5, <2>1, NamesAssumption DEF NewOwner
<1>6. CASE o.ask.kind # "assign" /\ ~Takes(o) /\ ~(o.to = "doing" /\ card[c].owner = None)
  BY <1>1, <1>6 DEF NewOwner
<1> QED BY <1>4, <1>5, <1>6

\* The row a change writes is a row of table cards.
LEMMA LandedTyped ==
  ASSUME TypeOK, CommandsMeant, OwnedByColumn,
         NEW p \in Proc, op[p] # None, NEW c \in Card, Change(p, c)
  PROVE  Landed(op[p], c) \in CardRow
<1>1. card[c] \in CardRow BY DEF TypeOK
<1>2. op[p].to \in Column BY ChangeAsked
<1>3. NewOwner(op[p], c) \in MaybeName BY NewOwnerIs
<1> QED BY <1>1, <1>2, <1>3 DEF Landed, CardRow

\* What the rules read back from the log after a change is what they may read.
LEMMA LoggedTyped ==
  ASSUME TypeOK, CommandsMeant, OwnedByColumn,
         NEW p \in Proc, op[p] # None, NEW c \in Card, Change(p, c)
  PROVE  Logged(p, op[p], c) \in Past
<1> DEFINE o == op[p]
<1>1. past[c] \in Past BY DEF TypeOK
<1>2. NewOwner(o, c) \in MaybeName BY NewOwnerIs
<1>3. o.as \in Actor BY ChangeAsked
<1>4. {Who[p].session} \ {None} \in SUBSET Session BY Whoever
<1>5. (SendBack(o, c) \/ FailToTodo(o, c)) /\ o.ask.why => past[c].returns + 1 \in 0..MaxReturns
  <2>1. past[c].returns \in 0..MaxReturns BY <1>1 DEF Past
  <2>2. (SendBack(o, c) \/ FailToTodo(o, c)) /\ o.ask.why => past[c].returns < MaxReturns
    BY DEF Change
  <2> QED BY <2>1, <2>2, BoundsAssumption
<1>6. Noted(o, c) \in BOOLEAN BY <1>1 DEF Noted, Past
<1>7. past[c].returns + 0 = past[c].returns BY <1>1 DEF Past
<1> QED
  BY <1>1, <1>2, <1>3, <1>4, <1>5, <1>6, <1>7 DEF Logged, Past

\* The history of a change is typed.
LEMMA StayedTyped ==
  ASSUME TypeOK, CommandsMeant, OwnedByColumn,
         NEW p \in Proc, op[p] # None, NEW c \in Card, Change(p, c)
  PROVE  Stayed(op[p], c) \in Stay
<1>1. stay[c] \in Stay BY DEF TypeOK
<1>2. NewOwner(op[p], c) \in MaybeName BY NewOwnerIs
<1>3. Entered(op[p], c) \in {"given", "taken", "back", "reopened", "moved"} BY DEF Entered
<1> QED BY <1>1, <1>2, <1>3 DEF Stayed, Stay

\* The other cards: only a block that waited for the finished card goes.
Spared(d) == [card[d] EXCEPT !.blocked = FALSE, !.on = None]

\* Lifting a block leaves a row its column, owner and reviewer.
LEMMA SparedIs ==
  ASSUME TypeOK, NEW d \in Card
  PROVE  /\ Spared(d) \in CardRow
         /\ Spared(d).col = card[d].col
         /\ Spared(d).owner = card[d].owner
         /\ Spared(d).reviewer = card[d].reviewer
         /\ Spared(d).on = None
BY DEF TypeOK, CardRow, Spared

\* What a change of column leaves of every card.
LEMMA ChangeEffect ==
  ASSUME TypeOK, CommandsMeant, OwnedByColumn,
         NEW p \in Proc, op[p] # None, NEW c \in Card, Change(p, c)
  PROVE  /\ card' \in [Card -> CardRow]
         /\ past' = [past EXCEPT ![c] = Logged(p, op[p], c)]
         /\ past' \in [Card -> Past]
         /\ stay' = [stay EXCEPT ![c] = Stayed(op[p], c)]
         /\ stay' \in [Card -> Stay]
         /\ card'[c] = Landed(op[p], c)
         /\ \A d \in Card \ {c} : /\ card'[d].col = card[d].col
                                  /\ card'[d].owner = card[d].owner
                                  /\ card'[d].reviewer = card[d].reviewer
                                  /\ card'[d].on \in {card[d].on, None}
                                  /\ Lifted(op[p], c, d) => card'[d].on = None
<1> DEFINE o == op[p]
<1>1. card' = [d \in Card |-> IF d = c THEN Landed(o, c)
                              ELSE IF Lifted(o, c, d) THEN Spared(d) ELSE card[d]]
  BY DEF Change, Spared
<1>2. Landed(o, c) \in CardRow BY LandedTyped
<1>3. \A d \in Card : card[d] \in CardRow BY DEF TypeOK
<1>4. card' \in [Card -> CardRow] BY <1>1, <1>2, <1>3, SparedIs
<1>5. past' = [past EXCEPT ![c] = Logged(p, o, c)] BY DEF Change
<1>6. past' \in [Card -> Past] BY <1>5, LoggedTyped DEF TypeOK
<1>7. stay' = [stay EXCEPT ![c] = Stayed(o, c)] BY DEF Change
<1>8. stay' \in [Card -> Stay] BY <1>7, StayedTyped DEF TypeOK
<1>9. ASSUME NEW d \in Card \ {c}
      PROVE  /\ card'[d].col = card[d].col
             /\ card'[d].owner = card[d].owner
             /\ card'[d].reviewer = card[d].reviewer
             /\ card'[d].on \in {card[d].on, None}
             /\ Lifted(o, c, d) => card'[d].on = None
  <2>1. card'[d] = IF Lifted(o, c, d) THEN Spared(d) ELSE card[d] BY <1>1
  <2> QED BY <2>1, SparedIs
<1> QED BY <1>1, <1>4, <1>5, <1>6, <1>7, <1>8, <1>9

\* One field of one row: claims and blocks.
LEMMA ReviewerSet ==
  ASSUME TypeOK, NEW c \in Card, NEW r \in MaybeName, card' = [card EXCEPT ![c].reviewer = r]
  PROVE  /\ card' \in [Card -> CardRow]
         /\ \A d \in Card : /\ card'[d].col = card[d].col
                            /\ card'[d].owner = card[d].owner
                            /\ card'[d].on = card[d].on
         /\ card'[c].reviewer = r
         /\ \A d \in Card \ {c} : card'[d].reviewer = card[d].reviewer
BY DEF TypeOK, CardRow

\* A note or a link sets one mark of one card's log and keeps the rest.
LEMMA Marked ==
  ASSUME TypeOK, NEW c \in Card, NEW b \in BOOLEAN
  PROVE  /\ [past[c] EXCEPT !.noted = b] \in Past
         /\ [past[c] EXCEPT !.linked = b] \in Past
         /\ [stay[c] EXCEPT !.fresh = b] \in Stay
<1>1. past[c] \in Past /\ stay[c] \in Stay BY DEF TypeOK
<1>2. [past[c] EXCEPT !.noted = b] \in Past BY <1>1 DEF Past
<1>3. [past[c] EXCEPT !.linked = b] \in Past BY <1>1 DEF Past
<1>4. [stay[c] EXCEPT !.fresh = b] \in Stay BY <1>1 DEF Stay
<1> QED BY <1>2, <1>3, <1>4

\* The UPDATE of block_opts writes the two block fields of one row and nothing else.
LEMMA BlockSet ==
  ASSUME TypeOK, NEW c \in Card, NEW b \in BOOLEAN, NEW e \in Card \cup {None},
         card' = [card EXCEPT ![c].blocked = b, ![c].on = e]
  PROVE  /\ card' \in [Card -> CardRow]
         /\ \A d \in Card : /\ card'[d].col = card[d].col
                            /\ card'[d].owner = card[d].owner
                            /\ card'[d].reviewer = card[d].reviewer
         /\ card'[c].on = e
         /\ \A d \in Card \ {c} : card'[d].on = card[d].on
<1> DEFINE new == [card[c] EXCEPT !.blocked = b, !.on = e]
<1>1. card \in [Card -> CardRow] BY DEF TypeOK
<1>2. card[c] \in CardRow BY <1>1
<1>3. new \in CardRow BY <1>2 DEF CardRow
<1>4. /\ new.col = card[c].col /\ new.owner = card[c].owner
      /\ new.reviewer = card[c].reviewer /\ new.on = e
  BY <1>2 DEF CardRow
<1>5. card' = [card EXCEPT ![c] = new] OBVIOUS
<1>6. card'[c] = new /\ \A d \in Card \ {c} : card'[d] = card[d] BY <1>1, <1>5
<1> HIDE DEF new
<1>7. card' \in [Card -> CardRow] BY <1>1, <1>3, <1>5
<1> QED BY <1>4, <1>6, <1>7

-----------------------------------------------------------------------------
(* Types                                                                   *)

\* The three changes of one field that end a command.
LEMMA UnclaimEffect ==
  ASSUME TypeOK, NEW p \in Proc, NEW c \in Card, Unclaim(p, c)
  PROVE  /\ card[c].col = "review"
         /\ card' = [card EXCEPT ![c].reviewer = None]
         /\ UNCHANGED <<past, stay>>
BY DEF Unclaim

\* claim_review writes a name that is not the author's, on a card under review.
LEMMA ClaimEffect ==
  ASSUME TypeOK, CommandsMeant, NEW p \in Proc, op[p] # None, NEW c \in Card, TakeClaim(p, c)
  PROVE  /\ card[c].col = "review"
         /\ Author(c) # op[p].as
         /\ op[p].as \in Name
         /\ card' = [card EXCEPT ![c].reviewer = op[p].as]
         /\ UNCHANGED <<past, stay>>
BY Whoever DEF TakeClaim, CommandsMeant, Meant, ActsAs

\* block_opts blocks or frees one card, and never makes it wait for itself.
LEMMA BlockEffect ==
  ASSUME TypeOK, CommandsMeant, NEW p \in Proc, op[p] # None, NEW c \in Card, SetBlock(p, c)
  PROVE  \E b \in BOOLEAN, e \in (Card \cup {None}) \ {c} :
           /\ card' = [card EXCEPT ![c].blocked = b, ![c].on = e]
           /\ UNCHANGED <<past, stay>>
<1> DEFINE a == op[p].ask
           b == a.kind = "block"
           e == IF a.kind = "block" THEN a.on ELSE None
<1>1. a \in Menu[p] /\ a \in Ask BY AskTyped DEF CommandsMeant, Meant
<1>2. a.on \in Card \cup {None} BY <1>1 DEF Ask
<1>3. c = a.card BY DEF SetBlock, Resolved
<1>4. a.on # None => a.on # a.card BY <1>1, MenuAssumption
<1>5. e \in (Card \cup {None}) \ {c} BY <1>2, <1>3, <1>4, ValuesAssumption
<1>6. b \in BOOLEAN OBVIOUS
<1>7. card' = [card EXCEPT ![c].blocked = b, ![c].on = e] /\ UNCHANGED <<past, stay>>
  BY DEF SetBlock
<1> QED BY <1>5, <1>6, <1>7

\* Every step of every process keeps the types and the meaning of commands.
LEMMA TypeStep ==
  ASSUME TypeOK, CommandsMeant, OwnedByColumn, [Next]_vars
  PROVE  TypeOK' /\ CommandsMeant'
<1>1. ASSUME NEW p \in Proc, Begin(p) PROVE TypeOK' /\ CommandsMeant'
  BY <1>1, BeginMeans DEF Begin, TypeOK
<1>2. ASSUME NEW p \in Proc, Probe(p) PROVE TypeOK' /\ CommandsMeant'
  BY <1>2, ProbeMeans DEF Probe, TypeOK
<1>3. ASSUME NEW p \in Proc, Finish(p) PROVE TypeOK' /\ CommandsMeant'
  <2>1. op[p] # None /\ op' = [op EXCEPT ![p] = None] /\ UNCHANGED <<shelf, alive>>
    BY <1>3 DEF Finish
  <2>2. PICK c \in Card : Change(p, c) \/ Unclaim(p, c) \/ TakeClaim(p, c) \/ SetBlock(p, c)
    BY <1>3 DEF Finish
  <2>3. card' \in [Card -> CardRow] /\ past' \in [Card -> Past] /\ stay' \in [Card -> Stay]
    <3>1. CASE Change(p, c) BY <2>1, <3>1, ChangeEffect
    <3>2. CASE Unclaim(p, c) BY <3>2, UnclaimEffect, ReviewerSet DEF TypeOK
    <3>3. CASE TakeClaim(p, c) BY <2>1, <3>3, ClaimEffect, ReviewerSet DEF TypeOK
    <3>4. CASE SetBlock(p, c) BY <2>1, <3>4, BlockEffect, BlockSet DEF TypeOK
    <3> QED BY <2>2, <3>1, <3>2, <3>3, <3>4
  <2> QED BY <2>1, <2>3, EndMeans DEF TypeOK
<1>4. ASSUME NEW p \in Proc, Abort(p) PROVE TypeOK' /\ CommandsMeant'
  BY <1>4, EndMeans DEF Abort, TypeOK
<1>5. ASSUME NEW p \in Proc, NEW c \in Card, NextReview(p, c) PROVE TypeOK' /\ CommandsMeant'
  <2>1. Who[p].name \in MaybeName BY Whoever
  <2>2. card' \in [Card -> CardRow] BY <1>5, <2>1, ReviewerSet DEF NextReview
  <2>3. UNCHANGED <<shelf, past, stay, alive, op>> BY <1>5 DEF NextReview
  <2>4. TypeOK' BY <2>2, <2>3 DEF TypeOK
  <2>5. CommandsMeant' BY <2>3 DEF CommandsMeant, Meant, ActsAs
  <2> QED BY <2>4, <2>5
<1>6. ASSUME NEW p \in Proc, NEW c \in Card, Note(p, c) PROVE TypeOK' /\ CommandsMeant'
  <2>1. /\ past' = [past EXCEPT ![c] = [past[c] EXCEPT !.noted = TRUE]]
        /\ stay' = [stay EXCEPT ![c] = [stay[c] EXCEPT !.fresh = TRUE]]
    BY <1>6 DEF Note
  <2>2. past' \in [Card -> Past] BY <2>1, Marked DEF TypeOK
  <2>3. stay' \in [Card -> Stay] BY <2>1, Marked DEF TypeOK
  <2>4. UNCHANGED <<shelf, card, alive, op>> BY <1>6 DEF Note
  <2>5. TypeOK' BY <2>2, <2>3, <2>4 DEF TypeOK
  <2>6. CommandsMeant' BY <2>4 DEF CommandsMeant, Meant, ActsAs
  <2> QED BY <2>5, <2>6
<1>7. ASSUME NEW p \in Proc, NEW c \in Card, Link(p, c) PROVE TypeOK' /\ CommandsMeant'
  <2>1. PICK b \in BOOLEAN : past' = [past EXCEPT ![c] = [past[c] EXCEPT !.linked = b]]
    BY <1>7 DEF Link
  <2>2. past' \in [Card -> Past] BY <2>1, Marked DEF TypeOK
  <2>3. UNCHANGED <<shelf, card, stay, alive, op>> BY <1>7 DEF Link
  <2>4. TypeOK' BY <2>2, <2>3 DEF TypeOK
  <2>5. CommandsMeant' BY <2>3 DEF CommandsMeant, Meant, ActsAs
  <2> QED BY <2>4, <2>5
<1>8. ASSUME NEW p \in Proc, NEW c \in Card, Remove(p, c) PROVE TypeOK' /\ CommandsMeant'
  <2>1. NewRow \in CardRow BY DEF NewRow, CardRow
  <2>2. NewPast \in Past BY BoundsAssumption DEF NewPast, Past
  <2>3. NewStay \in Stay BY DEF NewStay, Stay
  <2>4. CommandsMeant' BY <1>8 DEF Remove, CommandsMeant, Meant, ActsAs
  <2> QED BY <1>8, <2>1, <2>2, <2>3, <2>4 DEF Remove, TypeOK
<1>9. ASSUME NEW p \in Proc, NEW c \in Card, Restore(p, c) PROVE TypeOK' /\ CommandsMeant'
  <2>1. stay' \in [Card -> Stay] BY <1>9 DEF Restore, TypeOK, Stay
  <2>2. CommandsMeant' BY <1>9 DEF Restore, CommandsMeant, Meant, ActsAs
  <2> QED BY <1>9, <2>1, <2>2 DEF Restore, TypeOK
<1>10. ASSUME NEW p \in Proc, NEW c \in Card, Add(p, c) PROVE TypeOK' /\ CommandsMeant'
  BY <1>10 DEF Add, TypeOK, CommandsMeant, Meant, ActsAs
<1>11. ASSUME NEW n \in Name, Die(n) \/ Relaunch(n) PROVE TypeOK' /\ CommandsMeant'
  BY <1>11 DEF Die, Relaunch, TypeOK, CommandsMeant, Meant, ActsAs
<1>12. CASE UNCHANGED vars
  BY <1>12 DEF vars, TypeOK, CommandsMeant, Meant, ActsAs
<1> QED
  BY <1>1, <1>2, <1>3, <1>4, <1>5, <1>6, <1>7, <1>8, <1>9, <1>10, <1>11, <1>12 DEF Next, Step

-----------------------------------------------------------------------------
(* What one step can do to one card                                        *)

RowKept(c) ==
  /\ card'[c].col = card[c].col
  /\ card'[c].owner = card[c].owner
  /\ card'[c].reviewer = card[c].reviewer
  /\ card'[c].on \in {card[c].on, None}

\* A claim on work under review goes, or comes to somebody who did not do the work.
Reclaimed(c) ==
  /\ card[c].col = "review" /\ card'[c].col = "review"
  /\ card'[c].owner = card[c].owner
  /\ card'[c].reviewer # None => card'[c].reviewer # Author(c)
  /\ card'[c].on = card[c].on

\* tb block writes the row it found, with another block.
Reblocked(c) ==
  /\ card'[c].col = card[c].col
  /\ card'[c].owner = card[c].owner
  /\ card'[c].reviewer = card[c].reviewer
  /\ card'[c].on # c

\* Nothing the rules read back changes, but for a note or a link.
LogKept(c) ==
  /\ past'[c].holder = past[c].holder
  /\ past'[c].mover = past[c].mover
  /\ past'[c].worker = past[c].worker
  /\ stay'[c].doer = stay[c].doer
  /\ stay'[c].via \in {stay[c].via, "restored"}
  /\ \/ past'[c].noted = past[c].noted /\ stay'[c].fresh = stay[c].fresh
     \/ stay'[c].fresh

Wiped(c) == card'[c] = NewRow /\ past'[c] = NewPast /\ stay'[c] = NewStay

Changed(c) == \E p \in Proc : op[p] # None /\ op'[p] = None /\ Change(p, c)

\* A card a step leaves alone keeps its row and its log.
LEMMA Untouched ==
  ASSUME NEW c \in Card, card'[c] = card[c], past'[c] = past[c], stay'[c] = stay[c]
  PROVE  RowKept(c) /\ LogKept(c)
BY DEF RowKept, LogKept

\* What the commit of a command does to any one card.
LEMMA FinishOnCard ==
  ASSUME TypeOK, CommandsMeant, OwnedByColumn, NEW p \in Proc, Finish(p), NEW c \in Card
  PROVE  \/ Changed(c)
         \/ (RowKept(c) \/ Reclaimed(c) \/ Reblocked(c)) /\ LogKept(c)
<1>1. op[p] # None /\ op'[p] = None BY DEF Finish, TypeOK
<1>2. PICK d \in Card : Change(p, d) \/ Unclaim(p, d) \/ TakeClaim(p, d) \/ SetBlock(p, d)
  BY DEF Finish
<1>3. CASE Change(p, d) /\ d = c BY <1>1, <1>3 DEF Changed
<1>4. CASE Change(p, d) /\ d # c
  <2>1. past'[c] = past[c] /\ stay'[c] = stay[c] BY <1>1, <1>4, ChangeEffect DEF TypeOK
  <2>2. RowKept(c) BY <1>1, <1>4, ChangeEffect DEF RowKept
  <2> QED BY <2>1, <2>2 DEF LogKept
<1>5. CASE Unclaim(p, d)
  <2>1. LogKept(c) BY <1>5, UnclaimEffect DEF LogKept
  <2>2. RowKept(c) \/ Reclaimed(c)
    BY <1>5, UnclaimEffect, ReviewerSet DEF RowKept, Reclaimed
  <2> QED BY <2>1, <2>2
<1>6. CASE TakeClaim(p, d)
  <2>1. LogKept(c) BY <1>1, <1>6, ClaimEffect DEF LogKept
  <2>2. op[p].as \in MaybeName /\ card[d].col = "review" /\ Author(d) # op[p].as
    BY <1>1, <1>6, ClaimEffect
  <2>3. card' = [card EXCEPT ![d].reviewer = op[p].as] BY <1>1, <1>6, ClaimEffect
  <2>4. RowKept(c) \/ Reclaimed(c)
    BY <2>2, <2>3, ReviewerSet DEF RowKept, Reclaimed
  <2> QED BY <2>1, <2>4
<1>7. CASE SetBlock(p, d)
  <2>1. PICK b \in BOOLEAN, e \in (Card \cup {None}) \ {d} :
          card' = [card EXCEPT ![d].blocked = b, ![d].on = e] /\ UNCHANGED <<past, stay>>
    BY <1>1, <1>7, BlockEffect
  <2>2. LogKept(c) BY <2>1 DEF LogKept
  <2>3. /\ card'[c].col = card[c].col
        /\ card'[c].owner = card[c].owner
        /\ card'[c].reviewer = card[c].reviewer
        /\ card'[d].on = e
        /\ c # d => card'[c].on = card[c].on
    <3>1. e \in Card \cup {None} /\ card' = [card EXCEPT ![d].blocked = b, ![d].on = e] BY <2>1
    <3> QED BY <3>1, BlockSet
  <2>4. CASE c = d BY <2>1, <2>2, <2>3, <2>4 DEF Reblocked
  <2>5. CASE c # d BY <2>2, <2>3, <2>5 DEF RowKept
  <2> QED BY <2>4, <2>5
<1> QED BY <1>2, <1>3, <1>4, <1>5, <1>6, <1>7

\* Every step leaves every card in one of these ways.
LEMMA CardStep ==
  ASSUME TypeOK, CommandsMeant, OwnedByColumn, [Next]_vars, NEW c \in Card
  PROVE  \/ Changed(c)
         \/ (RowKept(c) \/ Reclaimed(c) \/ Reblocked(c)) /\ LogKept(c)
         \/ Wiped(c)
<1> DEFINE Goal1 == \/ Changed(c)
                    \/ (RowKept(c) \/ Reclaimed(c) \/ Reblocked(c)) /\ LogKept(c)
                    \/ Wiped(c)
<1>1. ASSUME UNCHANGED <<card, past, stay>> PROVE Goal1 BY <1>1, Untouched
<1>2. ASSUME NEW p \in Proc, Finish(p) PROVE Goal1 BY <1>2, FinishOnCard
<1>3. ASSUME NEW p \in Proc, NEW d \in Card, NextReview(p, d) PROVE Goal1
  <2>1. Who[p].name \in MaybeName BY Whoever
  <2>2. card[d].col = "review" /\ Author(d) # Who[p].name BY <1>3 DEF NextReview, Waiting, In
  <2>3. card' = [card EXCEPT ![d].reviewer = Who[p].name] BY <1>3 DEF NextReview
  <2>4. RowKept(c) \/ Reclaimed(c) BY <2>1, <2>2, <2>3, ReviewerSet DEF RowKept, Reclaimed
  <2>5. LogKept(c) BY <1>3 DEF NextReview, LogKept
  <2> QED BY <2>4, <2>5
<1>4. ASSUME NEW p \in Proc, NEW d \in Card, Note(p, d) PROVE Goal1
  <2>1. RowKept(c) BY <1>4 DEF Note, RowKept
  <2>2. past' = [past EXCEPT ![d].noted = TRUE] /\ stay' = [stay EXCEPT ![d].fresh = TRUE]
    BY <1>4 DEF Note
  <2>3. past \in [Card -> Past] /\ stay \in [Card -> Stay] BY DEF TypeOK
  <2>4. past[c] \in Past /\ stay[c] \in Stay BY <2>3
  <2>5. CASE c = d
    <3>1. /\ past'[c] = [past[c] EXCEPT !.noted = TRUE]
          /\ stay'[c] = [stay[c] EXCEPT !.fresh = TRUE]
      BY <2>2, <2>3, <2>5
    <3>2. LogKept(c) BY <3>1, <2>4 DEF LogKept, Past, Stay
    <3> QED BY <2>1, <3>2
  <2>6. CASE c # d
    <3>1. past'[c] = past[c] /\ stay'[c] = stay[c] BY <2>2, <2>3, <2>6
    <3>2. LogKept(c) BY <3>1 DEF LogKept
    <3> QED BY <2>1, <3>2
  <2> QED BY <2>1, <2>5, <2>6
<1>5. ASSUME NEW p \in Proc, NEW d \in Card, Link(p, d) PROVE Goal1
  <2>1. RowKept(c) BY <1>5 DEF Link, RowKept
  <2>2. PICK b \in BOOLEAN : past' = [past EXCEPT ![d].linked = b] BY <1>5 DEF Link
  <2>3. LogKept(c) BY <1>5, <2>2 DEF Link, LogKept, TypeOK, Past
  <2> QED BY <2>1, <2>3
<1>6. ASSUME NEW p \in Proc, NEW d \in Card, Remove(p, d) PROVE Goal1
  <2>1. \/ UNCHANGED <<card, past, stay>>
        \/ /\ card' = [card EXCEPT ![d] = NewRow]
           /\ past' = [past EXCEPT ![d] = NewPast]
           /\ stay' = [stay EXCEPT ![d] = NewStay]
    BY <1>6 DEF Remove
  <2>2. CASE UNCHANGED <<card, past, stay>> BY <2>2, <1>1
  <2>3. CASE /\ card' = [card EXCEPT ![d] = NewRow]
             /\ past' = [past EXCEPT ![d] = NewPast]
             /\ stay' = [stay EXCEPT ![d] = NewStay]
    <3>1. CASE d = c BY <2>3, <3>1 DEF TypeOK, Wiped
    <3>2. CASE d # c BY <2>3, <3>2, Untouched DEF TypeOK
    <3> QED BY <3>1, <3>2
  <2> QED BY <2>1, <2>2, <2>3
<1>7. ASSUME NEW p \in Proc, NEW d \in Card, Restore(p, d) PROVE Goal1
  <2>1. RowKept(c) BY <1>7 DEF Restore, RowKept
  <2>2. past'[c] = past[c] BY <1>7 DEF Restore
  <2>3. stay' = stay \/ stay' = [stay EXCEPT ![d].via = "restored"] BY <1>7 DEF Restore
  <2>4. LogKept(c) BY <2>2, <2>3 DEF LogKept, TypeOK, Stay
  <2> QED BY <2>1, <2>4
<1>8. ASSUME NEW p \in Proc, Begin(p) \/ Probe(p) \/ Abort(p) PROVE Goal1
  BY <1>1, <1>8 DEF Begin, Probe, Abort
<1>9. ASSUME NEW p \in Proc, NEW d \in Card, Add(p, d) PROVE Goal1 BY <1>1, <1>9 DEF Add
<1>10. ASSUME NEW n \in Name, Die(n) \/ Relaunch(n) PROVE Goal1 BY <1>1, <1>10 DEF Die, Relaunch
<1>11. CASE UNCHANGED vars BY <1>1, <1>11 DEF vars
<1> QED
  BY <1>2, <1>3, <1>4, <1>5, <1>6, <1>7, <1>8, <1>9, <1>10, <1>11 DEF Next, Step

-----------------------------------------------------------------------------
(* The inductive invariant                                                 *)

\* A card never waits for itself.
NeverOnSelf == \A c \in Card : card[c].on # c

\* Who took the card, or was given it, is who the log says held it last.
HolderLogged ==
  \A c \in Card : stay[c].via \in {"taken", "given"} => past[c].holder = stay[c].doer

\* A note the board counts, on a card under review, was written there.
NotesFresh == \A c \in Card : card[c].col = "review" /\ past[c].noted => stay[c].fresh

IInv == /\ TypeOK /\ CommandsMeant /\ OwnedByColumn
        /\ NoSelfClaim /\ NeverOnSelf /\ HolderLogged /\ NotesFresh

\* An empty board satisfies the inductive invariant.
LEMMA InitIInv == Init => IInv
<1> SUFFICES ASSUME Init PROVE IInv OBVIOUS
<1>1. NewRow \in CardRow BY DEF NewRow, CardRow
<1>2. NewPast \in Past BY BoundsAssumption DEF NewPast, Past
<1>3. NewStay \in Stay BY DEF NewStay, Stay
<1>4. TypeOK BY <1>1, <1>2, <1>3 DEF Init, TypeOK
<1>5. CommandsMeant BY DEF Init, CommandsMeant
<1>6. OwnedByColumn /\ NoSelfClaim BY DEF Init, OwnedByColumn, NoSelfClaim, NewRow
<1>7. NeverOnSelf BY ValuesAssumption DEF Init, NeverOnSelf, NewRow
<1>8. HolderLogged /\ NotesFresh BY DEF Init, HolderLogged, NotesFresh, NewRow, NewStay
<1> QED BY <1>4, <1>5, <1>6, <1>7, <1>8 DEF IInv

\* No step breaks the agreement of owner and column.
LEMMA OwnedStep ==
  ASSUME IInv, [Next]_vars
  PROVE  OwnedByColumn'
<1> USE DEF IInv
<1> SUFFICES ASSUME NEW c \in Card
             PROVE  /\ card'[c].col = "todo" => card'[c].owner = None
                    /\ card'[c].col = "doing" => card'[c].owner # None
                    /\ card'[c].reviewer # None => card'[c].col \in {"review", "done"}
  BY DEF OwnedByColumn
<1>1. CASE Changed(c)
  <2>1. PICK p \in Proc : op[p] # None /\ Change(p, c) BY <1>1 DEF Changed
  <2>2. card'[c] = Landed(op[p], c) BY <2>1, ChangeEffect
  <2>3. op[p].to \in Column BY <2>1, ChangeAsked
  <2> QED BY <2>1, <2>2, <2>3, NewOwnerIs DEF Landed
<1>2. CASE RowKept(c) \/ Reblocked(c)
  BY <1>2 DEF RowKept, Reblocked, OwnedByColumn
<1>3. CASE Reclaimed(c) BY <1>3 DEF Reclaimed
<1>4. CASE Wiped(c) BY <1>4 DEF Wiped, NewRow
<1> QED BY <1>1, <1>2, <1>3, <1>4, CardStep

\* No step leaves a claim with the author of the work under review.
LEMMA ClaimStep ==
  ASSUME IInv, [Next]_vars
  PROVE  NoSelfClaim'
<1> USE DEF IInv
<1> SUFFICES ASSUME NEW c \in Card, card'[c].col = "review", card'[c].reviewer # None
             PROVE  card'[c].reviewer # Author(c)'
  BY DEF NoSelfClaim
<1>1. CASE Changed(c)
  <2>1. PICK p \in Proc : op[p] # None /\ Change(p, c) BY <1>1 DEF Changed
  <2>2. card'[c] = Landed(op[p], c) BY <2>1, ChangeEffect
  <2> QED BY <2>2 DEF Landed
<1>2. CASE (RowKept(c) \/ Reblocked(c)) /\ LogKept(c)
  <2>1. Author(c)' = Author(c) BY <1>2 DEF RowKept, Reblocked, LogKept, Author
  <2> QED BY <1>2, <2>1 DEF RowKept, Reblocked, NoSelfClaim
<1>3. CASE Reclaimed(c) /\ LogKept(c)
  <2>1. Author(c)' = Author(c) BY <1>3 DEF Reclaimed, LogKept, Author
  <2> QED BY <1>3, <2>1 DEF Reclaimed
<1>4. CASE Wiped(c) BY <1>4 DEF Wiped, NewRow
<1> QED BY <1>1, <1>2, <1>3, <1>4, CardStep

\* No step makes a card wait for itself.
LEMMA OnSelfStep ==
  ASSUME IInv, [Next]_vars
  PROVE  NeverOnSelf'
<1> USE DEF IInv
<1> SUFFICES ASSUME NEW c \in Card PROVE card'[c].on # c BY DEF NeverOnSelf
<1>0. card[c].on # c /\ None # c BY ValuesAssumption DEF NeverOnSelf
<1>1. CASE Changed(c)
  <2>1. PICK p \in Proc : op[p] # None /\ Change(p, c) BY <1>1 DEF Changed
  <2>2. card'[c] = Landed(op[p], c) BY <2>1, ChangeEffect
  <2> QED BY <1>0, <2>2 DEF Landed
<1>2. CASE RowKept(c) \/ Reblocked(c) \/ Reclaimed(c)
  BY <1>0, <1>2 DEF RowKept, Reblocked, Reclaimed
<1>3. CASE Wiped(c) BY <1>0, <1>3 DEF Wiped, NewRow
<1> QED BY <1>1, <1>2, <1>3, CardStep

\* No step loses the name of who took the card or was given it last.
LEMMA HolderStep ==
  ASSUME IInv, [Next]_vars
  PROVE  HolderLogged'
<1> USE DEF IInv
<1> SUFFICES ASSUME NEW c \in Card, stay'[c].via \in {"taken", "given"}
             PROVE  past'[c].holder = stay'[c].doer
  BY DEF HolderLogged
<1>1. CASE Changed(c)
  <2>1. PICK p \in Proc : op[p] # None /\ Change(p, c) BY <1>1 DEF Changed
  <2>2. past'[c] = Logged(p, op[p], c) /\ stay'[c] = Stayed(op[p], c)
    BY <2>1, ChangeEffect DEF TypeOK
  <2>3. CASE Takes(op[p]) \/ op[p].ask.kind = "assign"
    <3>1. op[p].to = "doing" BY <2>1, <2>3 DEF CommandsMeant, Meant, Takes
    <3> QED BY <2>2, <2>3, <3>1 DEF Logged, Stayed
  <2>4. CASE ~Takes(op[p]) /\ op[p].ask.kind # "assign"
    <3>1. past'[c].holder = past[c].holder BY <2>2, <2>4 DEF Logged
    <3>2. Entered(op[p], c) \notin {"taken", "given"} BY <2>4 DEF Entered
    <3>3. stay'[c].via = stay[c].via /\ stay'[c].doer = stay[c].doer
      BY <2>2, <3>2 DEF Stayed, TypeOK, Stay
    <3> QED BY <3>1, <3>3 DEF HolderLogged
  <2> QED BY <2>3, <2>4
<1>2. CASE LogKept(c) BY <1>2 DEF LogKept, HolderLogged
<1>3. CASE Wiped(c) BY <1>3 DEF Wiped, NewStay
<1> QED BY <1>1, <1>2, <1>3, CardStep

\* No step lets an old note count for a card under review.
LEMMA NotesStep ==
  ASSUME IInv, [Next]_vars
  PROVE  NotesFresh'
<1> USE DEF IInv
<1> SUFFICES ASSUME NEW c \in Card, card'[c].col = "review", past'[c].noted
             PROVE  stay'[c].fresh
  BY DEF NotesFresh
<1>1. CASE Changed(c)
  <2>1. PICK p \in Proc : op[p] # None /\ Change(p, c) BY <1>1 DEF Changed
  <2>2. past'[c] = Logged(p, op[p], c) /\ card'[c] = Landed(op[p], c)
    BY <2>1, ChangeEffect DEF TypeOK
  <2>3. op[p].to = "review" BY <2>2 DEF Landed
  <2>4. Moves(op[p]) BY <2>1, <2>3 DEF CommandsMeant, Meant, Change, Moves
  <2>5. ~Noted(op[p], c) BY <2>4 DEF Noted
  <2>6. ~Logged(p, op[p], c).noted BY <2>5 DEF Logged
  <2> QED BY <2>2, <2>6
<1>2. CASE (RowKept(c) \/ Reblocked(c) \/ Reclaimed(c)) /\ LogKept(c)
  BY <1>2 DEF RowKept, Reblocked, Reclaimed, LogKept, NotesFresh
<1>3. CASE Wiped(c) BY <1>3 DEF Wiped, NewRow
<1> QED BY <1>1, <1>2, <1>3, CardStep

\* The inductive invariant is inductive.
LEMMA IInvStep == IInv /\ [Next]_vars => IInv'
<1> SUFFICES ASSUME IInv, [Next]_vars PROVE IInv' OBVIOUS
<1>1. TypeOK' /\ CommandsMeant' BY TypeStep DEF IInv
<1> QED BY <1>1, OwnedStep, ClaimStep, OnSelfStep, HolderStep, NotesStep DEF IInv

\* The inductive invariant holds of every reachable board.
LEMMA Invariance == Spec => []IInv
BY InitIInv, IInvStep, PTL DEF Spec

\* Every reachable state has the types the module says: columns, owners, claims, probes.
THEOREM TypeCorrect == Spec => []TypeOK
<1>1. IInv => TypeOK BY DEF IInv
<1> QED BY <1>1, Invariance, PTL

\* A TODO card belongs to nobody, a DOING card to somebody, and a claim is only ever found
\* on a card under review or finished, whatever commands interleave.
THEOREM OwnersFitColumns == Spec => []OwnedByColumn
<1>1. IInv => OwnedByColumn BY DEF IInv
<1> QED BY <1>1, Invariance, PTL

\* Nobody ever holds the review claim on work that reads as their own.
THEOREM ClaimsAreOthers == Spec => []NoSelfClaim
<1>1. IInv => NoSelfClaim BY DEF IInv
<1> QED BY <1>1, Invariance, PTL

-----------------------------------------------------------------------------
(* What a step may do                                                      *)

\* A card that changes while a command ends was changed by that command's transaction.
LEMMA EndOfCommand ==
  ASSUME IInv, [Next]_vars, NEW p \in Proc, Finishes(p), NEW c \in Card, card'[c] # card[c]
  PROVE  op[p] # None /\ Finish(p)
<1> USE DEF IInv
<1>1. op[p] # None /\ op'[p] = None BY DEF Finishes
<1>2. ASSUME NEW q \in Proc, Finish(q) PROVE q = p BY <1>1, <1>2 DEF Finish, TypeOK
<1>3. ASSUME NEW q \in Proc, Begin(q) \/ Probe(q) \/ Abort(q) PROVE FALSE
  BY <1>3 DEF Begin, Probe, Abort
<1>4. ASSUME NEW q \in Proc, NEW d \in Card,
             \/ NextReview(q, d) \/ Note(q, d) \/ Link(q, d)
             \/ Remove(q, d) \/ Restore(q, d) \/ Add(q, d)
      PROVE FALSE
  <2>1. op' = op BY <1>4 DEF NextReview, Note, Link, Remove, Restore, Add
  <2> QED BY <1>1, <2>1
<1>5. ASSUME NEW n \in Name, Die(n) \/ Relaunch(n) PROVE FALSE BY <1>5 DEF Die, Relaunch
<1>6. CASE UNCHANGED vars BY <1>6 DEF vars
<1> QED BY <1>1, <1>2, <1>3, <1>4, <1>5, <1>6 DEF Next, Step

\* A card changes column in its own change only, and a card reaches DONE by a command that
\* was asked to bring it there, past the close guards.
LEMMA ColumnChange ==
  ASSUME IInv, [Next]_vars, NEW p \in Proc, Finishes(p), NEW c \in Card,
         card'[c].col # card[c].col
  PROVE  /\ op[p] # None
         /\ Change(p, c)
         /\ card'[c] = Landed(op[p], c)
         /\ card'[c].col = op[p].to
<1> USE DEF IInv
<1>1. op[p] # None /\ Finish(p) BY EndOfCommand
<1>2. PICK d \in Card : Change(p, d) \/ Unclaim(p, d) \/ TakeClaim(p, d) \/ SetBlock(p, d)
  BY <1>1 DEF Finish
<1>3. ~Unclaim(p, d) BY UnclaimEffect, ReviewerSet
<1>4. ~TakeClaim(p, d) BY <1>1, ClaimEffect, ReviewerSet
<1>5. ~SetBlock(p, d)
  <2> SUFFICES ASSUME SetBlock(p, d) PROVE FALSE OBVIOUS
  <2>1. PICK b \in BOOLEAN, e \in (Card \cup {None}) \ {d} :
          card' = [card EXCEPT ![d].blocked = b, ![d].on = e]
    BY <1>1, BlockEffect
  <2>2. e \in Card \cup {None} BY <2>1
  <2> QED BY <2>1, <2>2, BlockSet
<1>6. Change(p, d) BY <1>2, <1>3, <1>4, <1>5
<1>7. d = c BY <1>1, <1>6, ChangeEffect
<1>8. card'[c] = Landed(op[p], c) BY <1>1, <1>6, <1>7, ChangeEffect
<1> QED BY <1>1, <1>6, <1>7, <1>8 DEF Landed

\* A card reaches DONE by one command, through the guards done_checks makes or by force.
LEMMA Closing ==
  ASSUME IInv, [Next]_vars, NEW p \in Proc, NEW c \in Card, Closed(p, c)
  PROVE  /\ op[p] # None
         /\ Change(p, c)
         /\ op[p].to = "done"
         /\ op[p].as = Who[p].name
         /\ card'[c] = Landed(op[p], c)
         /\ IF op[p].ask.force THEN MayForce(p, op[p].as) ELSE DoneChecks(p, op[p], c)
<1>1. /\ op[p] # None /\ Change(p, c)
      /\ card'[c] = Landed(op[p], c) /\ card'[c].col = op[p].to
  BY ColumnChange DEF Closed
<1>2. op[p].to = "done" /\ Closes(op[p], c) BY <1>1 DEF Closed, Closes
<1>3. op[p].as = Who[p].name BY <1>1, <1>2, ChangeAsked DEF IInv
<1>4. CloseRule(p, op[p], c) BY <1>1 DEF Change
<1> QED BY <1>1, <1>2, <1>3, <1>4 DEF CloseRule

\* Whoever finishes a card, forced or not, answers for it: under verifier-only, an agent
\* only from a registered session, and never an agent that hid from its environment.
THEOREM EveryCloseAnswers == Spec => CloseAnswers
<1>1. ASSUME IInv, [Next]_vars, NEW p \in Proc, NEW c \in Card,
             Closed(p, c), Config.verifierOnly
      PROVE  IF Who[p].agent THEN Who[p].registered ELSE ~Who[p].scrubbed
  <2>1. op[p].as = Who[p].name /\ Who[p].name \in Name BY <1>1, Closing, Whoever
  <2>2. ~AgentAsPerson(p, op[p].as) /\ (Who[p].agent => Registered(p, op[p].as))
    BY <1>1, Closing DEF MayForce, DoneChecks
  <2>3. op[p].as # Github BY <2>1, NamesAssumption
  <2> QED BY <1>1, <2>2, <2>3 DEF AgentAsPerson, Registered
<1>2. IInv /\ [Next]_vars =>
        [\A p \in Proc, c \in Card :
           Closed(p, c) /\ Config.verifierOnly
             => IF Who[p].agent THEN Who[p].registered ELSE ~Who[p].scrubbed]_vars
  BY <1>1
<1> QED BY <1>2, Invariance, PTL DEF Spec, CloseAnswers

\* Without --force, nobody finishes work they took or were assigned, whatever drops,
\* releases and moves by others came between.
THEOREM NobodyFinishesTheirOwn == Spec => WorkIsReviewed
<1>1. ASSUME IInv, [Next]_vars, NEW p \in Proc, NEW c \in Card,
             Closed(p, c), ~op[p].ask.force, stay[c].via \in {"taken", "given"}
      PROVE  op[p].as # stay[c].doer
  <2>1. past[c].holder # op[p].as BY <1>1, Closing DEF DoneChecks, OwnWork
  <2> QED BY <1>1, <2>1 DEF IInv, HolderLogged
<1>2. IInv /\ [Next]_vars =>
        [\A p \in Proc, c \in Card :
           Closed(p, c) /\ ~op[p].ask.force /\ stay[c].via \in {"taken", "given"}
             => op[p].as # stay[c].doer]_vars
  BY <1>1
<1> QED BY <1>2, Invariance, PTL DEF Spec, WorkIsReviewed

\* Where the board asks for a closing note, an unforced close has one written since the
\* card last changed column.
THEOREM ClosingNoteIsFresh == Spec => NoteIsFresh
<1>1. ASSUME IInv, [Next]_vars, NEW p \in Proc, NEW c \in Card,
             Closed(p, c), ~op[p].ask.force, Config.needsNote
      PROVE  stay[c].fresh
  <2>1. card[c].col = "review" /\ past[c].noted BY <1>1, Closing DEF DoneChecks
  <2> QED BY <2>1, <1>1 DEF IInv, NotesFresh
<1>2. IInv /\ [Next]_vars =>
        [\A p \in Proc, c \in Card :
           Closed(p, c) /\ ~op[p].ask.force /\ Config.needsNote => stay[c].fresh]_vars
  BY <1>1
<1> QED BY <1>2, Invariance, PTL DEF Spec, NoteIsFresh

\* A hook's yes is spent on the card, column and owner the hook was shown.
THEOREM ApprovalsAreSpentOnce == Spec => ApprovalIsForOneCard
<1>1. ASSUME IInv, [Next]_vars, NEW p \in Proc, NEW c \in Card,
             Finishes(p), op[p].snap # None, card'[c].col # card[c].col
      PROVE  op[p].snap = [card |-> c, col |-> card[c].col, owner |-> card[c].owner]
  <2>1. op[p] # None /\ Change(p, c) BY <1>1, ColumnChange
  <2>2. op[p] \in Command BY <1>1, <2>1 DEF IInv, TypeOK
  <2>3. op[p].snap \in Snapshot BY <1>1, <2>2 DEF Command
  <2>4. Approved(op[p], c) BY <2>1 DEF Change
  <2>5. /\ op[p].snap.card = c
        /\ op[p].snap.col = card[c].col
        /\ op[p].snap.owner = card[c].owner
    BY <1>1, <2>4 DEF Approved
  <2> QED BY <2>3, <2>5 DEF Snapshot
<1>2. IInv /\ [Next]_vars =>
        [\A p \in Proc, c \in Card :
           Finishes(p) /\ op[p].snap # None /\ card'[c].col # card[c].col
             => op[p].snap = [card |-> c, col |-> card[c].col, owner |-> card[c].owner]]_vars
  BY <1>1
<1> QED BY <1>2, Invariance, PTL DEF Spec, ApprovalIsForOneCard

\* A claim passes from one reviewer to the next only after a probe found a claimant dead.
THEOREM ClaimsPassFromTheDead == Spec => ClaimPassesFromDead
<1>1. ASSUME IInv, [Next]_vars, NEW p \in Proc, NEW c \in Card, Finishes(p),
             card[c].reviewer # None, card'[c].reviewer \notin {None, card[c].reviewer}
      PROVE  op[p].probe = "dead"
  <2> USE DEF IInv
  <2>1. op[p] # None /\ Finish(p) BY <1>1, EndOfCommand
  <2>2. PICK d \in Card : Change(p, d) \/ Unclaim(p, d) \/ TakeClaim(p, d) \/ SetBlock(p, d)
    BY <2>1 DEF Finish
  <2>3. CASE Change(p, d)
    <3>1. card'[d] = Landed(op[p], d) BY <1>1, <2>1, <2>3, ChangeEffect
    <3>2. card'[d].reviewer \in {None, card[d].reviewer} BY <3>1 DEF Landed
    <3>3. d # c => card'[c].reviewer = card[c].reviewer BY <1>1, <2>1, <2>3, ChangeEffect
    <3> QED BY <1>1, <3>2, <3>3
  <2>4. CASE Unclaim(p, d) BY <1>1, <2>4, UnclaimEffect, ReviewerSet
  <2>5. CASE TakeClaim(p, d)
    <3>1. op[p].as \in MaybeName /\ card' = [card EXCEPT ![d].reviewer = op[p].as]
      BY <1>1, <2>1, <2>5, ClaimEffect
    <3>2. d = c BY <1>1, <3>1, ReviewerSet
    <3>3. Takable(op[p], c) BY <2>5, <3>2 DEF TakeClaim
    <3> QED BY <1>1, <3>3 DEF Takable
  <2>6. CASE SetBlock(p, d)
    <3>1. PICK b \in BOOLEAN, e \in (Card \cup {None}) \ {d} :
            card' = [card EXCEPT ![d].blocked = b, ![d].on = e]
      BY <1>1, <2>1, <2>6, BlockEffect
    <3>2. e \in Card \cup {None} BY <3>1
    <3> QED BY <1>1, <3>1, <3>2, BlockSet
  <2> QED BY <2>2, <2>3, <2>4, <2>5, <2>6
<1>2. IInv /\ [Next]_vars =>
        [\A p \in Proc, c \in Card :
           Finishes(p) /\ card[c].reviewer # None /\ card'[c].reviewer \notin {None, card[c].reviewer}
             => op[p].probe = "dead"]_vars
  BY <1>1
<1> QED BY <1>2, Invariance, PTL DEF Spec, ClaimPassesFromDead

\* Finishing a card frees every card of the board that waited for it, in the same commit.
THEOREM DoneLiftsBlocks == Spec => LiftedByDone
<1>1. ASSUME IInv, [Next]_vars, NEW p \in Proc, NEW c \in Card, Closed(p, c),
             NEW d \in Card, OnBoard(d)
      PROVE  card'[d].on # c
  <2> USE DEF IInv
  <2>1. op[p] # None /\ Change(p, c) /\ op[p].to = "done" /\ card'[c] = Landed(op[p], c)
    BY <1>1, Closing
  <2>2. CASE d = c BY <1>1, <2>1, <2>2 DEF Landed, NeverOnSelf
  <2>3. CASE d # c
    <3>1. /\ card'[d].on \in {card[d].on, None}
          /\ Lifted(op[p], c, d) => card'[d].on = None
      BY <1>1, <2>1, <2>3, ChangeEffect
    <3>2. Closes(op[p], c) BY <1>1, <2>1 DEF Closes, Closed
    <3>3. card[d].on = c => card'[d].on = None BY <1>1, <3>1, <3>2 DEF Lifted
    <3> QED BY <3>1, <3>3, ValuesAssumption
  <2> QED BY <2>2, <2>3
<1>2. IInv /\ [Next]_vars =>
        [\A p \in Proc, c \in Card :
           Closed(p, c) => \A d \in Card : OnBoard(d) => card'[d].on # c]_vars
  BY <1>1
<1> QED BY <1>2, Invariance, PTL DEF Spec, LiftedByDone

-----------------------------------------------------------------------------
(* The board implements CardFlow                                           *)

RowOf(c) == [col |-> card[c].col, owner |-> card[c].owner, reviewer |-> card[c].reviewer]
RowMap == [c \in Card |-> RowOf(c)]

\* One card's row changes, in what CardFlow sees of it.
LEMMA OneRow ==
  ASSUME NEW c \in Card,
         \A d \in Card \ {c} : /\ card'[d].col = card[d].col
                               /\ card'[d].owner = card[d].owner
                               /\ card'[d].reviewer = card[d].reviewer
  PROVE  RowMap' = [RowMap EXCEPT ![c] = RowOf(c)']
BY DEF RowMap, RowOf

\* An empty board maps to an empty flow.
LEMMA FlowInit == Init => Flow!Init
BY DEF Init, Flow!Init, Flow!Fresh, NewRow

\* A change of column is a Move of the abstract flow.
LEMMA ChangeFlows ==
  ASSUME IInv, NEW p \in Proc, op[p] # None, NEW c \in Card, Change(p, c), UNCHANGED shelf
  PROVE  Flow!Move(c, op[p].to)
<1> USE DEF IInv
<1> DEFINE n == NewOwner(op[p], c)
<1>1. card'[c] = Landed(op[p], c) BY ChangeEffect
<1>2. RowMap' = [RowMap EXCEPT ![c] = RowOf(c)'] BY ChangeEffect, OneRow
<1>3. RowOf(c)' = [col |-> op[p].to, owner |-> n,
                   reviewer |-> IF op[p].to = "done" THEN card[c].reviewer ELSE None]
  BY <1>1 DEF RowOf, Landed
<1>4. shelf[c] = "board" /\ op[p].to # card[c].col BY ChangeFound
<1>5. n \in Flow!OwnersIn(c, op[p].to)
  <2>1. op[p].to = "todo" => n = None BY NewOwnerIs
  <2>2. n \in MaybeName BY NewOwnerIs
  <2>3. op[p].to = "doing" => n # None BY NewOwnerIs
  <2>4. op[p].to # "todo" /\ card[c].owner # None => n = card[c].owner BY NewOwnerIs
  <2>5. op[p].to \in {"review", "done"} => n = card[c].owner BY NewOwnerIs
  <2>6. op[p].to \in Column BY ChangeAsked
  <2>7. RowMap[c].owner = card[c].owner BY DEF RowMap, RowOf
  <2>8. CASE op[p].to = "todo" BY <2>1, <2>8 DEF Flow!OwnersIn
  <2>9. CASE op[p].to = "doing" /\ card[c].owner = None
    BY <2>2, <2>3, <2>9 DEF Flow!OwnersIn
  <2>10. CASE op[p].to # "todo" /\ ~(op[p].to = "doing" /\ card[c].owner = None)
    BY <2>4, <2>5, <2>6, <2>10 DEF Flow!OwnersIn
  <2> QED BY <2>8, <2>9, <2>10
<1>6. RowMap[c] = RowOf(c) BY DEF RowMap
<1> QED BY <1>2, <1>3, <1>4, <1>5, <1>6 DEF Flow!Move, RowMap, RowOf

\* A change of claim, taken or freed, is a Claim of the abstract flow.
LEMMA ClaimFlows ==
  ASSUME TypeOK, NEW c \in Card, NEW r \in MaybeName,
         card' = [card EXCEPT ![c].reviewer = r], UNCHANGED shelf,
         shelf[c] = "board", card[c].col = "review"
  PROVE  Flow!Claim(c, r)
<1>1. /\ card'[c].col = card[c].col
      /\ card'[c].owner = card[c].owner
      /\ card'[c].reviewer = r
      /\ \A d \in Card \ {c} : /\ card'[d].col = card[d].col
                               /\ card'[d].owner = card[d].owner
                               /\ card'[d].reviewer = card[d].reviewer
  BY ReviewerSet
<1>2. RowMap' = [RowMap EXCEPT ![c] = RowOf(c)'] BY <1>1, OneRow
<1>3. RowOf(c)' = [RowOf(c) EXCEPT !.reviewer = r] BY <1>1 DEF RowOf
<1>4. RowMap' = [RowMap EXCEPT ![c].reviewer = r] BY <1>2, <1>3 DEF RowMap
<1> QED BY <1>4 DEF Flow!Claim, RowMap, RowOf

\* A step that keeps every column, owner and claim keeps the mapped rows.
LEMMA SameRows ==
  ASSUME \A d \in Card : /\ card'[d].col = card[d].col
                         /\ card'[d].owner = card[d].owner
                         /\ card'[d].reviewer = card[d].reviewer
  PROVE  RowMap' = RowMap
BY DEF RowMap, RowOf

\* Every step of the board is a step of the abstract flow or changes nothing there.
LEMMA FlowStep ==
  ASSUME IInv, [Next]_vars
  PROVE  Flow!Next \/ UNCHANGED <<shelf, RowMap>>
<1> USE DEF IInv
<1> DEFINE Goal1 == Flow!Next \/ UNCHANGED <<shelf, RowMap>>
<1>1. ASSUME UNCHANGED <<shelf, card>> PROVE Goal1 BY <1>1, SameRows
<1>2. ASSUME NEW c \in Card, NEW to \in Column, Flow!Move(c, to) PROVE Goal1
  BY <1>2 DEF Flow!Next, Flow!Column
<1>3. ASSUME NEW c \in Card, NEW r \in MaybeName, Flow!Claim(c, r) PROVE Goal1
  BY <1>3 DEF Flow!Next
<1>4. ASSUME NEW p \in Proc, Finish(p) PROVE Goal1
  <2>1. op[p] # None /\ UNCHANGED shelf BY <1>4 DEF Finish
  <2>2. PICK c \in Card : Change(p, c) \/ Unclaim(p, c) \/ TakeClaim(p, c) \/ SetBlock(p, c)
    BY <1>4 DEF Finish
  <2>3. CASE Change(p, c)
    <3>1. op[p].to \in Column BY <2>1, <2>3, ChangeAsked
    <3>2. Flow!Move(c, op[p].to) BY <2>1, <2>3, ChangeFlows
    <3>3. PICK to \in Column : to = op[p].to BY <3>1
    <3>4. Flow!Move(c, to) BY <3>2, <3>3 DEF Flow!Move, Flow!OwnersIn
    <3> QED BY <1>2, <3>4
  <2>4. CASE Unclaim(p, c)
    <3>1. shelf[c] = "board" BY <2>4 DEF Unclaim, Resolved, In, OnBoard, Queue
    <3>2. Flow!Claim(c, None) BY <2>1, <2>4, <3>1, UnclaimEffect, ClaimFlows
    <3> QED BY <1>3, <3>2
  <2>5. CASE TakeClaim(p, c)
    <3>1. shelf[c] = "board" BY <2>5 DEF TakeClaim, Resolved, In, OnBoard, Queue
    <3>2. op[p].as \in MaybeName /\ card[c].col = "review" BY <2>1, <2>5, ClaimEffect
    <3>3. PICK r \in MaybeName : card' = [card EXCEPT ![c].reviewer = r]
      BY <2>1, <2>5, <3>2, ClaimEffect
    <3>4. Flow!Claim(c, r) BY <2>1, <3>1, <3>2, <3>3, ClaimFlows
    <3> QED BY <1>3, <3>4
  <2>6. CASE SetBlock(p, c)
    <3>1. PICK b \in BOOLEAN, e \in (Card \cup {None}) \ {c} :
            card' = [card EXCEPT ![c].blocked = b, ![c].on = e]
      BY <2>1, <2>6, BlockEffect
    <3>2. e \in Card \cup {None} BY <3>1
    <3>3. RowMap' = RowMap BY <3>1, <3>2, BlockSet, SameRows
    <3> QED BY <2>1, <3>3
  <2> QED BY <2>2, <2>3, <2>4, <2>5, <2>6
<1>5. ASSUME NEW p \in Proc, NEW c \in Card, NextReview(p, c) PROVE Goal1
  <2>1. Who[p].name \in MaybeName BY Whoever
  <2>2. card[c].col = "review" /\ shelf[c] = "board" BY <1>5 DEF NextReview, Waiting, In
  <2>3. Flow!Claim(c, Who[p].name) BY <1>5, <2>1, <2>2, ClaimFlows DEF NextReview
  <2> QED BY <1>3, <2>1, <2>3
<1>6. ASSUME NEW p \in Proc, NEW c \in Card, Remove(p, c) PROVE Goal1
  <2>1. shelf[c] = "board" BY <1>6 DEF Remove, OnBoard
  <2>2. CASE Config.archive
    <3>1. shelf' = [shelf EXCEPT ![c] = "archive"] /\ UNCHANGED card BY <1>6, <2>2 DEF Remove
    <3>2. RowMap' = RowMap BY <3>1, SameRows
    <3>3. Flow!Shelve(c) BY <2>1, <3>1, <3>2 DEF Flow!Shelve, RowMap, RowOf
    <3> QED BY <3>3 DEF Flow!Next
  <2>3. CASE ~Config.archive
    <3>1. shelf' = [shelf EXCEPT ![c] = "gone"] /\ card' = [card EXCEPT ![c] = NewRow]
      BY <1>6, <2>3 DEF Remove
    <3>2. card'[c] = NewRow /\ \A d \in Card \ {c} : card'[d] = card[d]
      BY <3>1 DEF TypeOK
    <3>3. RowMap' = [RowMap EXCEPT ![c] = RowOf(c)'] BY <3>2, OneRow
    <3>4. RowOf(c)' = [col |-> "todo", owner |-> None, reviewer |-> None]
      BY <3>2 DEF RowOf, NewRow
    <3>5. Flow!Destroy(c) BY <2>1, <3>1, <3>3, <3>4 DEF Flow!Destroy, Flow!Fresh, RowMap, RowOf
    <3> QED BY <3>5 DEF Flow!Next
  <2> QED BY <2>2, <2>3
<1>7. ASSUME NEW p \in Proc, NEW c \in Card, Restore(p, c) PROVE Goal1
  <2>1. RowMap' = RowMap BY <1>7, SameRows DEF Restore
  <2>2. Flow!Return(c) BY <1>7, <2>1 DEF Restore, Flow!Return, RowMap, RowOf
  <2> QED BY <2>2 DEF Flow!Next
<1>8. ASSUME NEW p \in Proc, NEW c \in Card, Add(p, c) PROVE Goal1
  <2>1. RowMap' = RowMap BY <1>8, SameRows DEF Add
  <2>2. Flow!Appear(c) BY <1>8, <2>1 DEF Add, Flow!Appear, RowMap, RowOf
  <2> QED BY <2>2 DEF Flow!Next
<1>9. ASSUME NEW p \in Proc, NEW c \in Card, Note(p, c) \/ Link(p, c) PROVE Goal1
  BY <1>1, <1>9 DEF Note, Link
<1>10. ASSUME NEW p \in Proc, Begin(p) \/ Probe(p) \/ Abort(p) PROVE Goal1
  BY <1>1, <1>10 DEF Begin, Probe, Abort
<1>11. ASSUME NEW n \in Name, Die(n) \/ Relaunch(n) PROVE Goal1 BY <1>1, <1>11 DEF Die, Relaunch
<1>12. CASE UNCHANGED vars BY <1>1, <1>12 DEF vars
<1> QED
  BY <1>4, <1>5, <1>6, <1>7, <1>8, <1>9, <1>10, <1>11, <1>12 DEF Next, Step

\* However the processes interleave, a board keeps what CardFlow promises of a card: one
\* holder at a time, replaced only by way of TODO, and a claim that ends with the review.
THEOREM BoardKeepsCardFlow == Spec => ImplementsCardFlow
<1>1. IInv /\ [Next]_vars => [Flow!Next]_<<shelf, RowMap>> BY FlowStep
<1>2. <<shelf, RowMap>> = <<shelf, [c \in Card |->
         [col |-> card[c].col, owner |-> card[c].owner, reviewer |-> card[c].reviewer]]>>
  BY DEF RowMap, RowOf
<1>3. IInv /\ [Next]_vars => [Flow!Next]_<<shelf, [c \in Card |->
         [col |-> card[c].col, owner |-> card[c].owner, reviewer |-> card[c].reviewer]]>>
  BY <1>1 DEF RowMap, RowOf
<1> QED BY <1>3, FlowInit, Invariance, PTL DEF Spec, ImplementsCardFlow, Flow!Spec
=============================================================================
