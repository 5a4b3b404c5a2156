----------------------------- MODULE CapProofs -----------------------------
(***************************************************************************)
(* The limits on work in progress hold of a board for every wip and        *)
(* wip-per-owner, however many cards, names and processes there are and    *)
(* whatever they interleave.  No set of cards is assumed finite: that the  *)
(* board holds finitely many is part of the invariant.                     *)
(***************************************************************************)
EXTENDS BoardProofs, FiniteSetTheorems

USE DEF Column, MaybeName

\* The cards each limit is about.
NewWork == {c \in In("doing") : stay[c].via # "back"}
Given(n) == {c \in HeldBy(n) : stay[c].via \in {"taken", "given", "moved"}}

\* One process adds one card at a time, so the board never holds infinitely many.
BoardFinite == IsFiniteSet({c \in Card : shelf[c] = "board"})

\* A card nobody created yet has the column it will be created in.
NewInTodo == \A c \in Card : shelf[c] = "new" => card[c].col = "todo"

CapInv == BoardFinite /\ NewInTodo /\ WipBound /\ OwnerCap

-----------------------------------------------------------------------------
(* Counting                                                                *)

\* The settings the limits are held against.
LEMMA Limits ==
  /\ Config.wip \in Nat
  /\ Config.perOwner \in Nat
  /\ Config.countsBlocked \in BOOLEAN
BY ConfigAssumption DEF Settings

\* What the rule counts below the limit leaves room for one card more below the bound:
\* the blocked cards it discounts are never more than the limit.
LEMMA RoomForOne ==
  ASSUME NEW S, IsFiniteSet(S), NEW limit \in Nat, Counted(S, limit) < limit
  PROVE  Cardinality(S) + 1 <= (IF Config.countsBlocked THEN 1 ELSE 2) * limit
<1> DEFINE W == {c \in S : card[c].blocked \/ card[c].on # None}
           waiting == Cardinality(W)
           size == Cardinality(S)
<1>1. size \in Nat BY FS_CardinalityType
<1>2. W \in SUBSET S OBVIOUS
<1>3. IsFiniteSet(W) BY <1>2, FS_Subset
<1>4. waiting \in Nat BY <1>3, FS_CardinalityType
<1>5. Counted(S, limit) = IF Config.countsBlocked THEN size
                          ELSE size - (IF waiting < limit THEN waiting ELSE limit)
  BY DEF Counted
<1> HIDE DEF W, waiting, size
<1>6. CASE Config.countsBlocked
  <2>1. size < limit BY <1>5, <1>6
  <2> QED BY <1>1, <1>6, <2>1 DEF size
<1>7. CASE ~Config.countsBlocked
  <2>1. size - (IF waiting < limit THEN waiting ELSE limit) < limit BY <1>5, <1>7
  <2>2. size + 1 <= 2 * limit BY <1>1, <1>4, <2>1
  <2> QED BY <1>7, <2>2 DEF size
<1> QED BY <1>6, <1>7

\* A set that a step can only shrink, or grow by one card, stays below a bound that the
\* set it came from left room in.
LEMMA OneMore ==
  ASSUME NEW S, IsFiniteSet(S), NEW x, NEW T \in SUBSET (S \cup {x})
  PROVE  IsFiniteSet(T) /\ Cardinality(T) \in Nat /\ Cardinality(T) <= Cardinality(S) + 1
<1>0. Cardinality(S) \in Nat BY FS_CardinalityType
<1>1. IsFiniteSet(S \cup {x}) /\ Cardinality(S \cup {x}) <= Cardinality(S) + 1
  <2>1. /\ IsFiniteSet(S \cup {x})
        /\ Cardinality(S \cup {x}) = IF x \in S THEN Cardinality(S) ELSE Cardinality(S) + 1
    BY FS_AddElement
  <2> QED BY <1>0, <2>1
<1>2. IsFiniteSet(T) /\ Cardinality(T) <= Cardinality(S \cup {x}) BY <1>1, FS_Subset
<1>3. Cardinality(T) \in Nat /\ Cardinality(S) \in Nat /\ Cardinality(S \cup {x}) \in Nat
  BY <1>1, <1>2, FS_CardinalityType
<1> QED BY <1>1, <1>2, <1>3

LEMMA NoMore ==
  ASSUME NEW S, IsFiniteSet(S), NEW T \in SUBSET S
  PROVE  IsFiniteSet(T) /\ Cardinality(T) \in Nat /\ Cardinality(S) \in Nat
         /\ Cardinality(T) <= Cardinality(S)
BY FS_Subset, FS_CardinalityType

-----------------------------------------------------------------------------
(* How a card comes to be in DOING                                         *)

\* Nothing about the card that a limit counts changes, but that it may leave.
Kept(c) ==
  c \in In("doing")' => /\ c \in In("doing")
                        /\ card'[c].owner = card[c].owner
                        /\ stay'[c].via = stay[c].via

\* A transaction brings the card into DOING, with the room it saw.
Enters(c) ==
  \E p \in Proc : /\ op[p] # None /\ Change(p, c) /\ op[p].to = "doing"
                  /\ card'[c] = Landed(op[p], c)
                  /\ stay'[c] = Stayed(op[p], c)

\* tb restore brings it back, with the slot it saw.
Returns(c) == /\ stay'[c].via = "restored"
              /\ Cardinality(In("doing")) < Config.wip

\* A step that leaves shelf and columns, or moves cards out of DOING, keeps every card.
LEMMA KeptAlone ==
  ASSUME NEW c \in Card,
         shelf'[c] = "board" => shelf[c] = "board",
         card'[c].col = card[c].col, card'[c].owner = card[c].owner,
         stay'[c].via = stay[c].via
  PROVE  Kept(c)
BY DEF Kept, In

\* A commit brings at most the card it changes into DOING.
LEMMA FinishOnDoing ==
  ASSUME TypeOK, CommandsMeant, OwnedByColumn, NEW p \in Proc, Finish(p)
  PROVE  \E d \in Card : (Enters(d) \/ Kept(d)) /\ \A c \in Card \ {d} : Kept(c)
<1>1. op[p] # None /\ shelf' = shelf BY DEF Finish
<1>2. PICK d \in Card : Change(p, d) \/ Unclaim(p, d) \/ TakeClaim(p, d) \/ SetBlock(p, d)
  BY DEF Finish
<1>3. CASE Change(p, d)
  <2>1. ASSUME NEW c \in Card \ {d} PROVE Kept(c)
    <3>1. stay'[c] = stay[c] BY <1>1, <1>3, ChangeEffect DEF TypeOK
    <3>2. card'[c].col = card[c].col /\ card'[c].owner = card[c].owner
      BY <1>1, <1>3, ChangeEffect
    <3> QED BY <1>1, <3>1, <3>2, KeptAlone
  <2>2. card'[d] = Landed(op[p], d) BY <1>1, <1>3, ChangeEffect
  <2>3. stay'[d] = Stayed(op[p], d) BY <1>1, <1>3, ChangeEffect DEF TypeOK
  <2>4. CASE op[p].to = "doing" BY <1>1, <1>3, <2>1, <2>2, <2>3, <2>4 DEF Enters
  <2>5. CASE op[p].to # "doing"
    <3>1. card'[d].col # "doing" BY <2>2, <2>5 DEF Landed
    <3>2. Kept(d) BY <3>1 DEF Kept, In
    <3> QED BY <2>1, <3>2
  <2> QED BY <2>4, <2>5
<1>4. CASE Unclaim(p, d) \/ TakeClaim(p, d) \/ SetBlock(p, d)
  <2>1. stay' = stay BY <1>4 DEF Unclaim, TakeClaim, SetBlock
  <2>2. \A c \in Card : card'[c].col = card[c].col /\ card'[c].owner = card[c].owner
    <3>1. CASE Unclaim(p, d) BY <3>1, UnclaimEffect, ReviewerSet
    <3>2. CASE TakeClaim(p, d) BY <1>1, <3>2, ClaimEffect, ReviewerSet
    <3>3. CASE SetBlock(p, d)
      <4>1. PICK b \in BOOLEAN, e \in Card \cup {None} :
              card' = [card EXCEPT ![d].blocked = b, ![d].on = e]
        BY <1>1, <3>3, BlockEffect
      <4> QED BY <4>1, BlockSet
    <3> QED BY <1>4, <3>1, <3>2, <3>3
  <2> QED BY <1>1, <2>1, <2>2, KeptAlone
<1> QED BY <1>2, <1>3, <1>4

\* Every step brings at most one card into DOING: by a transaction, or by tb restore.
LEMMA OneEnters ==
  ASSUME TypeOK, CommandsMeant, OwnedByColumn, NewInTodo, [Next]_vars
  PROVE  \/ \A c \in Card : Kept(c)
         \/ \E d \in Card : /\ Enters(d) \/ Returns(d)
                            /\ \A c \in Card \ {d} : Kept(c)
<1> DEFINE Goal1 == \/ \A c \in Card : Kept(c)
                    \/ \E d \in Card : /\ Enters(d) \/ Returns(d)
                                       /\ \A c \in Card \ {d} : Kept(c)
<1>1. ASSUME UNCHANGED <<shelf, card, stay>> PROVE Goal1 BY <1>1, KeptAlone
<1>2. ASSUME NEW p \in Proc, Finish(p) PROVE Goal1 BY <1>2, FinishOnDoing
<1>3. ASSUME NEW p \in Proc, NEW d \in Card, NextReview(p, d) PROVE Goal1
  <2>1. Who[p].name \in MaybeName BY Whoever
  <2>2. \A c \in Card : card'[c].col = card[c].col /\ card'[c].owner = card[c].owner
    BY <1>3, <2>1, ReviewerSet DEF NextReview
  <2> QED BY <1>3, <2>2, KeptAlone DEF NextReview
<1>4. ASSUME NEW p \in Proc, NEW d \in Card, Note(p, d) PROVE Goal1
  <2>1. shelf' = shelf /\ card' = card /\ stay' = [stay EXCEPT ![d].fresh = TRUE]
    BY <1>4 DEF Note
  <2>2. \A c \in Card : stay'[c].via = stay[c].via BY <2>1 DEF TypeOK, Stay
  <2> QED BY <2>1, <2>2, KeptAlone
<1>5. ASSUME NEW p \in Proc, NEW d \in Card, Remove(p, d) PROVE Goal1
  <2>1. shelf'[d] # "board" /\ \A c \in Card \ {d} : shelf'[c] = shelf[c]
    BY <1>5 DEF Remove, TypeOK
  <2>2. \A c \in Card \ {d} : card'[c] = card[c] /\ stay'[c] = stay[c]
    BY <1>5 DEF Remove, TypeOK
  <2>3. Kept(d) BY <2>1 DEF Kept, In
  <2> QED BY <2>1, <2>2, <2>3, KeptAlone
<1>6. ASSUME NEW p \in Proc, NEW d \in Card, Restore(p, d) PROVE Goal1
  <2>1. /\ shelf' = [shelf EXCEPT ![d] = "board"] /\ card' = card
        /\ card[d].col = "doing" => Cardinality(In("doing")) < Config.wip
        /\ stay' = IF card[d].col = "doing" THEN [stay EXCEPT ![d].via = "restored"] ELSE stay
    BY <1>6 DEF Restore
  <2>2. \A c \in Card \ {d} : shelf'[c] = shelf[c] /\ stay'[c] = stay[c]
    BY <2>1 DEF TypeOK
  <2>3. \A c \in Card \ {d} : Kept(c) BY <2>1, <2>2, KeptAlone
  <2>4. CASE card[d].col = "doing"
    <3>1. stay'[d].via = "restored" BY <2>1, <2>4 DEF TypeOK, Stay
    <3> QED BY <2>1, <2>3, <2>4, <3>1 DEF Returns
  <2>5. CASE card[d].col # "doing"
    <3>1. Kept(d) BY <2>1, <2>5 DEF Kept, In
    <3> QED BY <2>3, <3>1
  <2> QED BY <2>4, <2>5
<1>7. ASSUME NEW p \in Proc, NEW d \in Card, Add(p, d) PROVE Goal1
  <2>1. /\ shelf' = [shelf EXCEPT ![d] = "board"] /\ shelf[d] = "new"
        /\ card' = card /\ stay' = stay
    BY <1>7 DEF Add
  <2>2. \A c \in Card \ {d} : shelf'[c] = shelf[c] BY <2>1 DEF TypeOK
  <2>3. \A c \in Card \ {d} : Kept(c) BY <2>1, <2>2, KeptAlone
  <2>4. card'[d].col = "todo" BY <2>1 DEF NewInTodo
  <2>5. Kept(d) BY <2>4 DEF Kept, In
  <2> QED BY <2>3, <2>5
<1>8. ASSUME NEW p \in Proc, NEW d \in Card, Link(p, d) PROVE Goal1 BY <1>1, <1>8 DEF Link
<1>9. ASSUME NEW p \in Proc, Begin(p) \/ Probe(p) \/ Abort(p) PROVE Goal1
  BY <1>1, <1>9 DEF Begin, Probe, Abort
<1>10. ASSUME NEW n \in Name, Die(n) \/ Relaunch(n) PROVE Goal1 BY <1>1, <1>10 DEF Die, Relaunch
<1>11. CASE UNCHANGED vars BY <1>1, <1>11 DEF vars
<1> QED
  BY <1>2, <1>3, <1>4, <1>5, <1>6, <1>7, <1>8, <1>9, <1>10, <1>11 DEF Next, Step

-----------------------------------------------------------------------------
(* Every step keeps the limits                                             *)

\* The sets the limits count are finite, being cards of the board.
LEMMA CountsFinite ==
  ASSUME BoardFinite
  PROVE  /\ IsFiniteSet(In("doing")) /\ IsFiniteSet(NewWork)
         /\ \A n : IsFiniteSet(HeldBy(n)) /\ IsFiniteSet(Given(n))
<1>1. ASSUME NEW S \in SUBSET {c \in Card : shelf[c] = "board"} PROVE IsFiniteSet(S)
  BY <1>1, FS_Subset DEF BoardFinite
<1> QED BY <1>1 DEF In, NewWork, HeldBy, Given

\* A card comes onto the board one at a time, and never changes column before it does.
LEMMA ShelfStep ==
  ASSUME TypeOK, CommandsMeant, OwnedByColumn, BoardFinite, NewInTodo, [Next]_vars
  PROVE  BoardFinite' /\ NewInTodo'
<1> DEFINE B == {c \in Card : shelf[c] = "board"}
<1>1. \/ shelf' = shelf
      \/ \E d \in Card : shelf[d] # "board" /\ shelf' = [shelf EXCEPT ![d] = "board"]
      \/ \E d \in Card, s \in {"archive", "gone"} : shelf' = [shelf EXCEPT ![d] = s]
  <2>1. ASSUME NEW p \in Proc, NEW d \in Card, Remove(p, d)
        PROVE  \E s \in {"archive", "gone"} : shelf' = [shelf EXCEPT ![d] = s]
    BY <2>1 DEF Remove
  <2>2. ASSUME NEW p \in Proc, NEW d \in Card, Restore(p, d) \/ Add(p, d)
        PROVE  shelf[d] # "board" /\ shelf' = [shelf EXCEPT ![d] = "board"]
    BY <2>2 DEF Restore, Add
  <2> QED
    BY <2>1, <2>2 DEF Next, Step, Begin, Probe, Finish, Abort, NextReview, Note, Link,
                      Die, Relaunch, vars
<1>2. BoardFinite'
  <2>1. \E d : {c \in Card : shelf'[c] = "board"} \in SUBSET (B \cup {d})
    BY <1>1 DEF TypeOK
  <2>2. IsFiniteSet(B) BY DEF BoardFinite
  <2> HIDE DEF B
  <2> QED BY <2>1, <2>2, OneMore DEF BoardFinite
<1>3. ASSUME NEW c \in Card, shelf'[c] = "new" PROVE card'[c].col = "todo"
  <2>1. shelf[c] = "new" BY <1>1, <1>3 DEF TypeOK
  <2>2. card[c].col = "todo" BY <2>1 DEF NewInTodo
  <2>3. ~Changed(c) BY <2>1, ChangeFound DEF Changed
  <2> QED BY <2>2, <2>3, CardStep DEF RowKept, Reclaimed, Reblocked, Wiped, NewRow
<1> QED BY <1>2, <1>3 DEF NewInTodo

\* What Room saw when a card enters DOING otherwise than sent back.
LEMMA EntersWithRoom ==
  ASSUME TypeOK, CommandsMeant, OwnedByColumn, NEW d \in Card, Enters(d)
  PROVE  \/ stay'[d].via = "back"
         \/ /\ Counted(In("doing"), Config.wip) < Config.wip
            /\ \A n \in Name : /\ Config.perOwner > 0
                               /\ card'[d].owner = n
                               /\ stay'[d].via \in {"taken", "given", "moved"}
                               => Counted(HeldBy(n), Config.perOwner) < Config.perOwner
<1>1. PICK p \in Proc : /\ op[p] # None /\ Change(p, d) /\ op[p].to = "doing"
                        /\ card'[d] = Landed(op[p], d)
                        /\ stay'[d] = Stayed(op[p], d)
  BY DEF Enters
<1> DEFINE o == op[p]
<1>2. stay'[d].via = Entered(o, d) /\ card'[d].owner = NewOwner(o, d)
  BY <1>1 DEF Stayed, Landed
<1>3. Room(o, d) BY <1>1 DEF Change
<1>4. CASE SendBack(o, d)
  <2>1. Entered(o, d) = "back" BY <1>4 DEF SendBack, Entered, Takes
  <2> QED BY <1>2, <2>1
<1>5. CASE ~SendBack(o, d)
  <2>1. /\ Counted(In("doing"), Config.wip) < Config.wip
        /\ Config.perOwner > 0 => Counted(HeldBy(CapOf(o)), Config.perOwner) < Config.perOwner
    BY <1>1, <1>3, <1>5 DEF Room
  <2>2. Entered(o, d) \in {"taken", "given", "moved"} => NewOwner(o, d) = CapOf(o)
    BY <1>1, <1>5 DEF Entered, NewOwner, CapOf
  <2> QED BY <1>2, <2>1, <2>2
<1> QED BY <1>4, <1>5

\* New work never exceeds the bound: the card that enters had a slot.
LEMMA WipStep ==
  ASSUME TypeOK, CommandsMeant, OwnedByColumn, CapInv, [Next]_vars
  PROVE  WipBound'
<1> DEFINE Bound == (IF Config.countsBlocked THEN 1 ELSE 2) * Config.wip
           Doing == In("doing")
<1>1. /\ IsFiniteSet(NewWork) /\ IsFiniteSet(Doing)
      /\ Cardinality(NewWork) <= Bound
  BY CountsFinite DEF CapInv, WipBound, NewWork
<1>2. Bound \in Nat BY Limits
<1>3. NewWork \in SUBSET Doing BY DEF NewWork
<1> SUFFICES Cardinality(NewWork') <= Bound BY DEF WipBound, NewWork
<1>4. CASE \A c \in Card : Kept(c)
  <2>1. NewWork' \in SUBSET NewWork BY <1>4 DEF Kept, NewWork, In
  <2> QED BY <1>1, <1>2, <2>1, NoMore
<1>5. ASSUME NEW d \in Card, Enters(d) \/ Returns(d), \A c \in Card \ {d} : Kept(c)
      PROVE  Cardinality(NewWork') <= Bound
  <2>1. NewWork' \in SUBSET (NewWork \cup {d}) BY <1>5 DEF Kept, NewWork, In
  <2>2. NewWork' \in SUBSET (Doing \cup {d}) BY <1>3, <2>1
  <2>3. stay'[d].via = "back" => NewWork' \in SUBSET NewWork BY <2>1 DEF NewWork
  <2>4. CASE stay'[d].via = "back" BY <1>1, <1>2, <2>3, <2>4, NoMore
  <2>5. CASE stay'[d].via # "back"
    <3>1. Cardinality(Doing) + 1 <= Bound
      <4>1. CASE Enters(d)
        <5>1. Counted(Doing, Config.wip) < Config.wip BY <2>5, <4>1, EntersWithRoom
        <5> QED BY <1>1, <5>1, Limits, RoomForOne
      <4>2. CASE Returns(d)
        <5>1. Cardinality(Doing) < Config.wip BY <4>2 DEF Returns
        <5>2. Cardinality(Doing) \in Nat BY <1>1, FS_CardinalityType
        <5> QED BY <5>1, <5>2, Limits
      <4> QED BY <1>5, <4>1, <4>2
    <3>2. /\ Cardinality(NewWork') <= Cardinality(Doing) + 1
          /\ Cardinality(NewWork') \in Nat /\ Cardinality(Doing) \in Nat
      BY <1>1, <2>2, OneMore, FS_CardinalityType
    <3> QED BY <1>2, <3>1, <3>2
  <2> QED BY <2>4, <2>5
<1> QED BY <1>4, <1>5, OneEnters DEF CapInv

\* Nor does what a name took, was given or moved out of TODO.
LEMMA OwnerStep ==
  ASSUME TypeOK, CommandsMeant, OwnedByColumn, CapInv, [Next]_vars
  PROVE  OwnerCap'
<1> DEFINE Bound == (IF Config.countsBlocked THEN 1 ELSE 2) * Config.perOwner
<1> SUFFICES ASSUME NEW n \in Name, Config.perOwner > 0
             PROVE  Cardinality(Given(n)') <= Bound
  BY DEF OwnerCap, Given
<1>1. /\ IsFiniteSet(Given(n)) /\ IsFiniteSet(HeldBy(n))
      /\ Cardinality(Given(n)) <= Bound
  BY CountsFinite DEF CapInv, OwnerCap, Given
<1>2. Bound \in Nat BY Limits
<1>3. Given(n) \in SUBSET HeldBy(n) BY DEF Given
<1>4. CASE \A c \in Card : Kept(c)
  <2>1. Given(n)' \in SUBSET Given(n) BY <1>4 DEF Kept, Given, HeldBy, In
  <2> QED BY <1>1, <1>2, <2>1, NoMore
<1>5. ASSUME NEW d \in Card, Enters(d) \/ Returns(d), \A c \in Card \ {d} : Kept(c)
      PROVE  Cardinality(Given(n)') <= Bound
  <2>1. Given(n)' \in SUBSET (Given(n) \cup {d}) BY <1>5 DEF Kept, Given, HeldBy, In
  <2>2. Given(n)' \in SUBSET (HeldBy(n) \cup {d}) BY <1>3, <2>1
  <2>3. CASE card'[d].owner = n /\ stay'[d].via \in {"taken", "given", "moved"}
    <3>1. Counted(HeldBy(n), Config.perOwner) < Config.perOwner
      BY <1>5, <2>3, EntersWithRoom DEF Returns
    <3>2. Cardinality(HeldBy(n)) + 1 <= Bound BY <1>1, <3>1, Limits, RoomForOne
    <3>3. /\ Cardinality(Given(n)') <= Cardinality(HeldBy(n)) + 1
          /\ Cardinality(Given(n)') \in Nat /\ Cardinality(HeldBy(n)) \in Nat
      BY <1>1, <2>2, OneMore, FS_CardinalityType
    <3> QED BY <1>2, <3>2, <3>3
  <2>4. CASE ~(card'[d].owner = n /\ stay'[d].via \in {"taken", "given", "moved"})
    <3>1. Given(n)' \in SUBSET Given(n) BY <2>1, <2>4 DEF Given, HeldBy
    <3> QED BY <1>1, <1>2, <3>1, NoMore
  <2> QED BY <2>3, <2>4
<1> QED BY <1>4, <1>5, OneEnters DEF CapInv

LEMMA InitCaps == Init => CapInv
<1> SUFFICES ASSUME Init PROVE CapInv OBVIOUS
<1>1. {c \in Card : shelf[c] = "board"} = {} BY DEF Init
<1>2. BoardFinite BY <1>1, FS_EmptySet DEF BoardFinite
<1>3. NewInTodo BY DEF Init, NewInTodo, NewRow
<1>4. {c \in In("doing") : stay[c].via # "back"} = {} BY <1>1 DEF In
<1>5. \A n \in Name : {c \in HeldBy(n) : stay[c].via \in {"taken", "given", "moved"}} = {}
  BY <1>1 DEF HeldBy, In
<1>6. /\ 0 <= (IF Config.countsBlocked THEN 1 ELSE 2) * Config.wip
      /\ 0 <= (IF Config.countsBlocked THEN 1 ELSE 2) * Config.perOwner
  <2>1. CASE Config.countsBlocked BY <2>1, Limits
  <2>2. CASE ~Config.countsBlocked BY <2>2, Limits
  <2> QED BY <2>1, <2>2
<1>7. WipBound BY <1>4, <1>6, FS_EmptySet DEF WipBound
<1>8. OwnerCap BY <1>5, <1>6, FS_EmptySet DEF OwnerCap
<1> QED BY <1>2, <1>3, <1>7, <1>8 DEF CapInv

LEMMA CapInvariance == Spec => [](IInv /\ CapInv)
<1>1. Init => IInv /\ CapInv BY InitIInv, InitCaps
<1>2. (IInv /\ CapInv) /\ [Next]_vars => (IInv /\ CapInv)'
  <2> SUFFICES ASSUME IInv, CapInv, [Next]_vars PROVE IInv' /\ CapInv' OBVIOUS
  <2>1. IInv' BY IInvStep
  <2>2. TypeOK /\ CommandsMeant /\ OwnedByColumn BY DEF IInv
  <2>3. BoardFinite' /\ NewInTodo' BY <2>2, ShelfStep DEF CapInv
  <2>4. WipBound' BY <2>2, WipStep
  <2>5. OwnerCap' BY <2>2, OwnerStep
  <2> QED BY <2>1, <2>3, <2>4, <2>5 DEF CapInv
<1> QED BY <1>1, <1>2, PTL DEF Spec

\* However many processes ask at once, new work - taken, given, moved, reopened, restored -
\* never puts more than wip cards in DOING, or twice that where blocked cards are
\* discounted: the limit is read in the transaction that spends it.
THEOREM WorkStaysInLimit == Spec => []WipBound
<1>1. IInv /\ CapInv => WipBound BY DEF CapInv
<1> QED BY <1>1, CapInvariance, PTL

\* The same of what one name took, was assigned or moved out of TODO, under wip-per-owner.
THEOREM OwnersStayInCap == Spec => []OwnerCap
<1>1. IInv /\ CapInv => OwnerCap BY DEF CapInv
<1> QED BY <1>1, CapInvariance, PTL

=============================================================================
