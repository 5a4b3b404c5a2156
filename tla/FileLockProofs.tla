--------------------------- MODULE FileLockProofs ---------------------------
(***************************************************************************)
(* First come, first served, for any set of processes: what holds of the   *)
(* lock queue as long as no crash or failed write has lost its counter.    *)
(***************************************************************************)
EXTENDS FileLock, TLAPS

\* The counter is locked exactly while its locker numbers its ticket.
LatchHeld == \A p \in Proc : pc[p] \in {"numbering", "counted"} <=> latch = p

Numbered ==
  \A p \in Proc : /\ number[p] # None => pc[p] \in {"numbering", "counted", "waiting", "turn"}
                  /\ pc[p] \in {"numbering", "counted"} => number[p] # None

\* The counter is past every ticket in use, and while it is cut to nothing, the ticket of the
\* process that writes it again is.
CounterAhead ==
  ~torn => \A p \in Proc :
    number[p] # None =>
      IF latch \in Proc /\ pc[latch] = "numbering" THEN p # latch => number[p] < number[latch]
                                                   ELSE number[p] < counter

\* A waiter's ticket file is where its number says.
Placed ==
  ~torn => \A p \in Proc :
    pc[p] \in {"waiting", "turn"} /\ number[p] # None => file[number[p]] = p

\* Who was queued before p asked still is, and holds a smaller ticket.
BeforeAhead ==
  ~torn => \A p \in Proc : \A q \in before[p] :
    /\ Queued(q)
    /\ number[p] # None => number[q] < number[p]

\* Once it is p's turn nobody is before it any more.
NobodyBefore == ~torn => \A p \in Proc : pc[p] \in {"quick", "turn", "hold"} => before[p] = {}

LInv == /\ TypeOK /\ LatchHeld /\ Numbered /\ NoStrayTicket /\ TicketsApart
        /\ CounterAhead /\ Placed /\ BeforeAhead /\ NobodyBefore

\* With nobody asking and no ticket file the invariant holds.
LEMMA InitLInv == Init => LInv
<1> SUFFICES ASSUME Init PROVE LInv OBVIOUS
<1> USE FileLockAssumption
<1>1. TypeOK
  <2>1. counter \in 0..MaxTicket BY DEF Init
  <2>2. before \in [Proc -> SUBSET Proc] BY DEF Init
  <2> QED BY <2>1, <2>2 DEF Init, TypeOK, Steps
<1>2. LatchHeld /\ Numbered BY DEF Init, LatchHeld, Numbered
<1>3. NoStrayTicket BY DEF Init, NoStrayTicket
<1>4. TicketsApart /\ CounterAhead /\ Placed BY DEF Init, TicketsApart, CounterAhead, Placed
<1>5. BeforeAhead /\ NobodyBefore BY DEF Init, BeforeAhead, NobodyBefore
<1> QED BY <1>1, <1>2, <1>3, <1>4, <1>5 DEF LInv

\* Looking at the queue on arrival keeps the invariant, the first time and when the lock is
\* taken again.
LEMMA EnterKeeps ==
  ASSUME LInv, NEW p \in Proc, pc[p] \in {"idle", "hold"}, Enter(p),
         mode' \in [Proc -> {"shared", "exclusive"}], kept' \subseteq Nested
  PROVE  LInv'
<1> USE FileLockAssumption DEF LInv
<1>1. TypeOK' BY DEF Enter, Swept, TypeOK, Numbers, Steps
<1>2. LatchHeld' BY DEF Enter, LatchHeld, TypeOK
<1>3. Numbered' BY DEF Enter, Numbered, TypeOK
<1>4. NoStrayTicket' BY DEF Enter, Swept, NoStrayTicket, TypeOK
<1>5. TicketsApart' BY DEF Enter, TicketsApart
<1>6. CounterAhead' BY DEF Enter, CounterAhead, TypeOK
<1>7. Placed' BY DEF Enter, Swept, Placed, TypeOK
<1>8. BeforeAhead' BY DEF Enter, Swept, BeforeAhead, Numbered, Queued, TypeOK
<1>9. NobodyBefore' BY DEF Enter, Live, NobodyBefore, Numbered, Queued, TypeOK
<1> QED BY <1>1, <1>2, <1>3, <1>4, <1>5, <1>6, <1>7, <1>8, <1>9

LEMMA AskKeeps ==
  ASSUME LInv, NEW p \in Proc, Ask(p)
  PROVE  LInv'
<1>1. mode' \in [Proc -> {"shared", "exclusive"}] /\ kept' \subseteq Nested
  BY DEF Ask, LInv, TypeOK
<1> QED BY <1>1, EnterKeeps DEF Ask

LEMMA ReopenKeeps ==
  ASSUME LInv, NEW p \in Proc, Reopen(p)
  PROVE  LInv'
<1>1. mode' \in [Proc -> {"shared", "exclusive"}] /\ kept' \subseteq Nested
  BY DEF Reopen, LInv, TypeOK
<1> QED BY <1>1, EnterKeeps DEF Reopen

\* The uncontended take keeps it.
LEMMA QuickKeeps ==
  ASSUME LInv, NEW p \in Proc, Quick(p)
  PROVE  LInv'
<1> USE FileLockAssumption DEF LInv
<1>1. TypeOK' BY DEF Quick, TypeOK, Numbers, Steps
<1>2. LatchHeld' BY DEF Quick, LatchHeld, TypeOK
<1>3. Numbered' BY DEF Quick, Numbered, TypeOK
<1>4. NoStrayTicket' BY DEF Quick, NoStrayTicket, Numbered, TypeOK, Numbers
<1>5. TicketsApart' BY DEF Quick, TicketsApart, CounterAhead, LatchHeld, TypeOK, Numbers
<1>6. CounterAhead' BY DEF Quick, CounterAhead, LatchHeld, TypeOK, Numbers
<1>7. Placed' BY DEF Quick, Placed, TicketsApart, NoStrayTicket, Numbered, TypeOK, Numbers
<1>8. BeforeAhead' BY DEF Quick, BeforeAhead, Queued, TicketsApart, Numbered, TypeOK, Numbers
<1>9. NobodyBefore' BY DEF Quick, NobodyBefore, BeforeAhead, Queued, TypeOK
<1> QED BY <1>1, <1>2, <1>3, <1>4, <1>5, <1>6, <1>7, <1>8, <1>9

\* Reading the number and cutting the counter file keeps it.
LEMMA ReadNumberKeeps ==
  ASSUME LInv, NEW p \in Proc, ReadNumber(p)
  PROVE  LInv'
<1> USE FileLockAssumption DEF LInv
<1>1. TypeOK' BY DEF ReadNumber, TypeOK, Numbers, Steps
<1>2. LatchHeld' BY DEF ReadNumber, LatchHeld, TypeOK
<1>3. Numbered' BY DEF ReadNumber, Numbered, TypeOK
<1>4. NoStrayTicket' BY DEF ReadNumber, NoStrayTicket, Numbered, TypeOK, Numbers
<1>5. TicketsApart' BY DEF ReadNumber, TicketsApart, CounterAhead, LatchHeld, TypeOK, Numbers
<1>6. CounterAhead' BY DEF ReadNumber, CounterAhead, LatchHeld, TypeOK, Numbers
<1>7. Placed' BY DEF ReadNumber, Placed, TicketsApart, NoStrayTicket, Numbered, TypeOK, Numbers
<1>8. BeforeAhead' BY DEF ReadNumber, BeforeAhead, CounterAhead, LatchHeld, Queued, TicketsApart, Numbered, TypeOK, Numbers
<1>9. NobodyBefore' BY DEF ReadNumber, NobodyBefore, BeforeAhead, Queued, TypeOK
<1> QED BY <1>1, <1>2, <1>3, <1>4, <1>5, <1>6, <1>7, <1>8, <1>9

\* Writing the next number keeps it.
LEMMA WriteNumberKeeps ==
  ASSUME LInv, NEW p \in Proc, WriteNumber(p)
  PROVE  LInv'
<1> USE FileLockAssumption DEF LInv
<1>1. TypeOK'
  <2>1. number[p] \in 0..(MaxTicket - 1) BY DEF WriteNumber, Numbered, TypeOK, Numbers
  <2>2. number[p] + 1 \in 0..MaxTicket BY <2>1
  <2> QED BY <2>2 DEF WriteNumber, TypeOK, Steps
<1>2. LatchHeld' BY DEF WriteNumber, LatchHeld, TypeOK
<1>3. Numbered' BY DEF WriteNumber, Numbered, TypeOK
<1>4. NoStrayTicket' BY DEF WriteNumber, NoStrayTicket, Numbered, TypeOK, Numbers
<1>5. TicketsApart' BY DEF WriteNumber, TicketsApart, CounterAhead, LatchHeld, TypeOK, Numbers
<1>6. CounterAhead'
  <2>1. latch = p /\ pc'[p] = "counted" BY DEF WriteNumber, LatchHeld, TypeOK
  <2>2. ~torn => \A q \in Proc : number[q] # None => number[q] < number[p] + 1
    BY <2>1 DEF WriteNumber, CounterAhead, Numbered, TypeOK, Numbers
  <2> QED BY <2>1, <2>2 DEF WriteNumber, CounterAhead
<1>7. Placed' BY DEF WriteNumber, Placed, TicketsApart, NoStrayTicket, Numbered, TypeOK, Numbers
<1>8. BeforeAhead' BY DEF WriteNumber, BeforeAhead, Queued, TicketsApart, Numbered, TypeOK, Numbers
<1>9. NobodyBefore' BY DEF WriteNumber, NobodyBefore, BeforeAhead, Queued, TypeOK
<1> QED BY <1>1, <1>2, <1>3, <1>4, <1>5, <1>6, <1>7, <1>8, <1>9

\* Renaming the ticket to its number keeps it.
LEMMA PlaceTicketKeeps ==
  ASSUME LInv, NEW p \in Proc, PlaceTicket(p)
  PROVE  LInv'
<1> USE FileLockAssumption DEF LInv
<1>1. TypeOK' BY DEF PlaceTicket, TypeOK, Numbers, Steps
<1>2. LatchHeld' BY DEF PlaceTicket, LatchHeld, TypeOK
<1>3. Numbered' BY DEF PlaceTicket, Numbered, TypeOK
<1>4. NoStrayTicket' BY DEF PlaceTicket, NoStrayTicket, Numbered, TypeOK, Numbers
<1>5. TicketsApart' BY DEF PlaceTicket, TicketsApart, CounterAhead, LatchHeld, TypeOK, Numbers
<1>6. CounterAhead' BY DEF PlaceTicket, CounterAhead, LatchHeld, TypeOK, Numbers
<1>7. Placed' BY DEF PlaceTicket, Placed, TicketsApart, NoStrayTicket, Numbered, TypeOK, Numbers
<1>8. BeforeAhead' BY DEF PlaceTicket, BeforeAhead, Queued, TicketsApart, Numbered, TypeOK, Numbers
<1>9. NobodyBefore' BY DEF PlaceTicket, NobodyBefore, BeforeAhead, Queued, TypeOK
<1> QED BY <1>1, <1>2, <1>3, <1>4, <1>5, <1>6, <1>7, <1>8, <1>9

\* Going on without a ticket keeps it.
LEMMA JoinFailsKeeps ==
  ASSUME LInv, NEW p \in Proc, JoinFails(p)
  PROVE  LInv'
<1> USE FileLockAssumption DEF LInv
<1>1. TypeOK' BY DEF JoinFails, TypeOK, Numbers, Steps
<1>2. LatchHeld' BY DEF JoinFails, LatchHeld, TypeOK
<1>3. Numbered' BY DEF JoinFails, Numbered, TypeOK
<1>4. NoStrayTicket' BY DEF JoinFails, NoStrayTicket, Numbered, TypeOK, Numbers
<1>5. TicketsApart' BY DEF JoinFails, TicketsApart, CounterAhead, LatchHeld, TypeOK, Numbers
<1>6. CounterAhead' BY DEF JoinFails, CounterAhead, LatchHeld, TypeOK, Numbers
<1>7. Placed' BY DEF JoinFails, Placed, TicketsApart, NoStrayTicket, Numbered, TypeOK, Numbers
<1>8. BeforeAhead' BY DEF JoinFails, BeforeAhead, Queued, TicketsApart, Numbered, TypeOK, Numbers
<1>9. NobodyBefore' BY DEF JoinFails, NobodyBefore, BeforeAhead, Queued, TypeOK
<1> QED BY <1>1, <1>2, <1>3, <1>4, <1>5, <1>6, <1>7, <1>8, <1>9

\* A poll of the queue, which sweeps dead tickets away, keeps it.
LEMMA LookKeeps ==
  ASSUME LInv, NEW p \in Proc, Look(p)
  PROVE  LInv'
<1> USE FileLockAssumption DEF LInv
<1>1. TypeOK'
  <2>1. file' \in [Numbers -> Proc \cup {None, Dead}] BY DEF Look, Swept, TypeOK
  <2>2. pc' \in [Proc -> Steps] BY DEF Look, TypeOK, Steps
  <2>3. fresh' \in [Proc -> BOOLEAN] BY DEF Look, TypeOK
  <2> QED BY <2>1, <2>2, <2>3 DEF Look, TypeOK
<1>2. LatchHeld' BY DEF Look, LatchHeld, TypeOK
<1>3. Numbered' BY DEF Look, Numbered, TypeOK
<1>4. NoStrayTicket' BY DEF Look, Swept, Live, NoStrayTicket, Numbered, TypeOK, Numbers
<1>5. TicketsApart' BY DEF Look, TicketsApart, CounterAhead, LatchHeld, TypeOK, Numbers
<1>6. CounterAhead' BY DEF Look, CounterAhead, LatchHeld, TypeOK, Numbers
<1>7. Placed' BY DEF Look, Swept, Live, Placed, TicketsApart, NoStrayTicket, Numbered, TypeOK, Numbers
<1>8. BeforeAhead'
  <2> SUFFICES ASSUME ~torn, NEW r \in Proc, NEW q \in before[r]
               PROVE  Queued(q)' /\ (number[r] # None => number[q] < number[r])
    BY DEF Look, BeforeAhead
  <2>1. q \in Proc /\ Queued(q) /\ (number[r] # None => number[q] < number[r])
    BY DEF BeforeAhead, TypeOK
  <2>2. pc'[q] \in {"waiting", "turn"} BY <2>1 DEF Look, Queued, TypeOK
  <2>3. number[q] \in Numbers /\ file'[number[q]] = q
    BY <2>1 DEF Look, Swept, Queued, TypeOK
  <2>4. fresh'[q] BY <2>1 DEF Look, Queued, TypeOK
  <2> QED BY <2>1, <2>2, <2>3, <2>4 DEF Look, Queued
<1>9. NobodyBefore'
  <2>1. CASE Live(p) = {}
    <3>1. ~torn => before[p] = {}
      <4> SUFFICES ASSUME ~torn, NEW q \in before[p] PROVE FALSE OBVIOUS
      <4>1. q \in Proc /\ Queued(q) /\ (number[p] # None => number[q] < number[p])
        BY DEF BeforeAhead, TypeOK
      <4>2. number[q] \in Live(p) BY <4>1 DEF Live, Queued, TypeOK
      <4> QED BY <2>1, <4>2
    <3> QED BY <3>1 DEF Look, NobodyBefore, TypeOK
  <2>2. CASE Live(p) # {} BY <2>2 DEF Look, NobodyBefore, TypeOK
  <2> QED BY <2>1, <2>2
<1> QED BY <1>1, <1>2, <1>3, <1>4, <1>5, <1>6, <1>7, <1>8, <1>9

\* Trying the lock keeps it, and removes only one's own ticket.
LEMMA TryKeeps ==
  ASSUME LInv, NEW p \in Proc, Try(p)
  PROVE  LInv'
<1> USE FileLockAssumption DEF LInv
<1>0. \/ /\ Grantable(mode[p])
         /\ pc' = [pc EXCEPT ![p] = "hold"] /\ file' = Left(p)
         /\ number' = [number EXCEPT ![p] = None] /\ fresh' = [fresh EXCEPT ![p] = FALSE]
         /\ before' = Forget(p)
      \/ /\ pc' = [pc EXCEPT ![p] = "waiting"]
         /\ UNCHANGED <<file, number, fresh, before>>
  BY DEF Try
<1>1. TypeOK'
  <2>1. file' \in [Numbers -> Proc \cup {None, Dead}] BY <1>0 DEF Left, TypeOK
  <2>2. before' \in [Proc -> SUBSET Proc] BY <1>0 DEF Forget, TypeOK
  <2>3. number' \in [Proc -> Numbers \cup {None}] BY <1>0 DEF TypeOK
  <2>4. pc' \in [Proc -> Steps] BY <1>0 DEF TypeOK, Steps
  <2>5. fresh' \in [Proc -> BOOLEAN] BY <1>0 DEF TypeOK
  <2> QED BY <2>1, <2>2, <2>3, <2>4, <2>5 DEF Try, TypeOK
<1>2. LatchHeld' BY DEF Try, LatchHeld, TypeOK
<1>3. Numbered' BY DEF Try, Numbered, TypeOK
<1>4. NoStrayTicket' BY DEF Try, Left, Forget, NoStrayTicket, Numbered, TypeOK, Numbers
<1>5. TicketsApart' BY DEF Try, TicketsApart, CounterAhead, LatchHeld, TypeOK, Numbers
<1>6. CounterAhead' BY DEF Try, CounterAhead, LatchHeld, TypeOK, Numbers
<1>7. Placed' BY DEF Try, Left, Forget, Placed, TicketsApart, NoStrayTicket, Numbered, TypeOK, Numbers
<1>8. BeforeAhead'
  <2> SUFFICES ASSUME ~torn, NEW r \in Proc, NEW q \in before'[r]
               PROVE  Queued(q)' /\ (number'[r] # None => number'[q] < number'[r])
    BY DEF Try, BeforeAhead
  <2>1. q \in before[r] BY <1>0 DEF Forget, TypeOK
  <2>2. q \in Proc /\ Queued(q) /\ (number[r] # None => number[q] < number[r])
    BY <2>1 DEF BeforeAhead, TypeOK
  <2>3. CASE /\ pc' = [pc EXCEPT ![p] = "waiting"]
             /\ UNCHANGED <<file, number, fresh, before>>
    BY <2>2, <2>3 DEF Queued, TypeOK
  <2>4. CASE /\ pc' = [pc EXCEPT ![p] = "hold"] /\ file' = Left(p)
             /\ number' = [number EXCEPT ![p] = None] /\ fresh' = [fresh EXCEPT ![p] = FALSE]
             /\ before' = Forget(p)
    <3>1. q # p BY <2>4 DEF Forget, TypeOK
    <3>2. number[q] # number[p] /\ number[q] \in Numbers
      BY <2>2, <3>1 DEF TicketsApart, Queued, TypeOK
    <3> QED BY <2>2, <2>4, <3>1, <3>2 DEF Left, Queued, TypeOK
  <2> QED BY <1>0, <2>3, <2>4
<1>9. NobodyBefore'
  <2>1. pc[p] = "turn" BY DEF Try
  <2>2. CASE before' = before BY <1>0, <2>1, <2>2 DEF Try, NobodyBefore, TypeOK
  <2>3. CASE before' = Forget(p)
    BY <1>0, <2>1, <2>3 DEF Try, Forget, NobodyBefore, TypeOK
  <2> QED BY <1>0, <2>2, <2>3
<1> QED BY <1>1, <1>2, <1>3, <1>4, <1>5, <1>6, <1>7, <1>8, <1>9

\* Running out of patience keeps it.
LEMMA GiveUpKeeps ==
  ASSUME LInv, NEW p \in Proc, GiveUp(p)
  PROVE  LInv'
<1> USE FileLockAssumption DEF LInv
<1>1. TypeOK' BY DEF GiveUp, Left, Forget, TypeOK, Numbers, Steps
<1>2. LatchHeld' BY DEF GiveUp, LatchHeld, TypeOK
<1>3. Numbered' BY DEF GiveUp, Numbered, TypeOK
<1>4. NoStrayTicket' BY DEF GiveUp, Left, Forget, NoStrayTicket, Numbered, TypeOK, Numbers
<1>5. TicketsApart' BY DEF GiveUp, TicketsApart, CounterAhead, LatchHeld, TypeOK, Numbers
<1>6. CounterAhead' BY DEF GiveUp, CounterAhead, LatchHeld, TypeOK, Numbers
<1>7. Placed' BY DEF GiveUp, Left, Forget, Placed, TicketsApart, NoStrayTicket, Numbered, TypeOK, Numbers
<1>8. BeforeAhead' BY DEF GiveUp, Left, Forget, BeforeAhead, Queued, TicketsApart, Numbered, TypeOK, Numbers
<1>9. NobodyBefore' BY DEF GiveUp, Left, Forget, NobodyBefore, BeforeAhead, Queued, TypeOK
<1> QED BY <1>1, <1>2, <1>3, <1>4, <1>5, <1>6, <1>7, <1>8, <1>9

\* Giving the lock back keeps it.
LEMMA ReleaseKeeps ==
  ASSUME LInv, NEW p \in Proc, Release(p)
  PROVE  LInv'
<1> USE FileLockAssumption DEF LInv
<1>1. TypeOK' BY DEF Release, TypeOK, Numbers, Steps
<1>2. LatchHeld' BY DEF Release, LatchHeld, TypeOK
<1>3. Numbered' BY DEF Release, Numbered, TypeOK
<1>4. NoStrayTicket' BY DEF Release, NoStrayTicket, Numbered, TypeOK, Numbers
<1>5. TicketsApart' BY DEF Release, TicketsApart, CounterAhead, LatchHeld, TypeOK, Numbers
<1>6. CounterAhead' BY DEF Release, CounterAhead, LatchHeld, TypeOK, Numbers
<1>7. Placed' BY DEF Release, Placed, TicketsApart, NoStrayTicket, Numbered, TypeOK, Numbers
<1>8. BeforeAhead' BY DEF Release, BeforeAhead, Queued, TicketsApart, Numbered, TypeOK, Numbers
<1>9. NobodyBefore' BY DEF Release, NobodyBefore, BeforeAhead, Queued, TypeOK
<1> QED BY <1>1, <1>2, <1>3, <1>4, <1>5, <1>6, <1>7, <1>8, <1>9

\* A process that is stopped for long keeps it.
LEMMA StallKeeps ==
  ASSUME LInv, NEW p \in Proc, Stall(p)
  PROVE  LInv'
<1> USE FileLockAssumption DEF LInv
<1>1. TypeOK' BY DEF Stall, Passed, TypeOK, Numbers, Steps
<1>2. LatchHeld' BY DEF Stall, LatchHeld, TypeOK
<1>3. Numbered' BY DEF Stall, Numbered, TypeOK
<1>4. NoStrayTicket' BY DEF Stall, Passed, NoStrayTicket, Numbered, TypeOK, Numbers
<1>5. TicketsApart' BY DEF Stall, TicketsApart, CounterAhead, LatchHeld, TypeOK, Numbers
<1>6. CounterAhead' BY DEF Stall, CounterAhead, LatchHeld, TypeOK, Numbers
<1>7. Placed' BY DEF Stall, Passed, Placed, TicketsApart, NoStrayTicket, Numbered, TypeOK, Numbers
<1>8. BeforeAhead' BY DEF Stall, Passed, BeforeAhead, Queued, TicketsApart, Numbered, TypeOK, Numbers
<1>9. NobodyBefore' BY DEF Stall, Passed, NobodyBefore, BeforeAhead, Queued, TypeOK
<1> QED BY <1>1, <1>2, <1>3, <1>4, <1>5, <1>6, <1>7, <1>8, <1>9

\* A crash at any point keeps it: the ticket left behind is held by nobody.
LEMMA CrashKeeps ==
  ASSUME LInv, NEW p \in Proc, Crash(p)
  PROVE  LInv'
<1> USE FileLockAssumption DEF LInv
<1>1. TypeOK' BY DEF Crash, Forget, TypeOK, Numbers, Steps
<1>2. LatchHeld' BY DEF Crash, LatchHeld, TypeOK
<1>3. Numbered' BY DEF Crash, Numbered, TypeOK
<1>4. NoStrayTicket' BY DEF Crash, Forget, NoStrayTicket, Numbered, TypeOK, Numbers
<1>5. TicketsApart' BY DEF Crash, TicketsApart, CounterAhead, LatchHeld, TypeOK, Numbers
<1>6. CounterAhead' BY DEF Crash, CounterAhead, LatchHeld, TypeOK, Numbers
<1>7. Placed' BY DEF Crash, Forget, Placed, TicketsApart, NoStrayTicket, Numbered, TypeOK, Numbers
<1>8. BeforeAhead' BY DEF Crash, Forget, BeforeAhead, Queued, TicketsApart, Numbered, TypeOK, Numbers
<1>9. NobodyBefore' BY DEF Crash, Forget, NobodyBefore, BeforeAhead, Queued, TypeOK
<1> QED BY <1>1, <1>2, <1>3, <1>4, <1>5, <1>6, <1>7, <1>8, <1>9

\* The invariant is inductive.
LEMMA NextKeeps == LInv /\ [Next]_vars => LInv'
<1> SUFFICES ASSUME LInv, [Next]_vars PROVE LInv' OBVIOUS
<1>1. CASE UNCHANGED vars
  BY <1>1 DEF vars, LInv, TypeOK, LatchHeld, Numbered, NoStrayTicket, TicketsApart,
              CounterAhead, Placed, BeforeAhead, NobodyBefore, Queued
<1>2. ASSUME NEW p \in Proc, Take(p) \/ Stall(p) \/ Crash(p) PROVE LInv'
  BY <1>2, AskKeeps, ReopenKeeps, QuickKeeps, ReadNumberKeeps, WriteNumberKeeps, PlaceTicketKeeps,
     JoinFailsKeeps, LookKeeps, TryKeeps, GiveUpKeeps, ReleaseKeeps, StallKeeps, CrashKeeps
  DEF Take
<1> QED BY <1>1, <1>2 DEF Next

\* The invariant holds of every reachable state of the queue.
LEMMA LockInvariance == Spec => []LInv
BY InitLInv, NextKeeps, PTL DEF Spec

\* Every reachable state of the queue has the types the module says.
THEOREM LockTypeCorrect == Spec => []TypeOK
<1>1. LInv => TypeOK BY DEF LInv
<1> QED BY <1>1, LockInvariance, PTL

\* Nobody gets the lock while somebody who was queued when they asked, and has kept polling
\* ever since, still waits, as long as the counter was never lost.
THEOREM LockIsFirstCome == Spec => []FirstCome
<1>1. LInv => FirstCome BY DEF LInv, NobodyBefore, FirstCome
<1> QED BY <1>1, LockInvariance, PTL

\* With the same exception, no two processes ever hold the same ticket number.
THEOREM LockTicketsApart == Spec => []TicketsApart
<1>1. LInv => TicketsApart BY DEF LInv
<1> QED BY <1>1, LockInvariance, PTL

\* A ticket file under a running process is always that process's own place in the queue,
\* even after the counter was lost.
THEOREM LockLeavesNoTicket == Spec => []NoStrayTicket
<1>1. LInv => NoStrayTicket BY DEF LInv
<1> QED BY <1>1, LockInvariance, PTL
=============================================================================
