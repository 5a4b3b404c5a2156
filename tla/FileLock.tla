------------------------------ MODULE FileLock ------------------------------
(***************************************************************************)
(* lock.rs: the advisory lock beside a board or settings file, and the     *)
(* queue of ticket files that makes it first come, first served.           *)
(*                                                                         *)
(* take() never blocks in the kernel: it looks at the queue, and tries the *)
(* flock, again and again.  Looking and trying are different moments, and  *)
(* so are the three writes of join_queue, so each is an action here.  A    *)
(* process may crash at any of them (the kernel then drops its flocks and  *)
(* its files stay), be stopped for so long that its ticket is passed over, *)
(* or run out of patience.                                                 *)
(***************************************************************************)
EXTENDS Naturals, FiniteSets

CONSTANTS
  Proc,        \* processes that take the lock, one thread each
  None,        \* no process, no ticket
  Dead,        \* the holder of a ticket file whose process is gone
  MaxTicket,   \* bound: ticket numbers handed out
  Frail,       \* the processes that may crash, or fail to write in the queue
  Sleepy,      \* the processes whose ticket may go untouched past TICKET_FRESH
  Hasty,       \* the processes whose wait may run out
  Nested,      \* the processes that take the lock again while they hold it shared
  Sitting      \* the processes that may keep a shared lock as long as a person likes

ASSUME FileLockAssumption ==
  /\ None \notin Proc /\ Dead \notin Proc /\ None # Dead
  /\ MaxTicket \in Nat /\ None \notin Nat
  /\ Frail \subseteq Proc /\ Sleepy \subseteq Proc /\ Hasty \subseteq Proc
  /\ Nested \subseteq Proc /\ Sitting \subseteq Proc

VARIABLES
  pc,       \* where take() stands in each process
  kept,     \* the processes that hold a shared lock already while they take another
  mode,     \* the mode it takes the lock in
  number,   \* its ticket number, or None
  file,     \* file[n]: whose flock the ticket file named n is under, Dead, or None (no file)
  counter,  \* the number in the file `next'; 0 also stands for its text cut to nothing
  latch,    \* who holds the flock on `next'
  fresh,    \* fresh[p]: p touched its ticket less than TICKET_FRESH ago
  torn,     \* history: a process died, or failed, between cutting `next' and writing it again
  before    \* history: before[p]: who was queued when p asked, and still is, polling all along

vars == <<pc, kept, mode, number, file, counter, latch, fresh, torn, before>>

Numbers == 0..(MaxTicket - 1)
Steps == {"idle", "quick", "joining", "numbering", "counted", "waiting", "turn", "hold"}

TypeOK ==
  /\ pc \in [Proc -> Steps]
  /\ kept \subseteq Nested
  /\ mode \in [Proc -> {"shared", "exclusive"}]
  /\ number \in [Proc -> Numbers \cup {None}]
  /\ file \in [Numbers -> Proc \cup {None, Dead}]
  /\ counter \in 0..MaxTicket
  /\ latch \in Proc \cup {None}
  /\ fresh \in [Proc -> BOOLEAN]
  /\ torn \in BOOLEAN
  /\ before \in [Proc -> SUBSET Proc]

Init ==
  /\ pc = [p \in Proc |-> "idle"]
  /\ kept = {}
  /\ mode = [p \in Proc |-> "shared"]
  /\ number = [p \in Proc |-> None]
  /\ file = [n \in Numbers |-> None]
  /\ counter = 0
  /\ latch = None
  /\ fresh = [p \in Proc |-> FALSE]
  /\ torn = FALSE
  /\ before = [p \in Proc |-> {}]

-----------------------------------------------------------------------------
(* flock, as the kernel grants it (external)                               *)

Holders == {p \in Proc : pc[p] = "hold"}
Grantable(m) == IF m = "shared" THEN \A q \in Holders : mode[q] = "shared"
                ELSE Holders \cup kept = {}

-----------------------------------------------------------------------------
(* The queue                                                               *)

LiveTicketed(p) == {n \in Numbers : file[n] \in Proc /\ fresh[file[n]]
                                     /\ number[p] # None /\ n < number[p]}

\* live_tickets(queue, before): held and touched lately, and before my own, if I have one.
Live(p) == {n \in Numbers : /\ file[n] \in Proc /\ fresh[file[n]]
                            /\ number[p] # None => n < number[p]}

\* Looking removes the tickets of the dead on the way.
Swept(p) == [n \in Numbers |-> IF file[n] = Dead /\ (number[p] # None => n < number[p])
                               THEN None ELSE file[n]]

\* A ticket is removed by its name, whoever's file that name is by now.
LeftBehind(p) == file
Left(p) == [n \in Numbers |-> IF n = number[p] THEN None ELSE file[n]]

Queued(p) == /\ pc[p] \in {"waiting", "turn"} /\ number[p] # None
             /\ file[number[p]] = p /\ fresh[p]

\* History: p holds no place any more, or is not in the queue at all.
Passed(p) == [q \in Proc |-> before[q] \ {p}]
Forget(p) == [q \in Proc |-> IF q = p THEN {} ELSE before[q] \ {p}]

-----------------------------------------------------------------------------
(* take()                                                                  *)

\* The uncontended take looks for any live ticket first.
Enter(p) ==
  /\ pc' = [pc EXCEPT ![p] = IF Live(p) = {} THEN "quick" ELSE "joining"]
  /\ file' = Swept(p)
  /\ before' = [before EXCEPT ![p] = {q \in Proc : Queued(q)}]
  /\ UNCHANGED <<number, counter, latch, fresh, torn>>

Ask(p) ==
  /\ pc[p] = "idle"
  /\ \E m \in {"shared", "exclusive"} : mode' = [mode EXCEPT ![p] = m]
  /\ Enter(p)
  /\ UNCHANGED kept

\* open_if_exists has the lock, finds the board there, and open takes the lock again.
Reopen(p) ==
  /\ pc[p] = "hold" /\ mode[p] = "shared" /\ p \in Nested \ kept
  /\ kept' = kept \cup {p}
  /\ Enter(p)
  /\ UNCHANGED mode

\* A take with no time to wait gives up here.
Quick(p) ==
  /\ pc[p] = "quick"
  /\ \/ Grantable(mode[p]) /\ pc' = [pc EXCEPT ![p] = "hold"]
     \/ ~Grantable(mode[p]) /\ pc' = [pc EXCEPT ![p] = "joining"]
     \/ ~Grantable(mode[p]) /\ p \in Hasty /\ pc' = [pc EXCEPT ![p] = "idle"]
  /\ UNCHANGED <<kept, mode, number, file, counter, latch, fresh, torn, before>>

ReadUnlocked(p) ==
  /\ pc[p] = "joining" /\ counter < MaxTicket
  /\ pc' = [pc EXCEPT ![p] = "numbering"]
  /\ latch' = p
  /\ number' = [number EXCEPT ![p] = counter]
  /\ counter' = 0
  /\ UNCHANGED <<kept, mode, file, fresh, torn, before>>

\* join_queue, under the counter's own lock: read the number and cut the file,
ReadNumber(p) ==
  /\ pc[p] = "joining" /\ latch = None /\ counter < MaxTicket
  /\ pc' = [pc EXCEPT ![p] = "numbering"]
  /\ latch' = p
  /\ number' = [number EXCEPT ![p] = counter]
  /\ counter' = 0
  /\ UNCHANGED <<kept, mode, file, fresh, torn, before>>

\* write the next one,
WriteNumber(p) ==
  /\ pc[p] = "numbering"
  /\ pc' = [pc EXCEPT ![p] = "counted"]
  /\ counter' = number[p] + 1
  /\ UNCHANGED <<kept, mode, number, file, latch, fresh, torn, before>>

\* and rename the ticket, created and held under a private name, to its number.
PlaceTicket(p) ==
  /\ pc[p] = "counted"
  /\ pc' = [pc EXCEPT ![p] = "waiting"]
  /\ file' = [file EXCEPT ![number[p]] = p]
  /\ fresh' = [fresh EXCEPT ![p] = TRUE]
  /\ latch' = None
  /\ UNCHANGED <<kept, mode, number, counter, torn, before>>

\* No ticket: the counter stayed taken until the deadline (or has reached MaxTicket), or a
\* write or the rename failed.  The process waits on without one.
JoinFails(p) ==
  /\ \/ pc[p] = "joining" /\ ((latch # None /\ p \in Hasty) \/ counter = MaxTicket)
     \/ pc[p] \in {"numbering", "counted"} /\ p \in Frail
  /\ pc' = [pc EXCEPT ![p] = "waiting"]
  /\ number' = [number EXCEPT ![p] = None]
  /\ latch' = IF latch = p THEN None ELSE latch
  /\ torn' = (torn \/ pc[p] = "numbering")
  /\ UNCHANGED <<kept, mode, file, counter, fresh, before>>

\* One poll: touch the ticket, look who is ahead,
Look(p) ==
  /\ pc[p] = "waiting"
  /\ fresh' = [fresh EXCEPT ![p] = number[p] # None]
  /\ pc' = [pc EXCEPT ![p] = IF Live(p) = {} THEN "turn" ELSE "waiting"]
  /\ file' = Swept(p)
  /\ UNCHANGED <<kept, mode, number, counter, latch, torn, before>>

\* and try the lock if nobody is.
Try(p) ==
  /\ pc[p] = "turn"
  /\ IF Grantable(mode[p])
     THEN /\ pc' = [pc EXCEPT ![p] = "hold"]
          /\ file' = Left(p)
          /\ number' = [number EXCEPT ![p] = None]
          /\ fresh' = [fresh EXCEPT ![p] = FALSE]
          /\ before' = Forget(p)
     ELSE pc' = [pc EXCEPT ![p] = "waiting"] /\ UNCHANGED <<file, number, fresh, before>>
  /\ UNCHANGED <<kept, mode, counter, latch, torn>>

GiveUp(p) ==
  /\ pc[p] = "waiting" /\ p \in Hasty
  /\ pc' = [pc EXCEPT ![p] = "idle"]
  /\ kept' = kept \ {p}
  /\ file' = Left(p)
  /\ number' = [number EXCEPT ![p] = None]
  /\ fresh' = [fresh EXCEPT ![p] = FALSE]
  /\ before' = Forget(p)
  /\ UNCHANGED <<mode, counter, latch, torn>>

Release(p) ==
  /\ pc[p] = "hold"
  /\ pc' = [pc EXCEPT ![p] = "idle"]
  /\ kept' = kept \ {p}
  /\ UNCHANGED <<mode, number, file, counter, latch, fresh, torn, before>>

-----------------------------------------------------------------------------
(* What may happen to a process                                            *)

Stall(p) ==
  /\ p \in Sleepy /\ pc[p] \in {"waiting", "turn"} /\ fresh[p]
  /\ fresh' = [fresh EXCEPT ![p] = FALSE]
  /\ before' = Passed(p)
  /\ UNCHANGED <<pc, kept, mode, number, file, counter, latch, torn>>

Crash(p) ==
  /\ p \in Frail /\ pc[p] # "idle"
  /\ pc' = [pc EXCEPT ![p] = "idle"]
  /\ kept' = kept \ {p}
  /\ number' = [number EXCEPT ![p] = None]
  /\ file' = [n \in Numbers |-> IF file[n] = p THEN Dead ELSE file[n]]
  /\ fresh' = [fresh EXCEPT ![p] = FALSE]
  /\ latch' = IF latch = p THEN None ELSE latch
  /\ torn' = (torn \/ pc[p] = "numbering")
  /\ before' = Forget(p)
  /\ UNCHANGED <<mode, counter>>

Take(p) == \/ Ask(p) \/ Reopen(p) \/ Quick(p) \/ ReadNumber(p) \/ WriteNumber(p) \/ PlaceTicket(p)
           \/ JoinFails(p) \/ Look(p) \/ Try(p) \/ GiveUp(p) \/ Release(p)

Next == \E p \in Proc : Take(p) \/ Stall(p) \/ Crash(p)

\* A process that is inside take() goes on running: it polls every few milliseconds.  A wait
\* that can run out does, as the deadline is looked at in every turn of the loop.  Who has
\* the lock gives it back, except that a board open on a screen stays open.  Nothing is
\* assumed about asking, stalling or crashing.
Fairness ==
  \A p \in Proc :
    /\ WF_vars(Quick(p) \/ ReadNumber(p) \/ WriteNumber(p) \/ PlaceTicket(p)
               \/ (pc[p] = "joining" /\ JoinFails(p)) \/ Look(p) \/ Try(p))
    /\ WF_vars(Release(p) /\ (mode[p] = "shared" => p \notin Sitting))
    /\ p \in Hasty => SF_vars(GiveUp(p))

Spec == Init /\ [][Next]_vars
FairSpec == Spec /\ Fairness

-----------------------------------------------------------------------------
(* Properties                                                              *)

\* First come, first served: nobody gets the lock while somebody who was already queued when
\* they asked, and has kept polling ever since, still waits - unless a crash or a failed
\* write lost the counter.
FirstCome == ~torn => \A p \in Proc : pc[p] = "hold" => before[p] = {}

\* Two waiters never share a ticket number, so removing one's ticket by name never takes the
\* place of another in the queue (with the same exception).
TicketsApart ==
  ~torn => \A p, q \in Proc : p # q /\ number[p] # None => number[p] # number[q]

\* A ticket file under a running process is that process's own place in the queue: a taker
\* that got the lock, gave up or died leaves no file behind that others would wait for.
NoStrayTicket ==
  \A n \in Numbers : file[n] \in Proc =>
    number[file[n]] = n /\ pc[file[n]] \in {"waiting", "turn"}

KeptOpen == \E p \in Sitting : pc[p] = "hold" /\ mode[p] = "shared"

\* A queued process that stays alive, keeps polling and has the patience gets the lock,
\* however often others come back for it ("no waiter can lose the race for the lock again
\* and again") - unless the counter was lost, or it wants to move a board that somebody
\* keeps open.  Who only wants to open that board is not held up for ever by a waiting move.
Served ==
  \A p \in Proc \ (Frail \cup Sleepy \cup Hasty) :
    pc[p] = "waiting" /\ number[p] # None
      ~> pc[p] = "hold" \/ torn \/ (mode[p] = "exclusive" /\ KeptOpen)

\* store.rs:1649: a process that has the lock shared takes it again without a second wait.
\* Does not hold: README, known disagreements.
ReopensAtOnce == \A p \in kept : pc[p] \in {"quick", "hold"}
=============================================================================
