------------------------------- MODULE Board -------------------------------
(***************************************************************************)
(* One board file of terminal-board and the `tb' processes that work it.   *)
(*                                                                         *)
(* Every column change of a card goes through Store::transition, and that  *)
(* function reads the board several times OUTSIDE its write transaction:   *)
(* the card the pre-change hook is asked about, the column `tb done' finds *)
(* the card in, whether a review claim's owner is alive, whether a card to *)
(* wait for is finished, whether a holder is dead.  The write transaction  *)
(* (BEGIN IMMEDIATE) comes later and other processes commit in between.    *)
(* So a command is three steps here:                                       *)
(*    Begin(p)   the reads before any lock, and their refusals;            *)
(*    Probe(p)   the liveness question about the claimant;                 *)
(*    Finish(p)  the transaction: the guards again, the change, its events.*)
(* Abort(p) is every other end of a command: a guard or a hook refuses,    *)
(* the busy timeout fires, the process is killed.  It writes nothing.      *)
(*                                                                         *)
(* The event log is kept as what the rules read back from it (`past').     *)
(* Card order is not kept: `tb prio' can put any card first at any time,   *)
(* so `tb next' takes any card it would consider (see CardOrder in the     *)
(* README's plan).                                                         *)
(***************************************************************************)
EXTENDS Integers, FiniteSets

CONSTANTS
  Card,        \* card ids
  Name,        \* names people and agents act under (--as, TB_AS)
  Session,     \* harness session ids
  Proc,        \* tb processes that may be running
  None,        \* SQL NULL: nobody, no card, nothing read
  Github,      \* the actor name of tb's own GitHub sync
  Who,         \* Who[p]: the identity process p runs under (actors::Identity)
  Menu,        \* Menu[p]: the commands process p may be given
  Config,      \* the board's settings
  Mortal,      \* the names whose session may die and be relaunched
  MaxOpen,     \* bound: commands under way at once
  MaxReturns   \* bound: send-backs counted per card

Column == {"todo", "doing", "review", "done"}
MaybeName == Name \cup {None}
Actor == Name \cup {Github}
MaybeActor == Actor \cup {None}

Identity == [name : Name, agent : BOOLEAN, verifier : BOOLEAN, lead : BOOLEAN,
             registered : BOOLEAN, session : Session \cup {None}, scrubbed : BOOLEAN]

Settings == [wip : Nat, countsBlocked : BOOLEAN, perOwner : Nat, maxRounds : Nat,
             verifierOnly : BOOLEAN, verifiers : SUBSET Name, doneBy : SUBSET Name,
             needsNote : BOOLEAN, needsLink : BOOLEAN, hook : BOOLEAN,
             actors : SUBSET Name, archive : BOOLEAN]

\* A command line.  `to' is a column for move, `name' the assignee for assign,
\* `on' the card of `block --on', `why' whether a reason was given.
Transitions == {"next", "take", "assign", "drop", "release", "move", "done", "sync"}
Stepped == Transitions \cup {"claim", "block", "unblock"}
Kinds == Stepped \cup {"nextreview", "note", "link", "rm", "restore", "add"}
Ask == [kind : Kinds, card : Card \cup {None}, to : Column \cup {None}, name : MaybeName,
        on : Card \cup {None}, force : BOOLEAN, why : BOOLEAN, glass : BOOLEAN]

ASSUME NamesAssumption == None \notin Name /\ Github \notin Name /\ Github # None
ASSUME ValuesAssumption == None \notin Card /\ None \notin Session /\ None \notin Column
ASSUME WhoAssumption == Who \in [Proc -> Identity]
ASSUME ConfigAssumption == Config \in Settings /\ Config.wip >= 1
ASSUME MenuAssumption ==
  /\ Menu \in [Proc -> SUBSET Ask]
  /\ \A p \in Proc : \A a \in Menu[p] : /\ a.kind \in Stepped \ {"next"} => a.card \in Card
                                        /\ a.kind = "sync" => a.to = "review" /\ ~a.force /\ ~a.why
                                        /\ a.kind \in {"move", "sync"} => a.to \in Column
                                        /\ a.kind = "assign" => a.name \in Name
                                        /\ a.on # None => a.on # a.card
ASSUME BoundsAssumption == MaxReturns \in Nat /\ MaxOpen \in Nat /\ Mortal \subseteq Name

VARIABLES
  shelf,   \* shelf[c]: "new" (not created yet), "board", "archive" or "gone"
  card,    \* card[c]: the row of table cards
  past,    \* past[c]: what the rules read back from the card's events
  stay,    \* stay[c]: history no rule reads: how its last stay in DOING began and who
           \* did that work, and whether a note was written since it last changed column
  alive,   \* alive[n]: some liveness probe vouches for the name n
  op       \* op[p]: what process p has read for the command it runs, or None

vars == <<shelf, card, past, stay, alive, op>>

CardRow == [col : Column, owner : MaybeName, reviewer : MaybeName, blocked : BOOLEAN,
            on : Card \cup {None}]
Past == [holder : MaybeName, mover : MaybeActor, worker : MaybeActor,
         builders : SUBSET Session, returns : 0..MaxReturns, noted : BOOLEAN, linked : BOOLEAN]
Stay == [via : {"never", "taken", "given", "moved", "reopened", "back", "restored"},
         doer : MaybeName, fresh : BOOLEAN]
Snapshot == [card : Card, col : Column, owner : MaybeName]
Command == [ask : Ask, as : Actor, to : Column \cup {None}, snap : Snapshot \cup {None},
            probe : {"pending", "none", "alive", "dead"}, seen : MaybeName]
\* `seen' is the name a liveness probe was asked about: the claimant, or release's holder.

TypeOK ==
  /\ shelf \in [Card -> {"new", "board", "archive", "gone"}]
  /\ card \in [Card -> CardRow]
  /\ past \in [Card -> Past]
  /\ stay \in [Card -> Stay]
  /\ alive \in [Name -> BOOLEAN]
  /\ op \in [Proc -> Command \cup {None}]

NewRow == [col |-> "todo", owner |-> None, reviewer |-> None, blocked |-> FALSE, on |-> None]
NewPast == [holder |-> None, mover |-> None, worker |-> None, builders |-> {},
            returns |-> 0, noted |-> FALSE, linked |-> FALSE]
NewStay == [via |-> "never", doer |-> None, fresh |-> FALSE]

Init ==
  /\ shelf = [c \in Card |-> "new"]
  /\ card = [c \in Card |-> NewRow]
  /\ past = [c \in Card |-> NewPast]
  /\ stay = [c \in Card |-> NewStay]
  /\ alive = [n \in Name |-> TRUE]
  /\ op = [p \in Proc |-> None]

OnBoard(c) == c \in Card /\ shelf[c] = "board"
In(col) == {c \in Card : shelf[c] = "board" /\ card[c].col = col}

-----------------------------------------------------------------------------
(* Who an actor is                                                         *)

Known(n) == Config.actors = {} \/ n = Github \/ n \in Config.actors

\* The env says person, the kernel's parent chain says agent.
AgentAsPerson(p, as) == ~Who[p].agent /\ as # Github /\ Who[p].scrubbed

MayVerify(p, as) ==
  ~Config.verifierOnly \/ ~Who[p].agent \/ Who[p].verifier \/ as \in Config.verifiers

\* The registry entry of the session names the actor and its harness.
Registered(p, as) == Config.verifierOnly => Who[p].registered /\ as = Who[p].name

MayForceAnyAgent(p, as) == ~AgentAsPerson(p, as)

MayForce(p, as) == ~AgentAsPerson(p, as) /\ (Who[p].agent => Registered(p, as))

\* A move into review by a verifier is checking the work, not doing it.
MovesAsVerifier(p, as) == Who[p].verifier \/ as \in Config.verifiers

Author(c) ==
  IF card[c].owner # None THEN card[c].owner
  ELSE LET mover == IF past[c].worker # None THEN past[c].worker ELSE past[c].mover
       IN  IF mover = Github THEN None ELSE mover

Escalated(c) ==
  Config.maxRounds > 0 /\ card[c].col # "done" /\ past[c].returns > Config.maxRounds

-----------------------------------------------------------------------------
(* Step 1: what a command reads before it takes the write lock             *)

ActsAs(p, a) == IF a.kind = "sync" THEN Github ELSE Who[p].name

Queue == {c \in In("todo") : ~card[c].blocked /\ ~Escalated(c)}

HeldByOther(c, as) == card[c].col = "doing" /\ as # Github /\ card[c].owner \notin {None, as}

\* done_opts picks the column by where it finds the card.
Goal(a) ==
  CASE a.kind \in {"next", "take", "assign"} -> "doing"
    [] a.kind \in {"drop", "release"}        -> "todo"
    [] a.kind \in {"move", "sync"}           -> a.to
    [] a.kind = "done" -> IF card[a.card].col = "doing" THEN "review" ELSE "done"
    [] OTHER -> None

\* GitHub evidence: merged or closed (any column but review and done, and never a
\* sent-back card in DOING), or an open pull request for a card somebody owns.
Evidence(c) ==
  \/ card[c].col \notin {"review", "done"} /\ ~(card[c].col = "doing" /\ past[c].returns > 0)
  \/ card[c].col \in {"todo", "doing"} /\ card[c].owner # None

MayRelease(p) == ~Who[p].agent \/ Who[p].lead

\* The refusals made on those reads.
Accepted(p, a) ==
  /\ a.glass => Config.hook
  /\ a.kind \in {"done", "block", "unblock", "release", "sync"} => OnBoard(a.card)
  /\ CASE a.kind = "done"    -> card[a.card].col # "done"
       [] a.kind = "sync"    -> Evidence(a.card)
       [] a.kind = "release" -> /\ card[a.card].col = "doing" /\ card[a.card].owner # None
                                /\ a.why /\ MayRelease(p) /\ ~alive[card[a.card].owner]
       [] a.kind \in {"block", "unblock"} ->
            /\ HeldByOther(a.card, Who[p].name) => a.force
            /\ a.kind = "block" /\ a.on # None => OnBoard(a.on) /\ card[a.on].col # "done"
       [] OTHER -> TRUE

\* The cards a pre-change hook may be shown: the selection the transaction makes again.
Shown(a) ==
  CASE a.kind = "next"               -> Queue
    [] a.kind \in {"take", "assign"} -> {c \in In("todo") : c = a.card}
    [] OTHER                         -> {c \in Card : OnBoard(c) /\ c = a.card}

Snapshots(a) ==
  IF ~Config.hook \/ a.kind \notin Transitions \ {"sync"} THEN {None}
  ELSE {IF a.glass THEN None ELSE [card |-> c, col |-> card[c].col, owner |-> card[c].owner] :
          c \in Shown(a)}

Begin(p) ==
  /\ op[p] = None
  /\ Cardinality({q \in Proc : op[q] # None}) < MaxOpen
  /\ \E a \in Menu[p] :
       /\ a.kind \in Stepped
       /\ Accepted(p, a)
       /\ \E snap \in Snapshots(a) :
            op' = [op EXCEPT ![p] =
                    [ask |-> a, as |-> ActsAs(p, a), to |-> Goal(a), snap |-> snap,
                     probe |-> IF a.kind \in {"move", "done", "claim"} THEN "pending" ELSE "none",
                     seen |-> IF a.kind = "release" THEN card[a.card].owner ELSE None]]
  /\ UNCHANGED <<shelf, card, past, stay, alive>>

-----------------------------------------------------------------------------
(* Step 2: is the claimant alive?  Asked after the hook, still outside the *)
(* transaction, and for a move only when it leaves REVIEW and the actor is *)
(* not the claimant.                                                       *)

Asks(o) ==
  LET c == o.ask.card IN
  /\ card[c].reviewer # None
  /\ o.ask.kind # "claim" => card[c].col = "review" /\ o.to # "review" /\ card[c].reviewer # o.as

Probe(p) ==
  /\ op[p] # None
  /\ op[p].probe = "pending"
  /\ OnBoard(op[p].ask.card)
  /\ LET r == card[op[p].ask.card].reviewer IN
     op' = IF Asks(op[p])
           THEN [op EXCEPT ![p].probe = IF alive[r] THEN "alive" ELSE "dead", ![p].seen = r]
           ELSE [op EXCEPT ![p].probe = "none"]
  /\ UNCHANGED <<shelf, card, past, stay, alive>>

-----------------------------------------------------------------------------
(* Step 3: the write transaction.  Everything is read again, except what   *)
(* steps 1 and 2 left in op[p].                                            *)

SendBack(o, c) == o.ask.kind = "move" /\ card[c].col = "review" /\ o.to = "doing"
FailToTodo(o, c) == o.ask.kind = "move" /\ card[c].col = "review" /\ o.to = "todo"
Moves(o) == o.ask.kind \in {"move", "done", "sync"}
Takes(o) == o.ask.kind \in {"next", "take"}
Closes(o, c) == o.to = "done" /\ card[c].col # "done"

ResolvedAnywhere(o) ==
  IF o.ask.kind = "next" THEN Queue ELSE {c \in Card : OnBoard(c) /\ c = o.ask.card}

\* The card the request resolves to now.
Resolved(o) ==
  CASE o.ask.kind = "next"               -> Queue
    [] o.ask.kind \in {"take", "assign"} -> {c \in In("todo") : c = o.ask.card}
    [] OTHER                             -> {c \in Card : OnBoard(c) /\ c = o.ask.card}

ApprovedAlike(o, c) == o.snap # None => card[c].col = o.snap.col /\ card[c].owner = o.snap.owner

\* A hook's yes was about one card in one column under one owner.
Approved(o, c) ==
  o.snap # None => c = o.snap.card /\ card[c].col = o.snap.col /\ card[c].owner = o.snap.owner

Reasoned(o, c) == /\ SendBack(o, c) => o.ask.why
                  /\ o.ask.kind = "move" /\ o.ask.why => SendBack(o, c) \/ FailToTodo(o, c)

StillHeld(o, c) == o.ask.kind = "release" => card[c].col = "doing" /\ card[c].owner = o.seen

\* A claim binds agents; a claimant the probe found dead binds nobody.
ClaimedByOther(p, o, c) ==
  Who[p].agent /\ card[c].reviewer \notin {None, o.as} /\ o.probe # "dead"

SendBackRule(p, o, c) == SendBack(o, c) \/ FailToTodo(o, c) => o.ask.force \/ ~ClaimedByOther(p, o, c)

HolderRule(o, c) == o.ask.kind # "release" /\ HeldByOther(c, o.as) => o.ask.force

OwnWorkNow(o, c) == Author(c) = o.as

OwnWork(o, c) == Author(c) = o.as \/ past[c].holder = o.as
SameSession(p, c) == Who[p].session # None /\ Who[p].session \in past[c].builders

\* done_checks, every guard on the way into DONE.
DoneChecks(p, o, c) ==
  /\ card[c].col = "review"
  /\ ~OwnWork(o, c)
  /\ MayVerify(p, o.as) /\ (Who[p].agent => Registered(p, o.as)) /\ ~AgentAsPerson(p, o.as)
  /\ ~SameSession(p, c)
  /\ Config.doneBy = {} \/ o.as \in Config.doneBy
  /\ Config.needsNote => past[c].noted
  /\ Config.needsLink => past[c].linked
  /\ ~ClaimedByOther(p, o, c)
  /\ Who[p].agent => card[c].reviewer # None

\* --force skips the list, and answers for itself.
CloseRule(p, o, c) ==
  Closes(o, c) => IF o.ask.force THEN MayForce(p, o.as) ELSE DoneChecks(p, o, c)

CountedFreely(S, limit) == Cardinality({c \in S : ~card[c].blocked})

\* Cards that count against a limit: blocked ones are discounted, up to the limit.
Counted(S, limit) ==
  LET waiting == Cardinality({c \in S : card[c].blocked \/ card[c].on # None})
  IN  IF Config.countsBlocked THEN Cardinality(S)
      ELSE Cardinality(S) - (IF waiting < limit THEN waiting ELSE limit)

HeldBy(n) == {c \in In("doing") : card[c].owner = n}

CapOfActor(o) == o.as

\* Whose cap a change is held against.
CapOf(o) == IF o.ask.kind = "assign" THEN o.ask.name ELSE o.as

Room(o, c) ==
  o.to = "doing" /\ ~SendBack(o, c) =>
    /\ Counted(In("doing"), Config.wip) < Config.wip
    /\ Config.perOwner > 0 => Counted(HeldBy(CapOf(o)), Config.perOwner) < Config.perOwner

NewOwnerKept(o, c) ==
  IF o.ask.kind = "assign" THEN o.ask.name
  ELSE IF Takes(o) \/ (o.to = "doing" /\ card[c].owner = None) THEN o.as ELSE card[c].owner
NewOwnerActor(o, c) ==
  IF o.ask.kind = "assign" THEN o.ask.name ELSE IF o.to = "todo" THEN None ELSE o.as

NewOwner(o, c) ==
  IF o.ask.kind = "assign" THEN o.ask.name
  ELSE IF Takes(o) \/ (o.to = "doing" /\ card[c].owner = None) THEN o.as
  ELSE IF o.to = "todo" THEN None ELSE card[c].owner

\* The row: a stale claim freed on the way into DONE is written back by the
\* UPDATE that follows, which takes the reviewer from the row read at the start.
Landed(o, c) ==
  [col |-> o.to,
   owner |-> NewOwner(o, c),
   reviewer |-> IF o.to = "done" THEN card[c].reviewer ELSE None,
   blocked |-> card[c].blocked /\ o.to # "done",
   on |-> card[c].on]

LiftedFromReview(o, c, d) == o.to = "done" /\ card[c].col = "review" /\ OnBoard(d) /\ card[d].on = c

\* blocks::on_done: cards of the board that waited for c wait no more.
Lifted(o, c, d) == Closes(o, c) /\ OnBoard(d) /\ card[d].on = c

NotedEntering(o, c) == ~Takes(o) /\ o.to # "todo" /\ past[c].noted

\* The event of the change, as the rules will read it back.
Noted(o, c) == ~Takes(o) /\ ~Moves(o) /\ o.ask.kind # "drop" /\ past[c].noted

Logged(p, o, c) ==
  LET toReview == Moves(o) /\ o.to = "review"
      checking == MovesAsVerifier(p, o.as)
      builds == Takes(o) \/ (toReview /\ ~checking)
      returned == (SendBack(o, c) \/ FailToTodo(o, c)) /\ o.ask.why
  IN [holder |-> IF Takes(o) \/ o.ask.kind = "assign" THEN NewOwner(o, c) ELSE past[c].holder,
      mover |-> IF toReview THEN o.as ELSE past[c].mover,
      worker |-> IF toReview /\ ~checking THEN o.as ELSE past[c].worker,
      builders |-> past[c].builders \cup (IF builds THEN {Who[p].session} \ {None} ELSE {}),
      returns |-> past[c].returns + (IF returned THEN 1 ELSE 0),
      noted |-> Noted(o, c),
      linked |-> past[c].linked]

Entered(o, c) ==
  IF o.ask.kind = "assign" THEN "given"
  ELSE IF Takes(o) THEN "taken"
  ELSE IF SendBack(o, c) THEN "back"
  ELSE IF card[c].owner # None THEN "reopened" ELSE "moved"

Stayed(o, c) ==
  IF o.to = "doing" THEN [via |-> Entered(o, c), doer |-> NewOwner(o, c), fresh |-> FALSE]
  ELSE [stay[c] EXCEPT !.fresh = FALSE]

Change(p, c) ==
  LET o == op[p] IN
  /\ o.ask.kind \in Transitions
  /\ c \in Resolved(o) /\ o.to # card[c].col
  /\ Approved(o, c)
  /\ Reasoned(o, c) /\ StillHeld(o, c)
  /\ SendBackRule(p, o, c) /\ HolderRule(o, c) /\ CloseRule(p, o, c) /\ Room(o, c)
  /\ (SendBack(o, c) \/ FailToTodo(o, c)) /\ o.ask.why => past[c].returns < MaxReturns
  /\ card' = [d \in Card |-> IF d = c THEN Landed(o, c)
                             ELSE IF Lifted(o, c, d) THEN [card[d] EXCEPT !.blocked = FALSE, !.on = None]
                             ELSE card[d]]
  /\ past' = [past EXCEPT ![c] = Logged(p, o, c)]
  /\ stay' = [stay EXCEPT ![c] = Stayed(o, c)]

\* A move of a REVIEW card to review frees its claim, whoever asks.
Unclaim(p, c) ==
  LET o == op[p] IN
  /\ Moves(o) /\ o.to = "review" /\ ~o.ask.why
  /\ c \in Resolved(o) /\ card[c].col = "review" /\ card[c].reviewer # None
  /\ Approved(o, c)
  /\ card' = [card EXCEPT ![c].reviewer = None]
  /\ UNCHANGED <<past, stay>>

TakableUnprobed(o, c) == card[c].reviewer # o.as /\ o.probe # "alive"

Takable(o, c) == card[c].reviewer = None \/ (card[c].reviewer # o.as /\ o.probe = "dead")

\* claim_review: the probe's answer frees whatever claim the transaction finds.
TakeClaim(p, c) ==
  LET o == op[p] IN
  /\ o.ask.kind = "claim"
  /\ c \in Resolved(o) /\ card[c].col = "review"
  /\ Author(c) # o.as
  /\ Takable(o, c)
  /\ card' = [card EXCEPT ![c].reviewer = o.as]
  /\ UNCHANGED <<past, stay>>

\* block_opts rewrites the block without looking at the card, or the other card, again.
SetBlock(p, c) ==
  LET o == op[p] IN
  /\ o.ask.kind \in {"block", "unblock"}
  /\ c \in Resolved(o)
  /\ card' = [card EXCEPT ![c].blocked = o.ask.kind = "block",
                          ![c].on = IF o.ask.kind = "block" THEN o.ask.on ELSE None]
  /\ UNCHANGED <<past, stay>>

Finish(p) ==
  /\ op[p] # None
  /\ op[p].probe # "pending"
  /\ Known(op[p].as)
  /\ \E c \in Card : Change(p, c) \/ Unclaim(p, c) \/ TakeClaim(p, c) \/ SetBlock(p, c)
  /\ op' = [op EXCEPT ![p] = None]
  /\ UNCHANGED <<shelf, alive>>

\* Refused, answered no by a hook, out of time, killed, or nothing to change.
Abort(p) ==
  /\ op[p] # None
  /\ op' = [op EXCEPT ![p] = None]
  /\ UNCHANGED <<shelf, card, past, stay, alive>>

-----------------------------------------------------------------------------
(* Commands that are one transaction                                       *)

Asked(p, kind, c) ==
  /\ op[p] = None /\ Known(Who[p].name)
  /\ \E a \in Menu[p] : a.kind = kind /\ a.card \in {c, None}

WaitingAny(n) == {c \in In("review") : card[c].reviewer = None}

\* The REVIEW cards the automatic claim considers for n.
Waiting(n) ==
  {c \in In("review") : ~card[c].blocked /\ card[c].reviewer = None /\ ~Escalated(c) /\ Author(c) # n}

\* tb next --review
NextReview(p, c) ==
  /\ Asked(p, "nextreview", c)
  /\ c \in Waiting(Who[p].name)
  /\ card' = [card EXCEPT ![c].reviewer = Who[p].name]
  /\ UNCHANGED <<shelf, past, stay, alive, op>>

Note(p, c) ==
  /\ Asked(p, "note", c) /\ OnBoard(c)
  /\ past' = [past EXCEPT ![c].noted = TRUE]
  /\ stay' = [stay EXCEPT ![c].fresh = TRUE]
  /\ UNCHANGED <<shelf, card, alive, op>>

\* tb link adds the label the board asks for, tb link --rm takes it away.
Link(p, c) ==
  /\ Asked(p, "link", c) /\ OnBoard(c)
  /\ past' = [past EXCEPT ![c].linked = ~@]
  /\ UNCHANGED <<shelf, card, stay, alive, op>>

RmGuard(p, c) ==
  IF Who[p].agent
  THEN card[c].col = "done" \/ (Who[p].verifier /\ Registered(p, Who[p].name))
  ELSE ~AgentAsPerson(p, Who[p].name)

\* tb rm archives the card with its events, or deletes both.
Remove(p, c) ==
  /\ Asked(p, "rm", c) /\ OnBoard(c)
  /\ RmGuard(p, c)
  /\ HeldByOther(c, Who[p].name) => \E a \in Menu[p] : a.kind = "rm" /\ a.force
  /\ IF Config.archive
     THEN shelf' = [shelf EXCEPT ![c] = "archive"] /\ UNCHANGED <<card, past, stay>>
     ELSE /\ shelf' = [shelf EXCEPT ![c] = "gone"]
          /\ card' = [card EXCEPT ![c] = NewRow]
          /\ past' = [past EXCEPT ![c] = NewPast]
          /\ stay' = [stay EXCEPT ![c] = NewStay]
  /\ UNCHANGED <<alive, op>>

\* tb restore: the row as it was; a DOING card needs a slot, blocked cards counted.
Restore(p, c) ==
  /\ Asked(p, "restore", c) /\ shelf[c] = "archive"
  /\ card[c].col = "doing" => Cardinality(In("doing")) < Config.wip
  /\ shelf' = [shelf EXCEPT ![c] = "board"]
  /\ stay' = IF card[c].col = "doing" THEN [stay EXCEPT ![c].via = "restored"] ELSE stay
  /\ UNCHANGED <<card, past, alive, op>>

Add(p, c) ==
  /\ Asked(p, "add", c) /\ shelf[c] = "new"
  /\ shelf' = [shelf EXCEPT ![c] = "board"]
  /\ UNCHANGED <<card, past, stay, alive, op>>

\* The session behind a name dies, or is launched again under the same name.
Die(n) ==
  /\ n \in Mortal /\ alive[n]
  /\ alive' = [alive EXCEPT ![n] = FALSE]
  /\ UNCHANGED <<shelf, card, past, stay, op>>

Relaunch(n) ==
  /\ n \in Mortal /\ ~alive[n]
  /\ alive' = [alive EXCEPT ![n] = TRUE]
  /\ UNCHANGED <<shelf, card, past, stay, op>>

Step(p) ==
  \/ Begin(p) \/ Probe(p) \/ Finish(p) \/ Abort(p)
  \/ \E c \in Card : \/ NextReview(p, c) \/ Note(p, c) \/ Link(p, c)
                     \/ Remove(p, c) \/ Restore(p, c) \/ Add(p, c)

Next == (\E p \in Proc : Step(p)) \/ (\E n \in Name : Die(n) \/ Relaunch(n))

Spec == Init /\ [][Next]_vars

-----------------------------------------------------------------------------
(* Properties                                                              *)

\* The process that commits in this step, and a card it brings to DONE.
Finishes(p) == op[p] # None /\ op'[p] = None
Closed(p, c) == Finishes(p) /\ card[c].col # "done" /\ card'[c].col = "done"

\* A card in TODO belongs to nobody, a card in DOING to somebody, and only a card under
\* review or finished carries a claim - whichever of take, assign, move, drop, release,
\* sync or restore brought it there.
OwnedByColumn ==
  \A c \in Card : /\ card[c].col = "todo" => card[c].owner = None
                  /\ card[c].col = "doing" => card[c].owner # None
                  /\ card[c].reviewer # None => card[c].col \in {"review", "done"}

\* Nobody holds the review claim on work that reads as their own: the claim is checked
\* when it is taken, and nothing that happens to the card under review changes its author.
NoSelfClaim ==
  \A c \in Card : card[c].col = "review" /\ card[c].reviewer # None => card[c].reviewer # Author(c)

\* Without --force, who took the card or was assigned it last never closes it, whatever
\* drops, moves by others, releases and GitHub moves happened since.
WorkIsReviewed ==
  [][\A p \in Proc, c \in Card :
       Closed(p, c) /\ ~op[p].ask.force /\ stay[c].via \in {"taken", "given"} => op[p].as # stay[c].doer]_vars

\* The same for everybody who held the card in DOING, however it got there ("an agent that
\* held the card in DOING, dropped it, and then let someone else move the now-unowned card
\* into review").  Does not hold: README, known disagreements.
HolderNeverCloses ==
  [][\A p \in Proc, c \in Card : Closed(p, c) /\ ~op[p].ask.force => op[p].as # stay[c].doer]_vars

\* done-needs-note: an unforced close has a note written after the card last changed
\* column, although only some column changes are counted as one.
NoteIsFresh ==
  [][\A p \in Proc, c \in Card :
       Closed(p, c) /\ ~op[p].ask.force /\ Config.needsNote => stay[c].fresh]_vars

\* Every way into DONE, forced or not, answers for who did it: under verifier-only no
\* agent outside a registered session and no scrubbed agent ever finishes a card.
CloseAnswers ==
  [][\A p \in Proc, c \in Card :
       Closed(p, c) /\ Config.verifierOnly => IF Who[p].agent THEN Who[p].registered ELSE ~Who[p].scrubbed]_vars

\* A claim passes straight from one reviewer to another only after a probe found a
\* claimant dead: nobody takes over a claim they never asked about.
ClaimPassesFromDead ==
  [][\A p \in Proc, c \in Card :
       Finishes(p) /\ card[c].reviewer # None /\ card'[c].reviewer \notin {None, card[c].reviewer}
         => op[p].probe = "dead"]_vars

\* ... and only from the claimant that probe asked about ("a claim that changed between the
\* probe and the tx loses").  Does not hold: README, known disagreements.
ClaimPassesFromProbed ==
  [][\A p \in Proc, c \in Card :
       Finishes(p) /\ card[c].reviewer # None /\ card'[c].reviewer \notin {None, card[c].reviewer}
         => op[p].seen = card[c].reviewer]_vars

\* A close that found the claimant dead frees the stale claim: the finished card does not
\* name the dead claimant as its reviewer.  Does not hold: README, known disagreements.
StaleClaimFreed ==
  [][\A p \in Proc, c \in Card :
       Closed(p, c) /\ op[p].probe = "dead" /\ card[c].reviewer = op[p].seen
         => card'[c].reviewer # op[p].seen]_vars

\* A yes from a pre-change hook is spent on the card, column and owner the hook was shown:
\* whatever other processes commit meanwhile, no other card moves on it.
ApprovalIsForOneCard ==
  [][\A p \in Proc, c \in Card :
       Finishes(p) /\ op[p].snap # None /\ card'[c].col # card[c].col
         => op[p].snap = [card |-> c, col |-> card[c].col, owner |-> card[c].owner]]_vars

\* New work never puts more than wip cards in DOING, twice that when blocked cards are
\* discounted; only send-backs come on top, being their owner's existing work.
WipBound ==
  Cardinality({c \in In("doing") : stay[c].via # "back"})
    <= (IF Config.countsBlocked THEN 1 ELSE 2) * Config.wip

\* wip-per-owner, in the same form: cards a name took, was assigned, or moved out of TODO.
OwnerCap ==
  Config.perOwner > 0 =>
    \A n \in Name : Cardinality({c \in HeldBy(n) : stay[c].via \in {"taken", "given", "moved"}})
                      <= (IF Config.countsBlocked THEN 1 ELSE 2) * Config.perOwner

\* When a card reaches DONE every card of the board that waited for it is free, in the same
\* commit, from whatever column and by whatever command it got there.
LiftedByDone ==
  [][\A p \in Proc, c \in Card :
       Closed(p, c) => \A d \in Card : OnBoard(d) => card'[d].on # c]_vars

\* No card of the board waits for a card that is done, where nothing would ever lift it.
\* Does not hold: README, known disagreements.
NoOrphanBlock ==
  \A c, d \in Card : OnBoard(c) /\ OnBoard(d) /\ card[c].on = d => card[d].col # "done"

\* The board implements CardFlow: whatever the processes interleave, work has one holder
\* at a time, ownership is never handed from one holder to the next but by way of TODO, and
\* a card that is moved anywhere but to DONE loses its claim.
Flow == INSTANCE CardFlow WITH
  place <- shelf,
  row <- [c \in Card |-> [col |-> card[c].col, owner |-> card[c].owner, reviewer |-> card[c].reviewer]]

ImplementsCardFlow == Flow!Spec

=============================================================================
