------------------------------- MODULE Desk -------------------------------
(***************************************************************************)
(* The commands that change what a board says without moving work through  *)
(* its columns: add, edit, check, link, block, prio, bulk import and edit, *)
(* every setting, a new board's settings, the house rules; and tb watch,   *)
(* which prints what they log.                                             *)
(*                                                                         *)
(* A command is a sequence of phases, each one statement or one            *)
(* transaction of the board file (module Rows); between two phases any     *)
(* other command may run.  Moves, claims and removals of module Board are  *)
(* here only as the writes that race with these.                           *)
(***************************************************************************)
EXTENDS Gate, Order

CONSTANTS
  Proc,     \* the commands of a behaviour
  Worlds,   \* the boards a behaviour may start from, with what each command may be
  Mortal    \* bound: the commands that may be killed

VARIABLES
  db,       \* the committed board file
  writer,   \* the command in a long write transaction
  work,     \* what that transaction has written so far
  plan,     \* plan[p]: what command p is
  cmd,      \* cmd[p]: the phases it has left and what it remembers
  from,     \* the settings of the board tb new --from names
  tail      \* tb watch --events: its cursor, the lines it read and the lines it printed

deskVars == <<db, writer, work, plan, cmd, from, tail>>

\* Everything a command may be told: what it leaves out is Unset or None.
Blank ==
  [op |-> "add", by |-> None, agent |-> FALSE, force |-> FALSE, dry |-> FALSE, bad |-> FALSE,
   card |-> 1, n |-> 1, ref |-> None, title |-> Unset, desc |-> Unset, due |-> Unset, block |-> Unset,
   text |-> Unset, checks |-> <<>>, how |-> "top", col |-> "todo", doc |-> None,
   key |-> "wip", value |-> None, off |-> FALSE, env |-> Plain]

\* left: the phases to come.  item, old: what an earlier phase read; past: the holder it was
\* forced past; base: what a form showed; made: the card it added; flawed: a row is a problem.
Fresh(steps) ==
  [left |-> steps, item |-> None, old |-> None, past |-> None, base |-> None, made |-> None,
   flawed |-> FALSE, end |-> None]
Ended(how) == [Fresh(<<>>) EXCEPT !.end = how]

\* What the argument parser leaves of a command, and the reader of a document of a row.
RowMeant(row) ==
  /\ \A f \in {"title", "description", "due", "blocked"} : row[f] \in Said \cup {Bad}
  /\ row.gh_ref \in Nat \cup {None, Unset, Bad} /\ row.inRef \in Nat \cup {None}
Meant(c) ==
  /\ c.by \in STRING \cup {Unset} /\ c.env.bound # Unset
  /\ {c.title, c.desc, c.due, c.block} \subseteq Said /\ c.ref \in Nat \cup {None}
  /\ c.col \in Column /\ c.key \in Key
  /\ c.op \in {"import", "bulkedit"} =>
       /\ RowsOf(c.doc) \in Seq(Range(RowsOf(c.doc)))
       /\ \A row \in Range(RowsOf(c.doc)) : row # Bad => RowMeant(row)

\* Every card is in its column's order, once and nowhere else; a number is used once.
Placed(d) ==
  /\ d.card \in [Id -> CardRow \cup {None}] /\ d.order \in [Column -> Seq(Id)] /\ d.next \in Nat \ {0}
  /\ \A i \in Id : d.card[i] # None => i < d.next /\ i \in Range(d.order[d.card[i].col])
  /\ \A k \in Column : /\ IsInjective(d.order[k])
                       /\ \A i \in Range(d.order[k]) : Exists(d, i) /\ d.card[i].col = k

\* A line of the log is about a card there is, one of the archive about a card in it, and no two
\* have one rowid.
Lines(d) == d.log \cup d.away
Lined(d) ==
  /\ d.eid \in Nat /\ Lines(d) \subseteq [eid : Nat, card : Id, by : STRING \cup {Unset}, kind : LineKind]
  /\ \A e \in d.log : Exists(d, e.card)
  /\ \A e \in d.away : e.card \in DOMAIN d.shelf
  /\ \A e \in Lines(d) : e.eid < d.eid /\ \A f \in Lines(d) : f.eid = e.eid => f = e

\* A card that is archived is not on the board, and its number is not free.
Shelved(d) ==
  /\ d.shelf = [i \in DOMAIN d.shelf |-> d.shelf[i]] /\ DOMAIN d.shelf \subseteq Id
  /\ \A i \in DOMAIN d.shelf : ~Exists(d, i) /\ i < d.next /\ d.shelf[i].card \in CardRow

\* What hangs on a card goes with it.
Hung(d) ==
  /\ d.items = [i \in Id |-> d.items[i]] /\ d.links = [i \in Id |-> d.links[i]]
  /\ \A i \in Id : ~Exists(d, i) => d.items[i] = <<>> /\ d.links[i] = <<>>

\* A board file.
WellFormed(d) ==
  /\ d = [card |-> d.card, order |-> d.order, items |-> d.items, links |-> d.links, log |-> d.log,
          eid |-> d.eid, shelf |-> d.shelf, away |-> d.away, blog |-> d.blog, conf |-> d.conf,
          snap |-> d.snap, next |-> d.next]
  /\ Placed(d) /\ Lined(d) /\ Shelved(d) /\ Hung(d) /\ DOMAIN d.conf \subseteq Key \cup {SetupDone}

\* A behaviour starts from a board file that is one, and from commands that were parsed.
ASSUME ProcAssumption == None \notin Proc /\ None \notin {"ok", "refused", "killed"}
ASSUME WorldsAssumption ==
  \A w \in Worlds : /\ WellFormed(w.db)
                    /\ IsFiniteSet(DOMAIN w.from) /\ DOMAIN w.from \subseteq Key \cup {SetupDone}
                    /\ \A p \in Proc : \A c \in w.plans[p] : Meant(c)

-----------------------------------------------------------------------------
(* The phases of each command, from the arms of main.rs                    *)

DueStep(c) == IF c.due = Unset THEN <<>> ELSE <<Do("due")>>

AddSteps(c) == <<Do("write")>> \o DueStep(c)

\* An item is read before it is ticked or removed; the line about a tick is its own statement.
CheckSteps(c) ==
  <<Do("hold")>> \o (IF c.op = "addcheck" THEN <<>> ELSE <<Do("item")>>) \o <<Do("write")>>
  \o (IF c.op = "check" THEN <<Do("log")>> ELSE <<>>) \o <<Do("force")>>

\* A link asks nobody who holds the card.
LinkSteps(c) == (IF c.op = "link" THEN <<>> ELSE <<Do("item")>>) \o <<Do("write")>>

BlockSteps == <<Do("hold"), Do("write"), Do("force")>>
PrioSteps == <<Do("hold"), Do("write"), Do("force")>>

\* The text and the date are two transactions, and the forced line a third.
EditSteps(c) ==
  <<Do("hold")>> \o (IF c.due = Unset \/ c.title # Unset \/ c.desc # Unset THEN <<Do("write")>> ELSE <<>>)
  \o DueStep(c) \o <<Do("force")>>

\* import.rs, run; bulk.rs, bulk_apply: one transaction over the rows that are no problem by
\* themselves.
BulkSteps(c) ==
  LET plans == Request(c).plans
  IN <<Do("begin")>> \o [n \in DOMAIN plans |-> [do |-> "row", arg |-> plans[n]]] \o <<Do("commit")>>

\* main.rs, new_board: the settings of a kind or of another board.
NewSteps(c) ==
  (IF c.op = "from" THEN CopySettings(from) ELSE ApplyKind(c.value)) \o <<Do("note")>>

\* A card whose issue is open is not closed by hand without --force.
MoveSteps(c) == (IF c.col = "done" /\ ~c.force THEN <<Do("issue")>> ELSE <<>>) \o <<Do("write")>>

\* Whether the board deletes or archives is read before the transaction.
RmSteps == <<Do("mode"), Do("write")>>

\* A card is taken, then the rules are shown to whoever never saw them.
NextSteps == <<Do("write"), Do("rules"), Do("seen")>>

Program(c) ==
  <<Do("open")>> \o
  CASE c.op = "add" -> AddSteps(c)
    [] c.op \in {"check", "addcheck", "rmcheck"} -> CheckSteps(c)
    [] c.op \in {"link", "unlink"} -> LinkSteps(c)
    [] c.op = "block" -> BlockSteps
    [] c.op = "prio" -> PrioSteps
    [] c.op = "edit" -> EditSteps(c)
    [] c.op \in {"import", "bulkedit"} -> BulkSteps(c)
    [] c.op = "config" -> ConfigSteps(c)
    [] c.op \in {"new", "from"} -> NewSteps(c)
    [] c.op = "next" -> NextSteps
    [] c.op = "move" -> MoveSteps(c)
    [] c.op = "rm" -> RmSteps
    [] c.op \in {"note", "take", "restore"} -> <<Do("write")>>
    [] OTHER -> <<>>

\* A world: a board, the settings of another one, who may run what, and whether anybody watches.
\* Steps gives a command its program: later modules have more commands than this one.
StartsIn(w, Steps(_)) ==
  /\ db = w.db /\ from = w.from
  /\ plan \in [Proc -> UNION {w.plans[p] : p \in Proc}] /\ \A p \in Proc : plan[p] \in w.plans[p]
  /\ cmd = [p \in Proc |-> Fresh(Steps(plan[p]))]
  /\ writer = None /\ work = None
  /\ tail = [cursor |-> 0, lines |-> {}, out |-> <<>>, on |-> w.watched]

DeskInit == \E w \in Worlds : StartsIn(w, Program)

-----------------------------------------------------------------------------
(* Going from phase to phase                                               *)

At(p, what) == cmd[p].left # <<>> /\ Head(cmd[p].left).do = what
Arg(p) == Head(cmd[p].left).arg
C(p) == plan[p]

\* The command remembers c and goes on, or has said ok.
Goes(p, c) ==
  cmd' = [cmd EXCEPT ![p] = IF Tail(c.left) = <<>> THEN Ended("ok") ELSE [c EXCEPT !.left = Tail(@)]]
Stops(p, how) == cmd' = [cmd EXCEPT ![p] = Ended(how)]

\* One statement or one short transaction: it waits for a long one to end.
Commits(p, d, c) == writer = None /\ db' = d /\ Goes(p, c) /\ UNCHANGED <<writer, work>>
Reads(p, c) == Goes(p, c) /\ UNCHANGED <<db, writer, work>>
Refused(p) == Stops(p, "refused") /\ UNCHANGED <<db, writer, work>>

\* The card a later phase is about: the one add made, or the one that was named.
About(p) == IF cmd[p].made # None THEN cmd[p].made ELSE C(p).card

Still == UNCHANGED <<plan, from, tail>>

-----------------------------------------------------------------------------
(* The phases                                                              *)

\* main.rs, run: asked once, before the command begins.
Open(p) ==
  /\ At(p, "open")
  /\ IF Admitted(db, C(p)) /\ (C(p).op = "config" => Asks(C(p)) # "refused")
     THEN Reads(p, cmd[p]) ELSE Refused(p)
  /\ Still

\* archive.rs, holder_check: a read of its own, outside the write it guards.
Hold(p) ==
  /\ At(p, "hold")
  /\ IF Exists(db, C(p).card) /\ HolderGuard(db.card[C(p).card], C(p).by, C(p).force)
     THEN Reads(p, [cmd[p] EXCEPT !.past = Past(db.card[C(p).card], C(p).by)])
     ELSE Refused(p)
  /\ Still

\* The checklist item or link as it stands now.
Item(p) ==
  /\ At(p, "item")
  /\ LET i == C(p).card
         all == IF C(p).op = "unlink" THEN db.links[i] ELSE db.items[i]
     IN IF Exists(db, i) /\ C(p).n \in DOMAIN all
        THEN Reads(p, [cmd[p] EXCEPT !.item = all[C(p).n]]) ELSE Refused(p)
  /\ Still

\* archive.rs, remove_card: rm_mode, a read of its own.
Mode(p) ==
  /\ At(p, "mode") /\ Reads(p, [cmd[p] EXCEPT !.item = Get(db, "rm")]) /\ Still

\* main.rs, guard_done: asked of the snapshot, before the move.
Issue(p) ==
  /\ At(p, "issue")
  /\ IF Exists(db, C(p).card) /\ ~StillOpen(db, db.card[C(p).card].ref) THEN Reads(p, cmd[p]) ELSE Refused(p)
  /\ Still

\* A card put in TODO is nobody's; one put in DOING is its owner's, or its mover's.
OwnerAfter(r, c) ==
  IF c.col = "todo" THEN None ELSE IF c.col = "doing" /\ r.owner = None THEN c.by ELSE r.owner

\* store.rs, claim_target: the cards of TODO nothing blocks, and the first of them as everybody
\* is shown them (module Board has the other rules).
Waiting(d) == {i \in Range(d.order["todo"]) : d.card[i].block = None}
Foremost(d) == {i \in Waiting(d) : \A j \in Waiting(d) \ {i} : Before(d, SortOf(d), i, j)}

\* What the one transaction of a command does to the board d.
Effect(d, c, s) ==
  CASE c.op = "add" -> AddTagged(d, c.by, c.title, c.ref, c.checks)
    [] c.op = "check" -> Ticked(d, c.card, c.n, s.item)
    [] c.op = "addcheck" -> AddCheck(d, c.card, c.by, c.text)
    [] c.op = "rmcheck" -> RemoveCheck(d, c.card, c.by, c.n)
    [] c.op = "link" -> AddLink(d, c.card, c.by, c.text)
    [] c.op = "unlink" -> RemoveLink(d, c.card, c.by, c.n)
    [] c.op = "block" -> Blocked(d, c.card, c.by, c.block)
    [] c.op = "prio" -> Reordered(d, c.card, c.by, c.how)
    [] c.op = "edit" -> Edited(d, c.card, c.by, s.base, c.title, c.desc)
    [] c.op = "note" -> Logged(d, c.card, c.by, "note")
    [] c.op = "take" -> MoveTo(d, c.card, c.by, "doing", c.by)
    [] c.op = "next" -> MoveTo(d, CHOOSE i \in Foremost(d) : TRUE, c.by, "doing", c.by)
    [] c.op = "move" -> MoveTo(d, c.card, c.by, c.col, OwnerAfter(d.card[c.card], c))
    [] c.op = "restore" -> Restored(d, c.card, c.by)
    [] OTHER -> IF s.item = "archive" THEN Archived(d, c.card, c.by) ELSE Removed(d, c.card, c.by)

\* What it refuses; a name the board does not know is refused by the log line, so the
\* transaction goes with it.
Takes(d, c, s) ==
  /\ c.op = "add" => d.next \in Id
  /\ c.op = "next" => Foremost(d) # {}
  /\ c.op = "restore" => c.card \in DOMAIN d.shelf
  /\ c.op \notin {"add", "next", "restore"} => Exists(d, c.card)
  /\ c.op # "check" => Knows(d, c.by)
  /\ c.op = "edit" => MayEdit(d.card[c.card], s.base, c.title, c.desc)
  /\ c.op = "take" => d.card[c.card].col = "todo"
  /\ c.op \in {"move", "rm"} => HolderGuard(d.card[c.card], c.by, c.force)

Write(p) ==
  /\ At(p, "write") /\ writer = None
  /\ IF Takes(db, C(p), cmd[p])
     THEN Commits(p, Effect(db, C(p), cmd[p]),
                  IF C(p).op = "add" THEN [cmd[p] EXCEPT !.made = db.next] ELSE cmd[p])
     ELSE Refused(p)
  /\ Still

\* store.rs, check: the line about the tick; its refusal takes nothing back.
LogTick(p) ==
  /\ At(p, "log") /\ writer = None
  /\ IF Knows(db, C(p).by) /\ Exists(db, C(p).card)
     THEN Commits(p, Logged(db, C(p).card, C(p).by, "check"), cmd[p]) ELSE Refused(p)
  /\ Still

\* due.rs, set_due: the second transaction of add and edit.
Due(p) ==
  /\ At(p, "due") /\ writer = None
  /\ IF Exists(db, About(p)) /\ (Knows(db, C(p).by) \/ db.card[About(p)].due = C(p).due)
     THEN Commits(p, SetDue(db, About(p), C(p).by, C(p).due), cmd[p]) ELSE Refused(p)
  /\ Still

\* archive.rs, log_forced: the last statement of a forced change.
LogPast(p) ==
  /\ At(p, "force")
  /\ IF cmd[p].past = None THEN Reads(p, cmd[p])
     ELSE IF Knows(db, C(p).by) /\ Exists(db, C(p).card)
     THEN Commits(p, LogForced(db, C(p).card, C(p).by), cmd[p])
     ELSE writer = None /\ Refused(p)
  /\ Still

-----------------------------------------------------------------------------
(* Many rows at once                                                       *)

Begin(p) ==
  /\ At(p, "begin") /\ writer = None
  /\ writer' = p /\ work' = db /\ Goes(p, cmd[p]) /\ UNCHANGED db /\ Still

\* One row, inside the transaction: an unknown name ends it; a problem is kept for the report.
Row(p) ==
  /\ At(p, "row") /\ UNCHANGED db
  /\ LET row == Arg(p)   c == C(p)
         problem == c.op = "bulkedit" /\ RowProblem(work, c.by, row, c.force)
         fits == c.op = "import" => work.next \in Id
     IN IF ~Knows(work, c.by) \/ ~fits
        THEN Stops(p, "refused") /\ writer' = None /\ work' = None
        ELSE /\ UNCHANGED writer
             /\ Goes(p, [cmd[p] EXCEPT !.flawed = @ \/ problem])
             /\ work' = IF problem THEN work
                        ELSE IF c.op = "import" THEN ImportRow(work, c.by, row)
                        ELSE EditRow(work, c.by, row)
  /\ Still

\* Bug: the rows that are no problem are kept.
CommitGoodRows(p) ==
  /\ At(p, "commit")
  /\ db' = IF WillWrite(C(p)) THEN work ELSE db
  /\ writer' = None /\ work' = None
  /\ IF cmd[p].flawed \/ Request(C(p)).refused THEN Stops(p, "refused") ELSE Goes(p, cmd[p])
  /\ Still

\* bulk.rs, bulk_apply: kept only when no row is a problem and the run is not dry; a document
\* with a problem of its own is a dry run (import.rs, run).
Commit(p) ==
  /\ At(p, "commit")
  /\ db' = IF ~cmd[p].flawed /\ WillWrite(C(p)) THEN work ELSE db
  /\ writer' = None /\ work' = None
  /\ IF cmd[p].flawed \/ Request(C(p)).refused THEN Stops(p, "refused") ELSE Goes(p, cmd[p])
  /\ Still

-----------------------------------------------------------------------------
(* Settings                                                                *)

\* github.rs, check_repo: gh says the repository exists, does not, or times out.
Ask(p) ==
  /\ At(p, "ask") /\ (Reads(p, cmd[p]) \/ Refused(p)) /\ Still

\* The old value, and what the setter refuses.
Old(p) ==
  /\ At(p, "old")
  /\ IF Asks(C(p)) = "read" \/ MaySet(C(p))
     THEN Reads(p, [cmd[p] EXCEPT !.old = Get(db, C(p).key)]) ELSE Refused(p)
  /\ Still

PutRow(p) ==
  /\ At(p, "put")
  /\ Commits(p, SetConfig(db, Arg(p)[1], Arg(p)[2]), cmd[p]) /\ Still

ForgetSnap(p) ==
  /\ At(p, "forget") /\ Commits(p, Forget(db, Arg(p)), cmd[p]) /\ Still

Note(p) ==
  /\ At(p, "note")
  /\ LET c == C(p)
     IN Commits(p, IF IsNews(c, cmd[p].old) THEN BoardLogged(db, c.by, c.key, Unset) ELSE db, cmd[p])
  /\ Still

\* rules.rs, rules_seen: the text, and whether this name was shown that very text.
RulesSeen(d, by, text) ==
  \E n \in DOMAIN d.blog : d.blog[n] = [by |-> by, kind |-> "rules-seen", text |-> text]
ReadRules(p) ==
  /\ At(p, "rules")
  /\ LET text == Get(db, "rules")
     IN Reads(p, [cmd[p] EXCEPT !.item = IF text = None \/ RulesSeen(db, C(p).by, text) THEN None ELSE text])
  /\ Still

\* rules.rs, mark_rules_seen.
MarkSeen(p) ==
  /\ At(p, "seen")
  /\ Commits(p, IF cmd[p].item = None THEN db
                ELSE BoardLogged(db, C(p).by, "rules-seen", cmd[p].item), cmd[p])
  /\ Still

-----------------------------------------------------------------------------
(* Faults                                                                  *)

\* A command waits for a long transaction as long as SQLite's busy timeout, then gives up.
Busy(p) ==
  /\ writer \notin {None, p}
  /\ \E w \in {"write", "log", "due", "begin", "put", "forget", "note", "seen"} : At(p, w)
  /\ Refused(p) /\ Still

\* A killed command: what it had not committed is gone, and its lock with it.
Die(p) ==
  /\ p \in Mortal /\ cmd[p].left # <<>>
  /\ Stops(p, "killed") /\ UNCHANGED db
  /\ IF writer = p THEN writer' = None /\ work' = None ELSE UNCHANGED <<writer, work>>
  /\ Still

-----------------------------------------------------------------------------
(* tb watch --events                                                       *)

\* Bug: one line too far.
EventsSinceNext(d, n) == {e \in d.log : e.eid > n + 1}

\* store.rs, events_since.
EventsSince(d, n) == {e \in d.log : e.eid > n}

\* main.rs, watch: the lines after the cursor are read at once.
Poll ==
  /\ tail.on /\ tail.lines = {} /\ EventsSince(db, tail.cursor) # {}
  /\ tail' = [tail EXCEPT !.lines = EventsSince(db, tail.cursor)]
  /\ UNCHANGED <<db, writer, work, plan, cmd, from>>

\* Each is printed in its turn; the cursor is the last one printed.
PrintLine ==
  /\ \E e \in tail.lines :
       /\ \A f \in tail.lines : e.eid <= f.eid
       /\ tail' = [tail EXCEPT !.cursor = e.eid, !.lines = @ \ {e}, !.out = Append(@, e.eid)]
  /\ UNCHANGED <<db, writer, work, plan, cmd, from>>

Watch == Poll \/ PrintLine

-----------------------------------------------------------------------------
DeskStep(p) ==
  \/ Open(p) \/ Hold(p) \/ Item(p) \/ Mode(p) \/ Issue(p) \/ Write(p) \/ LogTick(p) \/ Due(p) \/ LogPast(p)
  \/ Begin(p) \/ Row(p) \/ Commit(p)
  \/ Ask(p) \/ Old(p) \/ PutRow(p) \/ ForgetSnap(p) \/ Note(p) \/ ReadRules(p) \/ MarkSeen(p)
  \/ Busy(p) \/ Die(p)

DeskNext == Watch \/ \E p \in Proc : DeskStep(p)

\* tb watch polls until its reader goes away.
DeskSpec == DeskInit /\ [][DeskNext]_deskVars /\ WF_deskVars(Watch)

-----------------------------------------------------------------------------
(* Properties                                                              *)

TypeOK ==
  /\ WellFormed(db)
  /\ IF writer = None THEN work = None ELSE writer \in Proc /\ WellFormed(work)
  /\ \A p \in Proc : cmd[p].end \in {None, "ok", "refused", "killed"}

\* A document is imported or applied whole, or nothing of it is on the board: not a row of one
\* that was refused for a problem in another row, that was a dry run, or whose command was
\* killed (import.rs, run; bulk.rs, bulk_apply).
Made(p) == Cardinality({e \in db.log : e.by = plan[p].by /\ e.kind = "created"})
BulkWhole ==
  [][\A p \in Proc : plan[p].op \in {"import", "bulkedit"} /\ cmd'[p] # cmd[p] /\ db' # db =>
       /\ cmd'[p].end = "ok" /\ WillWrite(plan[p])
       /\ plan[p].op = "import" => Made(p)' = Made(p) + Len(RowsOf(plan[p].doc))
       /\ plan[p].op = "bulkedit" =>
            \A row \in Range(RowsOf(plan[p].doc)) :
              \E i \in Id : i = row.id /\ Exists(db, i)
                           /\ HolderGuard(db.card[i], plan[p].by, plan[p].force)]_deskVars

\* Whatever the command, and whatever other commands do between its steps, a session never does
\* what it may not: an agent changes no setting that only a person sets, not even through a kind
\* or another board's settings; a read-only one writes nothing; one launched under a name logs
\* under no other; one launched for a card changes no other card, but that the cards which waited
\* for it are let go when it is done (README.md says `every write on another card is refused'), and
\* except by next and sync, which no list of card_bound_write has (verifier.rs, person_only;
\* kinds.rs, NOT_COPIED; main.rs, run; blocks.rs, on_done).
Steps(p) == cmd'[p] # cmd[p]
Outsider(p) == DbExempt(plan[p])
NewLines == {e \in Lines(db') : e.eid >= db.eid}
Touched == {i \in Id : <<db'.card[i], db'.items[i], db'.links[i]>> # <<db.card[i], db.items[i], db.links[i]>>}
Done(b) == Exists(db, b) /\ Exists(db', b) /\ db.card[b].col # "done" /\ db'.card[b].col = "done"
LetGo(b) ==
  {i \in Touched : /\ Done(b) /\ Exists(db, i) /\ db.card[i].on = b
                   /\ db'.card[i] = [db.card[i] EXCEPT !.block = None, !.on = None]
                   /\ db'.items[i] = db.items[i] /\ db'.links[i] = db.links[i]}
SessionKeeps ==
  [][/\ \A key \in PersonKeys : Get(db', key) # Get(db, key) => \E p \in Proc : Steps(p) /\ ~plan[p].agent
     /\ \A p \in Proc : Steps(p) /\ db' # db =>
          /\ ~plan[p].env.readonly
          /\ plan[p].env.pin # None /\ ~plan[p].env.ticket /\ ~Outsider(p) =>
               \A e \in NewLines : e.by \in {plan[p].env.pin, Github}
          /\ plan[p].env.bound # None /\ ~Steers(plan[p]) /\ ~Outsider(p) /\ plan[p].op \notin {"next", "sync"} =>
               Touched \subseteq {plan[p].env.bound} \cup LetGo(plan[p].env.bound)]_deskVars

\* Every line of the events log that stays is printed by a running tb watch --events, whoever
\* wrote it and however many were written since the last poll (main.rs, watch).  A line whose card
\* was archived and restored since it was written is back under its old rowid, which the cursor
\* may have passed: that one may never be printed (archive.rs, restore).
PutBack(e) == \E f \in db.log : f.card = e.card /\ f.kind = "restored" /\ f.eid > e.eid
Stays(n) == \E e \in db.log : e.eid = n /\ ~PutBack(e)
StreamComplete ==
  \A n \in 1..9 : (tail.on /\ Stays(n)) ~> (n \in Range(tail.out) \/ ~Stays(n))
=============================================================================
