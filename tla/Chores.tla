------------------------------- MODULE Chores -------------------------------
(***************************************************************************)
(* What works beside the people and the agents of a board: tb sync and tb  *)
(* github, which move cards on GitHub's evidence, tb-reap and tb release,  *)
(* which free the cards of holders nobody vouches for, and the probes of   *)
(* the machine they ask.  Each reads for a long time, outside any          *)
(* transaction, and then writes; the commands of module Desk run           *)
(* meanwhile.                                                              *)
(***************************************************************************)
EXTENDS Desk

CONSTANTS
  Hub,         \* Hub[repo][ref]: what GitHub would answer about an issue or a pull request
  Worker,      \* the names that hold cards
  Reaper,      \* the name tb-reap acts under
  Protected,   \* those the reaper never calls dead: orchestrators, TB_REAP_PROTECT
  MaxChecks,   \* MAX_STATE_CHECKS: the refs one sync looks up
  MinDays,     \* APPLY_MIN_DAYS
  MaxDay       \* bound: the days a behaviour lasts

\* A behaviour starts from a journal the reaper wrote before now.
Journalled(ticks, entries) ==
  \A n \in DOMAIN entries : entries[n].at \in Nat /\ entries[n].at <= Len(ticks)
ASSUME ChoresAssumption ==
  /\ MaxChecks \in Nat \ {0} /\ MinDays \in Nat /\ MaxDay \in Nat
  /\ {Github, Reaper} \subseteq STRING \ {Unset} /\ None \notin Protected
  /\ \A w \in Worlds :
       /\ DOMAIN w.machine = {"vouch", "kill", "ledger", "day", "ticks", "news"} /\ w.machine.ticks \in Seq(Nat)
       /\ w.journal \in Seq(Range(w.journal)) /\ Journalled(w.machine.ticks, w.journal)

VARIABLES
  machine,  \* vouch: the probes that vouch for a name; kill: the kill switch; ledger: a person
            \* wrote down a false positive; day: the clock; ticks: each time a second passed, the
            \* rowid the log had reached;
            \* news, a bound: what may still happen around the board, days aside
  journal,  \* dry-run.log: the day and the second of each line, the dead it named, whether its
            \* rules are current
  young,    \* the cards whose time in their column is under the threshold
  repos,    \* history: the repositories the board was ever set to
  wrote     \* history: the (card, owner) a dry run named whose owner wrote to the card in a later second

choreVars == <<machine, journal, young, repos, wrote>>

Probes == {"agent", "tmux", "process", "session", "pid"}

-----------------------------------------------------------------------------
(* GitHub's evidence                                                       *)

Refs(d, cols) == {d.card[i].ref : i \in {i \in Id : Exists(d, i) /\ d.card[i].col \in cols}} \ {None}

\* MAX_STATE_CHECKS: the smallest ones.
Capped(refs) == {n \in refs : Cardinality({m \in refs : m < n}) < MaxChecks}

\* github.rs, fetch_raw: five calls of gh; one that fails or times out is the failure of all.
Page(repo) == {n \in DOMAIN Hub[repo] : Hub[repo][n].state = "open" /\ Hub[repo][n].paged}
FetchRaw(repo) ==
  {[ok |-> FALSE, repo |-> repo, open |-> {}]} \cup
  (IF repo \in DOMAIN Hub THEN {[ok |-> TRUE, repo |-> repo, open |-> Page(repo)]} ELSE {})

\* github.rs, needs_state.
NeedsState(d, page) == Capped(Refs(d, Column \ {"done"}) \ page.open)

\* github.rs, lookup_refs and found_states: a number nobody has is missing, a call may fail.
FoundStates(repo, asked) == SUBSET (asked \cap DOMAIN Hub[repo])

\* github.rs, refs_beyond_page: owned cards of TODO and DOING no listed pull request is about.
LinkedOnPage(repo, n) == n \in DOMAIN Hub[repo] /\ Hub[repo][n].by = "page"
RefsBeyondPage(d, page) ==
  LET owned == {d.card[i].ref : i \in {i \in Id : Exists(d, i) /\ d.card[i].col \in {"todo", "doing"}
                                                  /\ d.card[i].owner # None}} \ {None}
  IN Capped({n \in owned : ~LinkedOnPage(page.repo, n) /\ ~(n \in page.open /\ Hub[page.repo][n].pr)})

\* github.rs, linked_prs_beyond_page: a search that fails is skipped.
LinkedBeyondPage(repo, refs) ==
  SUBSET {n \in refs : n \in DOMAIN Hub[repo] /\ Hub[repo][n].by = "beyond"}

\* github.rs, plan_moves, for one card.  seen: the refs whose state was found; far: those
\* linked beyond the page; back: the card came back from REVIEW.
Evidence(page, seen, far, r, back) ==
  LET n == r.ref
      ref == Hub[page.repo][n]
      over == n \in seen /\ ref.state = (IF ref.pr THEN "merged" ELSE "closed")
      own == n \in page.open /\ ref.pr
      linked == ref.by = "page" \/ n \in far
  IN /\ n \in DOMAIN Hub[page.repo] /\ r.col # "done"
     /\ IF over THEN r.col # "review" /\ ~(r.col = "doing" /\ back)
        ELSE /\ r.col \in {"todo", "doing"} /\ r.owner # None
             /\ IF own \/ linked THEN back => ref.newer
                ELSE n \in seen /\ ref.pr /\ ref.state = "open" /\ ~back

PlanMoves(page, cards, seen, far, back) ==
  InOrder({i \in Id : cards[i] # None /\ cards[i].ref # None
                      /\ Evidence(page, seen, far, cards[i], i \in back)})

-----------------------------------------------------------------------------
(* The programs                                                            *)

SyncSteps == <<Do("open"), Do("repo"), Do("fetch"), Do("save"), Do("cards"), Do("lookup"),
               Do("linked"), Do("plan")>>
RefreshSteps == <<Do("open"), Do("repo"), Do("aged"), Do("fetch"), Do("save")>>
ReapSteps(c) == <<Do("kill")>> \o (IF c.dry THEN <<>> ELSE <<Do("permit")>>) \o <<Do("world"), Do("scan")>>
ReleaseSteps == <<Do("open"), Do("holder"), Do("world"), Do("alive"), Do("release")>>

ChoreSteps(c) ==
  CASE c.op = "sync" -> SyncSteps
    [] c.op = "refresh" -> RefreshSteps
    [] c.op = "reap" -> ReapSteps(c)
    [] c.op = "release" -> ReleaseSteps
    [] OTHER -> Program(c)

ChoresStart(w) ==
  /\ machine = w.machine /\ journal = w.journal /\ young = w.young
  /\ repos = {Get(w.db, "github")} \ {None} /\ wrote = {}
ChoresInit == \E w \in Worlds : StartsIn(w, ChoreSteps) /\ ChoresStart(w)

Alone == UNCHANGED <<machine, journal>>

\* Two statements for each of the cards, one card after the other.
TwoEach(first, second, cards) ==
  [n \in 1..2 * Len(cards) |-> [do |-> IF n % 2 = 1 THEN first ELSE second, arg |-> cards[(n + 1) \div 2]]]

\* What was read becomes the rest of the program.
Turns(p, c, steps) ==
  cmd' = [cmd EXCEPT ![p] = IF steps = <<>> THEN Ended("ok") ELSE [c EXCEPT !.left = steps]]

-----------------------------------------------------------------------------
(* tb sync, tb github                                                      *)

Repo(p) ==
  /\ At(p, "repo")
  /\ IF Get(db, "github") = None THEN Refused(p)
     ELSE Reads(p, [cmd[p] EXCEPT !.item = Get(db, "github"), !.past = Shown(db)])
  /\ Still /\ Alone

\* tb github: a snapshot that is shown and young enough is not fetched again.
Aged(p) ==
  /\ At(p, "aged")
  /\ \/ Reads(p, cmd[p])
     \/ cmd[p].past # None /\ ~C(p).force /\ Stops(p, "ok") /\ UNCHANGED <<db, writer, work>>
  /\ Still /\ Alone

Fetch(p) ==
  /\ At(p, "fetch")
  /\ \E r \in FetchRaw(cmd[p].item) : Reads(p, [cmd[p] EXCEPT !.old = r])
  /\ Still /\ Alone

\* A failure is saved too; it is an error for sync, for tb github only when nothing was shown,
\* for tb setup never.
Save(p) ==
  /\ At(p, "save") /\ writer = None /\ ~C(p).env.readonly
  /\ db' = SaveGithub(db, cmd[p].old)
  /\ IF cmd[p].old.ok \/ C(p).op = "setup" \/ (C(p).op = "refresh" /\ cmd[p].past # None)
     THEN Goes(p, cmd[p]) ELSE Stops(p, "refused")
  /\ UNCHANGED <<writer, work>> /\ Still /\ Alone

\* main.rs, Sync: the list the lookups and the plan are about.
Cards(p) ==
  /\ At(p, "cards") /\ Reads(p, [cmd[p] EXCEPT !.base = db.card])
  /\ Still /\ Alone

AsListed(p) == [db EXCEPT !.card = cmd[p].base]
Lookup(p) ==
  /\ At(p, "lookup")
  /\ \E seen \in FoundStates(cmd[p].item, NeedsState(AsListed(p), cmd[p].old)) :
       Reads(p, [cmd[p] EXCEPT !.past = seen])
  /\ Still /\ Alone

Linked(p) ==
  /\ At(p, "linked")
  /\ \E far \in LinkedBeyondPage(cmd[p].item, RefsBeyondPage(AsListed(p), cmd[p].old)) :
       Reads(p, [cmd[p] EXCEPT !.made = far])
  /\ Still /\ Alone

\* The cards are the old list, what came back from REVIEW is read now.
MovesOf(cards) == TwoEach("gmove", "gnote", cards)
Returned == {i \in Id : Exists(db, i) /\ db.card[i].returned}
Plan(p) ==
  /\ At(p, "plan")
  /\ Turns(p, cmd[p], MovesOf(PlanMoves(cmd[p].old, cmd[p].base, cmd[p].past, cmd[p].made, Returned)))
  /\ UNCHANGED <<db, writer, work>> /\ Still /\ Alone

\* github.rs, apply_moves: the first refusal ends it.  A move asks no holder and no hook, and a
\* card that is in REVIEW already stays as it is.
GMove(p) ==
  /\ At(p, "gmove") /\ writer = None
  /\ IF Exists(db, Arg(p))
     THEN Commits(p, MoveTo(db, Arg(p), Github, "review", db.card[Arg(p)].owner), cmd[p])
     ELSE Refused(p)
  /\ Still /\ Alone

GNote(p) ==
  /\ At(p, "gnote") /\ writer = None
  /\ IF Exists(db, Arg(p)) THEN Commits(p, Logged(db, Arg(p), Github, "github"), cmd[p]) ELSE Refused(p)
  /\ Still /\ Alone

-----------------------------------------------------------------------------
(* Is a holder alive?                                                      *)

\* liveness.rs, World::load: herdr, tmux or ps that cannot be asked vouches for nobody; the
\* caller's own process tree is left out.  text stands for its TB_AS.
ExcludeAncestry(c, n, probes) == IF c.agent /\ n = c.text THEN probes \ {"process", "pid"} ELSE probes
Load(c, asked) == [n \in Worker |-> ExcludeAncestry(c, n, machine.vouch[n] \cap asked)]

World(p) ==
  /\ At(p, "world")
  /\ \E down \in {{}, {"agent", "session"}, {"tmux"}, {"process", "pid"}} :
       Reads(p, [cmd[p] EXCEPT !.base = Load(C(p), Probes \ down)])
  /\ Still /\ Alone

\* The newest mode:headless note of a card: None, "headless" (no pid) or "headless-pid".
LastNote(d, i) ==
  LET notes == {e \in d.log : e.card = i /\ e.kind \in {"headless", "headless-pid"}}
  IN IF notes = {} THEN None ELSE (CHOOSE e \in notes : \A f \in notes : f.eid <= e.eid).kind

\* liveness.rs, the headless_ functions and pid_runs_agentish: a pid vouches while it is that
\* agent's and its log has no exit trailer; without a pid the note itself does, for the reaper.
HeadlessVouches(note, probes, reaping) ==
  CASE note = "headless-pid" -> "pid" \in probes
    [] note = "headless" -> reaping
    [] OTHER -> FALSE

\* liveness.rs, alive_impl.
AliveImpl(d, i, seen, me, reaping) ==
  LET o == d.card[i].owner
      probes == IF o \in Worker THEN seen[o] ELSE {}
  IN /\ o # None
     /\ \/ o \in Protected \/ o = me
        \/ probes \cap {"agent", "tmux", "process"} # {}
        \/ "session" \in probes /\ \E e \in d.log : e.card = i /\ e.by = o
        \/ HeadlessVouches(LastNote(d, i), probes, reaping)

-----------------------------------------------------------------------------
(* tb-reap                                                                 *)

Killed(p) ==
  /\ At(p, "kill")
  /\ IF machine.kill THEN Stops(p, "ok") /\ UNCHANGED <<db, writer, work>> ELSE Reads(p, cmd[p])
  /\ Still /\ Alone

\* Only entries written under the current rules count; of a pair that was named, its first time.
Current == {n \in DOMAIN journal : journal[n].current}
Flags(pair) == {n \in Current : pair \in journal[n].dead}
Flagged == UNION {journal[n].dead : n \in Current}
Earliest(S) == CHOOSE n \in S : \A m \in S : n <= m
Latest(S) == CHOOSE n \in S : \A m \in S : m <= n

\* Bug: a later dry run forgets what the owner wrote after the first.
LastFlag(pair) == journal[Latest(Flags(pair))].at

\* The second a current dry run first named the (card, owner).
FirstFlag(pair) == journal[Earliest(Flags(pair))].at

\* A line's own second comes after second `at': both are whole seconds, compared with >.
Later(e, at) == at < Len(machine.ticks) /\ e.eid >= machine.ticks[at + 1]
WroteLater(log, pair) == \E e \in log : e.card = pair[1] /\ e.by = pair[2] /\ Later(e, FirstFlag(pair))
FalsePositives == {pair \in Flagged : WroteLater(db.log, pair)}

\* tb_reap.rs, apply_refusals: force stands for TB_REAP_MODE=live.  The days are counted from
\* the first entry, and the newest is no older than one.
MayApply(c) ==
  /\ c.force /\ ~c.agent
  /\ Current # {}
  /\ machine.day >= journal[Earliest(Current)].day + MinDays
  /\ machine.day <= journal[Latest(Current)].day + 1
  /\ FalsePositives = {} /\ ~machine.ledger

Permit(p) ==
  /\ At(p, "permit")
  /\ IF MayApply(C(p)) THEN Reads(p, cmd[p]) ELSE Refused(p)
  /\ Still /\ Alone

\* tb_reap.rs, scan_board: DOING cards nobody vouches for, long enough in their column.
DeadCards(c, seen) ==
  {i \in Id : /\ Exists(db, i) /\ db.card[i].col = "doing" /\ i \notin young
              /\ ~AliveImpl(db, i, seen, c.text, TRUE)}
FreeSteps(cards) == TwoEach("free", "fnote", cards)
Scan(p) ==
  /\ At(p, "scan")
  /\ LET dead == DeadCards(C(p), cmd[p].base)
     IN Turns(p, [cmd[p] EXCEPT !.old = {<<i, db.card[i].owner>> : i \in dead}],
              IF C(p).dry THEN <<Do("journal")>> ELSE FreeSteps(InOrder(dead)))
  /\ UNCHANGED <<db, writer, work>> /\ Still /\ Alone

\* A forced move of whatever is on the card by now; one that is refused is passed over,
\* with its note.
Free(p) ==
  /\ At(p, "free") /\ writer = None
  /\ IF Exists(db, Arg(p)) /\ Knows(db, Reaper)
     THEN Commits(p, MoveTo(db, Arg(p), Reaper, "todo", None), cmd[p])
     ELSE Turns(p, cmd[p], Tail(Tail(cmd[p].left))) /\ UNCHANGED <<db, writer, work>>
  /\ Still /\ Alone

FreeNote(p) ==
  /\ At(p, "fnote")
  /\ Commits(p, IF Exists(db, Arg(p)) /\ Knows(db, Reaper) THEN Logged(db, Arg(p), Reaper, "note") ELSE db,
             cmd[p])
  /\ Still /\ Alone

\* tb_reap.rs, append_dry_run_log.
Journal(p) ==
  /\ At(p, "journal") /\ Reads(p, cmd[p])
  /\ journal' = Append(journal, [day |-> machine.day, at |-> Len(machine.ticks), dead |-> cmd[p].old, current |-> TRUE])
  /\ UNCHANGED machine /\ Still

-----------------------------------------------------------------------------
(* tb release                                                              *)

\* release.rs, may_release: how says the role of an agent.
MayRelease(c) == ~c.agent \/ c.how \in {"lead", "orchestrator"}

Holder(p) ==
  /\ At(p, "holder")
  /\ LET i == C(p).card
     IN IF Exists(db, i) /\ db.card[i].col = "doing" /\ db.card[i].owner # None /\ MayRelease(C(p))
        THEN Reads(p, [cmd[p] EXCEPT !.item = db.card[i].owner]) ELSE Refused(p)
  /\ Still /\ Alone

\* The card as it was read, judged against what the board knows of it now.
AskAlive(p) ==
  /\ At(p, "alive")
  /\ LET i == C(p).card
         asRead == [db EXCEPT !.card[i] = [NewCard(Unset, Unset, None, None) EXCEPT !.owner = cmd[p].item]]
     IN IF AliveImpl(asRead, i, cmd[p].base, C(p).text, FALSE) THEN Refused(p) ELSE Reads(p, cmd[p])
  /\ Still /\ Alone

\* store.rs, release_card: only the holder that was asked about.
StillHeld(i, holder) == Exists(db, i) /\ db.card[i].col = "doing" /\ db.card[i].owner = holder
Release(p) ==
  /\ At(p, "release") /\ writer = None
  /\ IF StillHeld(C(p).card, cmd[p].item) /\ Knows(db, C(p).by)
     THEN Commits(p, MoveTo(db, C(p).card, C(p).by, "todo", None), cmd[p]) ELSE Refused(p)
  /\ Still /\ Alone

-----------------------------------------------------------------------------
(* The machine and the people around it                                    *)

Around(m) == machine' = m /\ UNCHANGED <<deskVars, journal>>

\* A bound: a long transaction falls within one second.
Pass(m) == [m EXCEPT !.ticks = Append(@, db.eid)]
Tick == writer = None /\ machine.day < MaxDay /\ Around(Pass([machine EXCEPT !.day = @ + 1]))

\* An agent ends with everything that vouched for it, or one comes up under a free name.
News(m) == machine.news > 0 /\ Around([m EXCEPT !.news = @ - 1])
Ends(n) == machine.vouch[n] # {} /\ News([machine EXCEPT !.vouch[n] = {}])
Comes(n) == machine.vouch[n] = {} /\ News([machine EXCEPT !.vouch[n] = {"process"}])
Second == writer = None /\ News(Pass(machine))
Disable == ~machine.kill /\ News([machine EXCEPT !.kill = TRUE])
WriteLedger == ~machine.ledger /\ News([machine EXCEPT !.ledger = TRUE])
Outside == Tick \/ Second \/ Disable \/ WriteLedger \/ \E n \in Worker : Ends(n) \/ Comes(n)

-----------------------------------------------------------------------------
SyncStep(p) ==
  \/ Repo(p) \/ Aged(p) \/ Fetch(p) \/ Save(p) \/ Cards(p) \/ Lookup(p) \/ Linked(p) \/ Plan(p)
  \/ GMove(p) \/ GNote(p)
ReapStep(p) ==
  \/ Killed(p) \/ Permit(p) \/ World(p) \/ Scan(p) \/ Free(p) \/ FreeNote(p) \/ Journal(p)
  \/ Holder(p) \/ AskAlive(p) \/ Release(p)

\* What every step leaves behind: column_since, and the histories the properties are about.
Records ==
  /\ young' = (IF machine'.day # machine.day THEN {} ELSE young) \cup
              {i \in Id : Exists(db', i) /\ (~Exists(db, i) \/ db'.card[i].col # db.card[i].col)}
  /\ repos' = repos \cup ({Get(db', "github")} \ {None})
  /\ wrote' = wrote \cup {pair \in Flagged : WroteLater({e \in Lines(db') : e.eid >= db.eid}, pair)}

ChoresStep ==
  \/ DeskNext /\ Alone
  \/ \E p \in Proc : SyncStep(p) \/ ReapStep(p)
  \/ Outside

ChoresNext == ChoresStep /\ Records
ChoresSpec == ChoresInit /\ [][ChoresNext]_<<deskVars, choreVars>>

-----------------------------------------------------------------------------
(* Properties                                                              *)

\* A card moves on the evidence of a repository the board was set to at some time, and never on
\* that of another board's: what the full-screen board fetched for the board it showed before
\* does not move the cards of the one it shows now (main.rs, Sync; tui.rs, run).
Moved(p, i) == Exists(db, i) /\ Exists(db', i) /\ db'.card[i].col # db.card[i].col /\ cmd'[p] # cmd[p]
OwnEvidence ==
  [][\A p \in Proc : At(p, "gmove") => \A i \in Id : Moved(p, i) => cmd[p].item \in repos]_<<deskVars, choreVars>>

\* tb-reap and tb release free a card only on proof: the reaper after enough days of dry runs in
\* which no owner it named dead wrote to the card in a later second, on a board that still has it;
\* never in a dry run or inside an agent; never a card whose owner, when it was scanned, was the
\* caller, protected, or vouched for by a probe that asks nothing of the board; and release only
\* from the very holder it asked about (tb_reap.rs, apply_refusals and scan_board; release.rs).
\* What the reaper frees may have moved or changed hands since it was scanned.
Vouched(p, o) ==
  o \in Protected \/ o = plan[p].text \/ (o \in Worker /\ cmd[p].base[o] \cap {"agent", "tmux", "process"} # {})
FreedOnlyDead ==
  [][\A p \in Proc :
       /\ At(p, "permit") /\ cmd'[p] # cmd[p] /\ cmd'[p].end = None =>
            /\ \A pair \in wrote : ~Exists(db, pair[1])
            /\ \E n \in DOMAIN journal : journal[n].current /\ journal[n].day + MinDays <= machine.day
       /\ At(p, "free") => \A i \in Id : Moved(p, i) =>
            /\ ~plan[p].dry /\ ~plan[p].agent
            /\ \E pair \in cmd[p].old : pair[1] = i /\ (pair[2] = None \/ ~Vouched(p, pair[2]))
       /\ At(p, "release") => \A i \in Id : Moved(p, i) => db.card[i].owner = cmd[p].item]_<<deskVars, choreVars>>

\* What is freed is still in DOING and still its dead owner's (tb_reap.rs: a card in REVIEW is
\* `never touched').  Does not hold: README, known disagreements.
FreedAsScanned ==
  [][\A p \in Proc : At(p, "free") => \A i \in Id : Moved(p, i) =>
       db.card[i].col = "doing" /\ <<i, db.card[i].owner>> \in cmd[p].old]_<<deskVars, choreVars>>

\* Sync moves cards forward, never back (github.rs, plan_moves).
Rank == [todo |-> 1, doing |-> 2, review |-> 3, done |-> 4]
SyncForward ==
  [][\A p \in Proc : At(p, "gmove") =>
       \A i \in Id : Moved(p, i) => Rank[db'.card[i].col] > Rank[db.card[i].col]]_<<deskVars, choreVars>>
=============================================================================
