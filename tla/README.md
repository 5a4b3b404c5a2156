# terminal-board, specified and verified in TLA+

terminal-board (`tb`) is a task board that people and coding agents share. There is no server:
every `tb` command is a process of its own that opens a SQLite file, reads, asks other programs (a
pre-change hook, herdr/tmux/ps, `gh`) a question, and writes. Everything that is hard about it
comes from that: what one process read is what another has changed by the time it writes.

This directory specifies it in TLA+, checks it with TLC on small instances and proves the main
results of its core with TLAPS for every value of the constants. Paths below are those of the
repository.

## 1. Inventory

| Component | State | Operations | Meets the others through | Hard about it |
|---|---|---|---|---|
| Card transitions (`src/store.rs`: `transition`, `transition_inner`) | a row per card: column, owner, reviewer, block | next, take, assign, move, done, drop, release, sync | one write transaction per change; the event log | guards are read twice: outside the lock and inside |
| Review claim (`next_review`, `claim_review`) | the row's `reviewer` | next --review, claim, freeing | liveness probes, the close guards | the probe's answer is about an earlier moment |
| Verifier and force rules (`store/verifier.rs`) | none: the actor's identity, the registry, the log | guards of a close | reads the events of the card | must survive every legal detour of a card |
| Blocks (`store/blocks.rs`) | `blocked`, `blocked_on`, `blocked_until` | block, unblock; lifted by DONE | WIP counting, `next` skips blocked cards | the other card may finish meanwhile |
| Limits and actor lists (`store/access.rs`) | settings | guards | every write | keyed on the future holder |
| Archive (`store/archive.rs`) | archived cards with their events | rm, restore | WIP limit, holder rule | a card comes back to a board that moved on |
| Closing rules (`store/closing.rs`, `links.rs`, `rounds.rs`) | events, links | note, link, approve, send-back | close guards | "since this stay" is reconstructed from events |
| Rows of a card (`store.rs`, `store/due.rs`, `store/order.rs`) | text, date, checklist, links, position | add, edit, check, link, block, prio | several statements per command | items are named by a number that moves |
| Import and bulk edit (`import.rs`, `store/bulk.rs`) | none | a document planned, then one transaction | limits and actor lists as they are by then | all or nothing |
| Settings and kinds (`store/access.rs`, `kinds.rs`, `readers.rs`, `rules.rs`) | table `config` | tb config, tb new --kind, --from | every other rule reads them | no setting is a transaction |
| Sessions (`main.rs`: `run`) | environment: name, card, role, reading | admission of a command | the readers list | decided once, before many steps |
| Event stream (`main.rs`: `watch`) | a cursor | poll, print | table `events` | other processes append meanwhile |
| Pre-change hooks, trust (`store/gate.rs`, `src/hooks.rs`) | trust store, run tickets | ask, run, trust, nested calls | every column change | run outside the lock, for seconds |
| Machine settings (`src/machine.rs`) | one JSON file | read-modify-write | trust, default board | lost updates, torn files |
| Release, liveness, reaper (`store/release.rs`, `src/liveness.rs`, `src/bin/tb_reap.rs`) | the journal of dry runs | release, reap | panes and processes outside | answers age |
| GitHub sync (`src/github.rs`) | a snapshot | fetch, look up, plan, apply | moves as the actor `github` | the plan is stale when applied |
| Setup wizard (`src/setup.rs`) | rows of `config`, the person's AGENTS.md | questions and writes | other commands, an editor | it waits for a person between reading and writing |
| Full-screen board (`src/tui.rs`) | modes, forms, prompts, a fetching thread | keys | the same store operations | what is on the screen is old |
| Board files (`src/boards.rs`, `Store::open`, `upgrade`, `creator.rs`) | files, -wal, archives, backups, the default pointer | create, open, upgrade, archive, restore, delete | the advisory lock | a file replaced under an open connection |
| Advisory lock (`src/lock.rs`) | lock file, ticket files, counter file | take, take again, release | an open board holds it shared; archive, restore, delete take it exclusive | fairness is built from files by crashing processes |
| Transfer (`store/transfer.rs`) | two boards | mv | two write locks | no transaction spans two files |
| Contract, export, filters, drawing, text input, rosters | see `PROJECT.json` | | | |

`PROJECT.json` lists every component with what is modelled of it, and every hazard with the line
where it bites and the properties that would catch it.

What makes each one correct, in a sentence: work has one holder at a time and its holder never
approves it; a claim is only lost to its holder, to a person, or to a proof of death; a hook's yes
and a probe's answer are spent on what they were about; limits bound what is handed out; a block
is lifted by what it waits for; a document lands whole or not at all; a session never does what it
may not; newer words are not overwritten by older ones; what runs as a hook is the file that was
checked; an acknowledged write is in a file a name stands for; the file lock is first come, first
served and survives crashes.

## 2. The modules

Three groups, joined by what one promises the other.

### Work on a board: `Board`, `CardFlow`

`Board.tla` is one board file and the processes that move work on it. A command is three steps,
because the code is: **Begin** makes the reads before any lock (the snapshot a hook is shown, the
column `tb done` finds the card in, release's holder), **Probe** asks whether the claimant is
alive, **Finish** is the `BEGIN IMMEDIATE` transaction with every guard again. **Abort** is every
other end. Commands that are one transaction (`note`, `link`, `rm`, `restore`, `add`, `next
--review`) are one action each.

| TLA+ | Code |
|---|---|
| `card[c]` | a row of table `cards`: column, owner, reviewer, blocked, blocked_on |
| `past[c]` | what the rules read back from table `events`: the last `taken`/`assigned` holder, the last mover into REVIEW, the sessions that built it, `returned` count, a note this stay, a link |
| `stay[c]` | history only; no guard reads it. How the last stay in DOING began, who did that work, whether a note is newer than the last change of column |
| `shelf[c]` | not created, on the board, in the archive, deleted |
| `alive[n]` | the answer of `World::alive_for_release` for a name: it changes at any time |
| `op[p]` | what a running command holds in local variables between its reads and its transaction |
| `Change` | `transition_inner` from what is asked to the commit: approval, reason, release's holder, send-back rule, holder rule, close guards, WIP, then row and events |
| `DoneChecks`, `CloseRule` | `done_checks`, and `--force` with `may_force` |
| `Unclaim`, `TakeClaim`, `NextReview` | the three ways a claim changes outside a column change |

`CardFlow.tla` is the abstract specification: a card, its holder and its claim, no processes.
`Board` implements it under `Flow`. `MCBoard` holds the values the MC modules share; `MCReview`,
`MCCaps` and `MCHooks` each give a board, its people and the command lines they may type.

### Everything else a board says: `Rows` to `Screen`

`Board` keeps of a row what decides who may move it. The other group keeps the rest, and treats a
move as one more write that races with it. Each module extends the one before and adds what its
part of the program adds:

| Module | Models | Adds |
|---|---|---|
| `Rows` | what one statement or transaction leaves in the file (`store.rs`, `links.rs`, `bulk.rs`, `archive.rs`) | operators on a record of the tables: cards, order, items, links, the two logs, the archive of cards with their logs, config, snapshot |
| `Settings` | `tb config`, kinds, `tb new --from` | which statements a change of a setting is, who may set which key |
| `Document` | `import.rs` | rows of a document, their problems, the plan |
| `Gate` | `main.rs`, `run` | what a session may ask: read-only, pinned to a name, bound to a card, leading, inside a hook |
| `Order` | `order.rs`, `due.rs` | the one ordering all lists and `tb next` use; what a date means on a day |
| `Desk` | the arms of `main.rs`, `watch` | **state**: `db` (committed), `writer`/`work` (an open transaction), `plan`/`cmd` (a command's phases and its locals), `tail` (watch) |
| `Chores` | `github.rs`, `tb_reap.rs`, `release.rs`, `liveness.rs` | `machine` (what vouches for a name, the days and the seconds, the kill switch), `journal` (dry runs), `young` |
| `Wizard` | `setup.rs` | `home`: AGENTS.md by line, the skill, install.conf |
| `Screen` | `tui.rs` | `app`: what is shown, the mode and what it waits for, the key under way, the fetching thread |

`Rows`, `Settings`, `Document`, `Gate` and `Order` are operators without state: what the pure part
of the code computes. In `Desk` a command is a sequence of phases, each one statement or one
transaction; `Program` gives the sequence from the arm of `main.rs` (`tb check` is: find the
holder, read the item by its number, write, log, log the force). Between two phases every other
command may run, and a mortal one may be killed. Of a column change `Desk` has the row, its log
lines and, for a close, the cards that waited for it (`OnDone`, in the same transaction); `tb rm`
on an archiving board takes a card's log lines aside and `tb restore` puts each back under the
rowid it had. A phase of a command with an explicit transaction (`Begin`, `Row`, `Commit` of a
bulk command) works on `work` and shows in `db` only at its commit. The screen's keys are the same
phases with decisions taken on `app`, so what it does wrongly or rightly with old reads is a
matter of the same `db`.

`Screen` composes all of it: its specification runs commands of `Desk`, the chores, setup and the
screen on one board.

### Files, locks and programs: `FileLock`, `BoardFiles`, `Trust`, `Transfer`

`FileLock.tla` is `src/lock.rs`: `take` with its uncontended try, `join_queue` with the three
writes of the counter file, the poll loop, tickets removed by name, and what may happen to a
process at any point: it crashes, a write fails, it is stopped for longer than `TICKET_FRESH`, it
runs out of patience. `kept` holds the processes that have the lock shared and take it again:
`open_if_exists` keeps its guard while `open` takes another, through the same queue.

`BoardFiles.tla` uses that lock through its promise (shared and exclusive holders, taken in one
step) and models which file a name stands for:

| TLA+ | Code |
|---|---|
| `live[n]`, `wal[n]`, `data[f]` | `boards/n.db` as a file identity, the writes in its `-wal`, the writes in the file |
| `arch[n]` | the archives ever made of the name, oldest first, and which of them are still there: a number stands for the stamp in an archive's file name |
| `bak`, `saved` | upgrade backups, the saved default board |
| `old[n]`, `oldWal[n]`, `newDir` | the directories of an older installation and whether the new one exists |
| `schema[f]`, `side[f]`, `maker[f]` | nothing yet, older or current tables; the tables added after the upgrade (`actors`, `board_creator`); the creator's record |
| `Resolve` | `boards::select`/`resolve` |
| `MakeDir`, `MoveDb`, `MoveWal`, `OldMoved` | `boards::migrate`: the listing (`toMove`), a rename for each entry of it in any order, and its end, of which the first failed rename is one |
| `Look`, `Make`, `DryRun`, `UpgradeBegin`, `BackUp`, `UpgradeCommit`, `AddTables`, `RecordCreator` | `Store::open` and `upgrade`, step by step |
| `There`, `Fold`, `Archive`, `Link`, `Unlink`, `Delete`, `RemoveOne`, `Sweep` | `archive`, `restore`, `delete` |
| `ListBoards`, `Pick` | the picker of the full-screen board |
| `born`, `acked`, `gone`, `over` | history: who made a file, acknowledged writes, writes deleted on purpose, what a file or a -wal moved over another, or a fold, has lost |
| `apart[n]` | history: the file brought over to a name without its -wal, until somebody opens it |

`Trust.tla` is `hooks.rs` and `machine.rs`: the settings file with its two reads, its lock, its
temporary file and rename; `Judge` (is this a nested call, and of which board), `Check` (what the
entry says and what the command's bytes are now), `OpenTicket`, `Spawn` by the handle that was
hashed, `Poll`, `Timeout`, which kills the process group and nothing else, `Drain` (the threads
that read the output), post-change hooks. `Answer`, `Fork`, `LeaveGroup` (what it forked calls
setsid), `GrandEnds` and `CallTb` are the hook's own; `Meddle` is whoever writes a command's file
in place, renames another over it, relinks or loosens it, or breaks the settings by hand. What
runs is the open file with what is in it when it starts, so `rewritten` remembers whose file was
written in place since its check. The change itself is one step, `Commit`; what it does is
`Board`'s, whose `Approved` assumes what `Gated` promises here.

`Transfer.tla` is `tb mv ID --to BOARD`, two boards and the processes that move cards between
them. A card is a number per board, so a place is a pair of a board and a number.

| TLA+ | Code |
|---|---|
| `rows[b][i]` | the row of table `cards` with its events; `None` when it is deleted |
| `made[b]` | the AUTOINCREMENT counter: a number never comes back |
| `outs[b]` | the `moved-out` records of the board log, `#7 to work is #3 there` |
| `writer[b]` | who is between `BEGIN IMMEDIATE` and `COMMIT` on board `b` |
| `mv[m]` | the locals of a running `tb mv`: the card asked for, what it packed, its new number |
| `work`, `acked`, `removed`, `spare` | history: what a number stands for, the events whose writer was told they are kept, what was removed on purpose, where a move broke off |
| `Check` / `Hold` / `Receive` / `Clear` | `move_card` in main.rs / `BEGIN IMMEDIATE` and `pack` / `receive` / the deletes, the log record and the commit |
| `Refuse`, `Undone`, `BreakOff` | `no card #N`, ten seconds of `SQLITE_BUSY`, any error or kill before the far commit; any after it |
| `Add`, `Note`, `Take`, `PutBack`, `BlockOn`, `Remove` | the other commands of a board, a transaction each |

The theorems are in a module beside each: `BoardProofs`, `CapProofs` (the limits of `Board`, on
top of `BoardProofs`), `FileLockProofs`, `TransferProofs`, `TrustProofs`, `FilesProofs` and
`DeskProofs` (which proves what it needs of the operators of `Rows`, `Settings`, `Document` and
`Gate` too).

Beside some definitions stands a second one with a plausible mistake in it (`WantUnasked` beside
`Want`, `ByPath` beside `ByHandle`); no specification uses it. With the mistake in place of the
definition the property that guards it fails, which shows that the property can.

## 3. What TLC checks

| Run | Question | What is in it |
|---|---|---|
| `claims` | Who may finish a card under review? | one card; a person, a builder agent, two registered verifiers, one of whom may die and come back; two commands under way at once |
| `work` | Whose work is a card, after every legal detour? | one card; take, assign, drop, release, moves by others, sync, archive and restore, a board that asks for a note and a link; two commands at once |
| `caps` | Do the limits bound what is handed out? | five cards, wip 2, one card per owner, blocked cards discounted; one command at a time |
| `hooks` | Is a hook's yes spent on what it was about, and are blocks lifted? | two cards, every change approved at one moment and made at a later one |
| `lock_queue` | Is the file lock first come, first served, and does a waiter get it? | three takers, one steady; one that may crash, fail to write, be stopped or keep a board open for good; one that may give up and takes the lock twice |
| `transfer` | Does `tb mv` lose or double anything, and does it end? | two boards, a card filed on each, two moves that may cross, all the commands that race them |
| `files` | Does a name always stand for the file people work on, and is no write lost? | two names, three commands out of sixteen, two of which may be killed, four files; a board with an unfolded -wal and an archive, the same archived, an older installation whose files are moved one by one |
| `trust` | Does only what was confirmed run, and does nothing pass a hook? | two hooks, two commands' files, three `tb`, nested calls two deep, hooks that fork and leave their group, one change from outside, a write in place among them |
| `desk` | Do commands that write in several statements stay whole and within their session's bounds? | three commands out of some ninety in seven worlds: cards, settings, a stream on a board that deletes and on one that archives, sessions beside cards that wait for one another, documents, issues |
| `screen` | What do sync, the reaper, setup and the screen do on what they read long ago? | ten worlds: sync and a refresh, the reaper and releases, a form, a popup, moves, a fetch, an agent's screen, setup on three machines, each beside commands of others |

Two runs have one property each, taken from a sentence of the documentation or of a comment, and
TLC finds a behaviour of the code that breaks it:

| Run | Sentence | What happens |
|---|---|---|
| `SyncForward` | github.rs:596: forward-only moves, never backwards | sync reads the cards, asks GitHub for seconds, and applies its plan: a card a person verified and moved to DONE meanwhile goes back to REVIEW |
| `PickerCreates` | docs/HUMANS.md:185: no other command than add and config makes a board; store.rs:1634 | the picker opens a row it listed earlier with `Store::open`, which makes a missing file: a board archived meanwhile comes back empty and blocks its restore |

Neither contradicts a passing property: `OnlyCreatorsCreate` is `PickerCreates` for every command
but the picker. Further disagreements are listed in section 6.

**Bounds.** `MaxOpen` (`Board`) is the number of commands between `Begin` and `Finish`: every race
here is between what one command read and what others committed, and a second command under way
supplies the second stale reader. In `caps` it is 1, because the limits are read in the
transaction that spends them and an earlier read adds nothing. `Menu` gives each process the
command lines it may type; they are chosen per run so that the interesting orders exist (a builder
that drops and comes back, a verifier who dies holding the claim) and everyone may repeat them
without limit. `MaxReturns` 1 is enough for a card to come back on top of the limit. `MaxTicket` 3
gives every taker of the lock a number, or lets one of them come back for another; who comes after
that waits without a ticket, as a process does that cannot use the queue's directory. `MaxId` 2 in
`transfer` lets each board number a card filed there and one that arrives, so a card comes back to
the board it left under a second number; a third arrival meets `Full`. A process runs one `tb mv`
in `Transfer`: a repeated move is another process. `Alike` in `caps` permutes cards that no
command line tells apart, and the properties of that run are invariants.

In `files`, `trust`, `desk` and `screen` a process is one command, of which it may be any in its
plan, and a behaviour starts in one of `Worlds`. Three commands are enough for a command, what
changes under it and a third that makes the second's change matter (a maker, an opener and an
archiver; a tick, a removal and a list of actors); the plans put those that meet in one world,
since any two commands about different things commute. `Mortal` are the ones that may be killed,
between any two of their steps. `MaxId` 4 in `desk` leaves room for two cards of a document beside
two that are there, 3 in `screen` for one new card. `MaxMeddle` 1 allows one change of a file by
others and `MaxDepth` 2 one nesting more than a hook of a hook needs to be refused. `MaxChecks` 1
makes sync leave a reference unasked, `MinDays` 1 and `MaxDay` 2 give the reaper a day of dry runs
and a day on which they count. A second may pass (`ticks`) as long as something is left of `news`,
and one does with each day; none passes inside a long transaction, so all its lines bear the
second in which they became visible. `keys`, `left` and `fetches` of a world are the commands that
may be typed into the screen, how many keys and how many fetches; `news` is what may happen around
the board. `Calendar` says which due texts are dates. `files` takes `NewFiles` as symmetry: the
two files that do not exist yet are the same to every world, and the run has no liveness.

Deadlock is checked for the runs whose processes always have something to do; it is off where
commands end and no others come (`files`, `trust`, `desk`, `screen`, `transfer`) or a board may
come to rest.

Two facts about `Order` need no behaviour and are assumptions of `MCDesk` that TLC evaluates:
`OrderIsTotal` (whatever the dates, the dated cards come first, nearest first, and cards of one
day or of none keep their position) and `DueGoesOneWay` (a card goes from ok to soon to overdue
and never back).

## 4. Fairness

Safety needs none. Four liveness properties are checked:

- `Served` (file lock): a steady waiter gets the lock. Assumed of each process: it goes on with
  the step of `take` it is in, because the loop polls every few milliseconds without waiting for
  anything; a wait that can run out does, because each turn of the loop looks at the deadline
  (strong fairness: the loop is at that point again and again); and it gives the lock back. The
  last is not assumed of `Sitting` processes with a shared lock, since a `Store` holds it as long
  as it is open and the full-screen board keeps one open: a waiter that wants to move the board is
  then not promised anything, but whoever only wants to open it is, past any waiting move. Nothing
  is assumed of asking, stalling and crashing.
- `MovesEnd` (transfer): every move ends. Assumed: a running mover takes its next step, or the
  busy timeout (`BUSY_WAIT`, ten seconds, `store.rs`) fires while somebody else has the lock it
  wants. Two crossing moves hold what the other wants; the timeout is all that ends them, and the
  mutant that lets it fire only at the first lock deadlocks. Weak fairness is enough because
  either step, or the refusal, is enabled from then on until the mover takes one.
- `HangsEnd` (trust): a command whose hook hangs, forks or calls tb ends. Assumed: tb takes its
  next step, its timeout among them, because it polls a clock (`Step`); nothing is assumed of the
  hook, of what it started, of who kills or of who rewrites files. It has one exception, which the
  code has: a process that holds the hook's output while the hook has exited, or from outside the
  group that the timeout kills, is waited for as long as it runs (`Waits`; `HookReturns` in
  section 6).
- `StreamComplete` (desk): every line of the log that stays, and was not put back by a restore, is
  printed by a running `tb watch --events`. Assumed: the watcher polls and prints, which it does
  until its reader is gone. Nothing is assumed of the commands.

Nothing is claimed of a command of `Board` getting through: a busy board may refuse it, and tb
says so and exits.

## 5. What is proved

TLAPS checks these for every value of the constants that meets the named assumptions, so for any
number of cards, names, processes, command lines, boards, moves, hooks and files. Nothing is
assumed finite. The assumptions, each evaluated by TLC in every run of its module:

- NULL (`None`, `Hot`) is no name, card, row, file, process or entry;
- `MenuAssumption`, `PlansAssumption`: the shape of a command line, which the argument parser
  guarantees (`tb boards archive` has a name);
- `ConfigAssumption`: settings a board can hold (`wip` at least 1, which `tb config` enforces);
- `WorldsAssumption` of `Trust`: a machine to start from has the types of one, whatever its
  settings, paths and files say;
- `WorldsAssumption` of `BoardFiles`: the directories to start from are such as tb makes. A file
  belongs to one name, because tb never links a board under two; tables are only in files that are
  somebody's; a -wal in the state directory lies beside its file, and none holds what only
  commands of the behaviour write; and while the state directory does not exist nothing is
  archived in it;
- `ProcAssumption`, `WorldsAssumption` of `Desk` and `RowsAssumption`: a behaviour starts from a
  board file that is one (`WellFormed`: a card is in its own column's order once, rowids are used
  once, the archive's among them, nothing hangs on a card that is gone, and none is both archived
  and there) with settings of a board, which is what opening and upgrading a file leaves, and from
  commands and documents as the argument parser and the reader of documents leave them (`Meant`);
  "nothing" and "not named" are different, and neither is a number or a row of the cards table.

**Board** (`BoardProofs`). The invariant `IInv` is the type invariant, `OwnedByColumn`,
`NoSelfClaim`, and four facts neither property says but the step needs: `CommandsMeant` (a command
under way still is what was asked), `NeverOnSelf` (no card waits for itself, or lifting blocks
would lift its own), `HolderLogged` (who took a card is who the log says held it last, which is
what makes the self-approval guard see through drops and moves) and `NotesFresh` (a note the board
counts for a card under review was written during that review stay or later than the last column
change). Each action is first reduced to its effect on one card (`Changed`, `RowKept`,
`Reblocked`, `Reclaimed`, `Wiped`), so that every conjunct is argued once per effect and not once
per command. From `IInv` follow the action properties `WorkIsReviewed`, `NoteIsFresh`,
`CloseAnswers`, `ClaimPassesFromDead`, `ApprovalIsForOneCard`, `LiftedByDone`, and the refinement
`Spec => Flow!Spec`.

**FileLock** (`FileLockProofs`). `FirstCome` is not inductive. `LInv` adds that numbers in use are
below the counter unless it was lost (`CounterAhead`), that a waiter's ticket is the file with its
number and nobody else's (`Placed`, `Numbered`, `TicketsApart`), that the latch on the counter is
held by the process inside the three writes (`LatchHeld`), that everybody who was queued before p
has a smaller number than p (`BeforeAhead`), and that nobody is left before a process whose turn
it is (`NobodyBefore`).

**Transfer** (`TransferProofs`). `IInv` adds to the types: numbers are handed out in order and
none above `made` stands for anything (`Numbered`); from `BEGIN IMMEDIATE` to its end a move is
the writer of its source, the card is there and is what was packed (`Held`); what was committed at
the far end has the work and the events of what was packed, whatever has become of it there
(`Copied`); and each of the promises split by whether the card is still there (`LiveKept`,
`DeadKept`, `BlocksGood`, `OneCopy`). The arguments about one row written, one number handed out
and one row gone are lemmas (`RowWritten`, `NewNumber`, `Goes`) that the actions cite.

**Limits of Board** (`CapProofs`). `WipBound` and `OwnerCap` are cardinalities of sets that the
state defines. The invariant `CapInv` adds that the board holds finitely many cards at any moment
(`BoardFinite`: one command adds one card) and that a card nobody created has the column it will
be created in (`NewInTodo`). The argument is one of counting: what the rule counts is the cards
less the blocked ones it discounts, of which it discounts no more than the limit, so below the
limit there is room for one more below the bound (`RoomForOne`); no action lets more than one card
into the set a limit is about (`OneEnters`); and the actions that let one in asked that rule in
the same transaction. Where cards can leave the count without leaving the set, by a block, the
bound is twice the limit and not the limit.

**Trust** (`TrustProofs`). Five facts make `IInv`: a digest in the settings, or in what a command
is about to write there, is one a person confirmed for that very hook (`Confirmed`); the file a
run has checked is held by its handle until the run ends and, if nobody wrote it in place, holds
what the entry's digest stands for (`Fires`); the hooks answered so far are the first ones of the
list the change was begun with (`Judged`); who is about to rename the settings holds their lock,
and the keys it does not set are still as it read them under it (`Locked`); and `LeftWhole`.
`RanConfirmed` follows from the first two, `Gated` from the third, `KeysKept` from the fourth.
`Meddle` disturbs each of them, and two of its doings are remembered: a hand that breaks the
settings in `spoiled`, a file written in place in `rewritten`. The code has no answer to the
second (README.md:1249 says the owner of the file could as well trust anything), so `RanConfirmed`
then says no more than which file runs.

**BoardFiles** (`FilesProofs`). The properties of this module stand or fall together, since each
holds only of directories the others allow, and `IInv` has thirteen parts. `Locking` carries the
rest: where a command is says which half of which name's lock it holds (`AllSound`), an exclusive
holder is alone (`ExclusiveAlone`), and a board that is being archived is there until it is
renamed (`RetiresBoards`). `SoleHome` says that a file is known under one name only, which makes
every argument about a name one about its files; `Linked`, that while a restore has an archive
under two paths both are of its own name; `InPlace`, that a file comes to be only for who may make
it and is upgraded where it lies. `Makers` and `FreshIsNew` say what a file nobody has written to
looks like, `Writing` what an upgrade in its write transaction excludes, `Copies` what its backup
holds. Three parts are about the one thing that takes no lock, the move of an old installation:
while it can go on, nothing its files would be moved over is of an older schema (`Settling`); a
file that was brought over without its -wal was opened by nobody (`NotApart`); and what a command
of the behaviour wrote is in no -wal that lies apart from its file (`Told`), which with `AllKept`
is `AckedKept`. The invariant was checked by TLC on the instance of the run `files` before it was
proved.

**Desk** (`DeskProofs`). None of the three properties is inductive: what a phase may write was
decided by the phases before it. `DeskInv` therefore says of each command that it is at some phase
n of its own program (`RunsAt`), that from the second phase on its session was let in (`LetIn`:
what `run` asks before any command, less the reader list, which is on the board and may change),
that a person's setting was asked for by `Old` before it is put, that a long transaction is open
exactly while its command is at a row or at the commit, and what its work holds so far (`SoFar`: k
rows made k cards or named k cards that were there and free to edit, and wrote under one name).
What programs look like is a lemma about each of the arms (`Phased`, `ProgramPhased`): one long
transaction, begun, gone through and ended with nothing in between, and each other phase one that
fits the command (`Fits`). The boards are argued in layers. Each operator of `Rows` keeps a board
a board (`WellFormed`) and has a frame, what it may change (`Wrote`, `Unmoved`, `Creates`);
`EffectKept` puts these together for the one transaction of a command and `ImportRowKept`,
`EditRowKept` for a row of a document. Then `BulkWhole` is `SoFar` at the last row, together with
the fact that a document without problems has as many plans as rows. That is the one place where
the proof needs an induction (a finite set of row numbers can be listed in order, `AllListable`),
and it argues it from a least counterexample, since the library's induction theorem takes a
predicate as its parameter. `SessionKeeps` is `LetIn` and the frames: what a launched session was
let in to write (`MayWrite`) names one card, and the frame of what it then writes is that card
and, when it is done, the blocks of those that waited for it (`LetGo`), also when the phases of
other commands have changed the board in between (`Keeps`).

Four theorems about `Order` stand beside them. On any well-formed board and in every column but
DONE the ordering is total and strict (`OrderIsStrict`), so there is always one and only one card
for `tb next` to take while an unblocked one waits (`NextIsForemost`), and it is the first
unblocked one of every complete list of TODO in that ordering (`NextTakesFirst`). `DueOnlyNears`
is about the meaning of a date as days pass. `OrderIsTotal` and `DueGoesOneWay` check the lists
themselves for particular dates; the order of DONE, newest first, is modelled and not argued
about.

**Screen** (`ScreenProofs`, over `Desk`, `Chores`, `Wizard` and `Screen` together). Here a program
changes while it runs: a sync goes on with the moves it has planned, a reaper with the cards it
found, setup with what a person answered, and the screen starts another command at each key. So a
place in a program says nothing, and the invariant speaks of the list of phases a process has
left. `ScreenInv` says that this list always fits the command (`InLine`: phases of that command
only, a long transaction's together, and a note behind each card that is freed), that a
transaction is open exactly while its process is inside those phases (`ProcOK`), that the board
and what is written to it but not committed are well formed (`FileOK`), and that what the screen
may begin is fit to be begun (`AppOK`). Each action is first brought to one form (`StepForm`: its
process ends, goes on to its next phase, or puts a list in front of what it had left), so that the
invariants below are argued over that form. Each of the properties then needs to know what the
decision that led to a phase was made on:

- `OwnEvidence`, by `OwnInv`: the repository a process moves cards by, and the one the screen
  keeps for this board, is one the board was set to (`OnEvidence`), and `WantedNow` lets in no
  page that was fetched for another;
- `EditKeepsNewer`, by `FormInv`: while the form is busy, what is left to do is to save what was
  typed over the very row the form showed, and `MayEdit` compares with that in the same
  transaction;
- `FreedOnlyDead`, by `LogInv` and `Allowed`: the log of dry runs and the seconds are only added
  to (`Passing`), so who was named stays named since the same second (`FlagsKeep`), and whoever
  wrote in a later one is still in the log of the board or of its archive (`Remembered`); a reaper
  that has a scan before it has not asked yet, or was let on, or runs dry, and one that frees
  cards was let on and has each of their owners from its scan, which no probe vouched for (`Dead`,
  `Doomed`).

The assumptions are those of `Desk`, and: the keys of a world are commands the screen can make
(`ScreenAssumption`), the names sync and the reaper act under are names, and a behaviour starts
from a log of dry runs that the reaper can have written before now (`ChoresAssumption`).

**Only model-checked.** The liveness properties (`Served`, `MovesEnd`, `HangsEnd`,
`StreamComplete`), which this prover does not do; `SetupKeeps`, because what stripping a block
leaves of a file is a fold over its lines, so that it keeps every other line is an induction over
data; and the two documented claims that fail.

## 6. What is not modelled, and known disagreements

Not modelled, and why:

- Drawing, JSON, exports, filters, help and message texts: no state of their own.
- What a title, a text or a due text says: they are members of small sets. Parsing GitHub's JSON,
  herdr's and tmux's output, and cleaning of text are likewise values.
- In `Board`, card order: `next` takes any card it would consider, which includes what every order
  gives; `Desk` has the order. In `Board` settings are constants; `Desk` changes them.
- In `Desk`, the guards of a column change, the limit a restore asks and `block --on`: they are
  `Board`'s. The line a refused `tb rm` leaves on the board's log.
- In `Trust`, a tb called by a process that left its hook's group.
- In `BoardFiles`, the single files `board.db` and `demo.db` of the first releases
  (boards.rs:617), which move with their -wal after them just as the entries of the old directory
  do.
- In `Chores`, `journal` and `wrote` are about this board; what the reaper does to another is
  another behaviour.
- SQLite, WAL and flock(2): their guarantees (one writer per file, atomic commit, locks that die
  with their process) are the atomicity of the transaction actions. `BoardFiles` has the -wal as
  far as files are moved without it.
- `tb delete`'s own lock on an archive file, file modes and directory permissions, the symbolic
  link a settings file may be.
- Interning of identities in table `actors`; `--until` dates and the waiting lane.
- Where the cursor is on the screen: a key may be about any card that is shown.

**Known disagreements** between the code and its documentation, besides the two runs above. Those
with a name are stated in the module; put under PROPERTY (or INVARIANT, when it is about states)
in the configuration of the run of that module, TLC finds the behaviour.

| Where | Sentence | What the code does |
|---|---|---|
| `Board`, `HolderNeverCloses`, store.rs:669 | README.md:159: nobody closes their own work | `tb move ID doing` makes its actor the holder but logs `moved`; after a drop `last_holder_of` does not know them. `WorkIsReviewed` is the same for holders who took the card or were assigned it |
| `Board`, `ClaimPassesFromProbed`, store.rs:2487 | store.rs:2486: a claim that changed between the probe and the tx loses | the transaction frees whatever reviewer it finds when the probe said dead. `ClaimPassesFromDead` is what holds |
| `Board`, `StaleClaimFreed`, store.rs:3060 | store.rs:3054: a stale claim frees inside the close | it is freed, and the UPDATE after it writes the dead claimant back as the reviewer |
| `Board`, `NoOrphanBlock`, blocks.rs:183 | blocks.rs:189: instead of storing a block nothing can lift | the other card finishes between the check and the UPDATE |
| `Transfer`, `HoldersKeepTheirCards`, main.rs:1356 | README.md:832: a held card is not moved without `--force` | the holder is looked up before the source board is held |
| `FileLock`, `ReopensAtOnce`, store.rs:1659 | store.rs:1649: re-taking the lock is not a second wait | an archive that queued in between is ahead of the second take and waits for the first; a time limit ends it |
| `BoardFiles`, `NoPhantomDefault`, boards.rs:62 | a saved default whose board is gone is never re-created | the file is looked for without a lock; an archive between that and the open leaves the creating command to make it |
| `BoardFiles`, `NeverOverwritten`, boards.rs:602 | bringing old files over never overwrites a board | the look and the rename are two steps, without a lock |
| `BoardFiles`, `NothingStranded`, boards.rs:611 | boards.rs:600: the files of the old directory move over | a database and its -wal are renamed one after the other. A kill, or a rename that fails because another tb took the entry, leaves the -wal on the other side, and the next start finds the new directory there and moves nothing more. `AckedKept` allows that for what was written before |
| `BoardFiles`, `EveryChangeBackedUp`, store.rs:1617 | store.rs:1125: whatever would change an existing board's schema is backed up first | `actors::migrate` and `creator::migrate` run after `upgrade`, in statements of their own: a board that lacks only those tables is changed without a copy. `UpgradeBackedUp` is the same for boards that `upgrade` has something to do on |
| `Trust`, `RanConfirmed`, hooks.rs:836 | hooks.rs:567: the file that runs is the file that was read | a file written in place by its owner between the check and the start runs with what is in it by then. README.md:1249 grants it, and the property leaves it out |
| `Trust`, `RevocationKept`, machine.rs:21 | a write by someone else is kept, not reverted | a change to one hook writes the whole `hooks` object as it was computed from the read before the lock, and the read inside it merges top-level keys only: a trust of another hook that was taken back meanwhile returns |
| `Trust`, `HookReturns`, hooks.rs:39 | the change waits up to the hook's timeout | a hook that exits and leaves a process with its output open, or one that is killed after what it forked left its group (hooks.rs:884), is waited for as long as that process runs (hooks.rs:989) |
| `Trust`, `NeverAskedAgain`, hooks.rs:161 | a hook that runs tb on the board that asked is not fired again | by way of a second board's hook it is |
| `Gate`, main.rs:493 | README.md:86, docs/JSON.md:320: a session launched for a card writes no other | next, claim and sync are not in `card_bound_write` |
| `Desk`, blocks.rs:142 | README.md:86: every write on another card is refused | a session launched for a card that brings it to DONE lifts the blocks of the cards that waited for it, and logs on each. `SessionKeeps` allows just that |
| `Desk`, archive.rs:355 | docs/SCHEMA.md:70: an event's id only grows, the resume cursor of `tb watch --events`; docs/JSON.md:167: one line per event | a restore puts events back with the ids they had. One that was archived before the watcher read it, and restored after the cursor passed, is never printed. `StreamComplete` leaves put-back lines out |
| `Chores`, `FreedAsScanned`, tb_reap.rs:138 | tb_reap.rs:7: a card in REVIEW is never touched | it frees from the list of its scan, with force: a card that moved to REVIEW or was taken by somebody alive meanwhile is sent to TODO. `FreedOnlyDead` is about the owner that was scanned |
| `Chores`, tb_reap.rs:215 | tb_reap.rs:20: no card the dry run flagged was later written to by its owner | both are whole seconds, compared strictly: a write after the dry run in its own second is not counted. `FreedOnlyDead` says `in a later second` |
| `Desk`, store.rs:2645 | access.rs:91: a name that is not on the list writes nothing | the tick of an item is committed before its log line is refused; and the item is found by number outside the write, so a removal in between ticks another |
| `Screen`, tui.rs:795 | the prompt names the holder it will go past | it goes past whoever holds the card by then |
| `Screen`, tui.rs:845 | a newer due date is not overwritten | the date is compared outside the transaction that writes it |
| `Screen`, tui.rs:1160 | a key on a held card asks first | it looks at a list up to two seconds old |
| `Wizard`, setup.rs | a connected board keeps its repository | "change" answered yes disconnects it when `gh` is missing or logged out, or on enter; `tb setup --yes` connects over a repository set meanwhile on a board it found without one |
| github.rs:665 | every card whose evidence changed is moved | apply_moves stops at the first refused move |
| gate.rs:98 | a hook's run is recorded | after the commit, and its failure is ignored |
| store.rs:2905 | docs/JSON.md:302: a person frees a claim | `tb move ID review` frees anybody's claim, whoever asks |
| store.rs:3497 | tb done takes the next step of its card | the column is read outside the transaction: a card moved and claimed meanwhile loses its claim |
| archive.rs:341, store.rs:3091 | wip-per-owner | restore and reopening do not ask it of the new holder; `OwnerCap` counts what was taken, assigned or moved out of TODO |

## 7. Plan

What is left is proof and depth, in this order:

1. `SetupKeeps`, as far as it can be proved: a dry run that changes nothing, and the repository
   and the panel it leaves, apart from what it says of the lines of a file.
2. `BoardFiles` over `FileLock` itself instead of its promise, as a refinement of the lock.
3. `Order`: that the ordering is total in DONE too, which needs a log of finitely many lines.
