----------------------------- MODULE BoardFiles -----------------------------
(***************************************************************************)
(* The board files of a user: which file a board's name stands for, while  *)
(* commands create, open, upgrade, archive, restore and delete boards.     *)
(*                                                                         *)
(* A process is one tb command, from its start to its end.  A command that *)
(* works on a board holds the shared half of the name's lock from before   *)
(* it looks for the file until it ends; archive and restore hold the       *)
(* exclusive half (module FileLock is that lock; here it is taken in one   *)
(* step).  Nothing holds a lock while it resolves a name, reads the saved  *)
(* default, checks `already exists' for tb new, or moves the files of an   *)
(* old installation.                                                       *)
(*                                                                         *)
(* What a file holds is the set of writes in it: the process that made the *)
(* write, the file's own past (f stands for what f held from the start),   *)
(* and Hot, a write a killed process left in a -wal.                       *)
(***************************************************************************)
EXTENDS Naturals, Sequences

CONSTANTS
  Proc,     \* the commands of a behaviour
  Plans,    \* Plans[p]: what command p may be
  Mortal,   \* bound: the commands that may be killed
  Name,     \* board names
  Default,  \* the built-in default board's name
  File,     \* file identities (inodes)
  Worlds,   \* the directories a behaviour may start from
  Hot,      \* a write in a -wal nobody folded back
  None

ASSUME FilesAssumption ==
  /\ Default \in Name /\ Mortal \subseteq Proc
  /\ None \notin Name /\ None \notin File /\ None \notin Proc
  /\ Hot \notin Proc /\ Hot \notin File /\ Proc \cap File = {}

Write == Proc \cup File \cup {Hot}

VARIABLES
  live,     \* live[n]: the file boards/n.db
  wal,      \* wal[n]: the committed writes still in boards/n.db-wal
  arch,     \* arch[n]: the archives of n ever made, oldest first, and which are still there
  old,      \* old[n]: the file ttyboard/boards/n.db, of the time before the rename
  oldWal,   \* oldWal[n]: the writes in its -wal
  newDir,   \* the state directory terminal-board exists
  apart,    \* apart[n]: a file brought over to n.db whose -wal nobody has missed yet: not opened since
  data,     \* data[f]: the writes in file f itself
  schema,   \* schema[f]: "none" (a new, empty file), "old" or "new"
  side,     \* side[f]: the tables f has of those that are added after the upgrade
  maker,    \* maker[f]: the board_creator row
  bak,      \* the whole schema-upgrade backups beside the boards
  saved,    \* the saved default board
  held,     \* held[n]: who holds the name's lock, and how
  writer,   \* writer[n]: the process in an upgrade's write transaction
  plan,     \* plan[p]: what command p is
  cmd,      \* cmd[p]: where it is
  born,     \* history: born[f]: the process that created file f
  acked,    \* history: the writes whose writer was told they are kept
  gone,     \* history: the writes in archives that were deleted on purpose
  over      \* history: what a move put under another file or -wal, or a fold left, and so lost

fileVars == <<live, wal, arch, data>>
legacyVars == <<old, oldWal, newDir, apart>>
boardVars == <<schema, side, maker, bak, born>>
lockVars == <<held, writer>>
pastVars == <<acked, gone, over>>
vars == <<fileVars, legacyVars, boardVars, saved, lockVars, plan, cmd, pastVars>>

Op == {"add", "write", "read", "rows", "peek", "new", "older", "archive", "restore",
       "delete", "discard", "pick", "point", "clear"}
PlanRow == [op : Op, board : Name \cup {None}, env : Name \cup {None},
            pinned : BOOLEAN, person : BOOLEAN, backups : BOOLEAN]
\* op: add/config, another write, a read, `tb boards', a read in read-only mode, tb new, a
\* write of an older tb, the verbs of tb boards, d and Enter in the screen's board picker,
\* boards --default NAME and --clear.
\* board: typed; env: TB_BOARD; pinned: TB_AS names somebody else than --as.
Phase == {"start", "mkdir", "moving", "resolve", "lock", "look", "make", "open", "upgrade",
          "backup", "commit", "tables", "creator", "use", "close", "fold", "rename", "link",
          "unlink", "remove", "sweep", "delete", "save", "ended", "refused", "killed"}
Part == {"db", "wal"}
CmdRow == [at : Phase, name : Name \cup {None}, file : File \cup {None}, made : BOOLEAN,
           toMove : SUBSET (Name \X Part), listed : SUBSET Nat]
\* toMove: the old files and -wals a command is to move; listed: the archives to remove.
Shelf == Seq([file : File, there : BOOLEAN])

\* actors.rs, migrate and creator.rs, migrate: what each open adds to a board without it.
Tables == {"actors", "creator"}

\* Only the commands about a named board take a board name they cannot do without.
ASSUME PlansAssumption ==
  /\ Plans \in [Proc -> SUBSET PlanRow]
  /\ \A p \in Proc : \A r \in Plans[p] :
       r.op \in {"new", "archive", "restore", "delete", "discard", "pick"} => r.board \in Name

\* The directories a behaviour may start from: tb never gives a file to two boards, a file
\* nobody used yet has no tables, no command of the behaviour has written anything, a -wal in
\* the state directory lies beside its file, and nothing lies there as long as there is only
\* the directory of the time before the rename.
World == [live : [Name -> File \cup {None}], wal : [Name -> SUBSET Write], arch : [Name -> Shelf],
          old : [Name -> File \cup {None}], oldWal : [Name -> SUBSET Write],
          schema : [File -> {"none", "old", "new"}], side : [File -> SUBSET Tables],
          saved : Name \cup {None}, runs : SUBSET Proc]
FilesOf(w, n) ==
  {w.live[n], w.old[n]} \cup {w.arch[n][i].file : i \in {j \in DOMAIN w.arch[n] : w.arch[n][j].there}}
HasDir(w) == w.live # [n \in Name |-> None] \/ w.old = [n \in Name |-> None]

ASSUME WorldsAssumption ==
  /\ Worlds \subseteq World
  /\ \A w \in Worlds :
       /\ \A m, n \in Name : m # n => FilesOf(w, m) \cap FilesOf(w, n) \subseteq {None}
       /\ \A f \in File : w.schema[f] # "none" => \E n \in Name : f \in FilesOf(w, n)
       /\ \A n \in Name : /\ (w.wal[n] \cup w.oldWal[n]) \cap Proc = {}
                          /\ w.live[n] = None => w.wal[n] = {}
       /\ ~HasDir(w) => \A n \in Name : w.arch[n] = <<>>
Backup == [name : Name, file : File, holds : SUBSET Write, by : Proc]

TypeOK ==
  /\ live \in [Name -> File \cup {None}] /\ wal \in [Name -> SUBSET Write]
  /\ arch \in [Name -> Shelf]
  /\ old \in [Name -> File \cup {None}] /\ oldWal \in [Name -> SUBSET Write] /\ newDir \in BOOLEAN
  /\ apart \in [Name -> File \cup {None}] /\ side \in [File -> SUBSET Tables]
  /\ data \in [File -> SUBSET Write] /\ schema \in [File -> {"none", "old", "new"}]
  /\ maker \in [File -> Proc \cup {None}] /\ born \in [File -> Proc \cup {None}]
  /\ bak \subseteq Backup
  /\ saved \in Name \cup {None}
  /\ held \in [Name -> SUBSET (Proc \X {"shared", "exclusive"})]
  /\ writer \in [Name -> Proc \cup {None}]
  /\ plan \in [Proc -> PlanRow] /\ cmd \in [Proc -> CmdRow]
  /\ acked \subseteq Write /\ gone \subseteq Write /\ over \subseteq Write

\* What a command holds before it chose a board and after its end.
Empty(ph) == [at |-> ph, name |-> None, file |-> None, made |-> FALSE, toMove |-> {}, listed |-> {}]

Archives(n) == {i \in DOMAIN arch[n] : arch[n][i].there}
Archived(n) == {arch[n][i].file : i \in Archives(n)}
Used == {live[n] : n \in Name} \cup {old[n] : n \in Name} \cup UNION {Archived(n) : n \in Name}

Init ==
  /\ \E w \in Worlds :
       /\ live = w.live /\ wal = w.wal /\ arch = w.arch /\ old = w.old /\ oldWal = w.oldWal
       /\ schema = w.schema /\ side = w.side /\ saved = w.saved
       /\ cmd = [p \in Proc |-> Empty(IF p \in w.runs THEN "start" ELSE "ended")]
       /\ newDir = HasDir(w)
  /\ data = [f \in File |-> IF f \in Used THEN {f} ELSE {}]
  /\ apart = [n \in Name |-> None]
  /\ maker = [f \in File |-> None] /\ born = [f \in File |-> None]
  /\ bak = {}
  /\ held = [n \in Name |-> {}] /\ writer = [n \in Name |-> None]
  /\ plan \in [Proc -> UNION {Plans[p] : p \in Proc}] /\ \A p \in Proc : plan[p] \in Plans[p]
  /\ acked = (Used \ {None}) \cup UNION {wal[n] \cup oldWal[n] : n \in Name}
  /\ gone = {} /\ over = {}

-----------------------------------------------------------------------------
(* Names                                                                   *)

At(p, ph) == cmd[p].at = ph
Go(p, ph) ==
  cmd' = [cmd EXCEPT ![p] = IF ph \in {"ended", "refused", "killed"}
                            THEN Empty(ph) ELSE [@ EXCEPT !.at = ph]]
Nm(p) == cmd[p].name

\* boards.rs, default_name: TB_BOARD, else the saved default, else `default'.
DefaultName(p) ==
  IF plan[p].env # None THEN plan[p].env ELSE IF saved # None THEN saved ELSE Default

\* A command that named no board and has no TB_BOARD follows the saved default.
FollowsSaved(p) == plan[p].board = None /\ plan[p].env = None /\ saved # None

\* boards.rs, resolve and select: typed, then TB_BOARD, then saved, then `default'.
Resolved(p) ==
  IF plan[p].board # None THEN plan[p].board ELSE DefaultName(p)

\* boards.rs, list.
Listing == {n \in Name : live[n] # None}

\* main.rs, run: `creates'.  tb new creates by another way.
MayCreate(p, n) ==
  \/ plan[p].op \in {"add", "new"}
  \/ plan[p].op = "write" /\ n = Default

\* The board picker opens what it listed with Store::open, which creates what is missing.
OpensAnyway(p) == plan[p].op = "pick"

\* The half of the lock a command takes.
Mode(p) == IF plan[p].op \in {"archive", "restore", "discard"} THEN "exclusive" ELSE "shared"

\* main.rs, pin_guards_creation and pin_guards_existing: a session pinned to a name acts under
\* no other; asked before a file can come to be, and after an open that could make none.
PinGuardsCreation(p, n) == plan[p].pinned /\ MayCreate(p, n)
PinGuardsExisting(p) == plan[p].pinned

\* Everything committed to the board n: the file and its -wal.
Content(n) == (IF live[n] = None THEN {} ELSE data[live[n]]) \cup wal[n]

Opened(p) ==
  cmd[p].at \in {"open", "upgrade", "backup", "commit", "tables", "creator", "use", "close"}

-----------------------------------------------------------------------------
(* boards.rs, migrate: every command first brings an old installation's    *)
(* files over.  It takes no lock.                                          *)

\* The entry e of the old directory is there.
Lies(e) == IF e[2] = "db" THEN old[e[1]] # None ELSE oldWal[e[1]] # {}

NothingOld(p) ==
  /\ At(p, "start") /\ (newDir \/ \A n \in Name : old[n] = None)
  /\ Go(p, "resolve")
  /\ UNCHANGED <<fileVars, legacyVars, boardVars, saved, lockVars, plan, pastVars>>

SeesOld(p) ==
  /\ At(p, "start") /\ ~newDir /\ \E n \in Name : old[n] # None
  /\ Go(p, "mkdir")
  /\ UNCHANGED <<fileVars, legacyVars, boardVars, saved, lockVars, plan, pastVars>>

MakeDir(p) ==
  /\ At(p, "mkdir")
  /\ newDir' = TRUE
  /\ cmd' = [cmd EXCEPT ![p].at = "moving", ![p].toMove = {e \in Name \X Part : Lies(e)}]
  /\ UNCHANGED <<fileVars, old, oldWal, apart, boardVars, saved, lockVars, plan, pastVars>>

Drops(p, e) == cmd' = [cmd EXCEPT ![p].toMove = @ \ {e}]

\* What lies at the new place is in use: it has a -wal, or a command has it open.
InUse(n) ==
  \/ live[n] # None /\ wal[n] # {}
  \/ \E q \in Proc : Opened(q) /\ Nm(q) = n

\* One entry of the listing, a database: rename replaces whatever is at the new place by then.
\* The -wal of what is replaced is then taken for that of the file brought over.
MoveDb(p) ==
  /\ At(p, "moving")
  /\ \E n \in Name :
       /\ <<n, "db">> \in cmd[p].toMove /\ old[n] # None
       /\ over' = over \cup (IF live[n] = None THEN {} ELSE Content(n) \cup {live[n]})
                       \cup (IF InUse(n) THEN data[old[n]] ELSE {})
       /\ live' = [live EXCEPT ![n] = old[n]] /\ old' = [old EXCEPT ![n] = None]
       /\ apart' = [apart EXCEPT ![n] = IF InUse(n) THEN None ELSE old[n]]
       /\ Drops(p, <<n, "db">>)
  /\ UNCHANGED <<wal, arch, data, oldWal, newDir, boardVars, saved, lockVars, plan, acked, gone>>

\* Another entry, a -wal: it belongs to a file that comes later, or that came before it and was
\* not opened since; what was done to any other file is mixed up with it.
MoveWal(p) ==
  /\ At(p, "moving")
  /\ \E n \in Name :
       /\ <<n, "wal">> \in cmd[p].toMove /\ oldWal[n] # {}
       /\ over' = over \cup wal[n]
                       \cup (IF live[n] = None \/ live[n] = apart[n] THEN {}
                             ELSE Content(n) \cup {live[n]} \cup oldWal[n])
       /\ wal' = [wal EXCEPT ![n] = oldWal[n]] /\ oldWal' = [oldWal EXCEPT ![n] = {}]
       /\ Drops(p, <<n, "wal">>)
  /\ UNCHANGED <<live, arch, data, old, newDir, apart, boardVars, saved, lockVars, plan, acked, gone>>

\* Nothing of the listing is left; or an entry another command took makes the rename fail, and
\* with a warning the rest stays where it is, for good: the new directory exists now.
OldMoved(p) ==
  /\ At(p, "moving") /\ (cmd[p].toMove = {} \/ \E e \in cmd[p].toMove : ~Lies(e))
  /\ Go(p, "resolve")
  /\ UNCHANGED <<fileVars, legacyVars, boardVars, saved, lockVars, plan, pastVars>>

-----------------------------------------------------------------------------
(* Before a board is opened                                                *)

\* main.rs, run: which board the command is about.
Resolve(p) ==
  /\ At(p, "resolve") /\ plan[p].op \in {"add", "write", "read", "peek", "older"}
  /\ IF \/ FollowsSaved(p) /\ live[saved] = None
        \/ PinGuardsCreation(p, Resolved(p))
     THEN Go(p, "refused")
     ELSE cmd' = [cmd EXCEPT ![p].name = Resolved(p), ![p].at = "lock"]
  /\ UNCHANGED <<fileVars, legacyVars, boardVars, saved, lockVars, plan, pastVars>>

\* boards.rs, rows: each board of the listing is then opened like any other.  (One of them.)
ListBoards(p) ==
  /\ At(p, "resolve") /\ plan[p].op = "rows"
  /\ \/ Listing = {} /\ Go(p, "ended")
     \/ \E n \in Listing : cmd' = [cmd EXCEPT ![p].name = n, ![p].at = "lock"]
  /\ UNCHANGED <<fileVars, legacyVars, boardVars, saved, lockVars, plan, pastVars>>

\* tui.rs, open_boards: the picker shows the boards there are; the one that is picked is
\* opened by that row, however long ago it was listed.
Pick(p) ==
  /\ At(p, "resolve") /\ plan[p].op = "pick"
  /\ IF plan[p].board \notin Listing THEN Go(p, "ended")
     ELSE cmd' = [cmd EXCEPT ![p].name = plan[p].board, ![p].at = "lock"]
  /\ UNCHANGED <<fileVars, legacyVars, boardVars, saved, lockVars, plan, pastVars>>

\* main.rs, new_board: the name must be free, and a pinned session is refused before a
\* file exists.  Nobody holds the name yet.
NewBoard(p) ==
  /\ At(p, "resolve") /\ plan[p].op = "new"
  /\ cmd' = [cmd EXCEPT ![p].name = plan[p].board,
               ![p].at = IF live[plan[p].board] # None \/ plan[p].pinned
                         THEN "refused" ELSE "lock"]
  /\ UNCHANGED <<fileVars, legacyVars, boardVars, saved, lockVars, plan, pastVars>>

\* boards.rs, archive and restore: the checks made before the lock.
Retire(p) ==
  /\ At(p, "resolve") /\ plan[p].op \in {"archive", "restore", "discard"}
  /\ cmd' = [cmd EXCEPT ![p].name = plan[p].board,
               ![p].at = IF plan[p].op # "restore" /\ plan[p].board = DefaultName(p)
                         THEN "refused" ELSE "lock"]
  /\ UNCHANGED <<fileVars, legacyVars, boardVars, saved, lockVars, plan, pastVars>>

\* lock.rs: the halves that may be held together.
CompatibleWithOpen(p) == \A h \in held[Nm(p)] : h[2] = "shared"
Compatible(p) == \A h \in held[Nm(p)] : h[2] = "shared" /\ Mode(p) = "shared"

\* store.rs, open / lock_for_move: the lock of the name.
Lock(p) ==
  /\ At(p, "lock") /\ Compatible(p)
  /\ held' = [held EXCEPT ![Nm(p)] = @ \cup {<<p, Mode(p)>>}]
  /\ Go(p, IF Mode(p) = "shared" THEN IF MayCreate(p, Nm(p)) \/ OpensAnyway(p) THEN "make" ELSE "look"
           ELSE IF plan[p].op = "restore" THEN "link" ELSE "fold")
  /\ UNCHANGED <<fileVars, legacyVars, boardVars, saved, writer, plan, pastVars>>

\* The wait for the lock runs out (Code::BoardBusy).
LockBusy(p) ==
  /\ At(p, "lock") /\ ~Compatible(p)
  /\ Go(p, "refused")
  /\ UNCHANGED <<fileVars, legacyVars, boardVars, saved, lockVars, plan, pastVars>>

Unlocked(p) == [n \in Name |-> held[n] \ {<<p, "shared">>, <<p, "exclusive">>}]

-----------------------------------------------------------------------------
(* store.rs, open and open_if_exists: under the shared lock                *)

LookUnheld(p) ==
  /\ At(p, "look")
  /\ held' = Unlocked(p)
  /\ Go(p, IF live[Nm(p)] # None THEN "make"
           ELSE IF Nm(p) = Default \/ plan[p].op = "rows" THEN "ended" ELSE "refused")
  /\ UNCHANGED <<fileVars, legacyVars, boardVars, saved, writer, plan, pastVars>>

\* open_if_exists: a missing board is never conjured.  (The default board is then an
\* empty one in memory, which ends the command as far as files go.)
Look(p) ==
  /\ At(p, "look")
  /\ IF live[Nm(p)] = None
     THEN /\ held' = Unlocked(p)
          /\ Go(p, IF Nm(p) = Default \/ plan[p].op = "rows" THEN "ended" ELSE "refused")
     ELSE Go(p, "make") /\ UNCHANGED held
  /\ UNCHANGED <<fileVars, legacyVars, boardVars, saved, writer, plan, pastVars>>

\* fsperm.rs, create_board: O_EXCL.  Then the connection is opened.  (SQLite deletes a -wal
\* it finds beside an empty file.)
Make(p) ==
  /\ At(p, "make")
  /\ IF live[Nm(p)] # None
     THEN /\ cmd' = [cmd EXCEPT ![p].at = "open", ![p].file = live[Nm(p)]]
          /\ UNCHANGED <<live, wal, newDir, born, over>>
     ELSE \E f \in File \ Used :
            /\ data[f] = {} /\ born[f] = None
            /\ live' = [live EXCEPT ![Nm(p)] = f]
            /\ over' = over \cup wal[Nm(p)] /\ wal' = [wal EXCEPT ![Nm(p)] = {}]
            /\ newDir' = TRUE
            /\ born' = [born EXCEPT ![f] = p]
            /\ cmd' = [cmd EXCEPT ![p].at = "open", ![p].file = f, ![p].made = TRUE]
  /\ apart' = [apart EXCEPT ![Nm(p)] = None]
  /\ UNCHANGED <<arch, data, old, oldWal, schema, side, maker, bak, saved, lockVars, plan, acked, gone>>

\* upgrade: the dry run.  Read-only mode refuses a board that needs one; an older tb
\* upgrades nothing.
DryRun(p) ==
  /\ At(p, "open")
  /\ LET pending == schema[cmd[p].file] # "new"
         stop == plan[p].op = "peek" /\ pending
     IN /\ Go(p, IF plan[p].op = "older" THEN "use"
                 ELSE IF plan[p].op = "peek" THEN IF pending THEN "refused" ELSE "close"
                 ELSE IF pending THEN "upgrade" ELSE "tables")
        /\ held' = IF stop THEN Unlocked(p) ELSE held
  /\ UNCHANGED <<fileVars, legacyVars, boardVars, saved, writer, plan, pastVars>>

UpgradeBeginUnlocked(p) ==
  /\ At(p, "upgrade") /\ writer[Nm(p)] = None
  /\ IF schema[cmd[p].file] = "new" THEN Go(p, "tables")
     ELSE Go(p, IF schema[cmd[p].file] = "old" THEN "backup" ELSE "commit")
  /\ UNCHANGED <<fileVars, legacyVars, boardVars, saved, lockVars, plan, pastVars>>

\* upgrade: BEGIN IMMEDIATE, and the probe under the write lock.  A board another process
\* upgraded meanwhile is left alone; a board with tables is backed up first.
UpgradeBegin(p) ==
  /\ At(p, "upgrade") /\ writer[Nm(p)] = None
  /\ IF schema[cmd[p].file] = "new"
     THEN Go(p, "tables") /\ UNCHANGED writer
     ELSE /\ writer' = [writer EXCEPT ![Nm(p)] = p]
          /\ Go(p, IF schema[cmd[p].file] = "old" THEN "backup" ELSE "commit")
  /\ UNCHANGED <<fileVars, legacyVars, boardVars, saved, held, plan, pastVars>>

\* backup_aside: VACUUM INTO reads what is committed; the rename makes it a backup.
BackUp(p) ==
  /\ At(p, "backup")
  /\ bak' = bak \cup {[name |-> Nm(p), file |-> cmd[p].file, holds |-> Content(Nm(p)), by |-> p]}
  /\ Go(p, "commit")
  /\ UNCHANGED <<fileVars, legacyVars, schema, side, maker, born, saved, lockVars, plan, pastVars>>

\* The migrated schema is committed.
UpgradeCommit(p) ==
  /\ At(p, "commit")
  /\ schema' = [schema EXCEPT ![cmd[p].file] = "new"]
  /\ writer' = [writer EXCEPT ![Nm(p)] = None]
  /\ Go(p, "tables")
  /\ UNCHANGED <<fileVars, legacyVars, side, maker, bak, born, saved, held, plan, pastVars>>

\* The backup cannot be written, or the commit fails: nothing is changed, and a copy made
\* for this upgrade is removed.
UpgradeFails(p) ==
  /\ cmd[p].at \in {"backup", "commit"} /\ schema[cmd[p].file] = "old"
  /\ bak' = {b \in bak : b.by # p}
  /\ writer' = [writer EXCEPT ![Nm(p)] = None]
  /\ held' = Unlocked(p)
  /\ Go(p, "refused")
  /\ UNCHANGED <<fileVars, legacyVars, schema, side, maker, born, saved, plan, pastVars>>

\* open, after the upgrade: actors::migrate and creator::migrate, in statements of their own,
\* which no dry run looked for and no copy is made for.
AddTables(p) ==
  /\ At(p, "tables")
  /\ LET f == cmd[p].file IN
       IF side[f] = Tables THEN Go(p, "creator") /\ UNCHANGED side
       ELSE /\ writer[Nm(p)] = None
            /\ side' = [side EXCEPT ![f] = IF "actors" \in @ THEN Tables ELSE @ \cup {"actors"}]
            /\ UNCHANGED cmd
  /\ UNCHANGED <<fileVars, legacyVars, schema, maker, bak, born, saved, lockVars, plan, pastVars>>

\* creator.rs: only the process that created the file has anything to record.
RecordsAnyOpener(p) == TRUE
Records(p) == cmd[p].made /\ plan[p].op # "pick"

\* main.rs, open_board and new_board: the maker is recorded (INSERT OR IGNORE); then
\* pin_guards_existing.
RecordCreator(p) ==
  /\ At(p, "creator")
  /\ maker' = IF Records(p) /\ maker[cmd[p].file] = None
              THEN [maker EXCEPT ![cmd[p].file] = p] ELSE maker
  /\ Go(p, IF PinGuardsExisting(p) \/ plan[p].op \in {"read", "rows", "pick"} THEN "close" ELSE "use")
  /\ UNCHANGED <<fileVars, legacyVars, schema, side, bak, born, saved, lockVars, plan, pastVars>>

\* The command's own write: one committed transaction, in the -wal until a checkpoint.  (On
\* a file that was moved over, or whose -wal was, it goes with them.)
Use(p) ==
  /\ At(p, "use") /\ writer[Nm(p)] = None
  /\ IF live[Nm(p)] = cmd[p].file /\ cmd[p].file \notin over
     THEN wal' = [wal EXCEPT ![Nm(p)] = @ \cup {p}] /\ UNCHANGED over
     ELSE over' = over \cup {p} /\ UNCHANGED wal
  /\ acked' = acked \cup {p}
  /\ Go(p, "close")
  /\ UNCHANGED <<live, arch, data, legacyVars, boardVars, saved, lockVars, plan, gone>>

\* The connection closes; the last one out folds the -wal into the file.
Close(p) ==
  /\ At(p, "close")
  /\ IF /\ held[Nm(p)] = {<<p, "shared">>} /\ plan[p].op # "peek"
        /\ live[Nm(p)] = cmd[p].file
     THEN /\ data' = [data EXCEPT ![cmd[p].file] = @ \cup wal[Nm(p)]]
          /\ wal' = [wal EXCEPT ![Nm(p)] = {}]
     ELSE UNCHANGED <<data, wal>>
  /\ held' = Unlocked(p)
  /\ Go(p, "ended")
  /\ UNCHANGED <<live, arch, legacyVars, boardVars, saved, writer, plan, pastVars>>

-----------------------------------------------------------------------------
(* boards.rs, archive and restore: under the exclusive lock                *)

\* Is the board there?  Asked again under the lock.
ThereBefore(p) == TRUE
There(p) == live[Nm(p)] # None

\* PRAGMA wal_checkpoint(TRUNCATE): what is in the -wal is in the file afterwards.
CheckpointedNothing(n) == data
Checkpointed(n) == [data EXCEPT ![live[n]] = @ \cup wal[n]]

\* The -wal is folded back, then removed whatever the checkpoint managed.
Fold(p) ==
  /\ At(p, "fold")
  /\ IF ~There(p)
     THEN held' = Unlocked(p) /\ Go(p, "refused") /\ UNCHANGED <<data, wal, over>>
     ELSE /\ \/ data' = Checkpointed(Nm(p)) /\ UNCHANGED over
             \/ wal[Nm(p)] # {} /\ over' = over \cup wal[Nm(p)] /\ UNCHANGED data
          /\ wal' = [wal EXCEPT ![Nm(p)] = {}]
          /\ Go(p, "rename") /\ UNCHANGED held
  /\ UNCHANGED <<live, arch, legacyVars, boardVars, saved, writer, plan, acked, gone>>

Archive(p) ==
  /\ At(p, "rename")
  /\ arch' = [arch EXCEPT ![Nm(p)] = Append(@, [file |-> live[Nm(p)], there |-> TRUE])]
  /\ live' = [live EXCEPT ![Nm(p)] = None]
  /\ held' = Unlocked(p)
  /\ Go(p, IF plan[p].op = "discard" THEN "delete" ELSE "ended")
  /\ UNCHANGED <<wal, data, legacyVars, boardVars, saved, writer, plan, pastVars>>

\* boards.rs, archived: oldest first.
Newest(n) == {i \in Archives(n) : \A j \in Archives(n) : j <= i}

\* The archives numbered in S are removed from the archive directory.
Without(n, S) == [i \in DOMAIN arch[n] |-> [arch[n][i] EXCEPT !.there = @ /\ i \notin S]]

\* restore: refused when the name is taken or a sidecar lies there; link_into_place links
\* the newest archive and then removes it from the archive.
Link(p) ==
  /\ At(p, "link")
  /\ IF live[Nm(p)] # None \/ wal[Nm(p)] # {} \/ Archives(Nm(p)) = {}
     THEN held' = Unlocked(p) /\ Go(p, "refused") /\ UNCHANGED live
     ELSE \E i \in Newest(Nm(p)) :
            /\ live' = [live EXCEPT ![Nm(p)] = arch[Nm(p)][i].file]
            /\ cmd' = [cmd EXCEPT ![p].at = "unlink", ![p].file = arch[Nm(p)][i].file,
                                  ![p].listed = {i}]
            /\ UNCHANGED held
  /\ UNCHANGED <<wal, arch, data, legacyVars, boardVars, saved, writer, plan, pastVars>>

\* (A delete may have removed the archive's name already: an error, with the board in place.)
Unlink(p) ==
  /\ At(p, "unlink")
  /\ arch' = [arch EXCEPT ![Nm(p)] = Without(Nm(p), cmd[p].listed)]
  /\ held' = Unlocked(p)
  /\ Go(p, IF cmd[p].listed \subseteq Archives(Nm(p)) THEN "ended" ELSE "refused")
  /\ UNCHANGED <<live, wal, data, legacyVars, boardVars, saved, writer, plan, pastVars>>

-----------------------------------------------------------------------------
(* boards.rs, delete: only archives, only by a person, never the default   *)

\* main.rs, delete_board: the person who is asked says no.
Declines(p) ==
  /\ At(p, "resolve") /\ plan[p].op = "delete" /\ plan[p].person
  /\ Go(p, "ended")
  /\ UNCHANGED <<fileVars, legacyVars, boardVars, saved, lockVars, plan, pastVars>>

\* d on a live board in the picker comes here once it is archived.
Delete(p) ==
  /\ At(p, "delete") \/ (At(p, "resolve") /\ plan[p].op = "delete")
  /\ LET n == plan[p].board IN
       IF \/ ~plan[p].person \/ n = DefaultName(p) \/ Archives(n) = {}
          \/ plan[p].backups /\ live[n] # None
       THEN Go(p, "refused")
       ELSE cmd' = [cmd EXCEPT ![p].name = n, ![p].listed = Archives(n), ![p].at = "remove"]
  /\ UNCHANGED <<fileVars, legacyVars, boardVars, saved, lockVars, plan, pastVars>>

\* One listed archive at a time; one that is gone by now is passed over.  A file goes with
\* its last name.
RemoveOne(p) ==
  /\ At(p, "remove")
  /\ UNCHANGED <<live, wal, data, legacyVars, boardVars, saved, lockVars, plan, acked, over>>
  /\ IF cmd[p].listed = {} THEN Go(p, "sweep") /\ UNCHANGED <<arch, gone>>
     ELSE \E i \in cmd[p].listed :
            /\ arch' = [arch EXCEPT ![Nm(p)] = Without(Nm(p), {i})]
            /\ gone' = gone \cup UNION {data[f] : f \in Archived(Nm(p)) \ Used'}
            /\ cmd' = [cmd EXCEPT ![p].listed = @ \ {i}]

\* backups_of: those beside the live board are its own.
BackupsOf(n) == IF live[n] = None THEN {b \in bak : b.name = n} ELSE {}
Sweep(p) ==
  /\ At(p, "sweep")
  /\ bak' = IF plan[p].backups THEN bak \ BackupsOf(Nm(p)) ELSE bak
  /\ Go(p, "ended")
  /\ UNCHANGED <<fileVars, legacyVars, schema, side, maker, born, saved, lockVars, plan, pastVars>>

-----------------------------------------------------------------------------
(* boards.rs, set_default: the board is looked up, then the setting written *)

Point(p) ==
  /\ At(p, "resolve") /\ plan[p].op \in {"point", "clear"}
  /\ LET n == plan[p].board IN
       cmd' = [cmd EXCEPT ![p].name = n,
                 ![p].at = IF plan[p].op = "point" /\ n # Default /\ n \notin Listing
                           THEN "refused" ELSE "save"]
  /\ UNCHANGED <<fileVars, legacyVars, boardVars, saved, lockVars, plan, pastVars>>

SaveDefault(p) ==
  /\ At(p, "save")
  /\ saved' = IF plan[p].op = "clear" \/ Nm(p) = Default THEN None ELSE Nm(p)
  /\ Go(p, "ended")
  /\ UNCHANGED <<fileVars, legacyVars, boardVars, lockVars, plan, pastVars>>

\* Killed: the system drops its locks and rolls its transaction back; files stay.
Kill(p) ==
  /\ cmd[p].at \notin {"start", "resolve", "ended", "refused", "killed"}
  /\ held' = Unlocked(p)
  /\ writer' = [n \in Name |-> IF writer[n] = p THEN None ELSE writer[n]]
  /\ Go(p, "killed")
  /\ UNCHANGED <<fileVars, legacyVars, boardVars, saved, plan, pastVars>>

-----------------------------------------------------------------------------
Opening(p) == Lock(p) \/ LockBusy(p) \/ Look(p) \/ Make(p) \/ DryRun(p) \/ UpgradeBegin(p)
              \/ BackUp(p) \/ UpgradeCommit(p) \/ UpgradeFails(p) \/ AddTables(p)
              \/ RecordCreator(p) \/ Use(p) \/ Close(p)
Moving(p) == NothingOld(p) \/ SeesOld(p) \/ MakeDir(p) \/ MoveDb(p) \/ MoveWal(p)
             \/ OldMoved(p)
Shelving(p) == Retire(p) \/ Fold(p) \/ Archive(p) \/ Link(p) \/ Unlink(p) \/ Declines(p) \/ Delete(p)
               \/ RemoveOne(p) \/ Sweep(p)
Choosing(p) == Resolve(p) \/ ListBoards(p) \/ Pick(p) \/ NewBoard(p) \/ Point(p) \/ SaveDefault(p)

Step(p) == Moving(p) \/ Choosing(p) \/ Opening(p) \/ Shelving(p)

Next == (\E p \in Proc : Step(p)) \/ \E p \in Mortal : Kill(p)

Spec == Init /\ [][Next]_vars

-----------------------------------------------------------------------------
(* What the board files promise                                            *)

\* Whoever has a board open has the file its name stands for: nobody archives, restores or
\* replaces it meanwhile.  (The move of an old installation takes no lock: see `over'.)
OpenIsLive ==
  \A p \in Proc : Opened(p) => live[Nm(p)] = cmd[p].file \/ cmd[p].file \in over

\* A -wal counts beside its file only: SQLite finds what is in it nowhere else.
InBoards == (UNION {Content(n) : n \in {m \in Name : live[m] # None}})
            \cup (UNION {oldWal[n] : n \in {m \in Name : old[m] # None}})
InFiles == UNION {data[f] : f \in Used \ {None}}
Reach == InBoards \cup InFiles

\* In a -wal that lies apart from its file: on the disk, but on no board.
Stranded == (UNION {wal[n] : n \in {m \in Name : live[m] = None}})
            \cup (UNION {oldWal[n] : n \in {m \in Name : old[m] = None}})

\* A write a command was told is kept is in a board, an archive or an old installation, unless
\* an archive was deleted on purpose, a -wal could not be folded or the unlocked move put one
\* file or -wal over another.  What was written before the commands started may besides lie in
\* a -wal the move left apart from its file, and nowhere worse.
AckedKept ==
  /\ acked \cap Proc \subseteq Reach \cup gone \cup over
  /\ acked \subseteq Reach \cup Stranded \cup gone \cup over

\* A file appears under a board's name only by a command that may create that board and acts
\* under its own name, or because an archive or an old file is put there: a read, a note or a
\* listing that races an archive never leaves an empty board, which would block its restore.
\* (The board picker is held to it by PickerCreates, which the code does not keep.)
Appears(n) == live[n] = None /\ live'[n] # None /\ live'[n] \notin Archived(n) \cup {old[n]}
MakerOf(p, n) == cmd'[p].made /\ cmd'[p].file = live'[n]
OnlyCreatorsCreate ==
  [][\A n \in Name : Appears(n) =>
       \E p \in Proc : /\ MakerOf(p, n)
                       /\ OpensAnyway(p) \/ (MayCreate(p, n) /\ ~plan[p].pinned)]_vars

\* docs/HUMANS.md:185 and store.rs:1634: a board comes to be by its first add or config, by tb
\* new, by a restore; no other command leaves an empty file under a board's name.
PickerCreates ==
  [][\A n \in Name : Appears(n) =>
       \E p \in Proc : MakerOf(p, n) /\ MayCreate(p, n) /\ ~plan[p].pinned]_vars

Backed(f) ==
  \E n \in Name : live[n] = f /\ \E b \in bak : b.file = f /\ b.holds = Content(n)

\* Of a board an older tb wrote nothing changes, neither what upgrade migrates nor a table that
\* is added after it, before a whole copy of everything committed to the board lies beside it;
\* and however many processes open it at once, those that live make one copy.  (The board is
\* not one whose files the unlocked move mixed up.)
UpgradeBackedUp ==
  [][\A f \in File :
       schema[f] = "old" /\ (schema'[f] # "old" \/ side'[f] # side[f]) =>
         /\ Backed(f) \/ f \in over
         /\ \A b, c \in bak : b.file = f /\ c.file = f /\ b.by # c.by =>
              At(b.by, "killed") \/ At(c.by, "killed")]_vars

\* A board names as its maker the process that created its file, however many opened it
\* while it was new.
MakerMadeIt == \A f \in File : maker[f] # None => maker[f] = born[f]

\* boards.rs:62: a saved default whose board is gone is never re-created as a phantom.
\* Does not hold: README, known disagreements.
NoPhantomDefault ==
  [][\A p \in Proc : cmd'[p].made /\ ~cmd[p].made =>
       plan[p].board # None \/ plan[p].env # None \/ Nm(p) = Default]_vars

\* boards.rs:602: bringing old files over never overwrites an existing board.
\* Does not hold: README, known disagreements.
NeverOverwritten ==
  [][\A n \in Name : live[n] # None /\ live'[n] # live[n] => live'[n] = None]_vars

\* store.rs:1125: any change of an existing board's schema is backed up first.
\* Does not hold: README, known disagreements.
EveryChangeBackedUp ==
  [][\A f \in File : data[f] # {} /\ side'[f] # side[f] => Backed(f)]_vars

\* boards.rs:600: the files of an old installation move over; none is left without its -wal.
\* Does not hold: README, known disagreements.
NothingStranded == Stranded = {} \/ \E p \in Proc : At(p, "moving")
=============================================================================
