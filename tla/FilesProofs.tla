---------------------------- MODULE FilesProofs ----------------------------
(***************************************************************************)
(* What holds of a user's board files for every set of names, files and    *)
(* commands, and from whatever directory they start, proved from the       *)
(* assumptions BoardFiles makes.                                           *)
(*                                                                         *)
(* Three parts of the invariant carry the rest.  Sound: where a command is *)
(* says which half of which lock it holds, and an exclusive holder is      *)
(* alone, so a name's file changes under nobody who has it open.  SoleHome:*)
(* a file is known under one board's name only.  Settling: while the files *)
(* of an old installation can still be moved, nothing that would be moved  *)
(* over has a schema still to upgrade.                                     *)
(***************************************************************************)
EXTENDS BoardFiles, TLAPS

Ends == {"ended", "refused", "killed"}
OpenPhase == {"open", "upgrade", "backup", "commit", "tables", "creator", "use", "close"}
SharedPhase == {"look", "make"} \cup OpenPhase
ExclusivePhase == {"fold", "rename", "link", "unlink"}

\* Where a command is says which lock it holds, on which name, and what it has in hand.
Sound(p) ==
  /\ cmd[p].at \in SharedPhase => Mode(p) = "shared" /\ <<p, "shared">> \in held[Nm(p)]
  /\ cmd[p].at \in ExclusivePhase => Mode(p) = "exclusive" /\ <<p, "exclusive">> \in held[Nm(p)]
  /\ cmd[p].at \in SharedPhase \cup ExclusivePhase \cup {"lock", "remove", "sweep"} => Nm(p) \in Name
  /\ cmd[p].at \in OpenPhase \cup {"unlink"} => cmd[p].file \in File
  /\ cmd[p].made => cmd[p].at \in OpenPhase
  /\ cmd[p].at = "delete" => plan[p].op = "discard"
  /\ cmd[p].at \in {"lock", "look", "make"} /\ MayCreate(p, Nm(p)) => ~plan[p].pinned
  /\ plan[p].op \in {"new", "archive", "restore", "delete", "discard", "pick"}
       => plan[p].board \in Name

AllSound == \A p \in Proc : Sound(p)

\* Whoever holds the exclusive half of a name's lock holds it alone.
ExclusiveAlone == \A n \in Name : \A h, g \in held[n] : h[2] = "exclusive" => h = g

\* A board that is being archived is there until it is moved.
RetiresBoards == \A p \in Proc : cmd[p].at = "rename" => live[Nm(p)] # None

Locking == TypeOK /\ AllSound /\ ExclusiveAlone /\ RetiresBoards

\* The files of a name: live, archived, or waiting in the old directory.
Names(n) == {live[n], old[n]} \cup Archived(n)
SoleHome == \A m, n \in Name : m # n => Names(m) \cap Names(n) \subseteq {None}

\* A file nobody put anything into has no tables of an older schema.
FreshIsNew == \A f \in File : data[f] = {} /\ born[f] = None => schema[f] # "old"

\* The move of an old installation has not begun, or somebody is at it.
Moves == ~newDir \/ \E p \in Proc : cmd[p].at \in {"mkdir", "moving"}
Settling ==
  Moves => \A n \in Name : old[n] # None =>
    \A f \in File : f = live[n] \/ f \in Archived(n) => schema[f] # "old"

\* A file comes to be only for who may make it; an old one is upgraded in its place, and
\* before it is given a table.
InPlace ==
  \A p \in Proc :
    /\ cmd[p].at = "make" => MayCreate(p, Nm(p)) \/ OpensAnyway(p) \/ live[Nm(p)] # None
    /\ Opened(p) /\ schema[cmd[p].file] = "old" => live[Nm(p)] = cmd[p].file
    /\ cmd[p].at = "tables" => schema[cmd[p].file] = "new"

\* A file that was brought over without its -wal was opened by nobody.
NotApart == \A p \in Proc : Opened(p) => apart[Nm(p)] # cmd[p].file

\* The archive a restore removes is the one it linked, or what was in it was moved over.
Linked ==
  \A p \in Proc : cmd[p].at = "unlink" => \A i \in cmd[p].listed :
    /\ i \in DOMAIN arch[Nm(p)] /\ arch[Nm(p)][i].file = cmd[p].file
    /\ i \in Archives(Nm(p)) => live[Nm(p)] = cmd[p].file \/ data[cmd[p].file] \subseteq over

\* The process that made a file knows it, and nobody is recorded as its maker but it.
Makers == (\A p \in Proc : cmd[p].made => born[cmd[p].file] = p) /\ MakerMadeIt

\* An upgrade holds the board's write lock from its probe to its commit.
Writing == \A p \in Proc : cmd[p].at \in {"backup", "commit"} => writer[Nm(p)] = p

\* The copy an upgrade made is still what the board holds when it commits, unless a -wal was
\* moved over its own, and the copies of other processes are of upgrades that were killed.
Copied(p) ==
  \E b \in bak : b.by = p /\ b.name = Nm(p) /\ b.file = cmd[p].file /\ b.holds = Content(Nm(p))
Copies ==
  /\ \A p \in Proc : cmd[p].at = "commit" /\ schema[cmd[p].file] = "old" =>
       Copied(p) \/ cmd[p].file \in over
  /\ \A b \in bak : schema[b.file] = "old" =>
       At(b.by, "killed") \/ (At(b.by, "commit") /\ cmd[b.by].file = b.file)

\* What a command of the behaviour wrote lies in no -wal apart from its file: a board is moved
\* into the archive only once its -wal is folded, and the old directory is written by nobody.
Told ==
  \A n \in Name :
    /\ oldWal[n] \cap Proc = {}
    /\ live[n] = None => wal[n] \cap Proc \subseteq over
    /\ \A p \in Proc : cmd[p].at = "rename" /\ Nm(p) = n => wal[n] \cap Proc \subseteq over

\* What was told is on the disk, in an archive deleted on purpose, or was put under something.
OnDisk == Reach \cup Stranded
AllKept == acked \subseteq OnDisk \cup gone \cup over

IInv == /\ Locking /\ SoleHome /\ FreshIsNew /\ Settling /\ InPlace /\ NotApart /\ OpenIsLive
        /\ Linked /\ Makers /\ Writing /\ Copies /\ Told /\ AllKept

-----------------------------------------------------------------------------
(* Steps of one command                                                    *)

\* A step of p leaves the other commands where they are, with the locks they hold.
Aside(p) ==
  /\ plan' = plan
  /\ \A q \in Proc \ {p} : cmd'[q] = cmd[q]
  /\ \A n \in Name, q \in Proc \ {p}, m \in {"shared", "exclusive"} :
       <<q, m>> \in held[n] => <<q, m>> \in held'[n]

\* What Go leaves of the row: a command at its end has nothing in hand.
LEMMA GoIs ==
  ASSUME TypeOK, NEW p \in Proc, NEW ph \in Phase, Go(p, ph)
  PROVE  /\ cmd' \in [Proc -> CmdRow]
         /\ \A q \in Proc \ {p} : cmd'[q] = cmd[q]
         /\ cmd'[p].at = ph
         /\ ph \in Ends => cmd'[p] = Empty(ph) /\ cmd'[p].made = FALSE
         /\ ph \notin Ends => /\ cmd'[p].name = cmd[p].name /\ cmd'[p].file = cmd[p].file
                              /\ cmd'[p].made = cmd[p].made
<1>1. cmd \in [Proc -> CmdRow] /\ cmd[p] \in CmdRow BY DEF TypeOK
<1>2. CASE ph \in Ends
  <2>1. cmd' = [cmd EXCEPT ![p] = Empty(ph)] BY <1>2 DEF Go, Ends
  <2>2. Empty(ph) \in CmdRow /\ Empty(ph).at = ph /\ Empty(ph).made = FALSE BY DEF Empty, CmdRow
  <2> QED BY <1>1, <1>2, <2>1, <2>2
<1>3. CASE ph \notin Ends
  <2> DEFINE row == [cmd[p] EXCEPT !.at = ph]
  <2>1. cmd' = [cmd EXCEPT ![p] = row] BY <1>3 DEF Go, Ends
  <2>2. /\ row \in CmdRow /\ row.at = ph /\ row.name = cmd[p].name /\ row.file = cmd[p].file
        /\ row.made = cmd[p].made
    BY <1>1 DEF CmdRow
  <2> HIDE DEF row
  <2>3. cmd'[p] = row /\ cmd' \in [Proc -> CmdRow] /\ \A q \in Proc \ {p} : cmd'[q] = cmd[q]
    BY <1>1, <2>1, <2>2
  <2> QED BY <1>3, <2>2, <2>3
<1> QED BY <1>2, <1>3

\* A command that settles on a board, or on a file, keeps the rest of its row.
LEMMA RowIs ==
  ASSUME TypeOK, NEW p \in Proc, NEW row \in CmdRow, cmd' = [cmd EXCEPT ![p] = row]
  PROVE  /\ cmd' \in [Proc -> CmdRow]
         /\ \A q \in Proc \ {p} : cmd'[q] = cmd[q]
         /\ cmd'[p] = row
BY DEF TypeOK

SettlesOn(p, n, ph) == cmd' = [cmd EXCEPT ![p].name = n, ![p].at = ph]

LEMMA Settles ==
  ASSUME TypeOK, NEW p \in Proc, NEW ph \in Phase, NEW n \in Name \cup {None},
         SettlesOn(p, n, ph)
  PROVE  /\ cmd' \in [Proc -> CmdRow]
         /\ \A q \in Proc \ {p} : cmd'[q] = cmd[q]
         /\ cmd'[p].at = ph /\ cmd'[p].name = n /\ cmd'[p].made = cmd[p].made
<1> DEFINE row == [cmd[p] EXCEPT !.name = n, !.at = ph]
<1>1. cmd \in [Proc -> CmdRow] /\ cmd[p] \in CmdRow BY DEF TypeOK
<1>2. row \in CmdRow /\ row.at = ph /\ row.name = n /\ row.made = cmd[p].made BY <1>1 DEF CmdRow
<1>3. cmd' = [cmd EXCEPT ![p] = row] BY <1>1 DEF SettlesOn
<1> HIDE DEF row
<1> QED BY <1>2, <1>3, RowIs

\* Releasing the locks of p takes nothing from the others.
LEMMA UnlockedIs ==
  ASSUME TypeOK, NEW p \in Proc
  PROVE  /\ Unlocked(p) \in [Name -> SUBSET (Proc \X {"shared", "exclusive"})]
         /\ \A n \in Name : Unlocked(p)[n] \subseteq held[n]
         /\ \A n \in Name, q \in Proc \ {p}, m \in {"shared", "exclusive"} :
              <<q, m>> \in held[n] => <<q, m>> \in Unlocked(p)[n]
<1>1. \A n \in Name : Unlocked(p)[n] = held[n] \ {<<p, "shared">>, <<p, "exclusive">>}
  BY DEF Unlocked
<1>2. Unlocked(p) \in [Name -> SUBSET (Proc \X {"shared", "exclusive"})]
  BY DEF TypeOK, Unlocked
<1>3. ASSUME NEW n \in Name, NEW q \in Proc \ {p}, NEW m \in {"shared", "exclusive"},
             <<q, m>> \in held[n]
      PROVE  <<q, m>> \in Unlocked(p)[n]
  BY <1>1, <1>3
<1> QED BY <1>1, <1>2, <1>3

\* Fewer holders keep an exclusive one alone.
LEMMA StillAlone ==
  ASSUME ExclusiveAlone, \A n \in Name : held'[n] \subseteq held[n]
  PROVE  ExclusiveAlone'
BY DEF ExclusiveAlone

\* What a step of p leaves of the others.
LEMMA OthersSound ==
  ASSUME TypeOK, NEW p \in Proc, Aside(p), NEW q \in Proc \ {p}, Sound(q)
  PROVE  Sound(q)'
<1>1. cmd'[q] = cmd[q] /\ plan' = plan BY DEF Aside
<1>2. Nm(q) \in Name => \A m \in {"shared", "exclusive"} :
        <<q, m>> \in held[Nm(q)] => <<q, m>> \in held'[Nm(q)]
  BY DEF Aside
<1>3. Nm(q)' = Nm(q) BY <1>1 DEF Nm
<1>4. cmd[q].at \in SharedPhase \cup ExclusivePhase => Nm(q) \in Name BY DEF Sound
<1>5. Mode(q)' = Mode(q) BY <1>1 DEF Mode
<1>6. MayCreate(q, Nm(q))' <=> MayCreate(q, Nm(q)) BY <1>1, <1>3 DEF MayCreate
<1>7. cmd[q].at \in SharedPhase => Mode(q)' = "shared" /\ <<q, "shared">> \in held'[Nm(q)']
  BY <1>2, <1>3, <1>4, <1>5 DEF Sound
<1>8. cmd[q].at \in ExclusivePhase => Mode(q)' = "exclusive" /\ <<q, "exclusive">> \in held'[Nm(q)']
  BY <1>2, <1>3, <1>4, <1>5 DEF Sound
<1> QED BY <1>1, <1>3, <1>6, <1>7, <1>8 DEF Sound

LEMMA AllStaySound ==
  ASSUME Locking, NEW p \in Proc, Aside(p), Sound(p)'
  PROVE  AllSound'
BY OthersSound DEF Locking, AllSound

\* Between boards a command holds nothing.
FreePhase == {"start", "mkdir", "moving", "resolve", "save"} \cup Ends

LEMMA LandsFree ==
  ASSUME Locking, NEW p \in Proc, plan' = plan, cmd'[p].at \in FreePhase, ~cmd'[p].made
  PROVE  Sound(p)'
BY DEF Locking, AllSound, Sound, FreePhase, Ends, SharedPhase, ExclusivePhase, OpenPhase

\* A command between boards, or waiting for one, has made no file.
LEMMA NothingMade ==
  ASSUME Locking, NEW p \in Proc, cmd[p].at \notin OpenPhase
  PROVE  cmd[p].made = FALSE
<1>1. cmd[p].made \in BOOLEAN BY DEF Locking, TypeOK, CmdRow
<1> QED BY <1>1 DEF Locking, AllSound, Sound

\* The names a command can come by.
LEMMA NamesTyped ==
  ASSUME TypeOK, NEW p \in Proc
  PROVE  /\ DefaultName(p) \in Name /\ Resolved(p) \in Name
         /\ plan[p] \in PlanRow /\ plan[p].board \in Name \cup {None}
<1>1. plan[p] \in PlanRow BY DEF TypeOK
<1>2. plan[p].board \in Name \cup {None} /\ plan[p].env \in Name \cup {None} BY <1>1 DEF PlanRow
<1>3. saved \in Name \cup {None} BY DEF TypeOK
<1>4. DefaultName(p) \in Name BY <1>2, <1>3, FilesAssumption DEF DefaultName
<1>5. Resolved(p) \in Name BY <1>2, <1>4 DEF Resolved
<1> QED BY <1>1, <1>2, <1>4, <1>5

-----------------------------------------------------------------------------
(* The move of an old installation, said once                              *)

Moved(p) == MoveDb(p) \/ MoveWal(p)

MovesDb(p, n) ==
  /\ cmd[p].at = "moving" /\ old[n] \in File
  /\ over' = over \cup (IF live[n] = None THEN {} ELSE Content(n) \cup {live[n]})
                  \cup (IF InUse(n) THEN data[old[n]] ELSE {})
  /\ live' = [live EXCEPT ![n] = old[n]] /\ old' = [old EXCEPT ![n] = None]
  /\ apart' = [apart EXCEPT ![n] = IF InUse(n) THEN None ELSE old[n]]

MovesWal(p, n) ==
  /\ cmd[p].at = "moving"
  /\ over' = over \cup wal[n]
                  \cup (IF live[n] = None \/ live[n] = apart[n] THEN {}
                        ELSE Content(n) \cup {live[n]} \cup oldWal[n])
  /\ wal' = [wal EXCEPT ![n] = oldWal[n]] /\ oldWal' = [oldWal EXCEPT ![n] = {}]

LEMMA MoveDbIs ==
  ASSUME TypeOK, NEW p \in Proc, MoveDb(p)
  PROVE  \E n \in Name : MovesDb(p, n)
<1>1. PICK n \in Name :
        /\ old[n] # None
        /\ over' = over \cup (IF live[n] = None THEN {} ELSE Content(n) \cup {live[n]})
                        \cup (IF InUse(n) THEN data[old[n]] ELSE {})
        /\ live' = [live EXCEPT ![n] = old[n]] /\ old' = [old EXCEPT ![n] = None]
        /\ apart' = [apart EXCEPT ![n] = IF InUse(n) THEN None ELSE old[n]]
  BY DEF MoveDb
<1>2. cmd[p].at = "moving" /\ old[n] \in File BY <1>1 DEF MoveDb, At, TypeOK
<1> QED BY <1>1, <1>2 DEF MovesDb

LEMMA MoveWalIs ==
  ASSUME TypeOK, NEW p \in Proc, MoveWal(p)
  PROVE  \E n \in Name : MovesWal(p, n)
BY DEF MoveWal, MovesWal, At

\* The mover takes the entry off its list and changes nothing else of its row.
LEMMA MovedRow ==
  ASSUME TypeOK, NEW p \in Proc, Moved(p)
  PROVE  /\ UNCHANGED <<arch, data, newDir, boardVars, saved, lockVars, plan, acked, gone>>
         /\ cmd' \in [Proc -> CmdRow] /\ \A q \in Proc \ {p} : cmd'[q] = cmd[q]
         /\ cmd[p].at = "moving" /\ cmd'[p].at = "moving" /\ cmd'[p].made = cmd[p].made
<1>1. UNCHANGED <<arch, data, newDir, boardVars, saved, lockVars, plan, acked, gone>>
  BY DEF Moved, MoveDb, MoveWal
<1>2. cmd[p].at = "moving" BY DEF Moved, MoveDb, MoveWal, At
<1>3. PICK e : cmd' = [cmd EXCEPT ![p].toMove = @ \ {e}]
  BY DEF Moved, MoveDb, MoveWal, Drops
<1> DEFINE E == cmd[p].toMove \ {e}
           row == [cmd[p] EXCEPT !.toMove = E]
<1>4. cmd \in [Proc -> CmdRow] /\ cmd[p] \in CmdRow BY DEF TypeOK
<1>5. E \subseteq Name \X Part BY <1>4 DEF CmdRow
<1>6. cmd' = [cmd EXCEPT ![p] = row] BY <1>3, <1>4
<1> HIDE DEF E
<1>7. row \in CmdRow /\ row.at = cmd[p].at /\ row.made = cmd[p].made
  BY <1>4, <1>5 DEF CmdRow
<1> HIDE DEF row
<1>8. cmd' \in [Proc -> CmdRow] /\ cmd'[p] = row /\ \A q \in Proc \ {p} : cmd'[q] = cmd[q]
  BY <1>6, <1>7, RowIs
<1> QED BY <1>1, <1>2, <1>7, <1>8

-----------------------------------------------------------------------------
(* Locks, commands and types: the steps that work on no open board         *)

\* The move of an old installation.
LEMMA MovingLocks ==
  ASSUME Locking, NEW p \in Proc, Moving(p)
  PROVE  TypeOK' /\ Aside(p) /\ Sound(p)' /\ ExclusiveAlone'
<1> DEFINE Goal1 == TypeOK' /\ Aside(p) /\ Sound(p)' /\ ExclusiveAlone'
<1>0. TypeOK BY DEF Locking
<1>1. CASE NothingOld(p) \/ SeesOld(p) \/ OldMoved(p)
  <2>1. \E ph \in {"resolve", "mkdir"} : Go(p, ph)
    BY <1>1 DEF NothingOld, SeesOld, OldMoved
  <2>2. PICK ph \in {"resolve", "mkdir"} : Go(p, ph) BY <2>1
  <2>3. ph \in Phase /\ ph \notin Ends BY DEF Phase, Ends
  <2>4. cmd[p].made = FALSE
    BY <1>1, NothingMade DEF NothingOld, SeesOld, OldMoved, At, OpenPhase
  <2>5. /\ cmd' \in [Proc -> CmdRow] /\ \A q \in Proc \ {p} : cmd'[q] = cmd[q]
        /\ cmd'[p].at = ph /\ cmd'[p].made = FALSE
    BY <1>0, <2>2, <2>3, <2>4, GoIs
  <2>6. UNCHANGED <<fileVars, legacyVars, boardVars, saved, lockVars, plan, pastVars>>
    BY <1>1 DEF NothingOld, SeesOld, OldMoved
  <2>7. TypeOK'
    BY <1>0, <2>5, <2>6 DEF TypeOK, fileVars, legacyVars, boardVars, lockVars, pastVars
  <2>8. Aside(p) BY <2>5, <2>6 DEF Aside, lockVars
  <2>9. Sound(p)' BY <2>5, <2>6, LandsFree DEF FreePhase
  <2>10. ExclusiveAlone' BY <2>6 DEF Locking, ExclusiveAlone, lockVars
  <2> QED BY <2>7, <2>8, <2>9, <2>10
<1>2. CASE MakeDir(p)
  <2> DEFINE E == {e \in Name \X Part : Lies(e)}
             row == [cmd[p] EXCEPT !.at = "moving", !.toMove = E]
  <2>1. cmd \in [Proc -> CmdRow] /\ cmd[p] \in CmdRow BY <1>0 DEF TypeOK
  <2>2. E \subseteq Name \X Part OBVIOUS
  <2>3. cmd' = [cmd EXCEPT ![p] = row] BY <1>2, <2>1 DEF MakeDir
  <2> HIDE DEF E
  <2>4. row \in CmdRow /\ row.at = "moving" /\ row.made = cmd[p].made
    BY <2>1, <2>2 DEF CmdRow, Phase
  <2> HIDE DEF row
  <2>5. /\ cmd' \in [Proc -> CmdRow] /\ \A q \in Proc \ {p} : cmd'[q] = cmd[q]
        /\ cmd'[p].at = "moving" /\ cmd'[p].made = cmd[p].made
    BY <1>0, <2>3, <2>4, RowIs
  <2>6. cmd[p].made = FALSE BY <1>2, NothingMade DEF MakeDir, At, OpenPhase
  <2>7. /\ newDir' = TRUE
        /\ UNCHANGED <<fileVars, old, oldWal, apart, boardVars, saved, lockVars, plan, pastVars>>
    BY <1>2 DEF MakeDir
  <2>8. TypeOK' BY <1>0, <2>5, <2>7 DEF TypeOK, fileVars, boardVars, lockVars, pastVars
  <2>9. Aside(p) BY <2>5, <2>7 DEF Aside, lockVars
  <2>10. Sound(p)' BY <2>5, <2>6, <2>7, LandsFree DEF FreePhase
  <2>11. ExclusiveAlone' BY <2>7 DEF Locking, ExclusiveAlone, lockVars
  <2> QED BY <2>8, <2>9, <2>10, <2>11
<1>3. CASE Moved(p)
  <2>1. /\ UNCHANGED <<arch, data, newDir, boardVars, saved, lockVars, plan, acked, gone>>
        /\ cmd' \in [Proc -> CmdRow] /\ \A q \in Proc \ {p} : cmd'[q] = cmd[q]
        /\ cmd[p].at = "moving" /\ cmd'[p].at = "moving" /\ cmd'[p].made = cmd[p].made
    BY <1>0, <1>3, MovedRow
  <2>2. /\ live' \in [Name -> File \cup {None}] /\ wal' \in [Name -> SUBSET Write]
        /\ old' \in [Name -> File \cup {None}] /\ oldWal' \in [Name -> SUBSET Write]
        /\ apart' \in [Name -> File \cup {None}] /\ over' \subseteq Write
    <3>1. CASE MoveDb(p)
      <4>1. PICK n \in Name : MovesDb(p, n) BY <1>0, <3>1, MoveDbIs
      <4>2. Content(n) \subseteq Write /\ data[old[n]] \subseteq Write
        BY <1>0, <4>1 DEF Content, TypeOK, MovesDb
      <4>3. live[n] \in File \cup {None} /\ over \subseteq Write BY <1>0 DEF TypeOK
      <4>4. live[n] # None => live[n] \in Write BY <4>3 DEF Write
      <4>5. over' \subseteq Write BY <4>1, <4>2, <4>3, <4>4 DEF MovesDb
      <4>6. UNCHANGED <<wal, oldWal>> BY <3>1 DEF MoveDb
      <4> QED BY <1>0, <4>1, <4>5, <4>6 DEF TypeOK, MovesDb
    <3>2. CASE MoveWal(p)
      <4>1. PICK n \in Name : MovesWal(p, n) BY <1>0, <3>2, MoveWalIs
      <4>2. Content(n) \subseteq Write /\ wal[n] \subseteq Write /\ oldWal[n] \subseteq Write
        BY <1>0 DEF Content, TypeOK
      <4>3. live[n] \in File \cup {None} /\ over \subseteq Write BY <1>0 DEF TypeOK
      <4>4. live[n] # None => live[n] \in Write BY <4>3 DEF Write
      <4>5. over' \subseteq Write BY <4>1, <4>2, <4>3, <4>4 DEF MovesWal
      <4>6. UNCHANGED <<live, old, apart>> BY <3>2 DEF MoveWal
      <4> QED BY <1>0, <4>1, <4>5, <4>6 DEF TypeOK, MovesWal
    <3> QED BY <1>3, <3>1, <3>2 DEF Moved
  <2>3. TypeOK' BY <1>0, <2>1, <2>2 DEF TypeOK, boardVars, lockVars
  <2>4. Aside(p) BY <2>1 DEF Aside, lockVars
  <2>5. cmd[p].made = FALSE BY <2>1, NothingMade DEF OpenPhase
  <2>6. Sound(p)' BY <2>1, <2>5, LandsFree DEF FreePhase
  <2>7. ExclusiveAlone' BY <2>1 DEF Locking, ExclusiveAlone, lockVars
  <2> QED BY <2>3, <2>4, <2>6, <2>7
<1> QED BY <1>1, <1>2, <1>3 DEF Moving, Moved

\* Choosing a board, and the setting of the default one.
LEMMA ChoosingLocks ==
  ASSUME Locking, NEW p \in Proc, Choosing(p)
  PROVE  TypeOK' /\ Aside(p) /\ Sound(p)' /\ ExclusiveAlone'
<1>0. TypeOK BY DEF Locking
<1>1. cmd[p].at \in {"resolve", "save"}
  BY DEF Choosing, Resolve, ListBoards, Pick, NewBoard, Point, SaveDefault, At
<1>2. cmd[p].made = FALSE BY <1>1, NothingMade DEF OpenPhase
<1>3. saved' \in Name \cup {None}
  BY <1>0 DEF Choosing, Resolve, ListBoards, Pick, NewBoard, Point, SaveDefault, TypeOK, Nm, CmdRow
<1>4. UNCHANGED <<fileVars, legacyVars, boardVars, lockVars, plan, pastVars>>
  BY DEF Choosing, Resolve, ListBoards, Pick, NewBoard, Point, SaveDefault
<1>5. \/ \E ph \in Ends : Go(p, ph)
      \/ \E n \in Name \cup {None}, ph \in {"lock", "refused", "save"} :
           /\ SettlesOn(p, n, ph)
           /\ ph = "lock" => n \in Name /\ (MayCreate(p, n) => ~plan[p].pinned)
  <2>1. CASE Resolve(p)
    BY <1>0, <2>1, NamesTyped DEF SettlesOn, Resolve, PinGuardsCreation, Ends
  <2>2. CASE ListBoards(p)
    BY <1>0, <2>2, NamesTyped DEF SettlesOn, ListBoards, Listing, MayCreate, Ends
  <2>3. CASE Pick(p)
    BY <1>0, <2>3, NamesTyped DEF SettlesOn, Pick, Listing, MayCreate, Ends
  <2>4. CASE NewBoard(p)
    <3>1. plan[p].board \in Name BY <2>4 DEF NewBoard, Locking, AllSound, Sound
    <3> QED BY <2>4, <3>1 DEF SettlesOn, NewBoard
  <2>5. CASE Point(p)
    BY <1>0, <2>5, NamesTyped DEF SettlesOn, Point
  <2>6. CASE SaveDefault(p) BY <2>6 DEF SaveDefault, Ends
  <2> QED BY <2>1, <2>2, <2>3, <2>4, <2>5, <2>6 DEF Choosing
<1>6. /\ cmd' \in [Proc -> CmdRow] /\ \A q \in Proc \ {p} : cmd'[q] = cmd[q]
      /\ Sound(p)'
  <2>1. CASE \E ph \in Ends : Go(p, ph)
    <3>1. PICK ph \in Ends : Go(p, ph) BY <2>1
    <3>2. ph \in Phase BY DEF Phase, Ends
    <3>3. /\ cmd' \in [Proc -> CmdRow] /\ \A q \in Proc \ {p} : cmd'[q] = cmd[q]
          /\ cmd'[p].at = ph /\ cmd'[p].made = FALSE
      BY <1>0, <3>1, <3>2, GoIs
    <3> QED BY <1>4, <3>3, LandsFree DEF FreePhase
  <2>2. ASSUME NEW n \in Name \cup {None}, NEW ph \in {"lock", "refused", "save"},
               SettlesOn(p, n, ph),
               ph = "lock" => n \in Name /\ (MayCreate(p, n) => ~plan[p].pinned)
        PROVE  /\ cmd' \in [Proc -> CmdRow] /\ \A q \in Proc \ {p} : cmd'[q] = cmd[q]
               /\ Sound(p)'
    <3>1. ph \in Phase BY DEF Phase
    <3>2. /\ cmd' \in [Proc -> CmdRow] /\ \A q \in Proc \ {p} : cmd'[q] = cmd[q]
          /\ cmd'[p].at = ph /\ cmd'[p].name = n /\ cmd'[p].made = FALSE
      <4>1. SettlesOn(p, n, ph) BY <2>2
      <4>2. /\ cmd' \in [Proc -> CmdRow] /\ \A q \in Proc \ {p} : cmd'[q] = cmd[q]
            /\ cmd'[p].at = ph /\ cmd'[p].name = n /\ cmd'[p].made = cmd[p].made
        BY <1>0, <3>1, <4>1, Settles
      <4> QED BY <1>2, <4>2
    <3>3. CASE ph # "lock" BY <1>4, <3>2, <3>3, LandsFree DEF FreePhase, Ends
    <3>4. CASE ph = "lock"
      <4>1. plan' = plan BY <1>4
      <4>2. Nm(p)' = n /\ n \in Name BY <2>2, <3>2, <3>4 DEF Nm
      <4>3. MayCreate(p, Nm(p))' => ~plan[p].pinned BY <2>2, <3>4, <4>1, <4>2 DEF MayCreate
      <4> QED
        BY <3>2, <3>4, <4>1, <4>2, <4>3
        DEF Locking, AllSound, Sound, SharedPhase, ExclusivePhase, OpenPhase
    <3> QED BY <3>2, <3>3, <3>4
  <2> QED BY <1>5, <2>1, <2>2
<1>7. TypeOK'
  BY <1>0, <1>3, <1>4, <1>6 DEF TypeOK, fileVars, legacyVars, boardVars, lockVars, pastVars
<1>8. Aside(p) BY <1>4, <1>6 DEF Aside, lockVars
<1>9. ExclusiveAlone' BY <1>4 DEF Locking, ExclusiveAlone, lockVars
<1> QED BY <1>6, <1>7, <1>8, <1>9

-----------------------------------------------------------------------------
(* Locks, commands and types: the steps on an open or a retired board      *)

\* What every step leaves of locks and commands.
Keeps(p) == /\ cmd' \in [Proc -> CmdRow]
            /\ held' \in [Name -> SUBSET (Proc \X {"shared", "exclusive"})]
            /\ Aside(p) /\ Sound(p)' /\ ExclusiveAlone'

\* A command that goes on with the board it has open.
LEMMA GoesOn ==
  ASSUME Locking, NEW p \in Proc, NEW ph \in OpenPhase, cmd[p].at \in OpenPhase, Go(p, ph),
         plan' = plan, held' = held
  PROVE  Keeps(p)
<1>0. TypeOK /\ Sound(p) BY DEF Locking, AllSound
<1>1. ph \in Phase /\ ph \notin Ends BY DEF Phase, Ends, OpenPhase
<1>2. /\ cmd' \in [Proc -> CmdRow] /\ \A q \in Proc \ {p} : cmd'[q] = cmd[q]
      /\ cmd'[p].at = ph /\ cmd'[p].name = cmd[p].name /\ cmd'[p].file = cmd[p].file
      /\ cmd'[p].made = cmd[p].made
  BY <1>0, <1>1, GoIs
<1>3. Aside(p) BY <1>2 DEF Aside
<1>4. Sound(p)'
  BY <1>0, <1>2 DEF Sound, Nm, Mode, SharedPhase, ExclusivePhase, OpenPhase
<1>5. ExclusiveAlone' BY DEF Locking, ExclusiveAlone
<1>6. held' \in [Name -> SUBSET (Proc \X {"shared", "exclusive"})] BY <1>0 DEF TypeOK
<1> QED BY <1>2, <1>3, <1>4, <1>5, <1>6 DEF Keeps

\* A command that works on where it is.
LEMMA StaysPut ==
  ASSUME Locking, NEW p \in Proc, cmd' = cmd, plan' = plan, held' = held
  PROVE  Keeps(p)
<1>0. TypeOK /\ Sound(p) BY DEF Locking, AllSound
<1>1. Aside(p) BY DEF Aside
<1>2. Sound(p)' BY <1>0 DEF Sound, Nm, Mode, MayCreate
<1>3. ExclusiveAlone' BY DEF Locking, ExclusiveAlone
<1> QED BY <1>0, <1>1, <1>2, <1>3 DEF Keeps, TypeOK

\* A command that ends, with or without a lock to drop, or that goes on holding nothing.
LEMMA LetsGo ==
  ASSUME Locking, NEW p \in Proc, NEW ph \in Ends \cup {"delete"}, Go(p, ph),
         ph = "delete" => plan[p].op = "discard" /\ cmd[p].made = FALSE,
         plan' = plan, held' = held \/ held' = Unlocked(p)
  PROVE  Keeps(p)
<1>0. TypeOK /\ Sound(p) BY DEF Locking, AllSound
<1>1. ph \in Phase BY DEF Phase, Ends
<1>2. /\ cmd' \in [Proc -> CmdRow] /\ \A q \in Proc \ {p} : cmd'[q] = cmd[q]
      /\ cmd'[p].at = ph
  BY <1>0, <1>1, GoIs
<1>3. Aside(p) BY <1>0, <1>2, UnlockedIs DEF Aside
<1>4. Sound(p)'
  <2>1. CASE ph \in Ends
    <3>1. cmd'[p].made = FALSE BY <1>0, <1>1, <2>1, GoIs
    <3> QED BY <1>2, <2>1, <3>1, LandsFree DEF FreePhase
  <2>2. CASE ph = "delete"
    <3>1. cmd'[p].made = FALSE
      <4>1. ph \notin Ends BY <2>2 DEF Ends
      <4>2. cmd'[p].made = cmd[p].made BY <1>0, <1>1, <4>1, GoIs
      <4> QED BY <2>2, <4>2
    <3> QED
      BY <1>0, <1>2, <2>2, <3>1 DEF Sound, SharedPhase, ExclusivePhase, OpenPhase
  <2> QED BY <2>1, <2>2
<1>5. ExclusiveAlone'
  <2>1. \A n \in Name : held'[n] \subseteq held[n] BY <1>0, UnlockedIs
  <2> QED BY <2>1, StillAlone DEF Locking
<1>6. held' \in [Name -> SUBSET (Proc \X {"shared", "exclusive"})] BY <1>0, UnlockedIs DEF TypeOK
<1> QED BY <1>2, <1>3, <1>4, <1>5, <1>6 DEF Keeps

\* The lock is taken: an exclusive holder finds nobody there, and nobody comes to one.
LEMMA LockKeeps ==
  ASSUME Locking, NEW p \in Proc, Lock(p)
  PROVE  Keeps(p)
<1>0. TypeOK /\ Sound(p) BY DEF Locking, AllSound
<1>1. cmd[p].at = "lock" /\ Nm(p) \in Name /\ plan' = plan /\ Compatible(p)
  BY <1>0 DEF Lock, At, Sound
<1> DEFINE n == Nm(p)
           me == <<p, Mode(p)>>
           ph == IF Mode(p) = "shared" THEN IF MayCreate(p, n) \/ OpensAnyway(p) THEN "make" ELSE "look"
                 ELSE IF plan[p].op = "restore" THEN "link" ELSE "fold"
<1>2. Go(p, ph) /\ held' = [held EXCEPT ![n] = held[n] \cup {me}] BY DEF Lock
<1>3. ph \in Phase /\ ph \notin Ends BY DEF Phase, Ends
<1>4. /\ Mode(p) = "shared" => ph \in {"make", "look"}
      /\ Mode(p) = "exclusive" => ph \in {"link", "fold"}
      /\ Mode(p) \in {"shared", "exclusive"}
  BY DEF Mode
<1> HIDE DEF ph
<1>5. /\ cmd' \in [Proc -> CmdRow] /\ \A q \in Proc \ {p} : cmd'[q] = cmd[q]
      /\ cmd'[p].at = ph /\ cmd'[p].name = cmd[p].name /\ cmd'[p].made = cmd[p].made
  BY <1>0, <1>2, <1>3, GoIs
<1>6. cmd[p].made = FALSE BY <1>1, NothingMade DEF OpenPhase
<1>7. me \in Proc \X {"shared", "exclusive"} BY <1>4
<1>8. held \in [Name -> SUBSET (Proc \X {"shared", "exclusive"})] BY <1>0 DEF TypeOK
<1>9. /\ held' \in [Name -> SUBSET (Proc \X {"shared", "exclusive"})]
      /\ held'[n] = held[n] \cup {me}
      /\ \A m \in Name \ {n} : held'[m] = held[m]
  BY <1>1, <1>2, <1>7, <1>8
<1>10. Aside(p) BY <1>1, <1>5, <1>9 DEF Aside
<1>11. Sound(p)'
  <2>1. Nm(p)' = n /\ Mode(p)' = Mode(p) /\ (MayCreate(p, n)' <=> MayCreate(p, n))
    BY <1>1, <1>5 DEF Nm, Mode, MayCreate
  <2>2. me \in held'[n] BY <1>9
  <2>3. cmd'[p].at \in {"make", "look"} => <<p, "shared">> \in held'[n] /\ Mode(p)' = "shared"
    BY <1>4, <1>5, <2>1, <2>2
  <2>4. cmd'[p].at \in {"link", "fold"} => <<p, "exclusive">> \in held'[n] /\ Mode(p)' = "exclusive"
    BY <1>4, <1>5, <2>1, <2>2
  <2>5. cmd'[p].at \in {"make", "look", "link", "fold"} /\ cmd'[p].made = FALSE
    BY <1>4, <1>5, <1>6
  <2>6. MayCreate(p, n)' => ~plan'[p].pinned BY <1>0, <1>1, <2>1 DEF Sound
  <2>7. plan'[p].op \in {"new", "archive", "restore", "delete", "discard", "pick"}
          => plan'[p].board \in Name
    BY <1>0, <1>1 DEF Sound
  <2> QED
    BY <1>1, <2>1, <2>3, <2>4, <2>5, <2>6, <2>7 DEF Sound, SharedPhase, ExclusivePhase, OpenPhase
<1>12. ExclusiveAlone'
  <2>1. \A h \in held[n] : h[2] = "shared" /\ me[2] = "shared" BY <1>1 DEF Compatible
  <2>2. \A h, g \in held'[n] : h[2] = "exclusive" => h = g BY <1>9, <2>1
  <2>3. \A m \in Name \ {n} : \A h, g \in held'[m] : h[2] = "exclusive" => h = g
    BY <1>9 DEF Locking, ExclusiveAlone
  <2> QED BY <2>2, <2>3 DEF ExclusiveAlone
<1> QED BY <1>5, <1>9, <1>10, <1>11, <1>12 DEF Keeps

\* open_if_exists goes on under the lock, or lets the board be.
LEMMA LookKeeps ==
  ASSUME Locking, NEW p \in Proc, Look(p)
  PROVE  Keeps(p)
<1>0. TypeOK /\ Sound(p) BY DEF Locking, AllSound
<1>1. cmd[p].at = "look" /\ plan' = plan BY DEF Look, At
<1>2. CASE live[Nm(p)] = None
  <2>1. held' = Unlocked(p) /\ \E ph \in Ends : Go(p, ph) BY <1>2 DEF Look, Ends
  <2> QED BY <1>1, <2>1, LetsGo DEF Ends
<1>3. CASE live[Nm(p)] # None
  <2>1. Go(p, "make") /\ held' = held BY <1>3 DEF Look
  <2>2. "make" \in Phase /\ "make" \notin Ends BY DEF Phase, Ends
  <2>3. /\ cmd' \in [Proc -> CmdRow] /\ \A q \in Proc \ {p} : cmd'[q] = cmd[q]
        /\ cmd'[p].at = "make" /\ cmd'[p].name = cmd[p].name /\ cmd'[p].made = cmd[p].made
    BY <1>0, <2>1, <2>2, GoIs
  <2>4. Aside(p) BY <1>1, <2>1, <2>3 DEF Aside
  <2>5. Sound(p)'
    BY <1>0, <1>1, <2>1, <2>3
    DEF Sound, Nm, Mode, MayCreate, SharedPhase, ExclusivePhase, OpenPhase
  <2>6. ExclusiveAlone' BY <2>1 DEF Locking, ExclusiveAlone
  <2> QED BY <1>0, <2>1, <2>3, <2>4, <2>5, <2>6 DEF Keeps, TypeOK
<1> QED BY <1>2, <1>3

\* create_board finds the file, or makes one.
LEMMA MakeIs ==
  ASSUME Locking, NEW p \in Proc, Make(p)
  PROVE  /\ cmd[p].at = "make" /\ Nm(p) \in Name
         /\ \E f \in File :
              /\ \/ /\ f = live[Nm(p)] /\ UNCHANGED <<live, wal, newDir, born, over>>
                    /\ cmd'[p].made = FALSE
                 \/ /\ live[Nm(p)] = None /\ f \notin Used /\ data[f] = {} /\ born[f] = None
                    /\ live' = [live EXCEPT ![Nm(p)] = f] /\ newDir' = TRUE
                    /\ over' = over \cup wal[Nm(p)] /\ wal' = [wal EXCEPT ![Nm(p)] = {}]
                    /\ born' = [born EXCEPT ![f] = p] /\ cmd'[p].made = TRUE
              /\ cmd'[p].at = "open" /\ cmd'[p].name = cmd[p].name /\ cmd'[p].file = f
              /\ cmd' \in [Proc -> CmdRow] /\ \A q \in Proc \ {p} : cmd'[q] = cmd[q]
         /\ apart' = [apart EXCEPT ![Nm(p)] = None]
         /\ UNCHANGED <<arch, data, old, oldWal, schema, side, maker, bak, saved, lockVars, plan,
                       acked, gone>>
<1>0. TypeOK /\ Sound(p) BY DEF Locking, AllSound
<1>1. cmd[p].at = "make" /\ Nm(p) \in Name
  BY <1>0 DEF Make, At, Sound, SharedPhase
<1>2. cmd \in [Proc -> CmdRow] /\ cmd[p] \in CmdRow BY <1>0 DEF TypeOK
<1>3. cmd[p].made = FALSE BY <1>1, NothingMade DEF OpenPhase
<1>4. CASE live[Nm(p)] # None
  <2> DEFINE f == live[Nm(p)]
             row == [cmd[p] EXCEPT !.at = "open", !.file = f]
  <2>1. f \in File BY <1>0, <1>1, <1>4 DEF TypeOK
  <2>2. cmd' = [cmd EXCEPT ![p] = row] /\ UNCHANGED <<live, wal, newDir, born, over>>
    BY <1>2, <1>4 DEF Make
  <2>3. /\ row \in CmdRow /\ row.at = "open" /\ row.file = f /\ row.name = cmd[p].name
        /\ row.made = cmd[p].made
    BY <1>2, <2>1 DEF CmdRow, Phase
  <2> HIDE DEF row
  <2>4. /\ cmd' \in [Proc -> CmdRow] /\ cmd'[p] = row /\ \A q \in Proc \ {p} : cmd'[q] = cmd[q]
    BY <1>0, <2>2, <2>3, RowIs
  <2>5. /\ apart' = [apart EXCEPT ![Nm(p)] = None]
        /\ UNCHANGED <<arch, data, old, oldWal, schema, side, maker, bak, saved, lockVars, plan,
                      acked, gone>>
    BY DEF Make
  <2> QED BY <1>1, <1>3, <2>1, <2>2, <2>3, <2>4, <2>5
<1>5. CASE live[Nm(p)] = None
  <2>1. PICK f \in File \ Used :
          /\ data[f] = {} /\ born[f] = None
          /\ live' = [live EXCEPT ![Nm(p)] = f]
          /\ over' = over \cup wal[Nm(p)] /\ wal' = [wal EXCEPT ![Nm(p)] = {}]
          /\ newDir' = TRUE
          /\ born' = [born EXCEPT ![f] = p]
          /\ cmd' = [cmd EXCEPT ![p].at = "open", ![p].file = f, ![p].made = TRUE]
    BY <1>5 DEF Make
  <2> DEFINE row == [cmd[p] EXCEPT !.at = "open", !.file = f, !.made = TRUE]
  <2>2. cmd' = [cmd EXCEPT ![p] = row] BY <1>2, <2>1
  <2>3. /\ row \in CmdRow /\ row.at = "open" /\ row.file = f /\ row.name = cmd[p].name
        /\ row.made = TRUE
    BY <1>2, <2>1 DEF CmdRow, Phase
  <2> HIDE DEF row
  <2>4. /\ cmd' \in [Proc -> CmdRow] /\ cmd'[p] = row /\ \A q \in Proc \ {p} : cmd'[q] = cmd[q]
    BY <1>0, <2>2, <2>3, RowIs
  <2>5. /\ apart' = [apart EXCEPT ![Nm(p)] = None]
        /\ UNCHANGED <<arch, data, old, oldWal, schema, side, maker, bak, saved, lockVars, plan,
                      acked, gone>>
    BY DEF Make
  <2> QED BY <1>1, <1>5, <2>1, <2>3, <2>4, <2>5
<1> QED BY <1>4, <1>5

LEMMA MakeKeeps ==
  ASSUME Locking, NEW p \in Proc, Make(p)
  PROVE  Keeps(p)
<1>0. TypeOK /\ Sound(p) BY DEF Locking, AllSound
<1>1. /\ cmd[p].at = "make" /\ Nm(p) \in Name
      /\ cmd'[p].at = "open" /\ cmd'[p].name = cmd[p].name /\ cmd'[p].file \in File
      /\ cmd' \in [Proc -> CmdRow] /\ \A q \in Proc \ {p} : cmd'[q] = cmd[q]
      /\ UNCHANGED <<lockVars, plan>>
  BY MakeIs
<1>2. held' = held /\ plan' = plan BY <1>1 DEF lockVars
<1>3. Aside(p) BY <1>1, <1>2 DEF Aside
<1>4. Sound(p)'
  BY <1>0, <1>1, <1>2 DEF Sound, Nm, Mode, SharedPhase, ExclusivePhase, OpenPhase
<1>5. ExclusiveAlone' BY <1>2 DEF Locking, ExclusiveAlone
<1> QED BY <1>0, <1>1, <1>2, <1>3, <1>4, <1>5 DEF Keeps, TypeOK

\* What an open command does between its look at the file and its close.
Working(p) == DryRun(p) \/ UpgradeBegin(p) \/ BackUp(p) \/ UpgradeCommit(p) \/ UpgradeFails(p)
              \/ AddTables(p) \/ RecordCreator(p) \/ Use(p) \/ Close(p)

LEMMA WorkingKeeps ==
  ASSUME Locking, NEW p \in Proc, Working(p)
  PROVE  /\ Keeps(p)
         /\ cmd[p].at \in OpenPhase
         /\ plan' = plan
<1>1. cmd[p].at \in OpenPhase /\ plan' = plan
  BY DEF Working, DryRun, UpgradeBegin, BackUp, UpgradeCommit, UpgradeFails, AddTables,
         RecordCreator, Use, Close, At, OpenPhase, lockVars
<1>2. \/ held' = held /\ cmd' = cmd
      \/ held' = held /\ \E ph \in OpenPhase : Go(p, ph)
      \/ (held' = held \/ held' = Unlocked(p)) /\ \E ph \in Ends : Go(p, ph)
  <2>1. CASE DryRun(p)
    <3> DEFINE pending == schema[cmd[p].file] # "new"
               ph == IF plan[p].op = "older" THEN "use"
                     ELSE IF plan[p].op = "peek" THEN IF pending THEN "refused" ELSE "close"
                     ELSE IF pending THEN "upgrade" ELSE "tables"
    <3>1. /\ Go(p, ph)
          /\ held' = IF plan[p].op = "peek" /\ pending THEN Unlocked(p) ELSE held
      BY <2>1 DEF DryRun
    <3>2. CASE plan[p].op = "peek" /\ pending
      <4>1. ph = "refused" BY <3>2
      <4> QED BY <3>1, <3>2, <4>1 DEF Ends
    <3>3. CASE ~(plan[p].op = "peek" /\ pending)
      <4>1. ph \in OpenPhase BY <3>3 DEF OpenPhase
      <4> QED BY <3>1, <3>3, <4>1
    <3> QED BY <3>2, <3>3
  <2>2. CASE UpgradeBegin(p)
    <3>1. held' = held BY <2>2 DEF UpgradeBegin
    <3>2. Go(p, "tables") \/ Go(p, IF schema[cmd[p].file] = "old" THEN "backup" ELSE "commit")
      BY <2>2 DEF UpgradeBegin
    <3> QED BY <3>1, <3>2 DEF OpenPhase
  <2>3. CASE BackUp(p) BY <2>3 DEF BackUp, OpenPhase, lockVars
  <2>4. CASE UpgradeCommit(p) BY <2>4 DEF UpgradeCommit, OpenPhase
  <2>5. CASE UpgradeFails(p) BY <2>5 DEF UpgradeFails, Ends
  <2>6. CASE RecordCreator(p) BY <2>6 DEF RecordCreator, OpenPhase, lockVars
  <2>7. CASE Use(p) BY <2>7 DEF Use, OpenPhase, lockVars
  <2>8. CASE Close(p) BY <2>8 DEF Close, Ends
  <2>9. CASE AddTables(p) BY <2>9 DEF AddTables, OpenPhase, lockVars
  <2> QED BY <2>1, <2>2, <2>3, <2>4, <2>5, <2>6, <2>7, <2>8, <2>9 DEF Working
<1>3. Keeps(p) BY <1>1, <1>2, GoesOn, LetsGo, StaysPut DEF Ends
<1> QED BY <1>1, <1>3

\* What a board holds is a set of writes.
LEMMA ContentTyped ==
  ASSUME TypeOK, NEW n \in Name
  PROVE  Content(n) \subseteq Write
BY DEF TypeOK, Content

\* The types of what an open command writes.
LEMMA WorkingTyped ==
  ASSUME Locking, NEW p \in Proc, Working(p)
  PROVE  TypeOK'
<1>0. TypeOK /\ Sound(p) BY DEF Locking, AllSound
<1>1. /\ cmd' \in [Proc -> CmdRow]
      /\ held' \in [Name -> SUBSET (Proc \X {"shared", "exclusive"})]
      /\ Nm(p) \in Name /\ cmd[p].file \in File
  BY <1>0, WorkingKeeps DEF Keeps, Sound, SharedPhase
<1>2. CASE DryRun(p)
  BY <1>0, <1>1, <1>2 DEF TypeOK, DryRun, fileVars, legacyVars, boardVars, pastVars
<1>3. CASE UpgradeBegin(p)
  BY <1>0, <1>1, <1>3 DEF TypeOK, UpgradeBegin, fileVars, legacyVars, boardVars, pastVars
<1>4. CASE BackUp(p)
  <2>1. [name |-> Nm(p), file |-> cmd[p].file, holds |-> Content(Nm(p)), by |-> p] \in Backup
    BY <1>0, <1>1, ContentTyped DEF Backup
  <2>2. bak' \subseteq Backup BY <1>0, <1>4, <2>1 DEF BackUp, TypeOK
  <2> QED BY <1>0, <1>1, <1>4, <2>2 DEF TypeOK, BackUp, fileVars, legacyVars, lockVars, pastVars
<1>5. CASE UpgradeCommit(p)
  BY <1>0, <1>1, <1>5 DEF TypeOK, UpgradeCommit, fileVars, legacyVars, pastVars
<1>6. CASE UpgradeFails(p)
  BY <1>0, <1>1, <1>6 DEF TypeOK, UpgradeFails, fileVars, legacyVars, pastVars
<1>7. CASE RecordCreator(p)
  BY <1>0, <1>1, <1>7 DEF TypeOK, RecordCreator, fileVars, legacyVars, lockVars, pastVars
<1>8. CASE Use(p)
  <2>1. p \in Write BY DEF Write
  <2>2. wal' \in [Name -> SUBSET Write] /\ over' \subseteq Write /\ acked' \subseteq Write
    BY <1>0, <1>1, <1>8, <2>1 DEF TypeOK, Use
  <2> QED BY <1>0, <1>1, <1>8, <2>2 DEF TypeOK, Use, legacyVars, boardVars, lockVars
<1>9. CASE Close(p)
  <2>1. data' \in [File -> SUBSET Write] /\ wal' \in [Name -> SUBSET Write]
    BY <1>0, <1>1, <1>9 DEF TypeOK, Close
  <2> QED BY <1>0, <1>1, <1>9, <2>1 DEF TypeOK, Close, legacyVars, boardVars, pastVars
<1>10. CASE AddTables(p)
  <2> DEFINE f == cmd[p].file
             S == IF "actors" \in side[f] THEN Tables ELSE side[f] \cup {"actors"}
  <2>1. S \subseteq Tables BY <1>0, <1>1 DEF TypeOK, Tables
  <2>2. side' = side \/ side' = [side EXCEPT ![f] = S] BY <1>10 DEF AddTables
  <2> HIDE DEF S
  <2>3. side' \in [File -> SUBSET Tables] BY <1>0, <2>1, <2>2 DEF TypeOK
  <2> QED BY <1>0, <1>1, <1>10, <2>3 DEF TypeOK, AddTables, fileVars, legacyVars, lockVars, pastVars
<1> QED BY <1>2, <1>3, <1>4, <1>5, <1>6, <1>7, <1>8, <1>9, <1>10 DEF Working

LEMMA OpeningLocks ==
  ASSUME Locking, NEW p \in Proc, Opening(p)
  PROVE  TypeOK' /\ Keeps(p)
<1>0. TypeOK BY DEF Locking
<1>1. CASE Lock(p)
  <2>1. Keeps(p) BY <1>1, LockKeeps
  <2> QED
    BY <1>0, <1>1, <2>1
    DEF Keeps, TypeOK, Lock, fileVars, legacyVars, boardVars, pastVars
<1>2. CASE LockBusy(p)
  <2>1. Go(p, "refused") /\ held' = held /\ plan' = plan BY <1>2 DEF LockBusy, lockVars
  <2>2. Keeps(p) BY <2>1, LetsGo DEF Ends
  <2> QED
    BY <1>0, <1>2, <2>2
    DEF Keeps, TypeOK, LockBusy, fileVars, legacyVars, boardVars, lockVars, pastVars
<1>3. CASE Look(p)
  <2>1. Keeps(p) BY <1>3, LookKeeps
  <2> QED
    BY <1>0, <1>3, <2>1
    DEF Keeps, TypeOK, Look, fileVars, legacyVars, boardVars, pastVars
<1>4. CASE Make(p)
  <2>1. Keeps(p) BY <1>4, MakeKeeps
  <2>2. Nm(p) \in Name /\ apart' = [apart EXCEPT ![Nm(p)] = None] BY <1>4, MakeIs
  <2>3. PICK f \in File :
          \/ UNCHANGED <<live, wal, newDir, born, over>>
          \/ /\ live' = [live EXCEPT ![Nm(p)] = f] /\ newDir' = TRUE
             /\ over' = over \cup wal[Nm(p)] /\ wal' = [wal EXCEPT ![Nm(p)] = {}]
             /\ born' = [born EXCEPT ![f] = p]
    BY <1>4, MakeIs
  <2>4. /\ live' \in [Name -> File \cup {None}] /\ newDir' \in BOOLEAN
        /\ born' \in [File -> Proc \cup {None}] /\ wal' \in [Name -> SUBSET Write]
    <3>1. live' \in [Name -> File \cup {None}] BY <1>0, <2>3 DEF TypeOK
    <3>4. newDir' \in BOOLEAN BY <1>0, <2>3, Zenon DEF TypeOK
    <3>2. born' \in [File -> Proc \cup {None}] BY <1>0, <2>3 DEF TypeOK
    <3>3. wal' \in [Name -> SUBSET Write] BY <1>0, <2>3 DEF TypeOK
    <3> QED BY <3>1, <3>2, <3>3, <3>4
  <2>5. apart' \in [Name -> File \cup {None}] BY <1>0, <2>2 DEF TypeOK
  <2>6. over' \subseteq Write BY <1>0, <2>2, <2>3 DEF TypeOK
  <2>7. UNCHANGED <<arch, data, old, oldWal, schema, side, maker, bak, saved, lockVars, plan,
                     acked, gone>>
    BY <1>4, MakeIs
  <2> QED BY <1>0, <2>1, <2>4, <2>5, <2>6, <2>7 DEF Keeps, TypeOK, lockVars
<1>5. CASE Working(p) BY <1>5, WorkingKeeps, WorkingTyped
<1> QED BY <1>1, <1>2, <1>3, <1>4, <1>5 DEF Opening, Working

-----------------------------------------------------------------------------
(* The archives of a name                                                  *)

LEMMA SequenceOf ==
  ASSUME NEW S, NEW s \in Seq(S)
  PROVE  /\ DOMAIN s = 1..Len(s) /\ Len(s) \in Nat
         /\ \A i \in DOMAIN s : s[i] \in S
         /\ \A x \in S : /\ Append(s, x) \in Seq(S)
                         /\ DOMAIN Append(s, x) = 1..(Len(s) + 1)
                         /\ \A i \in DOMAIN s : Append(s, x)[i] = s[i]
                          /\ Append(s, x)[Len(s) + 1] = x
OBVIOUS

LEMMA SequenceFrom ==
  ASSUME NEW S, NEW s, NEW m \in Nat, DOMAIN s = 1..m, s = [i \in 1..m |-> s[i]],
         \A i \in 1..m : s[i] \in S
  PROVE  s \in Seq(S)
OBVIOUS

\* Taking archives away, or adding the newest, keeps the others as they were.
LEMMA WithoutIs ==
  ASSUME TypeOK, NEW n \in Name, NEW S
  PROVE  /\ Without(n, S) \in Shelf
         /\ DOMAIN Without(n, S) = DOMAIN arch[n]
         /\ \A i \in DOMAIN arch[n] : /\ Without(n, S)[i].file = arch[n][i].file
                                      /\ Without(n, S)[i].there <=> arch[n][i].there /\ i \notin S
<1> DEFINE a == arch[n]
           Row == [file : File, there : BOOLEAN]
           take(i) == [a[i] EXCEPT !.there = a[i].there /\ i \notin S]
<1>1. a \in Seq(Row) BY DEF TypeOK, Shelf
<1> HIDE DEF Row
<1>2. DOMAIN a = 1..Len(a) /\ Len(a) \in Nat BY <1>1, SequenceOf
<1>3. \A i \in DOMAIN a : a[i] \in Row BY <1>1, SequenceOf
<1> USE DEF Row
<1>4. \A i \in DOMAIN a : /\ take(i) \in Row /\ take(i).file = a[i].file
                          /\ take(i).there <=> a[i].there /\ i \notin S
  BY <1>3
<1>5. Without(n, S) = [i \in 1..Len(a) |-> take(i)] BY <1>2 DEF Without
<1> HIDE DEF take, Row
<1>6. \A i \in 1..Len(a) : Without(n, S)[i] = take(i) BY <1>5
<1>7. Without(n, S) \in Seq(Row) BY <1>2, <1>4, <1>5, <1>6, SequenceFrom
<1> QED BY <1>2, <1>4, <1>5, <1>6, <1>7 DEF Shelf, Row

LEMMA AppendIs ==
  ASSUME TypeOK, NEW n \in Name, NEW f \in File
  PROVE  LET s == Append(arch[n], [file |-> f, there |-> TRUE]) IN
         /\ s \in Shelf
         /\ DOMAIN s = 1..(Len(arch[n]) + 1)
         /\ DOMAIN arch[n] = 1..Len(arch[n]) /\ Len(arch[n]) \in Nat
         /\ \A i \in DOMAIN arch[n] : s[i] = arch[n][i]
         /\ s[Len(arch[n]) + 1] = [file |-> f, there |-> TRUE]
<1> DEFINE Row == [file : File, there : BOOLEAN]
           x == [file |-> f, there |-> TRUE]
<1>1. arch[n] \in Seq(Row) BY DEF TypeOK, Shelf
<1>2. x \in Row OBVIOUS
<1> HIDE DEF Row, x
<1>3. /\ Append(arch[n], x) \in Seq(Row)
      /\ DOMAIN Append(arch[n], x) = 1..(Len(arch[n]) + 1)
      /\ DOMAIN arch[n] = 1..Len(arch[n]) /\ Len(arch[n]) \in Nat
      /\ \A i \in DOMAIN arch[n] : Append(arch[n], x)[i] = arch[n][i]
      /\ Append(arch[n], x)[Len(arch[n]) + 1] = x
  BY <1>1, <1>2, SequenceOf
<1> QED BY <1>3 DEF Row, x, Shelf

\* What archives there are, and in which files.
LEMMA ArchivesIs ==
  ASSUME TypeOK, NEW n \in Name
  PROVE  /\ Archives(n) \subseteq Nat
         /\ Archives(n) \subseteq DOMAIN arch[n]
         /\ Archived(n) \subseteq File
         /\ \A i \in Archives(n) : arch[n][i].file \in File
<1> DEFINE Row == [file : File, there : BOOLEAN]
<1>1. arch[n] \in Seq(Row) BY DEF TypeOK, Shelf
<1> HIDE DEF Row
<1>2. DOMAIN arch[n] = 1..Len(arch[n]) /\ Len(arch[n]) \in Nat BY <1>1, SequenceOf
<1>3. \A i \in DOMAIN arch[n] : arch[n][i] \in Row BY <1>1, SequenceOf
<1> USE DEF Row
<1> QED BY <1>2, <1>3 DEF Archives, Archived

-----------------------------------------------------------------------------
(* Locks, commands and types: archives and deletions                       *)

\* A command that has the exclusive half goes on with it.
LEMMA HoldsOn ==
  ASSUME Locking, NEW p \in Proc, cmd[p].at \in ExclusivePhase, plan' = plan, held' = held,
         cmd' \in [Proc -> CmdRow], \A q \in Proc \ {p} : cmd'[q] = cmd[q],
         cmd'[p].at \in {"rename", "unlink"}, cmd'[p].name = cmd[p].name, cmd'[p].made = FALSE,
         cmd'[p].at = "unlink" => cmd'[p].file \in File
  PROVE  Keeps(p)
<1>0. TypeOK /\ Sound(p) BY DEF Locking, AllSound
<1>1. Aside(p) BY DEF Aside
<1>2. Sound(p)' BY <1>0 DEF Sound, Nm, Mode, SharedPhase, ExclusivePhase, OpenPhase
<1>3. ExclusiveAlone' BY DEF Locking, ExclusiveAlone
<1> QED BY <1>0, <1>1, <1>2, <1>3 DEF Keeps, TypeOK

\* Folding the -wal back.
LEMMA FoldLocks ==
  ASSUME Locking, NEW p \in Proc, Fold(p)
  PROVE  TypeOK' /\ Keeps(p)
<1>0. TypeOK /\ Sound(p) BY DEF Locking, AllSound
<1>1. cmd[p].at = "fold" /\ plan' = plan /\ Nm(p) \in Name
  BY <1>0 DEF Fold, At, Sound, ExclusivePhase
<1>2. UNCHANGED <<live, arch, legacyVars, boardVars, saved, writer, plan, acked, gone>> BY DEF Fold
<1>3. CASE ~There(p)
  <2>1. held' = Unlocked(p) /\ Go(p, "refused") /\ UNCHANGED <<data, wal, over>> BY <1>3 DEF Fold
  <2>2. Keeps(p) BY <1>1, <2>1, LetsGo DEF Ends
  <2> QED BY <1>0, <1>2, <2>1, <2>2 DEF Keeps, TypeOK, legacyVars, boardVars
<1>4. CASE There(p)
  <2>1. /\ \/ data' = Checkpointed(Nm(p)) /\ UNCHANGED over
           \/ over' = over \cup wal[Nm(p)] /\ UNCHANGED data
        /\ wal' = [wal EXCEPT ![Nm(p)] = {}]
        /\ Go(p, "rename") /\ held' = held
    BY <1>4 DEF Fold
  <2>2. "rename" \in Phase /\ "rename" \notin Ends BY DEF Phase, Ends
  <2>3. /\ cmd' \in [Proc -> CmdRow] /\ \A q \in Proc \ {p} : cmd'[q] = cmd[q]
        /\ cmd'[p].at = "rename" /\ cmd'[p].name = cmd[p].name /\ cmd'[p].made = cmd[p].made
    BY <1>0, <2>1, <2>2, GoIs
  <2>4. cmd[p].made = FALSE BY <1>1, NothingMade DEF OpenPhase
  <2>5. Keeps(p) BY <1>1, <2>1, <2>3, <2>4, HoldsOn DEF ExclusivePhase
  <2>6. wal[Nm(p)] \subseteq Write BY <1>0, <1>1 DEF TypeOK
  <2>7. data' \in [File -> SUBSET Write] /\ over' \subseteq Write /\ wal' \in [Name -> SUBSET Write]
    BY <1>0, <2>1, <2>6 DEF TypeOK, Checkpointed
  <2> QED BY <1>0, <1>2, <2>5, <2>7 DEF Keeps, TypeOK, legacyVars, boardVars
<1> QED BY <1>3, <1>4

\* Moving the file into the archive directory.
LEMMA ArchiveLocks ==
  ASSUME Locking, NEW p \in Proc, Archive(p)
  PROVE  /\ TypeOK' /\ Keeps(p)
         /\ cmd[p].at = "rename" /\ Nm(p) \in Name /\ live[Nm(p)] \in File
<1>0. TypeOK /\ Sound(p) BY DEF Locking, AllSound
<1>1. cmd[p].at = "rename" /\ plan' = plan /\ Nm(p) \in Name /\ live[Nm(p)] \in File
  BY <1>0 DEF Archive, At, Sound, ExclusivePhase, Locking, RetiresBoards, TypeOK
<1>2. /\ arch' = [arch EXCEPT ![Nm(p)] = Append(arch[Nm(p)], [file |-> live[Nm(p)], there |-> TRUE])]
      /\ live' = [live EXCEPT ![Nm(p)] = None]
      /\ held' = Unlocked(p)
      /\ Go(p, IF plan[p].op = "discard" THEN "delete" ELSE "ended")
  BY DEF Archive
<1>3. UNCHANGED <<wal, data, legacyVars, boardVars, saved, writer, plan, pastVars>> BY DEF Archive
<1>4. cmd[p].made = FALSE BY <1>1, NothingMade DEF OpenPhase
<1>5. Keeps(p)
  <2>1. CASE plan[p].op = "discard" BY <1>1, <1>2, <1>4, <2>1, LetsGo
  <2>2. CASE plan[p].op # "discard" BY <1>1, <1>2, <2>2, LetsGo DEF Ends
  <2> QED BY <2>1, <2>2
<1>6. Append(arch[Nm(p)], [file |-> live[Nm(p)], there |-> TRUE]) \in Shelf BY <1>0, <1>1, AppendIs
<1>7. arch' \in [Name -> Shelf] /\ live' \in [Name -> File \cup {None}]
  BY <1>0, <1>1, <1>2, <1>6 DEF TypeOK
<1> QED BY <1>0, <1>1, <1>3, <1>5, <1>7 DEF Keeps, TypeOK, legacyVars, boardVars, pastVars

\* Linking the newest archive into place: what it leaves, wherever it goes.
LinksIt(p) ==
  \E i \in Newest(Nm(p)) :
    /\ live[Nm(p)] = None /\ wal[Nm(p)] = {}
    /\ live' = [live EXCEPT ![Nm(p)] = arch[Nm(p)][i].file] /\ held' = held
    /\ cmd'[p].at = "unlink" /\ cmd'[p].file = arch[Nm(p)][i].file /\ cmd'[p].listed = {i}
    /\ cmd'[p].name = cmd[p].name /\ cmd'[p].made = FALSE

LEMMA LinkLocks ==
  ASSUME Locking, NEW p \in Proc, Link(p)
  PROVE  /\ TypeOK' /\ Keeps(p)
         /\ cmd[p].at = "link" /\ Nm(p) \in Name
         /\ LinksIt(p) \/ (live' = live /\ cmd'[p].at = "refused")
<1>0. TypeOK /\ Sound(p) BY DEF Locking, AllSound
<1>1. cmd[p].at = "link" /\ plan' = plan /\ Nm(p) \in Name
  BY <1>0 DEF Link, At, Sound, ExclusivePhase
<1>2. UNCHANGED <<wal, arch, data, legacyVars, boardVars, saved, writer, plan, pastVars>> BY DEF Link
<1>3. CASE live[Nm(p)] # None \/ wal[Nm(p)] # {} \/ Archives(Nm(p)) = {}
  <2>1. held' = Unlocked(p) /\ Go(p, "refused") /\ live' = live BY <1>3 DEF Link
  <2>2. Keeps(p) BY <1>1, <2>1, LetsGo DEF Ends
  <2>3. "refused" \in Phase BY DEF Phase
  <2>4. cmd'[p].at = "refused" BY <1>0, <2>1, <2>3, GoIs
  <2> QED
    BY <1>0, <1>1, <1>2, <2>1, <2>2, <2>4 DEF Keeps, TypeOK, legacyVars, boardVars, pastVars
<1>4. CASE ~(live[Nm(p)] # None \/ wal[Nm(p)] # {} \/ Archives(Nm(p)) = {})
  <2>1. PICK i \in Newest(Nm(p)) :
          /\ live' = [live EXCEPT ![Nm(p)] = arch[Nm(p)][i].file]
          /\ cmd' = [cmd EXCEPT ![p].at = "unlink", ![p].file = arch[Nm(p)][i].file,
                                ![p].listed = {i}]
          /\ held' = held
    BY <1>4 DEF Link
  <2>2. i \in Nat /\ arch[Nm(p)][i].file \in File BY <1>0, <1>1, ArchivesIs DEF Newest
  <2> DEFINE f == arch[Nm(p)][i].file
             row == [cmd[p] EXCEPT !.at = "unlink", !.file = f, !.listed = {i}]
  <2>3. cmd \in [Proc -> CmdRow] /\ cmd[p] \in CmdRow BY <1>0 DEF TypeOK
  <2> HIDE DEF f
  <2>4. /\ row \in CmdRow /\ row.at = "unlink" /\ row.file = f /\ row.listed = {i}
        /\ row.name = cmd[p].name /\ row.made = cmd[p].made
    BY <2>2, <2>3 DEF CmdRow, Phase, f
  <2>5. cmd' = [cmd EXCEPT ![p] = row] BY <2>1, <2>3 DEF f
  <2> HIDE DEF row
  <2>6. cmd' \in [Proc -> CmdRow] /\ cmd'[p] = row /\ \A q \in Proc \ {p} : cmd'[q] = cmd[q]
    BY <1>0, <2>4, <2>5, RowIs
  <2>7. cmd[p].made = FALSE BY <1>1, NothingMade DEF OpenPhase
  <2>8. f \in File BY <2>2 DEF f
  <2>9. Keeps(p) BY <1>1, <2>1, <2>4, <2>6, <2>7, <2>8, HoldsOn DEF ExclusivePhase
  <2>10. live' \in [Name -> File \cup {None}] BY <1>0, <2>1, <2>2 DEF TypeOK
  <2>11. TypeOK' BY <1>0, <1>2, <2>9, <2>10 DEF Keeps, TypeOK, legacyVars, boardVars, pastVars
  <2>12. LinksIt(p) BY <1>4, <2>1, <2>4, <2>6, <2>7 DEF LinksIt, f
  <2> QED BY <1>1, <2>9, <2>11, <2>12
<1> QED BY <1>3, <1>4

\* Taking the archive that was linked away.
LEMMA UnlinkLocks ==
  ASSUME Locking, NEW p \in Proc, Unlink(p)
  PROVE  TypeOK' /\ Keeps(p) /\ cmd[p].at = "unlink" /\ Nm(p) \in Name
<1>0. TypeOK /\ Sound(p) BY DEF Locking, AllSound
<1>1. cmd[p].at = "unlink" /\ plan' = plan /\ Nm(p) \in Name
  BY <1>0 DEF Unlink, At, Sound, ExclusivePhase
<1>2. /\ arch' = [arch EXCEPT ![Nm(p)] = Without(Nm(p), cmd[p].listed)]
      /\ held' = Unlocked(p)
      /\ \E ph \in Ends : Go(p, ph)
  BY DEF Unlink, Ends
<1>3. Keeps(p) BY <1>1, <1>2, LetsGo DEF Ends
<1>4. arch' \in [Name -> Shelf]
  <2>1. Without(Nm(p), cmd[p].listed) \in Shelf BY <1>0, <1>1, WithoutIs
  <2>2. arch \in [Name -> Shelf] BY <1>0 DEF TypeOK
  <2> QED BY <1>1, <1>2, <2>1, <2>2
<1> QED
  BY <1>0, <1>1, <1>3, <1>4
  DEF Unlink, Keeps, TypeOK, legacyVars, boardVars, pastVars

\* Naming a board to retire, saying no, deleting archives, one at a time.
LEMMA DeletingLocks ==
  ASSUME Locking, NEW p \in Proc,
         Retire(p) \/ Declines(p) \/ Delete(p) \/ RemoveOne(p) \/ Sweep(p)
  PROVE  TypeOK' /\ Keeps(p)
<1>0. TypeOK /\ Sound(p) BY DEF Locking, AllSound
<1>1. cmd[p].at \in {"resolve", "delete", "remove", "sweep"} /\ plan' = plan
      /\ UNCHANGED lockVars
  BY DEF Retire, Declines, Delete, RemoveOne, Sweep, At
<1>2. held' = held /\ writer' = writer BY <1>1 DEF lockVars
<1>3. cmd[p].made = FALSE BY <1>1, NothingMade DEF OpenPhase
<1>4. CASE Retire(p)
  <2> DEFINE n == plan[p].board
             ph == IF plan[p].op # "restore" /\ n = DefaultName(p) THEN "refused" ELSE "lock"
  <2>1. n \in Name BY <1>0, <1>4 DEF Retire, Sound
  <2>2. SettlesOn(p, n, ph) BY <1>4 DEF Retire, SettlesOn
  <2>3. ph \in Phase /\ ph \in {"lock", "refused"} BY DEF Phase
  <2>4. plan[p].op \in {"archive", "restore", "discard"} BY <1>4 DEF Retire
  <2> HIDE DEF ph
  <2>5. /\ cmd' \in [Proc -> CmdRow] /\ \A q \in Proc \ {p} : cmd'[q] = cmd[q]
        /\ cmd'[p].at = ph /\ cmd'[p].name = n /\ cmd'[p].made = FALSE
    <3>1. n \in Name \cup {None} BY <2>1
    <3>2. cmd'[p].made = cmd[p].made BY <1>0, <2>2, <2>3, <3>1, Settles
    <3> QED BY <1>0, <1>3, <2>2, <2>3, <3>1, <3>2, Settles
  <2>6. Aside(p) BY <1>1, <1>2, <2>5 DEF Aside
  <2>7. Sound(p)'
    BY <1>0, <1>1, <2>1, <2>3, <2>4, <2>5
    DEF Sound, Nm, MayCreate, SharedPhase, ExclusivePhase, OpenPhase
  <2>8. ExclusiveAlone' BY <1>2 DEF Locking, ExclusiveAlone
  <2>9. TypeOK'
    BY <1>0, <1>2, <1>4, <2>5 DEF Retire, TypeOK, fileVars, legacyVars, boardVars, pastVars
  <2> QED BY <1>0, <1>2, <2>5, <2>6, <2>7, <2>8, <2>9 DEF Keeps, TypeOK
<1>5. CASE Declines(p)
  <2>1. Keeps(p) BY <1>1, <1>2, <1>5, LetsGo DEF Declines, Ends
  <2> QED
    BY <1>0, <1>2, <1>5, <2>1
    DEF Declines, Keeps, TypeOK, fileVars, legacyVars, boardVars, pastVars
<1>6. CASE Delete(p)
  <2> DEFINE n == plan[p].board
  <2>1. n \in Name BY <1>0, <1>6 DEF Delete, Sound, At
  <2>2. \/ Go(p, "refused")
        \/ cmd' = [cmd EXCEPT ![p].name = n, ![p].listed = Archives(n), ![p].at = "remove"]
    BY <1>6 DEF Delete
  <2>3. CASE Go(p, "refused")
    <3>1. Keeps(p) BY <1>1, <1>2, <2>3, LetsGo DEF Ends
    <3> QED
      BY <1>0, <1>2, <1>6, <3>1
      DEF Delete, Keeps, TypeOK, fileVars, legacyVars, boardVars, pastVars
  <2>4. CASE cmd' = [cmd EXCEPT ![p].name = n, ![p].listed = Archives(n), ![p].at = "remove"]
    <3> DEFINE A == Archives(n)
               row == [cmd[p] EXCEPT !.name = n, !.listed = A, !.at = "remove"]
    <3>1. A \subseteq Nat BY <1>0, <2>1, ArchivesIs
    <3>2. cmd \in [Proc -> CmdRow] /\ cmd[p] \in CmdRow BY <1>0 DEF TypeOK
    <3> HIDE DEF A
    <3>3. /\ row \in CmdRow /\ row.at = "remove" /\ row.name = n /\ row.made = cmd[p].made
      BY <2>1, <3>1, <3>2 DEF CmdRow, Phase
    <3>4. cmd' = [cmd EXCEPT ![p] = row] BY <2>4, <3>2 DEF A
    <3> HIDE DEF row
    <3>5. cmd' \in [Proc -> CmdRow] /\ cmd'[p] = row /\ \A q \in Proc \ {p} : cmd'[q] = cmd[q]
      BY <1>0, <3>3, <3>4, RowIs
    <3>6. Aside(p) BY <1>1, <1>2, <3>5 DEF Aside
    <3>7. Sound(p)'
      BY <1>0, <1>1, <1>3, <2>1, <3>3, <3>5
      DEF Sound, Nm, MayCreate, SharedPhase, ExclusivePhase, OpenPhase
    <3>8. ExclusiveAlone' BY <1>2 DEF Locking, ExclusiveAlone
    <3>9. TypeOK'
      BY <1>0, <1>2, <1>6, <3>5 DEF Delete, TypeOK, fileVars, legacyVars, boardVars, pastVars
    <3> QED BY <1>0, <1>2, <3>5, <3>6, <3>7, <3>8, <3>9 DEF Keeps, TypeOK
  <2> QED BY <2>2, <2>3, <2>4
<1>7. CASE RemoveOne(p)
  <2>0. Nm(p) \in Name /\ cmd[p].at = "remove" BY <1>0, <1>7 DEF RemoveOne, At, Sound
  <2>1. UNCHANGED <<live, wal, data, legacyVars, boardVars, saved, lockVars, plan, acked, over>>
    BY <1>7 DEF RemoveOne
  <2>2. CASE cmd[p].listed = {}
    <3>1. Go(p, "sweep") /\ UNCHANGED <<arch, gone>> BY <1>7, <2>2 DEF RemoveOne
    <3>2. "sweep" \in Phase /\ "sweep" \notin Ends BY DEF Phase, Ends
    <3>3. /\ cmd' \in [Proc -> CmdRow] /\ \A q \in Proc \ {p} : cmd'[q] = cmd[q]
          /\ cmd'[p].at = "sweep" /\ cmd'[p].name = cmd[p].name /\ cmd'[p].made = cmd[p].made
      BY <1>0, <3>1, <3>2, GoIs
    <3>4. Aside(p) BY <1>1, <1>2, <3>3 DEF Aside
    <3>5. Sound(p)'
      BY <1>0, <1>1, <1>3, <2>0, <3>3
      DEF Sound, Nm, MayCreate, SharedPhase, ExclusivePhase, OpenPhase
    <3>6. ExclusiveAlone' BY <1>2 DEF Locking, ExclusiveAlone
    <3>7. TypeOK'
      BY <1>0, <2>1, <3>1, <3>3 DEF TypeOK, legacyVars, boardVars, lockVars
    <3> QED BY <1>0, <1>2, <3>3, <3>4, <3>5, <3>6, <3>7 DEF Keeps, TypeOK
  <2>3. CASE cmd[p].listed # {}
    <3>1. PICK i \in cmd[p].listed :
            /\ arch' = [arch EXCEPT ![Nm(p)] = Without(Nm(p), {i})]
            /\ gone' = gone \cup UNION {data[f] : f \in Archived(Nm(p)) \ Used'}
            /\ cmd' = [cmd EXCEPT ![p].listed = @ \ {i}]
      BY <1>7, <2>3 DEF RemoveOne
    <3> DEFINE row == [cmd[p] EXCEPT !.listed = cmd[p].listed \ {i}]
    <3>2. cmd \in [Proc -> CmdRow] /\ cmd[p] \in CmdRow BY <1>0 DEF TypeOK
    <3>3. /\ row \in CmdRow /\ row.at = "remove" /\ row.name = cmd[p].name
          /\ row.made = cmd[p].made
      BY <2>0, <3>2 DEF CmdRow
    <3>4. cmd' = [cmd EXCEPT ![p] = row] BY <3>1, <3>2
    <3> HIDE DEF row
    <3>5. cmd' \in [Proc -> CmdRow] /\ cmd'[p] = row /\ \A q \in Proc \ {p} : cmd'[q] = cmd[q]
      BY <1>0, <3>3, <3>4, RowIs
    <3>6. Aside(p) BY <1>1, <1>2, <3>5 DEF Aside
    <3>7. Sound(p)'
      BY <1>0, <1>1, <1>3, <2>0, <3>3, <3>5
      DEF Sound, Nm, MayCreate, SharedPhase, ExclusivePhase, OpenPhase
    <3>8. ExclusiveAlone' BY <1>2 DEF Locking, ExclusiveAlone
    <3>9. Without(Nm(p), {i}) \in Shelf BY <1>0, <2>0, WithoutIs
    <3>10. arch' \in [Name -> Shelf] BY <1>0, <2>0, <3>1, <3>9 DEF TypeOK
    <3>11. gone' \subseteq Write
      <4>1. Archived(Nm(p)) \subseteq File BY <1>0, <2>0, ArchivesIs
      <4>2. \A f \in File : data[f] \subseteq Write BY <1>0 DEF TypeOK
      <4>3. gone \subseteq Write BY <1>0 DEF TypeOK
      <4> QED BY <3>1, <4>1, <4>2, <4>3
    <3>12. TypeOK'
      BY <1>0, <2>1, <3>5, <3>10, <3>11 DEF TypeOK, legacyVars, boardVars, lockVars
    <3> QED BY <1>0, <1>2, <3>5, <3>6, <3>7, <3>8, <3>12 DEF Keeps, TypeOK
  <2> QED BY <2>2, <2>3
<1>8. CASE Sweep(p)
  <2>1. Go(p, "ended") /\ bak' \subseteq bak BY <1>8 DEF Sweep
  <2>2. Keeps(p) BY <1>1, <1>2, <2>1, LetsGo DEF Ends
  <2> QED
    BY <1>0, <1>2, <1>8, <2>1, <2>2 DEF Sweep, Keeps, TypeOK, fileVars, legacyVars, pastVars
<1> QED BY <1>4, <1>5, <1>6, <1>7, <1>8

\* A kill drops the locks of the command.
LEMMA KillLocks ==
  ASSUME Locking, NEW p \in Proc, Kill(p)
  PROVE  TypeOK' /\ Keeps(p)
<1>0. TypeOK BY DEF Locking
<1>1. Go(p, "killed") /\ held' = Unlocked(p) /\ plan' = plan BY DEF Kill
<1>2. Keeps(p) BY <1>1, LetsGo DEF Ends
<1>3. writer' \in [Name -> Proc \cup {None}] BY <1>0 DEF Kill, TypeOK
<1> QED
  BY <1>0, <1>2, <1>3 DEF Kill, Keeps, TypeOK, fileVars, legacyVars, boardVars, pastVars

\* Every step of one command.
LEMMA StepLocks ==
  ASSUME Locking, NEW p \in Proc, Step(p) \/ Kill(p)
  PROVE  TypeOK' /\ Keeps(p)
<1>1. CASE Moving(p) \/ Choosing(p)
  <2>1. TypeOK' /\ Aside(p) /\ Sound(p)' /\ ExclusiveAlone' BY <1>1, MovingLocks, ChoosingLocks
  <2> QED BY <2>1 DEF Keeps, TypeOK
<1>2. CASE Opening(p) BY <1>2, OpeningLocks
<1>3. CASE Shelving(p)
  BY <1>3, FoldLocks, ArchiveLocks, LinkLocks, UnlinkLocks, DeletingLocks DEF Shelving
<1>4. CASE Kill(p) BY <1>4, KillLocks
<1> QED BY <1>1, <1>2, <1>3, <1>4 DEF Step

\* A live file goes only with the archive command that holds its name alone, or under a file
\* of an old installation.
LEMMA LiveStep ==
  ASSUME Locking, NEW p \in Proc, Step(p) \/ Kill(p), NEW n \in Name, live'[n] # live[n]
  PROVE  \/ /\ Make(p) /\ n = Nm(p) /\ live[n] = None /\ live'[n] \in File \ Used
            /\ cmd[p].at = "make"
         \/ /\ MovesDb(p, n) /\ MoveDb(p) /\ old[n] \in File /\ live'[n] = old[n]
         \/ /\ Archive(p) /\ n = Nm(p) /\ cmd[p].at = "rename" /\ live'[n] = None
         \/ /\ Link(p) /\ n = Nm(p) /\ cmd[p].at = "link" /\ live[n] = None
            /\ live'[n] \in Archived(n)
<1>0. TypeOK /\ Sound(p) BY DEF Locking, AllSound
<1>1. Make(p) \/ MoveDb(p) \/ Archive(p) \/ Link(p)
  BY DEF Step, Kill, Moving, Choosing, Opening, Shelving, NothingOld, SeesOld, MakeDir, MoveWal,
         OldMoved, Resolve, ListBoards, Pick, NewBoard, Point, SaveDefault, Lock, LockBusy, Look,
         DryRun, UpgradeBegin, BackUp, UpgradeCommit, UpgradeFails, AddTables, RecordCreator, Use,
         Close, Retire, Fold, Unlink, Declines, Delete, RemoveOne, Sweep, fileVars
<1>2. CASE Make(p)
  <2>1. /\ cmd[p].at = "make" /\ Nm(p) \in Name
        /\ \E f \in File : \/ live' = live
                           \/ /\ live[Nm(p)] = None /\ f \notin Used
                              /\ live' = [live EXCEPT ![Nm(p)] = f]
    BY <1>2, MakeIs
  <2> QED BY <1>0, <1>2, <2>1 DEF TypeOK
<1>3. CASE MoveDb(p)
  <2>1. PICK m \in Name : MovesDb(p, m) BY <1>0, <1>3, MoveDbIs
  <2>2. m = n /\ live'[n] = old[n] BY <1>0, <2>1 DEF MovesDb, TypeOK
  <2> QED BY <1>3, <2>1, <2>2 DEF MovesDb
<1>4. CASE Archive(p)
  BY <1>0, <1>4, ArchiveLocks DEF Archive, TypeOK
<1>5. CASE Link(p)
  <2>1. cmd[p].at = "link" /\ Nm(p) \in Name /\ LinksIt(p) BY <1>5, LinkLocks
  <2>2. PICK i \in Newest(Nm(p)) :
          live[Nm(p)] = None /\ live' = [live EXCEPT ![Nm(p)] = arch[Nm(p)][i].file]
    BY <2>1 DEF LinksIt
  <2>3. arch[Nm(p)][i].file \in Archived(Nm(p)) BY DEF Newest, Archived
  <2> QED BY <1>0, <1>5, <2>1, <2>2, <2>3 DEF TypeOK
<1> QED BY <1>1, <1>2, <1>3, <1>4, <1>5

\* The exclusive half keeps everybody else away.
LEMMA NobodyElse ==
  ASSUME Locking, NEW p \in Proc, NEW q \in Proc, p # q,
         cmd[p].at \in ExclusivePhase, cmd[q].at \in ExclusivePhase \cup SharedPhase
  PROVE  Nm(p) # Nm(q)
<1>1. Nm(p) \in Name /\ <<p, "exclusive">> \in held[Nm(p)] BY DEF Locking, AllSound, Sound
<1>2. \E m \in {"shared", "exclusive"} : <<q, m>> \in held[Nm(q)] BY DEF Locking, AllSound, Sound
<1>3. \A m \in {"shared", "exclusive"} : <<q, m>> # <<p, "exclusive">> OBVIOUS
<1> QED BY <1>1, <1>2, <1>3 DEF Locking, ExclusiveAlone

-----------------------------------------------------------------------------
(* Which step brings a command where                                       *)

\* Every step, with the phases it can lead to.
Targets(p) ==
  \/ (NothingOld(p) \/ OldMoved(p)) /\ cmd'[p].at = "resolve"
  \/ SeesOld(p) /\ cmd'[p].at = "mkdir"
  \/ MakeDir(p) /\ cmd'[p].at = "moving"
  \/ Moved(p) /\ cmd'[p].at = "moving"
  \/ (Choosing(p) \/ Retire(p)) /\ cmd'[p].at \in {"lock", "save"} \cup Ends
  \/ /\ Lock(p) /\ cmd'[p].at \in {"make", "look", "link", "fold"}
     /\ cmd'[p].at = "make" => MayCreate(p, Nm(p)) \/ OpensAnyway(p)
  \/ LockBusy(p) /\ cmd'[p].at \in Ends
  \/ Look(p) /\ (cmd'[p].at \in Ends \/ (cmd'[p].at = "make" /\ live[Nm(p)] # None))
  \/ Make(p) /\ cmd'[p].at = "open"
  \/ /\ DryRun(p) /\ cmd'[p].at \in {"use", "refused", "close", "upgrade", "tables"}
     /\ cmd'[p].at = "tables" => schema[cmd[p].file] = "new"
  \/ /\ UpgradeBegin(p)
     /\ \/ cmd'[p].at = "tables" /\ schema[cmd[p].file] = "new"
        \/ cmd'[p].at = "backup" /\ schema[cmd[p].file] = "old" /\ writer'[Nm(p)] = p
        \/ cmd'[p].at = "commit" /\ schema[cmd[p].file] = "none" /\ writer'[Nm(p)] = p
  \/ BackUp(p) /\ cmd'[p].at = "commit"
  \/ UpgradeCommit(p) /\ cmd'[p].at = "tables"
  \/ AddTables(p) /\ cmd[p].at = "tables" /\ cmd'[p].at \in {"tables", "creator"}
  \/ UpgradeFails(p) /\ cmd'[p].at \in Ends
  \/ RecordCreator(p) /\ cmd'[p].at \in {"use", "close"}
  \/ Use(p) /\ cmd'[p].at = "close"
  \/ Close(p) /\ cmd'[p].at \in Ends
  \/ Fold(p) /\ There(p) /\ cmd'[p].at = "rename"
  \/ Fold(p) /\ ~There(p) /\ cmd'[p].at \in Ends
  \/ Archive(p) /\ cmd'[p].at \in {"delete"} \cup Ends
  \/ Link(p) /\ LinksIt(p)
  \/ Link(p) /\ live' = live /\ cmd'[p].at \in Ends
  \/ Unlink(p) /\ cmd'[p].at \in Ends
  \/ Declines(p) /\ cmd'[p].at \in Ends
  \/ Delete(p) /\ cmd'[p].at \in {"remove"} \cup Ends
  \/ RemoveOne(p) /\ cmd'[p].at \in {"remove", "sweep"}
  \/ Sweep(p) /\ cmd'[p].at \in Ends
  \/ Kill(p) /\ cmd'[p].at = "killed"

LEMMA GoesTo ==
  ASSUME Locking, NEW p \in Proc, NEW ph \in Phase, Go(p, ph)
  PROVE  cmd'[p].at = ph
BY GoIs DEF Locking

LEMMA ChoosingGoes ==
  ASSUME Locking, NEW p \in Proc, Choosing(p) \/ Retire(p)
  PROVE  cmd'[p].at \in {"lock", "save"} \cup Ends
<1>0. TypeOK /\ Sound(p) BY DEF Locking, AllSound
<1>1. \/ \E ph \in Ends : Go(p, ph)
      \/ \E n \in Name \cup {None}, ph \in {"lock", "refused", "save"} : SettlesOn(p, n, ph)
  <2>1. CASE Resolve(p) BY <1>0, <2>1, NamesTyped DEF SettlesOn, Resolve, Ends
  <2>2. CASE ListBoards(p) BY <1>0, <2>2 DEF SettlesOn, ListBoards, Listing, Ends
  <2>3. CASE Pick(p) BY <1>0, <2>3, NamesTyped DEF SettlesOn, Pick, Ends
  <2>4. CASE NewBoard(p) BY <1>0, <2>4, NamesTyped DEF SettlesOn, NewBoard
  <2>5. CASE Point(p) BY <1>0, <2>5, NamesTyped DEF SettlesOn, Point
  <2>6. CASE SaveDefault(p) BY <2>6 DEF SaveDefault, Ends
  <2>7. CASE Retire(p) BY <1>0, <2>7, NamesTyped DEF SettlesOn, Retire
  <2> QED BY <2>1, <2>2, <2>3, <2>4, <2>5, <2>6, <2>7 DEF Choosing
<1>2. Ends \cup {"lock", "refused", "save"} \subseteq Phase BY DEF Ends, Phase
<1>3. CASE \E ph \in Ends : Go(p, ph) BY <1>2, <1>3, GoesTo
<1>4. ASSUME NEW n \in Name \cup {None}, NEW ph \in {"lock", "refused", "save"}, SettlesOn(p, n, ph)
      PROVE  cmd'[p].at \in {"lock", "save"} \cup Ends
  <2>1. cmd'[p].at = ph
    <3>1. ph \in Phase BY <1>2
    <3>2. SettlesOn(p, n, ph) BY <1>4
    <3> QED BY <1>0, <3>1, <3>2, Settles
  <2> QED BY <2>1 DEF Ends
<1> QED BY <1>1, <1>3, <1>4

LEMMA StepGoes ==
  ASSUME Locking, NEW p \in Proc, Step(p) \/ Kill(p)
  PROVE  Targets(p)
<1>0. TypeOK /\ Sound(p) BY DEF Locking, AllSound
<1>1. CASE NothingOld(p) \/ OldMoved(p)
  <2>1. Go(p, "resolve") BY <1>1 DEF NothingOld, OldMoved
  <2>2. cmd'[p].at = "resolve" BY <2>1, GoesTo DEF Phase
  <2> QED BY <1>1, <2>2 DEF Targets
<1>2. CASE SeesOld(p)
  <2>1. cmd'[p].at = "mkdir" BY <1>2, GoesTo DEF SeesOld, Phase
  <2> QED BY <1>2, <2>1 DEF Targets
<1>3. CASE MakeDir(p)
  <2>1. cmd \in [Proc -> CmdRow] /\ cmd[p] \in CmdRow BY <1>0 DEF TypeOK
  <2>2. cmd'[p].at = "moving" BY <1>3, <2>1 DEF MakeDir, CmdRow
  <2> QED BY <1>3, <2>2 DEF Targets
<1>4. CASE Moved(p) BY <1>0, <1>4, MovedRow DEF Targets
<1>5. CASE Choosing(p) \/ Retire(p) BY <1>5, ChoosingGoes DEF Targets
<1>6. CASE Lock(p)
  <2> DEFINE ph == IF Mode(p) = "shared"
                   THEN IF MayCreate(p, Nm(p)) \/ OpensAnyway(p) THEN "make" ELSE "look"
                   ELSE IF plan[p].op = "restore" THEN "link" ELSE "fold"
  <2>1. Go(p, ph) BY <1>6 DEF Lock
  <2>2. /\ ph \in {"make", "look", "link", "fold"} /\ ph \in Phase
        /\ ph = "make" => MayCreate(p, Nm(p)) \/ OpensAnyway(p)
    BY DEF Phase
  <2> HIDE DEF ph
  <2>3. cmd'[p].at = ph BY <2>1, <2>2, GoesTo
  <2> QED BY <1>6, <2>2, <2>3 DEF Targets
<1>7. CASE LockBusy(p)
  <2>1. cmd'[p].at = "refused" BY <1>7, GoesTo DEF LockBusy, Phase
  <2> QED BY <1>7, <2>1 DEF Targets, Ends
<1>8. CASE Look(p)
  <2>1. \/ \E ph \in Ends : Go(p, ph)
        \/ Go(p, "make") /\ live[Nm(p)] # None
    BY <1>8 DEF Look, Ends
  <2>2. Ends \cup {"make"} \subseteq Phase BY DEF Ends, Phase
  <2>3. cmd'[p].at \in Ends \/ (cmd'[p].at = "make" /\ live[Nm(p)] # None) BY <2>1, <2>2, GoesTo
  <2> QED BY <1>8, <2>3 DEF Targets
<1>9. CASE Make(p) BY <1>9, MakeIs DEF Targets
<1>10. CASE DryRun(p)
  <2> DEFINE pending == schema[cmd[p].file] # "new"
             ph == IF plan[p].op = "older" THEN "use"
                   ELSE IF plan[p].op = "peek" THEN IF pending THEN "refused" ELSE "close"
                   ELSE IF pending THEN "upgrade" ELSE "tables"
  <2>1. Go(p, ph) BY <1>10 DEF DryRun
  <2>2. /\ ph \in {"use", "refused", "close", "upgrade", "tables"} /\ ph \in Phase
        /\ ph = "tables" => schema[cmd[p].file] = "new"
    BY DEF Phase
  <2> HIDE DEF ph
  <2>3. cmd'[p].at = ph BY <2>1, <2>2, GoesTo
  <2> QED BY <1>10, <2>2, <2>3 DEF Targets
<1>11. CASE UpgradeBegin(p)
  <2>1. {"tables", "backup", "commit"} \subseteq Phase BY DEF Phase
  <2>2. Nm(p) \in Name /\ cmd[p].file \in File
    BY <1>0, <1>11 DEF UpgradeBegin, At, Sound, SharedPhase, OpenPhase
  <2>3. schema[cmd[p].file] \in {"none", "old", "new"} BY <1>0, <2>2 DEF TypeOK
  <2>4. CASE schema[cmd[p].file] = "new"
    <3>1. cmd'[p].at = "tables" BY <1>11, <2>1, <2>4, GoesTo DEF UpgradeBegin
    <3> QED BY <1>11, <2>4, <3>1 DEF Targets
  <2>5. CASE schema[cmd[p].file] # "new"
    <3>1. writer'[Nm(p)] = p BY <1>0, <1>11, <2>2, <2>5 DEF UpgradeBegin, TypeOK
    <3>2. CASE schema[cmd[p].file] = "old"
      <4>1. Go(p, "backup") BY <1>11, <2>5, <3>2 DEF UpgradeBegin
      <4>2. cmd'[p].at = "backup" BY <2>1, <4>1, GoesTo
      <4> QED BY <1>11, <3>1, <3>2, <4>2 DEF Targets
    <3>3. CASE schema[cmd[p].file] = "none"
      <4>1. Go(p, "commit") BY <1>11, <2>5, <3>3 DEF UpgradeBegin
      <4>2. cmd'[p].at = "commit" BY <2>1, <4>1, GoesTo
      <4> QED BY <1>11, <3>1, <3>3, <4>2 DEF Targets
    <3> QED BY <2>3, <2>5, <3>2, <3>3
  <2> QED BY <2>4, <2>5
<1>12. CASE BackUp(p)
  <2>1. cmd'[p].at = "commit" BY <1>12, GoesTo DEF BackUp, Phase
  <2> QED BY <1>12, <2>1 DEF Targets
<1>13. CASE UpgradeCommit(p)
  <2>1. cmd'[p].at = "tables" BY <1>13, GoesTo DEF UpgradeCommit, Phase
  <2> QED BY <1>13, <2>1 DEF Targets
<1>14. CASE UpgradeFails(p)
  <2>1. cmd'[p].at = "refused" BY <1>14, GoesTo DEF UpgradeFails, Phase
  <2> QED BY <1>14, <2>1 DEF Targets, Ends
<1>15. CASE RecordCreator(p)
  <2>1. {"close", "use"} \subseteq Phase BY DEF Phase
  <2>2. Go(p, "close") \/ Go(p, "use") BY <1>15 DEF RecordCreator
  <2>3. cmd'[p].at \in {"use", "close"} BY <2>1, <2>2, GoesTo
  <2> QED BY <1>15, <2>3 DEF Targets
<1>16. CASE Use(p)
  <2>1. cmd'[p].at = "close" BY <1>16, GoesTo DEF Use, Phase
  <2> QED BY <1>16, <2>1 DEF Targets
<1>17. CASE Close(p)
  <2>1. cmd'[p].at = "ended" BY <1>17, GoesTo DEF Close, Phase
  <2> QED BY <1>17, <2>1 DEF Targets, Ends
<1>18. CASE Fold(p)
  <2>1. CASE There(p)
    <3>1. Go(p, "rename") BY <1>18, <2>1 DEF Fold
    <3>2. cmd'[p].at = "rename" BY <3>1, GoesTo DEF Phase
    <3> QED BY <1>18, <2>1, <3>2 DEF Targets
  <2>2. CASE ~There(p)
    <3>1. Go(p, "refused") BY <1>18, <2>2 DEF Fold
    <3>2. cmd'[p].at = "refused" BY <3>1, GoesTo DEF Phase
    <3> QED BY <1>18, <2>2, <3>2 DEF Targets, Ends
  <2> QED BY <2>1, <2>2
<1>19. CASE Archive(p)
  <2>1. {"delete", "ended"} \subseteq Phase BY DEF Phase
  <2>2. Go(p, "delete") \/ Go(p, "ended") BY <1>19 DEF Archive
  <2>3. cmd'[p].at \in {"delete"} \cup Ends BY <2>1, <2>2, GoesTo DEF Ends
  <2> QED BY <1>19, <2>3 DEF Targets
<1>20. CASE Link(p) BY <1>20, LinkLocks DEF Targets, Ends
<1>21. CASE Unlink(p)
  <2>1. {"ended", "refused"} \subseteq Phase BY DEF Phase
  <2>2. Go(p, "ended") \/ Go(p, "refused") BY <1>21 DEF Unlink
  <2>3. cmd'[p].at \in Ends BY <2>1, <2>2, GoesTo DEF Ends
  <2> QED BY <1>21, <2>3 DEF Targets
<1>22. CASE Declines(p)
  <2>1. cmd'[p].at = "ended" BY <1>22, GoesTo DEF Declines, Phase
  <2> QED BY <1>22, <2>1 DEF Targets, Ends
<1>23. CASE Delete(p)
  <2> DEFINE n == plan[p].board
  <2>1. \/ Go(p, "refused")
        \/ cmd' = [cmd EXCEPT ![p].name = n, ![p].listed = Archives(n), ![p].at = "remove"]
    BY <1>23 DEF Delete
  <2>2. cmd \in [Proc -> CmdRow] /\ cmd[p] \in CmdRow BY <1>0 DEF TypeOK
  <2>3. CASE Go(p, "refused")
    <3>1. cmd'[p].at = "refused" BY <2>3, GoesTo DEF Phase
    <3> QED BY <1>23, <3>1 DEF Targets, Ends
  <2>4. CASE cmd' = [cmd EXCEPT ![p].name = n, ![p].listed = Archives(n), ![p].at = "remove"]
    <3>1. cmd'[p].at = "remove" BY <2>2, <2>4 DEF CmdRow
    <3> QED BY <1>23, <3>1 DEF Targets
  <2> QED BY <2>1, <2>3, <2>4
<1>24. CASE RemoveOne(p)
  <2>1. cmd \in [Proc -> CmdRow] /\ cmd[p] \in CmdRow /\ cmd[p].at = "remove"
    BY <1>0, <1>24 DEF TypeOK, RemoveOne, At
  <2>2. Go(p, "sweep") \/ \E i : cmd' = [cmd EXCEPT ![p].listed = @ \ {i}] BY <1>24 DEF RemoveOne
  <2>3. CASE Go(p, "sweep")
    <3>1. cmd'[p].at = "sweep" BY <2>3, GoesTo DEF Phase
    <3> QED BY <1>24, <3>1 DEF Targets
  <2>4. CASE \E i : cmd' = [cmd EXCEPT ![p].listed = @ \ {i}]
    <3>1. cmd'[p].at = "remove" BY <2>1, <2>4 DEF CmdRow
    <3> QED BY <1>24, <3>1 DEF Targets
  <2> QED BY <2>2, <2>3, <2>4
<1>25. CASE Sweep(p)
  <2>1. cmd'[p].at = "ended" BY <1>25, GoesTo DEF Sweep, Phase
  <2> QED BY <1>25, <2>1 DEF Targets, Ends
<1>26. CASE Kill(p)
  <2>1. cmd'[p].at = "killed" BY <1>26, GoesTo DEF Kill, Phase
  <2> QED BY <1>26, <2>1 DEF Targets
<1>27. CASE AddTables(p)
  <2>1. cmd[p].at = "tables" BY <1>27 DEF AddTables, At
  <2>2. Go(p, "creator") \/ cmd' = cmd BY <1>27 DEF AddTables
  <2>3. cmd'[p].at \in {"tables", "creator"} BY <2>1, <2>2, GoesTo DEF Phase
  <2> QED BY <1>27, <2>1, <2>3 DEF Targets
<1> QED
  BY <1>1, <1>2, <1>3, <1>4, <1>5, <1>6, <1>7, <1>8, <1>9, <1>10, <1>11, <1>12, <1>13, <1>14,
     <1>15, <1>16, <1>17, <1>18, <1>19, <1>20, <1>21, <1>22, <1>23, <1>24, <1>25, <1>26, <1>27
  DEF Step, Moving, Moved, Opening, Shelving

\* An open command keeps its board and its file until it ends.
LEMMA WorkingStays ==
  ASSUME Locking, NEW p \in Proc, Working(p), cmd'[p].at \notin Ends
  PROVE  /\ cmd'[p].name = cmd[p].name /\ cmd'[p].file = cmd[p].file /\ cmd'[p].made = cmd[p].made
         /\ cmd[p].at \in OpenPhase
<1>0. TypeOK BY DEF Locking
<1>1. cmd' = cmd \/ \E ph \in Phase : Go(p, ph)
  BY DEF Working, DryRun, UpgradeBegin, BackUp, UpgradeCommit, UpgradeFails, AddTables,
         RecordCreator, Use, Close, Phase
<1>2. CASE cmd' = cmd BY <1>2, WorkingKeeps
<1>3. CASE \E ph \in Phase : Go(p, ph)
  <2>1. PICK ph \in Phase : Go(p, ph) BY <1>3
  <2>2. ph \notin Ends BY <1>0, <2>1, GoIs
  <2> QED BY <1>0, <2>1, <2>2, GoIs, WorkingKeeps
<1> QED BY <1>1, <1>2, <1>3

\* The phases that matter below, and the steps that lead there.
LEMMA Arrivals ==
  ASSUME Locking, NEW p \in Proc, Step(p) \/ Kill(p)
  PROVE  /\ cmd'[p].at = "rename" => Fold(p) /\ There(p)
         /\ cmd'[p].at = "unlink" => Link(p) /\ LinksIt(p)
         /\ cmd'[p].at = "make" =>
              \/ Lock(p) /\ (MayCreate(p, Nm(p)) \/ OpensAnyway(p))
              \/ Look(p) /\ live[Nm(p)] # None
         /\ cmd'[p].at = "mkdir" => SeesOld(p)
         /\ cmd'[p].at = "moving" => MakeDir(p) \/ Moved(p)
         /\ cmd'[p].at \in OpenPhase => Make(p) \/ Working(p)
         /\ cmd'[p].at = "backup" => UpgradeBegin(p) /\ writer'[Nm(p)] = p
         /\ cmd'[p].at = "commit" =>
              \/ BackUp(p)
              \/ UpgradeBegin(p) /\ writer'[Nm(p)] = p /\ schema[cmd[p].file] = "none"
         /\ cmd'[p].at = "tables" =>
              \/ (DryRun(p) \/ UpgradeBegin(p)) /\ schema[cmd[p].file] = "new"
              \/ UpgradeCommit(p)
              \/ AddTables(p) /\ cmd[p].at = "tables"
<1>1. Targets(p) BY StepGoes
<1> QED BY <1>1 DEF Targets, Working, OpenPhase, Ends, LinksIt

\* On the way from the lock to the end a command keeps the name.
LEMMA NameStays ==
  ASSUME Locking, NEW p \in Proc, Step(p) \/ Kill(p),
         cmd'[p].at \in SharedPhase \cup ExclusivePhase
  PROVE  cmd'[p].name = cmd[p].name
<1>0. TypeOK BY DEF Locking
<1>1. Targets(p) BY StepGoes
<1>2. \/ Lock(p) \/ Look(p) \/ Make(p) \/ Working(p)
      \/ Fold(p) \/ (Link(p) /\ LinksIt(p))
  BY <1>1 DEF Targets, Working, SharedPhase, ExclusivePhase, OpenPhase, Ends
<1>3. cmd'[p].at \notin Ends BY DEF SharedPhase, ExclusivePhase, OpenPhase, Ends
<1>4. CASE Lock(p) \/ Look(p) \/ Fold(p)
  <2>1. \E ph \in Phase : Go(p, ph) BY <1>4 DEF Lock, Look, Fold, Phase
  <2>2. PICK ph \in Phase : Go(p, ph) BY <2>1
  <2>3. ph \notin Ends BY <1>0, <1>3, <2>2, GoIs
  <2> QED BY <1>0, <2>2, <2>3, GoIs
<1>5. CASE Make(p) BY <1>5, MakeIs
<1>6. CASE Working(p) BY <1>3, <1>6, WorkingStays
<1>7. CASE LinksIt(p) BY <1>7 DEF LinksIt
<1> QED BY <1>2, <1>4, <1>5, <1>6, <1>7

\* A board that is being archived stays until it is moved.
LEMMA RetiresStep ==
  ASSUME Locking, NEW p \in Proc, Step(p) \/ Kill(p)
  PROVE  RetiresBoards'
<1>0. TypeOK' /\ Aside(p) BY StepLocks DEF Keeps
<1> SUFFICES ASSUME NEW q \in Proc, cmd'[q].at = "rename" PROVE live'[Nm(q)'] # None
  BY DEF RetiresBoards
<1>1. CASE cmd[q].at = "rename" /\ Nm(q)' = Nm(q) /\ ~(q = p /\ Archive(p))
  <2>1. live[Nm(q)] # None /\ Nm(q) \in Name
    BY <1>1 DEF Locking, RetiresBoards, AllSound, Sound, ExclusivePhase
  <2>2. CASE live'[Nm(q)] = live[Nm(q)] BY <1>1, <2>1, <2>2
  <2>3. CASE live'[Nm(q)] # live[Nm(q)]
    <3>1. ~(cmd[p].at \in ExclusivePhase /\ p # q /\ Nm(p) = Nm(q))
      BY <1>1, NobodyElse DEF ExclusivePhase
    <3>2. old[Nm(q)] \in File /\ live'[Nm(q)] = old[Nm(q)]
      BY <1>1, <2>1, <2>3, <3>1, LiveStep DEF ExclusivePhase
    <3> QED BY <1>1, <3>2, FilesAssumption
  <2> QED BY <2>2, <2>3
<1>2. CASE q # p
  <2>1. cmd'[q] = cmd[q] BY <1>0, <1>2 DEF Aside
  <2> QED BY <1>1, <1>2, <2>1 DEF Nm
<1>3. CASE q = p
  <2>1. Nm(q)' = Nm(q) BY <1>3, NameStays DEF Nm, ExclusivePhase
  <2>2. Fold(p) /\ There(p) BY <1>3, Arrivals
  <2>3. live' = live BY <2>2 DEF Fold
  <2> QED BY <1>3, <2>1, <2>2, <2>3 DEF There
<1> QED BY <1>2, <1>3

-----------------------------------------------------------------------------
(* The first part of the invariant: types and locks                        *)

LEMMA LockingInit == Init => Locking
<1> SUFFICES ASSUME Init PROVE Locking OBVIOUS
<1>1. PICK w \in Worlds :
        /\ live = w.live /\ wal = w.wal /\ arch = w.arch /\ old = w.old /\ oldWal = w.oldWal
        /\ schema = w.schema /\ side = w.side /\ saved = w.saved
        /\ cmd = [p \in Proc |-> Empty(IF p \in w.runs THEN "start" ELSE "ended")]
        /\ newDir = HasDir(w)
  BY DEF Init
<1>2. w \in World BY WorldsAssumption
<1>3. /\ live \in [Name -> File \cup {None}] /\ wal \in [Name -> SUBSET Write]
      /\ arch \in [Name -> Shelf]
      /\ old \in [Name -> File \cup {None}] /\ oldWal \in [Name -> SUBSET Write]
      /\ schema \in [File -> {"none", "old", "new"}] /\ side \in [File -> SUBSET Tables]
      /\ saved \in Name \cup {None}
  BY <1>1, <1>2 DEF World
<1>4. \A ph \in {"start", "ended"} : Empty(ph) \in CmdRow BY DEF Empty, CmdRow, Phase
<1>5. /\ cmd \in [Proc -> CmdRow]
      /\ \A p \in Proc : cmd[p].at \in {"start", "ended"} /\ cmd[p].made = FALSE
  <2> DEFINE row(p) == Empty(IF p \in w.runs THEN "start" ELSE "ended")
  <2>1. cmd = [p \in Proc |-> row(p)] BY <1>1
  <2>2. \A p \in Proc : row(p) \in CmdRow BY <1>4
  <2>3. \A p \in Proc : row(p).at \in {"start", "ended"} /\ row(p).made = FALSE BY DEF Empty
  <2> HIDE DEF row
  <2>4. cmd \in [Proc -> CmdRow] BY <2>1, <2>2
  <2>5. \A p \in Proc : cmd[p].at \in {"start", "ended"} /\ cmd[p].made = FALSE BY <2>1, <2>3
  <2> QED BY <2>4, <2>5
<1>6. /\ plan \in [Proc -> PlanRow]
      /\ \A p \in Proc : plan[p].op \in {"new", "archive", "restore", "delete", "discard", "pick"}
                           => plan[p].board \in Name
  <2>1. \A p \in Proc : plan[p] \in Plans[p] BY DEF Init
  <2>2. \A p \in Proc : Plans[p] \subseteq PlanRow BY PlansAssumption
  <2>3. plan = [p \in Proc |-> plan[p]] BY DEF Init
  <2> QED BY <2>1, <2>2, <2>3, PlansAssumption
<1>7. Used \subseteq File \cup {None}
  <2>1. \A n \in Name : Archived(n) \subseteq File
    <3> SUFFICES ASSUME NEW n \in Name, NEW i \in Archives(n) PROVE arch[n][i].file \in File
      BY DEF Archived
    <3> DEFINE Row == [file : File, there : BOOLEAN]
    <3>1. arch[n] \in Seq(Row) BY <1>3 DEF Shelf
    <3> HIDE DEF Row
    <3>2. arch[n][i] \in Row BY <3>1, SequenceOf DEF Archives
    <3> QED BY <3>2 DEF Row
  <2>2. \A n \in Name : live[n] \in File \cup {None} /\ old[n] \in File \cup {None} BY <1>3
  <2> QED BY <2>1, <2>2 DEF Used
<1>8. /\ data \in [File -> SUBSET Write] /\ acked \subseteq Write
      /\ gone \subseteq Write /\ over \subseteq Write
  <2>1. data \in [File -> SUBSET Write] BY DEF Init, Write
  <2>2. \A n \in Name : wal[n] \cup oldWal[n] \subseteq Write BY <1>3
  <2>3. acked \subseteq Write BY <1>7, <2>2 DEF Init, Write
  <2> QED BY <2>1, <2>3 DEF Init
<1>9. newDir \in BOOLEAN BY <1>1 DEF HasDir
<1>10. TypeOK
  <2>1. maker \in [File -> Proc \cup {None}] /\ born \in [File -> Proc \cup {None}] BY DEF Init
  <2>2. held \in [Name -> SUBSET (Proc \X {"shared", "exclusive"})]
        /\ writer \in [Name -> Proc \cup {None}] /\ bak \subseteq Backup
        /\ apart \in [Name -> File \cup {None}]
    BY DEF Init
  <2> QED BY <1>3, <1>5, <1>6, <1>8, <1>9, <2>1, <2>2 DEF TypeOK
<1>11. AllSound
  BY <1>5, <1>6 DEF AllSound, Sound, SharedPhase, ExclusivePhase, OpenPhase
<1>12. ExclusiveAlone BY DEF Init, ExclusiveAlone
<1>13. RetiresBoards BY <1>5 DEF RetiresBoards
<1> QED BY <1>10, <1>11, <1>12, <1>13 DEF Locking

\* Every step is a step of one command, or a kill.
LEMMA OneSteps ==
  ASSUME Next
  PROVE  \E p \in Proc : Step(p) \/ Kill(p)
BY FilesAssumption DEF Next

LEMMA LockingStep == Locking /\ [Next]_vars => Locking'
<1> SUFFICES ASSUME Locking, [Next]_vars PROVE Locking' OBVIOUS
<1>1. CASE Next
  <2>1. PICK p \in Proc : Step(p) \/ Kill(p) BY <1>1, OneSteps
  <2>2. TypeOK' /\ Keeps(p) BY <2>1, StepLocks
  <2>3. AllSound' BY <2>2, AllStaySound DEF Keeps
  <2>4. RetiresBoards' BY <2>1, RetiresStep
  <2> QED BY <2>2, <2>3, <2>4 DEF Locking, Keeps
<1>2. CASE UNCHANGED vars
  BY <1>2 DEF vars, fileVars, legacyVars, boardVars, lockVars, pastVars, Locking, TypeOK, AllSound,
     Sound, ExclusiveAlone, RetiresBoards, Nm, Mode, MayCreate
<1> QED BY <1>1, <1>2

LEMMA LockingHolds == Spec => []Locking
BY LockingInit, LockingStep, PTL DEF Spec

\* The directories, the commands, the locks and the histories keep their types whatever the
\* commands do: boards.rs and store.rs.
THEOREM FilesTypeCorrect == Spec => []TypeOK
<1>1. Locking => TypeOK BY DEF Locking
<1> QED BY <1>1, LockingHolds, PTL

-----------------------------------------------------------------------------
(* What each part of the state changes by                                  *)

LEMMA Untouched ==
  ASSUME NEW p \in Proc, Step(p) \/ Kill(p)
  PROVE  /\ ~MoveDb(p) => old' = old
         /\ ~MoveWal(p) => oldWal' = oldWal
         /\ ~(MakeDir(p) \/ Make(p)) => newDir' = newDir
         /\ ~(MoveDb(p) \/ Make(p)) => apart' = apart
         /\ ~(Close(p) \/ Fold(p)) => data' = data
         /\ ~(MoveWal(p) \/ Make(p) \/ Use(p) \/ Close(p) \/ Fold(p)) => wal' = wal
         /\ ~(Archive(p) \/ Unlink(p) \/ RemoveOne(p)) => arch' = arch
         /\ ~UpgradeCommit(p) => schema' = schema
         /\ ~AddTables(p) => side' = side
         /\ ~Make(p) => born' = born
         /\ ~RecordCreator(p) => maker' = maker
         /\ ~(BackUp(p) \/ UpgradeFails(p) \/ Sweep(p)) => bak' = bak
         /\ ~(UpgradeBegin(p) \/ UpgradeCommit(p) \/ UpgradeFails(p) \/ Kill(p)) => writer' = writer
         /\ ~Use(p) => acked' = acked
         /\ ~RemoveOne(p) => gone' = gone
         /\ ~(Moved(p) \/ Make(p) \/ Use(p) \/ Fold(p)) => over' = over
         /\ plan' = plan
<1> USE DEF Step, Kill, Moving, Choosing, Opening, Shelving, NothingOld, SeesOld, MakeDir, OldMoved,
         Resolve, ListBoards, Pick, NewBoard, Point, SaveDefault, Lock, LockBusy, Look, DryRun,
         BackUp, RecordCreator, Retire, Declines, Delete, Sweep, fileVars, legacyVars, boardVars,
         lockVars, pastVars
<1>1. /\ ~MoveDb(p) => old' = old
      /\ ~MoveWal(p) => oldWal' = oldWal
      /\ ~(MakeDir(p) \/ Make(p)) => newDir' = newDir
      /\ ~(MoveDb(p) \/ Make(p)) => apart' = apart
  BY DEF MoveDb, MoveWal, Make, UpgradeBegin, UpgradeCommit, UpgradeFails, AddTables, Use, Close,
         Fold, Archive, Link, Unlink, RemoveOne
<1>2. ~(Close(p) \/ Fold(p)) => data' = data
  BY DEF MoveDb, MoveWal, Make, UpgradeBegin, UpgradeCommit, UpgradeFails, AddTables, Use, Archive,
         Link, Unlink, RemoveOne
<1>3. ~(MoveWal(p) \/ Make(p) \/ Use(p) \/ Close(p) \/ Fold(p)) => wal' = wal
  BY DEF MoveDb, UpgradeBegin, UpgradeCommit, UpgradeFails, AddTables, Archive, Link, Unlink,
         RemoveOne
<1>4. ~(Archive(p) \/ Unlink(p) \/ RemoveOne(p)) => arch' = arch
  BY DEF MoveDb, MoveWal, Make, UpgradeBegin, UpgradeCommit, UpgradeFails, AddTables, Use, Close,
         Fold, Link
<1>5. /\ ~UpgradeCommit(p) => schema' = schema
      /\ ~Make(p) => born' = born
      /\ ~RecordCreator(p) => maker' = maker
  BY DEF MoveDb, MoveWal, Make, UpgradeBegin, UpgradeCommit, UpgradeFails, AddTables, Use, Close,
         Fold, Archive, Link, Unlink, RemoveOne
<1>6. ~(BackUp(p) \/ UpgradeFails(p) \/ Sweep(p)) => bak' = bak
  BY DEF MoveDb, MoveWal, Make, UpgradeBegin, UpgradeCommit, AddTables, Use, Close, Fold, Archive,
         Link, Unlink, RemoveOne
<1>7. ~(UpgradeBegin(p) \/ UpgradeCommit(p) \/ UpgradeFails(p) \/ Kill(p)) => writer' = writer
  BY DEF MoveDb, MoveWal, Make, AddTables, Use, Close, Fold, Archive, Link, Unlink, RemoveOne
<1>8. ~Use(p) => acked' = acked
  BY DEF MoveDb, MoveWal, Make, UpgradeBegin, UpgradeCommit, UpgradeFails, AddTables, Close, Fold,
         Archive, Link, Unlink, RemoveOne
<1>9. ~RemoveOne(p) => gone' = gone
  BY DEF MoveDb, MoveWal, Make, UpgradeBegin, UpgradeCommit, UpgradeFails, AddTables, Use, Close,
         Fold, Archive, Link, Unlink
<1>10. ~(Moved(p) \/ Make(p) \/ Use(p) \/ Fold(p)) => over' = over
  BY DEF Moved, UpgradeBegin, UpgradeCommit, UpgradeFails, AddTables, Close, Archive, Link, Unlink,
         RemoveOne
<1>11. plan' = plan
  BY DEF MoveDb, MoveWal, Make, UpgradeBegin, UpgradeCommit, UpgradeFails, AddTables, Use, Close,
         Fold, Archive, Link, Unlink, RemoveOne
<1>12. ~AddTables(p) => side' = side
  BY DEF MoveDb, MoveWal, Make, UpgradeBegin, UpgradeCommit, UpgradeFails, Use, Close, Fold, Archive,
         Link, Unlink, RemoveOne
<1> QED BY <1>1, <1>2, <1>3, <1>4, <1>5, <1>6, <1>7, <1>8, <1>9, <1>10, <1>11, <1>12

\* Files only grow, schemas only become new, a creator stays, and histories are not unwritten.
LEMMA Grows ==
  ASSUME Locking, NEW p \in Proc, Step(p) \/ Kill(p)
  PROVE  /\ \A n \in Name : old'[n] = old[n] \/ (MovesDb(p, n) /\ MoveDb(p) /\ old'[n] = None)
         /\ newDir => newDir'
         /\ \A f \in File : data[f] \subseteq data'[f]
         /\ \A f \in File : schema'[f] = schema[f] \/ schema'[f] = "new"
         /\ \A f \in File : born[f] # None => born'[f] = born[f]
         /\ acked \subseteq acked' /\ gone \subseteq gone' /\ over \subseteq over'
<1>0. TypeOK /\ Sound(p) BY DEF Locking, AllSound
<1>1. \A n \in Name : old'[n] = old[n] \/ (MovesDb(p, n) /\ MoveDb(p) /\ old'[n] = None)
  <2>1. CASE ~MoveDb(p) BY <2>1, Untouched
  <2>2. CASE MoveDb(p)
    <3>1. PICK m \in Name : MovesDb(p, m) BY <1>0, <2>2, MoveDbIs
    <3>2. old' = [old EXCEPT ![m] = None] BY <3>1 DEF MovesDb
    <3> QED BY <1>0, <2>2, <3>1, <3>2 DEF TypeOK
  <2> QED BY <2>1, <2>2
<1>2. newDir => newDir'
  <2>1. MakeDir(p) => newDir' BY DEF MakeDir
  <2>2. Make(p) => newDir' \/ newDir' = newDir BY MakeIs
  <2> QED BY <2>1, <2>2, Untouched
<1>3. \A f \in File : data[f] \subseteq data'[f]
  <2>1. CASE ~(Close(p) \/ Fold(p)) BY <2>1, Untouched
  <2>2. CASE Close(p)
    <3>1. data' = data \/ data' = [data EXCEPT ![cmd[p].file] = @ \cup wal[Nm(p)]]
      BY <2>2 DEF Close
    <3> QED BY <1>0, <3>1 DEF TypeOK
  <2>3. CASE Fold(p)
    <3>1. data' = data \/ data' = [data EXCEPT ![live[Nm(p)]] = @ \cup wal[Nm(p)]]
      BY <2>3 DEF Fold, Checkpointed
    <3> QED BY <1>0, <3>1 DEF TypeOK
  <2> QED BY <2>1, <2>2, <2>3
<1>4. \A f \in File : schema'[f] = schema[f] \/ schema'[f] = "new"
  BY <1>0, Untouched DEF UpgradeCommit, TypeOK
<1>5. \A f \in File : born[f] # None => born'[f] = born[f]
  <2>1. CASE Make(p)
    <3>1. \E f \in File : born' = born \/ (born[f] = None /\ born' = [born EXCEPT ![f] = p])
      BY <2>1, MakeIs
    <3> QED BY <1>0, <3>1 DEF TypeOK
  <2> QED BY <2>1, Untouched
<1>6. acked \subseteq acked' /\ gone \subseteq gone' BY Untouched DEF Use, RemoveOne
<1>7. over \subseteq over'
  <2>1. Moved(p) => over \subseteq over' BY DEF Moved, MoveDb, MoveWal
  <2>2. Make(p) => over \subseteq over' BY MakeIs
  <2> QED BY <2>1, <2>2, Untouched DEF Use, Fold
<1> QED BY <1>1, <1>2, <1>3, <1>4, <1>5, <1>6, <1>7

\* Archives are added at the end and taken away: none comes back, none changes its file.
LEMMA ArchStep ==
  ASSUME Locking, NEW p \in Proc, Step(p) \/ Kill(p), NEW n \in Name
  PROVE  /\ \A i \in DOMAIN arch[n] :
              /\ i \in DOMAIN arch'[n] /\ arch'[n][i].file = arch[n][i].file
              /\ i \in Archives(n)' => i \in Archives(n)
         /\ \/ arch'[n] = arch[n] /\ Archives(n)' = Archives(n) /\ Archived(n)' = Archived(n)
            \/ /\ Archive(p) /\ n = Nm(p) /\ Archived(n)' = Archived(n) \cup {live[n]}
            \/ /\ Unlink(p) \/ RemoveOne(p)
               /\ n = Nm(p) /\ Archived(n)' \subseteq Archived(n)
<1>0. TypeOK BY DEF Locking
<1>1. CASE arch'[n] = arch[n]
  BY <1>1 DEF Archives, Archived
<1>2. CASE Archive(p) /\ arch'[n] # arch[n]
  <2>1. Nm(p) \in Name /\ live[Nm(p)] \in File BY <1>2, ArchiveLocks
  <2> DEFINE f == live[Nm(p)]
             x == [file |-> f, there |-> TRUE]
             s == Append(arch[n], x)
             k == Len(arch[n])
  <2>2. n = Nm(p) /\ arch'[n] = s
    BY <1>0, <1>2, <2>1 DEF Archive, TypeOK
  <2>3. /\ DOMAIN s = 1..(k + 1) /\ DOMAIN arch[n] = 1..k /\ k \in Nat
        /\ \A i \in DOMAIN arch[n] : s[i] = arch[n][i]
        /\ s[k + 1] = x
    BY <1>0, <2>1, AppendIs
  <2> HIDE DEF s, k
  <2>4. Archives(n)' = Archives(n) \cup {k + 1}
    <3>1. \A i \in DOMAIN s : i \in DOMAIN arch[n] \/ i = k + 1 BY <2>3
    <3>2. DOMAIN arch[n] \subseteq DOMAIN s /\ k + 1 \in DOMAIN s /\ k + 1 \notin DOMAIN arch[n]
      BY <2>3
    <3>3. Archives(n)' = {i \in DOMAIN s : s[i].there} BY <2>2 DEF Archives
    <3> QED BY <2>3, <3>1, <3>2, <3>3 DEF Archives
  <2>5. DOMAIN arch[n] \subseteq DOMAIN s /\ k + 1 \notin DOMAIN arch[n] BY <2>3
  <2>6. Archived(n)' = Archived(n) \cup {f}
    <3>1. Archived(n)' = {s[i].file : i \in Archives(n)'} BY <2>2 DEF Archived
    <3>2. \A i \in Archives(n) : s[i].file = arch[n][i].file BY <2>3 DEF Archives
    <3>3. s[k + 1].file = f BY <2>3
    <3>4. ASSUME NEW g \in Archived(n)' PROVE g \in Archived(n) \cup {f}
      <4>1. PICK i \in Archives(n) \cup {k + 1} : g = s[i].file BY <2>4, <3>1
      <4> QED BY <3>2, <3>3, <4>1 DEF Archived
    <3>5. ASSUME NEW g \in Archived(n) PROVE g \in Archived(n)'
      <4>1. PICK i \in Archives(n) : g = arch[n][i].file BY DEF Archived
      <4> QED BY <2>4, <3>1, <3>2, <4>1
    <3>6. f \in Archived(n)' BY <2>4, <3>1, <3>3
    <3> QED BY <3>4, <3>5, <3>6
  <2> QED BY <1>2, <2>2, <2>3, <2>4, <2>5, <2>6
<1>3. CASE (Unlink(p) \/ RemoveOne(p)) /\ arch'[n] # arch[n]
  <2>1. Nm(p) \in Name
    BY <1>3 DEF Locking, AllSound, Sound, Unlink, RemoveOne, At, ExclusivePhase
  <2>2. \E S : arch' = [arch EXCEPT ![Nm(p)] = Without(Nm(p), S)]
    BY <1>3 DEF Unlink, RemoveOne
  <2>3. PICK S : arch' = [arch EXCEPT ![Nm(p)] = Without(Nm(p), S)] BY <2>2
  <2>4. n = Nm(p) /\ arch'[n] = Without(n, S) BY <1>0, <1>3, <2>1, <2>3 DEF TypeOK
  <2>5. /\ DOMAIN arch'[n] = DOMAIN arch[n]
        /\ \A i \in DOMAIN arch[n] : /\ arch'[n][i].file = arch[n][i].file
                                     /\ arch'[n][i].there <=> arch[n][i].there /\ i \notin S
    BY <1>0, <2>4, WithoutIs
  <2>6. Archives(n)' \subseteq Archives(n) BY <2>5 DEF Archives
  <2>7. Archived(n)' \subseteq Archived(n)
    <3>1. \A i \in Archives(n)' : arch'[n][i].file = arch[n][i].file BY <2>5, <2>6 DEF Archives
    <3> QED BY <2>6, <3>1 DEF Archived
  <2> QED BY <1>3, <2>4, <2>5, <2>6, <2>7
<1>4. arch'[n] = arch[n] \/ Archive(p) \/ Unlink(p) \/ RemoveOne(p) BY Untouched
<1> QED BY <1>1, <1>2, <1>3, <1>4

-----------------------------------------------------------------------------
(* Files keep to their names                                               *)

\* A name comes by no file but a new one.
LEMMA NamesStep ==
  ASSUME Locking, NEW p \in Proc, Step(p) \/ Kill(p), NEW n \in Name
  PROVE  \A f \in Names(n)' : \/ f \in Names(n) \cup {None}
                              \/ Make(p) /\ n = Nm(p) /\ f \notin Used
<1>1. old'[n] \in {old[n], None} BY Grows
<1>2. live'[n] \in {live[n], old[n], None} \cup Archived(n) \/ (Make(p) /\ n = Nm(p) /\ live'[n] \notin Used)
  BY LiveStep
<1>3. Archived(n)' \subseteq Archived(n) \cup {live[n]} BY ArchStep
<1> QED BY <1>1, <1>2, <1>3 DEF Names

LEMMA SoleHomeStep ==
  ASSUME Locking, SoleHome, NEW p \in Proc, Step(p) \/ Kill(p)
  PROVE  SoleHome'
<1> SUFFICES ASSUME NEW m \in Name, NEW n \in Name, m # n, NEW f \in Names(m)' \cap Names(n)'
             PROVE  f = None
  BY DEF SoleHome
<1>1. Names(m) \cap Names(n) \subseteq {None} BY DEF SoleHome
<1>2. \A k \in Name : Names(k) \subseteq Used BY DEF Names, Used
<1>3. f \in Names(m) \cup {None} \/ (Make(p) /\ m = Nm(p) /\ f \notin Used) BY NamesStep
<1>4. f \in Names(n) \cup {None} \/ (Make(p) /\ n = Nm(p) /\ f \notin Used) BY NamesStep
<1> QED BY <1>1, <1>2, <1>3, <1>4

LEMMA FreshStep ==
  ASSUME Locking, FreshIsNew, NEW p \in Proc, Step(p) \/ Kill(p)
  PROVE  FreshIsNew'
<1> SUFFICES ASSUME NEW f \in File, data'[f] = {}, born'[f] = None PROVE schema'[f] # "old"
  BY DEF FreshIsNew
<1>1. data[f] = {} /\ born[f] = None
  <2>1. data[f] \subseteq data'[f] /\ (born[f] # None => born'[f] = born[f]) BY Grows
  <2> QED BY <2>1
<1>2. schema[f] # "old" BY <1>1 DEF FreshIsNew
<1> QED BY <1>2, Grows

\* The move of an old installation only ever begins once.
LEMMA MovesStep ==
  ASSUME Locking, NEW p \in Proc, Step(p) \/ Kill(p), Moves'
  PROVE  Moves
<1>0. Aside(p) BY StepLocks DEF Keeps
<1>1. CASE ~newDir' BY <1>1, Grows DEF Moves
<1>2. CASE \E q \in Proc : cmd'[q].at \in {"mkdir", "moving"}
  <2>1. PICK q \in Proc : cmd'[q].at \in {"mkdir", "moving"} BY <1>2
  <2>2. CASE cmd'[q] = cmd[q] BY <2>1, <2>2 DEF Moves
  <2>3. CASE q = p
    <3>1. SeesOld(p) \/ MakeDir(p) \/ Moved(p) BY <2>1, <2>3, Arrivals
    <3> QED BY <3>1 DEF SeesOld, MakeDir, Moved, MoveDb, MoveWal, At, Moves
  <2> QED BY <1>0, <2>2, <2>3 DEF Aside
<1> QED BY <1>1, <1>2 DEF Moves

\* What Settling says of one name.
SettlingAt(n) == \A f \in File : f = live[n] \/ f \in Archived(n) => schema[f] # "old"

LEMMA SettlingStep ==
  ASSUME Locking, FreshIsNew, Settling, NEW p \in Proc, Step(p) \/ Kill(p)
  PROVE  Settling'
<1>0. TypeOK BY DEF Locking
<1> SUFFICES ASSUME Moves', NEW n \in Name, old'[n] # None,
                    NEW f \in File, f = live'[n] \/ f \in Archived(n)'
             PROVE  schema'[f] # "old"
  BY DEF Settling
<1>1. old'[n] = old[n] /\ old[n] # None /\ ~MovesDb(p, n)
  <2>1. old'[n] = old[n] BY Grows
  <2>2. MovesDb(p, n) => old'[n] = None BY <1>0 DEF MovesDb, TypeOK
  <2> QED BY <2>1, <2>2
<1>2. SettlingAt(n) BY <1>1, MovesStep DEF Settling, SettlingAt
<1>3. f = live[n] \/ f \in Archived(n) \/ (Make(p) /\ f = live'[n] /\ n = Nm(p) /\ f # live[n])
  BY <1>1, LiveStep, ArchStep, FilesAssumption
<1>4. CASE f = live[n] \/ f \in Archived(n)
  <2>1. schema[f] # "old" BY <1>2, <1>4 DEF SettlingAt
  <2> QED BY <2>1, Grows
<1>5. CASE Make(p) /\ f = live'[n] /\ n = Nm(p) /\ f # live[n]
  <2>1. data[f] = {} /\ born[f] = None BY <1>0, <1>5, MakeIs DEF TypeOK
  <2> QED BY <2>1, Grows DEF FreshIsNew
<1> QED BY <1>3, <1>4, <1>5

-----------------------------------------------------------------------------
(* A board in use                                                          *)

\* The file under a name somebody works on goes only with the move of an old installation.
LEMMA LiveStays ==
  ASSUME Locking, NEW p \in Proc, Step(p) \/ Kill(p), NEW q \in Proc,
         q # p, cmd[q].at \in SharedPhase \cup ExclusivePhase,
         live[Nm(q)] # None, live'[Nm(q)] # live[Nm(q)]
  PROVE  /\ Nm(q) \in Name /\ MovesDb(p, Nm(q)) /\ MoveDb(p) /\ live'[Nm(q)] \in File
<1>1. Nm(q) \in Name BY DEF Locking, AllSound, Sound
<1>2. ~(cmd[p].at \in ExclusivePhase /\ Nm(p) = Nm(q)) BY NobodyElse
<1> QED BY <1>1, <1>2, LiveStep DEF ExclusivePhase

\* Whoever opened a board has the file that is there.
LEMMA MakeOpens ==
  ASSUME Locking, NEW p \in Proc, Make(p)
  PROVE  live'[Nm(p)'] = cmd'[p].file
<1>0. TypeOK BY DEF Locking
<1>1. Nm(p) \in Name BY MakeIs
<1>2. PICK f \in File : /\ \/ f = live[Nm(p)] /\ UNCHANGED <<live, newDir, born>>
                           \/ live' = [live EXCEPT ![Nm(p)] = f]
                        /\ cmd'[p].name = cmd[p].name /\ cmd'[p].file = f
  BY MakeIs
<1>3. Nm(p)' = Nm(p) BY <1>2 DEF Nm
<1>4. live'[Nm(p)] = f BY <1>0, <1>1, <1>2 DEF TypeOK
<1> QED BY <1>2, <1>3, <1>4

LEMMA InPlaceStep ==
  ASSUME Locking, Settling, InPlace, NEW p \in Proc, Step(p) \/ Kill(p)
  PROVE  InPlace'
<1>0. TypeOK /\ Sound(p) /\ Aside(p) /\ plan' = plan
  BY StepLocks, Untouched DEF Locking, AllSound, Keeps
<1> SUFFICES ASSUME NEW q \in Proc
             PROVE  /\ cmd'[q].at = "make" =>
                         MayCreate(q, Nm(q))' \/ OpensAnyway(q)' \/ live'[Nm(q)'] # None
                    /\ Opened(q)' /\ schema'[cmd'[q].file] = "old" => live'[Nm(q)'] = cmd'[q].file
                    /\ cmd'[q].at = "tables" => schema'[cmd'[q].file] = "new"
  BY DEF InPlace
<1>1. CASE q = p
  <2>1. ASSUME cmd'[p].at = "make"
        PROVE  MayCreate(p, Nm(p))' \/ OpensAnyway(p)' \/ live'[Nm(p)'] # None
    <3>1. Nm(p)' = Nm(p) BY <2>1, NameStays DEF Nm, SharedPhase
    <3>2. \/ MayCreate(p, Nm(p)) \/ OpensAnyway(p)
          \/ Look(p) /\ live[Nm(p)] # None
      BY <1>1, <2>1, Arrivals
    <3>3. Look(p) => live' = live BY DEF Look, fileVars
    <3> QED BY <1>0, <3>1, <3>2, <3>3 DEF MayCreate, OpensAnyway
  <2>2. ASSUME Opened(p)', schema'[cmd'[p].file] = "old" PROVE live'[Nm(p)'] = cmd'[p].file
    <3>1. cmd'[p].at \in OpenPhase BY <2>2 DEF Opened, OpenPhase
    <3>2. CASE Make(p) BY <3>2, MakeOpens
    <3>3. CASE Working(p)
      <4>1. cmd'[p].at \notin Ends BY <3>1 DEF OpenPhase, Ends
      <4>2. Nm(p)' = Nm(p) /\ cmd'[p].file = cmd[p].file /\ cmd[p].at \in OpenPhase
        BY <3>3, <4>1, WorkingStays DEF Nm
      <4>3. cmd[p].file \in File BY <1>0, <4>2 DEF Sound
      <4>4. schema[cmd[p].file] = "old"
        <5>1. schema'[cmd[p].file] = "old" BY <2>2, <4>2
        <5> QED BY <4>3, <5>1, Grows
      <4>5. live[Nm(p)] = cmd[p].file BY <4>2, <4>4 DEF InPlace, Opened, OpenPhase
      <4>6. live' = live
        BY <3>3 DEF Working, DryRun, UpgradeBegin, BackUp, UpgradeCommit, UpgradeFails,
           AddTables, RecordCreator, Use, Close, fileVars
      <4> QED BY <4>2, <4>5, <4>6
    <3> QED BY <1>1, <3>1, <3>2, <3>3, Arrivals
  <2>3. ASSUME cmd'[p].at = "tables" PROVE schema'[cmd'[p].file] = "new"
    <3>1. Working(p)
      <4>1. Make(p) => cmd'[p].at = "open" BY MakeIs
      <4> QED BY <2>3, <4>1, Arrivals DEF OpenPhase
    <3>2. cmd'[p].file = cmd[p].file /\ cmd[p].file \in File
      BY <1>0, <2>3, <3>1, WorkingStays DEF Ends, Sound
    <3>3. CASE schema[cmd[p].file] = "new" BY <3>2, <3>3, Grows
    <3>4. CASE UpgradeCommit(p) BY <1>0, <3>2, <3>4 DEF UpgradeCommit, TypeOK
    <3>5. CASE AddTables(p) /\ cmd[p].at = "tables" BY <3>2, <3>5, Grows DEF InPlace
    <3> QED BY <2>3, <3>3, <3>4, <3>5, Arrivals
  <2> QED BY <1>1, <2>1, <2>2, <2>3
<1>2. CASE q # p
  <2>1. cmd'[q] = cmd[q] /\ Nm(q)' = Nm(q) BY <1>0, <1>2 DEF Aside, Nm
  <2>2. ASSUME cmd[q].at = "make"
        PROVE  MayCreate(q, Nm(q))' \/ OpensAnyway(q)' \/ live'[Nm(q)] # None
    <3>1. MayCreate(q, Nm(q)) \/ OpensAnyway(q) \/ live[Nm(q)] # None BY <2>2 DEF InPlace
    <3>2. live[Nm(q)] # None => live'[Nm(q)] # None
      BY <1>2, <2>2, LiveStays, FilesAssumption DEF SharedPhase
    <3> QED BY <1>0, <2>1, <3>1, <3>2 DEF MayCreate, OpensAnyway
  <2>3. ASSUME Opened(q), schema'[cmd[q].file] = "old" PROVE live'[Nm(q)] = cmd[q].file
    <3>1. cmd[q].file \in File /\ cmd[q].at \in OpenPhase
      BY <2>3 DEF Locking, AllSound, Sound, Opened, OpenPhase
    <3>2. schema[cmd[q].file] = "old" BY <2>3, <3>1, Grows
    <3>3. live[Nm(q)] = cmd[q].file BY <2>3, <3>2 DEF InPlace
    <3>4. ASSUME live'[Nm(q)] # live[Nm(q)] PROVE FALSE
      <4>1. MovesDb(p, Nm(q)) /\ Nm(q) \in Name
        BY <1>2, <3>1, <3>3, <3>4, LiveStays, FilesAssumption DEF SharedPhase
      <4>2. Moves /\ old[Nm(q)] # None
        <5>1. cmd[p].at = "moving" /\ old[Nm(q)] \in File BY <4>1 DEF MovesDb
        <5> QED BY <5>1, FilesAssumption DEF Moves
      <4> QED BY <3>1, <3>2, <3>3, <4>1, <4>2 DEF Settling
    <3> QED BY <3>3, <3>4
  <2>4. ASSUME cmd[q].at = "tables" PROVE schema'[cmd[q].file] = "new"
    <3>1. cmd[q].file \in File BY <2>4 DEF Locking, AllSound, Sound, OpenPhase
    <3> QED BY <2>4, <3>1, Grows DEF InPlace
  <2> QED BY <2>1, <2>2, <2>3, <2>4 DEF Opened
<1> QED BY <1>1, <1>2

\* Whoever has a board open has the file its name stands for, whatever the others do.
LEMMA OpenStep ==
  ASSUME Locking, OpenIsLive, NEW p \in Proc, Step(p) \/ Kill(p)
  PROVE  OpenIsLive'
<1>0. TypeOK /\ Sound(p) /\ Aside(p) BY StepLocks DEF Locking, AllSound, Keeps
<1> SUFFICES ASSUME NEW q \in Proc, Opened(q)'
             PROVE  live'[Nm(q)'] = cmd'[q].file \/ cmd'[q].file \in over'
  BY DEF OpenIsLive
<1>1. CASE q = p
  <2>1. cmd'[p].at \in OpenPhase BY <1>1 DEF Opened, OpenPhase
  <2>2. CASE Make(p) BY <1>1, <2>2, MakeOpens
  <2>3. CASE Working(p)
    <3>1. cmd'[p].at \notin Ends BY <2>1 DEF OpenPhase, Ends
    <3>2. Nm(p)' = Nm(p) /\ cmd'[p].file = cmd[p].file /\ cmd[p].at \in OpenPhase
      BY <2>3, <3>1, WorkingStays DEF Nm
    <3>3. live[Nm(p)] = cmd[p].file \/ cmd[p].file \in over
      BY <3>2 DEF OpenIsLive, Opened, OpenPhase
    <3>4. live' = live
      BY <2>3 DEF Working, DryRun, UpgradeBegin, BackUp, UpgradeCommit, UpgradeFails,
         AddTables, RecordCreator, Use, Close, fileVars
    <3>5. over \subseteq over' BY Grows
    <3> QED BY <1>1, <3>2, <3>3, <3>4, <3>5
  <2> QED BY <1>1, <2>1, <2>2, <2>3, Arrivals
<1>2. CASE q # p
  <2>1. cmd'[q] = cmd[q] /\ Nm(q)' = Nm(q) BY <1>0, <1>2 DEF Aside, Nm
  <2>2. Opened(q) /\ cmd[q].at \in OpenPhase /\ cmd[q].file \in File
    BY <2>1 DEF Opened, OpenPhase, Locking, AllSound, Sound
  <2>3. CASE cmd[q].file \in over BY <2>1, <2>3, Grows
  <2>4. CASE live[Nm(q)] = cmd[q].file
    <3>1. CASE live'[Nm(q)] = live[Nm(q)] BY <2>1, <2>4, <3>1
    <3>2. CASE live'[Nm(q)] # live[Nm(q)]
      <4>1. MovesDb(p, Nm(q))
        BY <1>2, <2>2, <2>4, <3>2, LiveStays, FilesAssumption DEF SharedPhase
      <4>2. Content(Nm(q)) \cup {live[Nm(q)]} \subseteq over'
        BY <2>2, <2>4, <4>1, FilesAssumption DEF MovesDb
      <4>3. live[Nm(q)] \in over' BY <4>2
      <4> QED BY <2>1, <2>4, <4>3
    <3> QED BY <3>1, <3>2
  <2> QED BY <2>2, <2>3, <2>4 DEF OpenIsLive
<1> QED BY <1>1, <1>2

\* What is opened is what was put there: its -wal, if it has one, is no longer missed.
LEMMA NotApartStep ==
  ASSUME Locking, NotApart, NEW p \in Proc, Step(p) \/ Kill(p)
  PROVE  NotApart'
<1>0. TypeOK /\ Sound(p) /\ Aside(p) BY StepLocks DEF Locking, AllSound, Keeps
<1> SUFFICES ASSUME NEW q \in Proc, Opened(q)' PROVE apart'[Nm(q)'] # cmd'[q].file
  BY DEF NotApart
<1>1. CASE q = p
  <2>1. cmd'[p].at \in OpenPhase BY <1>1 DEF Opened, OpenPhase
  <2>2. CASE Make(p)
    <3>1. /\ Nm(p) \in Name /\ apart' = [apart EXCEPT ![Nm(p)] = None]
          /\ cmd'[p].name = cmd[p].name /\ cmd'[p].file \in File
      BY <2>2, MakeIs
    <3>2. apart'[Nm(p)'] = None BY <1>0, <3>1 DEF TypeOK, Nm
    <3> QED BY <1>1, <3>1, <3>2, FilesAssumption
  <2>3. CASE Working(p)
    <3>1. cmd'[p].at \notin Ends BY <2>1 DEF OpenPhase, Ends
    <3>2. Nm(p)' = Nm(p) /\ cmd'[p].file = cmd[p].file /\ cmd[p].at \in OpenPhase
      BY <2>3, <3>1, WorkingStays DEF Nm
    <3>3. apart' = apart
      BY <2>3 DEF Working, DryRun, UpgradeBegin, BackUp, UpgradeCommit, UpgradeFails,
         AddTables, RecordCreator, Use, Close, legacyVars
    <3> QED BY <1>1, <3>2, <3>3 DEF NotApart, Opened, OpenPhase
  <2> QED BY <1>1, <2>1, <2>2, <2>3, Arrivals
<1>2. CASE q # p
  <2>1. cmd'[q] = cmd[q] /\ Nm(q)' = Nm(q) BY <1>0, <1>2 DEF Aside, Nm
  <2>2. Opened(q) /\ cmd[q].file \in File /\ Nm(q) \in Name
    BY <2>1 DEF Opened, OpenPhase, SharedPhase, Locking, AllSound, Sound
  <2>3. apart'[Nm(q)] \in {apart[Nm(q)], None}
    <3>1. CASE Make(p)
      <4>1. apart' = [apart EXCEPT ![Nm(p)] = None] BY <3>1, MakeIs
      <4> QED BY <1>0, <2>2, <4>1 DEF TypeOK
    <3>2. CASE MoveDb(p)
      <4>1. PICK n \in Name : MovesDb(p, n) BY <1>0, <3>2, MoveDbIs
      <4>2. InUse(Nm(q)) BY <2>2 DEF InUse
      <4> QED BY <1>0, <2>2, <4>1, <4>2 DEF MovesDb, TypeOK
    <3> QED BY <3>1, <3>2, Untouched
  <2> QED BY <2>1, <2>2, <2>3, FilesAssumption DEF NotApart
<1> QED BY <1>1, <1>2

\* Nobody but the process that made a file is recorded as its maker.
LEMMA MakersStep ==
  ASSUME Locking, Makers, NEW p \in Proc, Step(p) \/ Kill(p)
  PROVE  Makers'
<1>0. TypeOK /\ Sound(p) /\ Aside(p) BY StepLocks DEF Locking, AllSound, Keeps
<1>1. ASSUME NEW q \in Proc, cmd'[q].made PROVE born'[cmd'[q].file] = q
  <2>1. CASE q = p
    <3>1. cmd'[p].at \in OpenPhase /\ cmd'[p].at \notin Ends
      BY <1>1, <2>1, StepLocks DEF Keeps, Sound, OpenPhase, Ends
    <3>2. CASE Make(p)
      <4>1. \E f \in File : /\ cmd'[p].made = FALSE \/ born' = [born EXCEPT ![f] = p]
                            /\ cmd'[p].file = f
        BY <3>2, MakeIs
      <4> QED BY <1>0, <1>1, <2>1, <4>1 DEF TypeOK
    <3>3. CASE Working(p)
      <4>1. cmd'[p].file = cmd[p].file /\ cmd'[p].made = cmd[p].made /\ cmd[p].at \in OpenPhase
        BY <3>1, <3>3, WorkingStays
      <4>2. born[cmd[p].file] = p BY <1>1, <2>1, <4>1 DEF Makers
      <4>3. cmd[p].file \in File BY <1>0, <4>1 DEF Sound
      <4> QED BY <2>1, <4>1, <4>2, <4>3, Grows, FilesAssumption
    <3> QED BY <2>1, <3>1, <3>2, <3>3, Arrivals
  <2>2. CASE q # p
    <3>1. cmd'[q] = cmd[q] BY <1>0, <2>2 DEF Aside
    <3>2. born[cmd[q].file] = q BY <1>1, <3>1 DEF Makers
    <3>3. cmd[q].file \in File BY <1>1, <3>1 DEF Locking, AllSound, Sound
    <3> QED BY <3>1, <3>2, <3>3, Grows, FilesAssumption
  <2> QED BY <2>1, <2>2
<1>2. ASSUME NEW f \in File, maker'[f] # None PROVE maker'[f] = born'[f]
  <2>1. CASE maker'[f] = maker[f]
    <3>1. maker[f] = born[f] BY <1>2, <2>1 DEF Makers, MakerMadeIt
    <3> QED BY <1>2, <2>1, <3>1, Grows
  <2>2. CASE maker'[f] # maker[f]
    <3>1. RecordCreator(p) /\ ~Make(p) BY <2>2, Untouched DEF RecordCreator, Make, At
    <3>2. maker' = [maker EXCEPT ![cmd[p].file] = p] /\ cmd[p].made
      BY <2>2, <3>1 DEF RecordCreator, Records
    <3>3. f = cmd[p].file /\ maker'[f] = p BY <1>0, <2>2, <3>2 DEF TypeOK
    <3>4. born[f] = p BY <3>2, <3>3 DEF Makers
    <3> QED BY <3>1, <3>3, <3>4, Untouched
  <2> QED BY <2>1, <2>2
<1> QED BY <1>1, <1>2 DEF Makers, MakerMadeIt

\* An upgrade keeps the write lock.
LEMMA WritingStep ==
  ASSUME Locking, Writing, NEW p \in Proc, Step(p) \/ Kill(p)
  PROVE  Writing'
<1>0. TypeOK /\ Sound(p) /\ Aside(p) BY StepLocks DEF Locking, AllSound, Keeps
<1> SUFFICES ASSUME NEW q \in Proc, cmd'[q].at \in {"backup", "commit"}
             PROVE  writer'[Nm(q)'] = q
  BY DEF Writing
<1>1. CASE q = p
  <2>1. Nm(p)' = Nm(p) BY <1>1, NameStays DEF Nm, SharedPhase, OpenPhase
  <2>2. CASE BackUp(p)
    <3>1. writer' = writer /\ cmd[p].at = "backup" BY <2>2 DEF BackUp, At, lockVars
    <3> QED BY <1>1, <2>1, <3>1 DEF Writing
  <2> QED BY <1>1, <2>1, <2>2, Arrivals
<1>2. CASE q # p
  <2>1. cmd'[q] = cmd[q] /\ Nm(q)' = Nm(q) BY <1>0, <1>2 DEF Aside, Nm
  <2>2. writer[Nm(q)] = q /\ Nm(q) \in Name
    BY <2>1 DEF Writing, Locking, AllSound, Sound, SharedPhase, OpenPhase
  <2>4. CASE q # p /\ UpgradeBegin(p)
    <3>1. writer[Nm(p)] = None /\ (writer' = writer \/ writer' = [writer EXCEPT ![Nm(p)] = p])
      BY <2>4 DEF UpgradeBegin
    <3>2. Nm(p) # Nm(q) BY <2>2, <3>1, FilesAssumption
    <3> QED BY <1>0, <2>1, <2>2, <3>1, <3>2 DEF TypeOK
  <2>5. CASE q # p /\ (UpgradeCommit(p) \/ UpgradeFails(p))
    <3>1. writer' = [writer EXCEPT ![Nm(p)] = None] /\ cmd[p].at \in {"backup", "commit"}
      BY <2>5 DEF UpgradeCommit, UpgradeFails, At
    <3>2. Nm(p) # Nm(q) BY <2>2, <2>5, <3>1 DEF Writing
    <3> QED BY <1>0, <2>1, <2>2, <3>1, <3>2 DEF TypeOK
  <2>6. CASE q # p /\ Kill(p) BY <2>1, <2>2, <2>6 DEF Kill
  <2>7. CASE writer' = writer BY <2>1, <2>2, <2>7
  <2> QED BY <1>2, <2>4, <2>5, <2>6, <2>7, Untouched
<1> QED BY <1>1, <1>2

-----------------------------------------------------------------------------
(* What files and -wals hold                                               *)

\* A file grows by the -wal beside it, when its last connection closes or it is archived.
LEMMA DataStep ==
  ASSUME Locking, NEW p \in Proc, Step(p) \/ Kill(p), NEW f \in File, data'[f] # data[f]
  PROVE  /\ Close(p) \/ Fold(p)
         /\ Nm(p) \in Name /\ f = live[Nm(p)]
         /\ data'[f] = data[f] \cup wal[Nm(p)]
<1>0. TypeOK /\ Sound(p) BY DEF Locking, AllSound
<1>1. Close(p) \/ Fold(p) BY Untouched
<1>2. CASE Close(p)
  <2>1. Nm(p) \in Name /\ cmd[p].file \in File
    BY <1>0, <1>2 DEF Close, At, Sound, SharedPhase, OpenPhase
  <2>2. \/ data' = data
        \/ /\ live[Nm(p)] = cmd[p].file
           /\ data' = [data EXCEPT ![cmd[p].file] = data[cmd[p].file] \cup wal[Nm(p)]]
    BY <1>2 DEF Close
  <2> QED BY <1>0, <1>2, <2>1, <2>2 DEF TypeOK
<1>3. CASE Fold(p)
  <2>1. Nm(p) \in Name BY <1>0, <1>3 DEF Fold, At, Sound, ExclusivePhase
  <2>2. \/ data' = data
        \/ data' = [data EXCEPT ![live[Nm(p)]] = data[live[Nm(p)]] \cup wal[Nm(p)]]
    BY <1>3 DEF Fold, Checkpointed
  <2> QED BY <1>0, <1>3, <2>1, <2>2 DEF TypeOK
<1> QED BY <1>1, <1>2, <1>3

\* A -wal is written by whoever holds no upgrade, folded by the last one out or by an archive,
\* and replaced only with its file.
LEMMA WalStep ==
  ASSUME Locking, NEW p \in Proc, Step(p) \/ Kill(p), NEW n \in Name, wal'[n] # wal[n]
  PROVE  \/ MovesWal(p, n)
         \/ /\ Make(p) /\ n = Nm(p) /\ live[n] = None /\ wal'[n] = {} /\ wal[n] \subseteq over'
         \/ /\ Use(p) /\ n = Nm(p) /\ writer[n] = None /\ wal'[n] = wal[n] \cup {p}
            /\ live[n] \in File /\ live' = live
         \/ /\ Close(p) /\ n = Nm(p) /\ held[n] = {<<p, "shared">>}
            /\ live[n] \in File /\ data'[live[n]] = data[live[n]] \cup wal[n] /\ wal'[n] = {}
         \/ /\ Fold(p) /\ n = Nm(p) /\ live[n] \in File
            /\ wal'[n] = {}
            /\ data'[live[n]] = data[live[n]] \cup wal[n] \/ wal[n] \subseteq over'
<1>0. TypeOK /\ Sound(p) BY DEF Locking, AllSound
<1>1. CASE MoveWal(p)
  <2>1. PICK m \in Name : MovesWal(p, m) BY <1>0, <1>1, MoveWalIs
  <2>2. wal' = [wal EXCEPT ![m] = oldWal[m]] BY <2>1 DEF MovesWal
  <2>3. m = n BY <1>0, <2>2 DEF TypeOK
  <2> QED BY <2>1, <2>3
<1>2. CASE Use(p)
  <2>1. Nm(p) \in Name /\ cmd[p].file \in File
    BY <1>0, <1>2 DEF Use, At, Sound, SharedPhase, OpenPhase
  <2>2. /\ writer[Nm(p)] = None /\ live' = live
        /\ \/ wal' = wal
           \/ live[Nm(p)] = cmd[p].file /\ wal' = [wal EXCEPT ![Nm(p)] = wal[Nm(p)] \cup {p}]
    BY <1>2 DEF Use
  <2>3. n = Nm(p) /\ wal'[n] = wal[n] \cup {p} BY <1>0, <2>1, <2>2 DEF TypeOK
  <2> QED BY <1>2, <2>1, <2>2, <2>3
<1>3. CASE Close(p)
  <2>1. Nm(p) \in Name /\ cmd[p].file \in File
    BY <1>0, <1>3 DEF Close, At, Sound, SharedPhase, OpenPhase
  <2>2. /\ held[Nm(p)] = {<<p, "shared">>} /\ live[Nm(p)] = cmd[p].file
        /\ data' = [data EXCEPT ![cmd[p].file] = data[cmd[p].file] \cup wal[Nm(p)]]
        /\ wal' = [wal EXCEPT ![Nm(p)] = {}]
    BY <1>3 DEF Close
  <2>3. n = Nm(p) BY <1>0, <2>1, <2>2 DEF TypeOK
  <2>4. data'[live[n]] = data[live[n]] \cup wal[n] /\ wal'[n] = {}
    BY <1>0, <2>1, <2>2, <2>3 DEF TypeOK
  <2> QED BY <1>3, <2>1, <2>2, <2>3, <2>4
<1>4. CASE Fold(p)
  <2>1. Nm(p) \in Name BY <1>0, <1>4 DEF Fold, At, Sound, ExclusivePhase
  <2>2. /\ There(p) /\ wal' = [wal EXCEPT ![Nm(p)] = {}]
        /\ \/ data' = [data EXCEPT ![live[Nm(p)]] = data[live[Nm(p)]] \cup wal[Nm(p)]]
           \/ over' = over \cup wal[Nm(p)]
    BY <1>4 DEF Fold, Checkpointed
  <2>3. n = Nm(p) BY <1>0, <2>1, <2>2 DEF TypeOK
  <2>4. live[n] \in File BY <1>0, <2>2, <2>3 DEF There, TypeOK
  <2>5. /\ wal'[n] = {}
        /\ data'[live[n]] = data[live[n]] \cup wal[n] \/ wal[n] \subseteq over'
    BY <1>0, <2>2, <2>3, <2>4 DEF TypeOK
  <2> QED BY <1>4, <2>3, <2>4, <2>5
<1>5. CASE Make(p)
  <2>1. /\ Nm(p) \in Name
        /\ \/ wal' = wal
           \/ /\ live[Nm(p)] = None /\ over' = over \cup wal[Nm(p)]
              /\ wal' = [wal EXCEPT ![Nm(p)] = {}]
    BY <1>5, MakeIs
  <2>2. n = Nm(p) /\ wal'[n] = {} BY <1>0, <2>1 DEF TypeOK
  <2> QED BY <1>5, <2>1, <2>2
<1> QED BY <1>1, <1>2, <1>3, <1>4, <1>5, Untouched

LEMMA LinkedStep ==
  ASSUME Locking, SoleHome, Linked, NEW p \in Proc, Step(p) \/ Kill(p)
  PROVE  Linked'
<1>0. TypeOK /\ Sound(p) /\ Aside(p) BY StepLocks DEF Locking, AllSound, Keeps
<1> SUFFICES ASSUME NEW q \in Proc, cmd'[q].at = "unlink", NEW i \in cmd'[q].listed
             PROVE  /\ i \in DOMAIN arch'[Nm(q)'] /\ arch'[Nm(q)'][i].file = cmd'[q].file
                    /\ i \in Archives(Nm(q))' =>
                         live'[Nm(q)'] = cmd'[q].file \/ data'[cmd'[q].file] \subseteq over'
  BY DEF Linked
<1>1. CASE q = p
  <2>1. Link(p) /\ LinksIt(p) BY <1>1, Arrivals
  <2>2. arch' = arch /\ Nm(p) \in Name BY <2>1, LinkLocks DEF Link
  <2>3. PICK j \in Newest(Nm(p)) :
          /\ live' = [live EXCEPT ![Nm(p)] = arch[Nm(p)][j].file]
          /\ cmd'[p].file = arch[Nm(p)][j].file /\ cmd'[p].listed = {j}
          /\ cmd'[p].name = cmd[p].name
    BY <2>1 DEF LinksIt
  <2>4. Nm(p)' = Nm(p) BY <2>3 DEF Nm
  <2>5. j \in DOMAIN arch[Nm(p)] BY DEF Newest, Archives
  <2>6. live'[Nm(p)] = arch[Nm(p)][j].file BY <1>0, <2>2, <2>3 DEF TypeOK
  <2> QED BY <1>1, <2>2, <2>3, <2>4, <2>5, <2>6
<1>2. CASE q # p
  <2>1. cmd'[q] = cmd[q] /\ Nm(q)' = Nm(q) BY <1>0, <1>2 DEF Aside, Nm
  <2> DEFINE n == Nm(q)
             f == cmd[q].file
  <2>2. n \in Name /\ f \in File /\ cmd[q].at = "unlink"
    BY <2>1 DEF Locking, AllSound, Sound, ExclusivePhase
  <2>3. /\ i \in DOMAIN arch[n] /\ arch[n][i].file = f
        /\ i \in Archives(n) => live[n] = f \/ data[f] \subseteq over
    BY <2>1, <2>2 DEF Linked
  <2>4. /\ i \in DOMAIN arch'[n] /\ arch'[n][i].file = f
        /\ i \in {j \in DOMAIN arch'[n] : arch'[n][j].there} => i \in Archives(n)
    BY <2>2, <2>3, ArchStep DEF Archives
  <2>5. i \in Archives(Nm(q))' => i \in Archives(n) BY <2>1, <2>4 DEF Archives
  <2>6. ASSUME i \in Archives(n) PROVE live'[n] = f \/ data'[f] \subseteq over'
    <3>1. CASE live[n] = f
      <4>1. CASE live'[n] = live[n] BY <3>1, <4>1
      <4>2. CASE live'[n] # live[n]
        <5>1. MovesDb(p, n)
          BY <1>2, <2>2, <3>1, <4>2, LiveStays, FilesAssumption DEF ExclusivePhase
        <5>2. Content(n) \cup {f} \subseteq over'
          BY <2>2, <3>1, <5>1, FilesAssumption DEF MovesDb
        <5>3. data[f] \subseteq Content(n) BY <2>2, <3>1, FilesAssumption DEF Content
        <5>4. data'[f] = data[f]
          <6>1. cmd[p].at = "moving" BY <5>1 DEF MovesDb
          <6> QED BY <2>2, <6>1, DataStep DEF Close, Fold, At
        <5> QED BY <5>2, <5>3, <5>4
      <4> QED BY <4>1, <4>2
    <3>2. CASE data[f] \subseteq over
      <4>1. CASE data'[f] = data[f] BY <3>2, <4>1, Grows
      <4>2. CASE data'[f] # data[f]
        <5>1. /\ Close(p) \/ Fold(p)
              /\ Nm(p) \in Name /\ f = live[Nm(p)]
          BY <2>2, <4>2, DataStep
        <5>2. f \in Names(n) /\ f \in Names(Nm(p)) BY <2>3, <2>6, <5>1 DEF Names, Archived
        <5>3. Nm(p) = n BY <2>2, <5>1, <5>2, FilesAssumption DEF SoleHome
        <5>4. cmd[p].at \in {"close", "fold"} BY <5>1 DEF Close, Fold, At
        <5>5. q # p BY <2>2, <5>4
        <5> QED
          BY <2>2, <5>3, <5>4, <5>5, NobodyElse DEF ExclusivePhase, SharedPhase, OpenPhase
      <4> QED BY <4>1, <4>2
    <3> QED BY <2>3, <2>6, <3>1, <3>2
  <2> QED BY <2>1, <2>4, <2>5, <2>6
<1> QED BY <1>1, <1>2

-----------------------------------------------------------------------------
(* Backups of an upgrade                                                   *)

\* A command that has ended takes no step, and one about to commit commits, fails or dies.
LEMMA LateSteps ==
  ASSUME NEW p \in Proc, Step(p) \/ Kill(p)
  PROVE  /\ cmd[p].at \notin Ends
         /\ cmd[p].at = "commit" => UpgradeCommit(p) \/ UpgradeFails(p) \/ Kill(p)
BY DEF Step, Kill, Moving, Choosing, Opening, Shelving, NothingOld, SeesOld, MakeDir, MoveDb,
       MoveWal, OldMoved, Resolve, ListBoards, Pick, NewBoard, Point, SaveDefault, Lock, LockBusy,
       Look, Make, DryRun, UpgradeBegin, BackUp, UpgradeCommit, UpgradeFails, AddTables,
       RecordCreator, Use, Close, Retire, Fold, Archive, Link, Unlink, Declines, Delete, RemoveOne,
       Sweep, At, Ends

\* What a board holds does not change under an upgrade of it, but for a -wal moved over its own.
LEMMA ContentStays ==
  ASSUME Locking, SoleHome, Settling, InPlace, NotApart, Writing,
         NEW p \in Proc, Step(p) \/ Kill(p), NEW q \in Proc, q # p,
         cmd[q].at = "commit", schema'[cmd[q].file] = "old"
  PROVE  /\ Nm(q) \in Name /\ cmd[q].file \in File /\ schema[cmd[q].file] = "old"
         /\ live[Nm(q)] = cmd[q].file
         /\ Content(Nm(q))' = Content(Nm(q)) \/ cmd[q].file \in over'
<1>0. TypeOK /\ Sound(p) /\ Sound(q) /\ Aside(p) BY StepLocks DEF Locking, AllSound, Keeps
<1> DEFINE n == Nm(q)
           f == cmd[q].file
<1>1. n \in Name /\ f \in File /\ <<q, "shared">> \in held[n]
  BY <1>0 DEF Sound, SharedPhase, OpenPhase
<1>2. schema[f] = "old" BY <1>1, Grows
<1>3. live[n] = f BY <1>2 DEF InPlace, Opened
<1>4. cmd'[q] = cmd[q] /\ n' = n BY <1>0 DEF Aside, Nm
<1>5. live'[n] = f
  <2>1. InPlace' BY InPlaceStep
  <2>2. Opened(q)' BY <1>4 DEF Opened
  <2> QED BY <1>4, <2>1, <2>2 DEF InPlace
<1>6. MovesWal(p, n) => f \in over'
  <2>1. apart[n] # f BY DEF NotApart, Opened
  <2> QED BY <1>1, <1>3, <2>1, FilesAssumption DEF MovesWal
<1>7. ~(Nm(p) = n /\ (Fold(p) \/ (Close(p) /\ held[n] = {<<p, "shared">>}) \/ writer[n] = None))
  <2> SUFFICES ASSUME Nm(p) = n,
                      Fold(p) \/ (Close(p) /\ held[n] = {<<p, "shared">>}) \/ writer[n] = None
               PROVE  FALSE
    OBVIOUS
  <2>1. CASE Fold(p)
    <3>1. cmd[p].at = "fold" BY <2>1 DEF Fold, At
    <3>2. q # p BY <3>1
    <3> QED BY <3>1, <3>2, NobodyElse DEF ExclusivePhase, SharedPhase, OpenPhase
  <2>2. CASE Close(p) /\ held[n] = {<<p, "shared">>}
    <3>1. cmd[p].at = "close" BY <2>2 DEF Close, At
    <3>2. q # p BY <3>1
    <3> QED BY <1>1, <2>2, <3>2
  <2>3. CASE writer[n] = None
    <3>1. writer[n] = q BY DEF Writing
    <3> QED BY <2>3, <3>1, FilesAssumption
  <2> QED BY <2>1, <2>2, <2>3
<1>8. wal'[n] = wal[n] \/ f \in over' BY <1>1, <1>3, <1>6, <1>7, WalStep, FilesAssumption
<1>9. data'[f] = data[f]
  <2> SUFFICES ASSUME data'[f] # data[f] PROVE FALSE OBVIOUS
  <2>1. (Close(p) \/ Fold(p)) /\ Nm(p) \in Name /\ f = live[Nm(p)] BY <1>1, DataStep
  <2>2. f \in Names(n) /\ f \in Names(Nm(p)) BY <1>3, <2>1 DEF Names
  <2>3. Nm(p) = n BY <1>1, <2>1, <2>2, FilesAssumption DEF SoleHome
  <2>4. ~Fold(p) BY <1>7, <2>3
  <2>5. Close(p) /\ held[Nm(p)] = {<<p, "shared">>} BY <2>1, <2>4 DEF Close
  <2> QED BY <1>7, <2>3, <2>5
<1>10. Content(Nm(q))' = Content(Nm(q)) \/ f \in over'
  BY <1>1, <1>3, <1>4, <1>5, <1>8, <1>9, FilesAssumption DEF Content
<1> QED BY <1>1, <1>2, <1>3, <1>10

\* The copies that lie beside the boards once one command took a step.
LEMMA BakStep ==
  ASSUME NEW p \in Proc, Step(p) \/ Kill(p), NEW b
  PROVE  /\ b \in bak' => \/ b \in bak /\ (UpgradeFails(p) => b.by # p)
                          \/ /\ BackUp(p)
                             /\ b = [name |-> Nm(p), file |-> cmd[p].file,
                                     holds |-> Content(Nm(p)), by |-> p]
         /\ b \in bak /\ b \notin bak' => \/ UpgradeFails(p) /\ b.by = p
                                          \/ live[Nm(p)] = None /\ b.name = Nm(p)
<1>1. CASE UpgradeFails(p) BY <1>1 DEF UpgradeFails
<1>2. CASE BackUp(p) /\ ~UpgradeFails(p) BY <1>2 DEF BackUp
<1>3. CASE Sweep(p) /\ ~UpgradeFails(p) BY <1>3 DEF Sweep, BackupsOf
<1>4. CASE bak' = bak /\ ~UpgradeFails(p) BY <1>4
<1> QED BY <1>1, <1>2, <1>3, <1>4, Untouched

LEMMA CopiesStep ==
  ASSUME Locking, SoleHome, Settling, InPlace, NotApart, Writing, Copies,
         NEW p \in Proc, Step(p) \/ Kill(p)
  PROVE  Copies'
<1>0. TypeOK /\ Sound(p) /\ Aside(p) BY StepLocks DEF Locking, AllSound, Keeps
<1>1. ASSUME NEW q \in Proc, cmd'[q].at = "commit", schema'[cmd'[q].file] = "old"
      PROVE  Copied(q)' \/ cmd'[q].file \in over'
  <2>1. CASE q = p
    <3>1. cmd'[p].at \notin Ends BY <1>1, <2>1 DEF Ends
    <3>2. CASE BackUp(p)
      <4>1. Nm(p)' = Nm(p) /\ cmd'[p].file = cmd[p].file
        BY <3>1, <3>2, WorkingStays DEF Working, Nm
      <4>2. UNCHANGED <<live, wal, data>> BY <3>2 DEF BackUp, fileVars
      <4>3. Content(Nm(p))' = Content(Nm(p)) BY <4>1, <4>2 DEF Content
      <4> DEFINE b == [name |-> Nm(p), file |-> cmd[p].file, holds |-> Content(Nm(p)), by |-> p]
      <4>4. b \in bak' BY <3>2 DEF BackUp
      <4>5. b.by = p /\ b.name = Nm(p)' /\ b.file = cmd'[p].file /\ b.holds = Content(Nm(p))'
        BY <4>1, <4>3
      <4> HIDE DEF b
      <4> QED BY <2>1, <4>4, <4>5 DEF Copied
    <3>3. CASE UpgradeBegin(p) /\ schema[cmd[p].file] = "none"
      <4>1. cmd'[p].file = cmd[p].file BY <3>1, <3>3, WorkingStays DEF Working
      <4>2. schema' = schema BY <3>3 DEF UpgradeBegin, boardVars
      <4> QED BY <1>1, <2>1, <3>3, <4>1, <4>2
    <3> QED BY <1>1, <2>1, <3>2, <3>3, Arrivals
  <2>2. CASE q # p
    <3>1. cmd'[q] = cmd[q] /\ Nm(q)' = Nm(q) BY <1>0, <2>2 DEF Aside, Nm
    <3>2. /\ Nm(q) \in Name /\ cmd[q].file \in File /\ schema[cmd[q].file] = "old"
          /\ live[Nm(q)] = cmd[q].file
          /\ Content(Nm(q))' = Content(Nm(q)) \/ cmd[q].file \in over'
      BY <1>1, <2>2, <3>1, ContentStays
    <3>3. CASE cmd[q].file \in over \cup over' BY <3>1, <3>3, Grows
    <3>4. CASE cmd[q].file \notin over \cup over'
      <4>1. PICK b \in bak :
              b.by = q /\ b.name = Nm(q) /\ b.file = cmd[q].file /\ b.holds = Content(Nm(q))
        BY <1>1, <3>1, <3>2, <3>4 DEF Copies, Copied
      <4>2. b \in bak'
        <5>1. live[Nm(q)] # None BY <3>2, FilesAssumption
        <5> QED BY <2>2, <4>1, <5>1, BakStep
      <4>3. b.by = q /\ b.name = Nm(q)' /\ b.file = cmd'[q].file /\ b.holds = Content(Nm(q))'
        BY <3>1, <3>2, <3>4, <4>1
      <4> QED BY <4>2, <4>3 DEF Copied
    <3> QED BY <3>3, <3>4
  <2> QED BY <2>1, <2>2
<1>2. ASSUME NEW b \in bak', schema'[b.file] = "old"
      PROVE  At(b.by, "killed")' \/ (At(b.by, "commit")' /\ cmd'[b.by].file = b.file)
  <2>1. CASE b \in bak /\ (UpgradeFails(p) => b.by # p)
    <3>1. b.by \in Proc /\ b.file \in File BY <1>0, <2>1 DEF TypeOK, Backup
    <3>2. schema[b.file] = "old" BY <1>2, <3>1, Grows
    <3>3. At(b.by, "killed") \/ (At(b.by, "commit") /\ cmd[b.by].file = b.file)
      BY <2>1, <3>2 DEF Copies
    <3>4. CASE cmd'[b.by] = cmd[b.by] BY <3>3, <3>4 DEF At
    <3>5. CASE b.by = p
      <4>1. cmd[p].at = "commit" /\ cmd[p].file = b.file
        BY <3>3, <3>5, LateSteps DEF At, Ends
      <4>2. CASE Kill(p)
        <5>1. cmd'[p].at = "killed" BY <4>2, GoesTo DEF Kill, Phase
        <5> QED BY <3>5, <5>1 DEF At
      <4>3. CASE UpgradeCommit(p)
        <5>1. schema'[b.file] = "new" BY <1>0, <3>1, <4>1, <4>3 DEF UpgradeCommit, TypeOK
        <5> QED BY <1>2, <5>1
      <4> QED BY <2>1, <3>5, <4>1, <4>2, <4>3, LateSteps
    <3> QED BY <1>0, <3>1, <3>4, <3>5 DEF Aside
  <2>2. CASE /\ BackUp(p)
             /\ b = [name |-> Nm(p), file |-> cmd[p].file, holds |-> Content(Nm(p)), by |-> p]
    <3>1. b.by = p /\ b.file = cmd[p].file BY <2>2
    <3>2. cmd'[p].at = "commit" BY <2>2, GoesTo DEF BackUp, Phase
    <3>3. cmd'[p].at \notin Ends BY <3>2 DEF Ends
    <3>4. cmd'[p].file = cmd[p].file BY <2>2, <3>3, WorkingStays DEF Working
    <3> QED BY <3>1, <3>2, <3>4 DEF At
  <2> QED BY <2>1, <2>2, BakStep
<1> QED BY <1>1, <1>2 DEF Copies

-----------------------------------------------------------------------------
(* Acknowledged writes                                                     *)

LEMMA OnDiskIs ==
  ASSUME TypeOK, NEW w, w \in OnDisk
  PROVE  \/ \E n \in Name : w \in wal[n] \cup oldWal[n]
         \/ \E f \in File : f \in Used /\ w \in data[f]
<1>1. CASE w \in InBoards
  <2>1. PICK n \in Name : w \in oldWal[n] \/ (live[n] # None /\ w \in Content(n)) BY <1>1 DEF InBoards
  <2>2. CASE w \notin wal[n] \cup oldWal[n]
    <3>1. live[n] # None /\ w \in data[live[n]] BY <2>1, <2>2 DEF Content
    <3> QED BY <3>1 DEF TypeOK, Used
  <2> QED BY <2>2
<1>2. CASE w \in InFiles
  <2>1. PICK f \in Used \ {None} : w \in data[f] BY <1>2 DEF InFiles
  <2>2. f \in File BY ArchivesIs DEF Used, TypeOK
  <2> QED BY <2>1, <2>2
<1>3. CASE w \in Stranded BY <1>3 DEF Stranded
<1> QED BY <1>1, <1>2, <1>3 DEF OnDisk, Reach

\* What lies in a -wal or in a file in use is on the disk.
LEMMA WalsOnDisk ==
  ASSUME NEW n \in Name
  PROVE  wal[n] \cup oldWal[n] \subseteq OnDisk
<1>1. wal[n] \subseteq OnDisk
  <2>1. CASE live[n] = None BY <2>1 DEF OnDisk, Stranded
  <2>2. CASE live[n] # None
    <3>1. wal[n] \subseteq InBoards BY <2>2 DEF InBoards, Content
    <3> QED BY <3>1 DEF OnDisk, Reach
  <2> QED BY <2>1, <2>2
<1>2. oldWal[n] \subseteq OnDisk
  <2>1. CASE old[n] = None BY <2>1 DEF OnDisk, Stranded
  <2>2. CASE old[n] # None
    <3>1. oldWal[n] \subseteq InBoards BY <2>2 DEF InBoards
    <3> QED BY <3>1 DEF OnDisk, Reach
  <2> QED BY <2>1, <2>2
<1> QED BY <1>1, <1>2

LEMMA FilesOnDisk ==
  ASSUME NEW f \in File, f \in Used
  PROVE  data[f] \subseteq OnDisk
BY FilesAssumption DEF OnDisk, Reach, InFiles

\* After a step, too.
LEMMA OnDiskNext ==
  /\ \A n \in Name : wal'[n] \cup oldWal'[n] \subseteq OnDisk'
  /\ \A f \in File : f \in Used' => data'[f] \subseteq OnDisk'
<1>1. ASSUME NEW n \in Name PROVE wal'[n] \cup oldWal'[n] \subseteq OnDisk'
  <2>1. wal'[n] \subseteq OnDisk'
    <3>1. CASE live'[n] = None BY <3>1 DEF OnDisk, Stranded
    <3>2. CASE live'[n] # None
      <4>1. wal'[n] \subseteq InBoards' BY <3>2 DEF InBoards, Content
      <4> QED BY <4>1 DEF OnDisk, Reach
    <3> QED BY <3>1, <3>2
  <2>2. oldWal'[n] \subseteq OnDisk'
    <3>1. CASE old'[n] = None BY <3>1 DEF OnDisk, Stranded
    <3>2. CASE old'[n] # None
      <4>1. oldWal'[n] \subseteq InBoards' BY <3>2 DEF InBoards
      <4> QED BY <4>1 DEF OnDisk, Reach
    <3> QED BY <3>1, <3>2
  <2> QED BY <2>1, <2>2
<1>2. ASSUME NEW f \in File, f \in Used' PROVE data'[f] \subseteq OnDisk'
  BY <1>2, FilesAssumption DEF OnDisk, Reach, InFiles
<1> QED BY <1>1, <1>2

\* A -wal is lost to nobody: it is folded back, moved, or given up knowingly.
LEMMA WalKept ==
  ASSUME Locking, NEW p \in Proc, Step(p) \/ Kill(p), NEW n \in Name,
         NEW w \in wal[n] \cup oldWal[n]
  PROVE  w \in OnDisk' \/ w \in over'
<1>0. TypeOK BY DEF Locking
<1>1. CASE w \in wal'[n] \cup oldWal'[n] BY <1>1, OnDiskNext
<1>2. CASE w \notin wal'[n] \cup oldWal'[n]
  <2>1. CASE MovesWal(p, n)
    <3>1. wal'[n] = oldWal[n] BY <1>0, <2>1 DEF MovesWal, TypeOK
    <3> QED BY <1>2, <2>1, <3>1 DEF MovesWal
  <2>2. CASE ~MovesWal(p, n)
    <3>1. oldWal'[n] = oldWal[n]
      <4>1. CASE MoveWal(p)
        <5>1. PICK m \in Name : MovesWal(p, m) BY <1>0, <4>1, MoveWalIs
        <5>2. m # n BY <2>2, <5>1
        <5> QED BY <1>0, <5>1, <5>2 DEF MovesWal, TypeOK
      <4> QED BY <4>1, Untouched
    <3>2. w \in wal[n] /\ w \notin wal'[n] BY <1>2, <3>1
    <3>3. \/ wal[n] \subseteq over'
          \/ Use(p) /\ wal'[n] = wal[n] \cup {p}
          \/ /\ Close(p) \/ Fold(p)
             /\ live[n] \in File
             /\ data'[live[n]] = data[live[n]] \cup wal[n]
      BY <2>2, <3>2, WalStep
    <3>4. w \in over' \/ ((Close(p) \/ Fold(p)) /\ live[n] \in File /\ w \in data'[live[n]])
      BY <3>2, <3>3
    <3>5. Close(p) \/ Fold(p) => live'[n] = live[n] BY DEF Close, Fold
    <3>6. CASE live'[n] \in File /\ w \in data'[live'[n]]
      <4>1. live'[n] \in Used' BY DEF Used
      <4> QED BY <3>6, <4>1, OnDiskNext
    <3> QED BY <3>4, <3>5, <3>6
  <2> QED BY <2>1, <2>2
<1> QED BY <1>1, <1>2

\* A file that is let go was an archive removed on purpose, or an old one was moved over it.
LEMMA FileKept ==
  ASSUME Locking, Linked, NEW p \in Proc, Step(p) \/ Kill(p), NEW f \in File,
         f \in Used, f \notin Used'
  PROVE  data[f] \subseteq gone' \cup over'
<1>0. TypeOK /\ Sound(p) BY DEF Locking, AllSound
<1>1. \A n \in Name : Names(n)' \subseteq Used' BY DEF Names, Used
<1>2. PICK n \in Name : f \in Names(n)
  BY DEF Names, Used
<1>3. f # live'[n] /\ f # old'[n] /\ f \notin Archived(n)' BY <1>1 DEF Names
<1>4. CASE f = live[n]
  <2>1. live'[n] # live[n] BY <1>3, <1>4
  <2>2. ~(Archive(p) /\ n = Nm(p))
    <3> SUFFICES ASSUME Archive(p), n = Nm(p) PROVE FALSE OBVIOUS
    <3>1. arch'[n] # arch[n]
      <4>1. arch'[n] = Append(arch[n], [file |-> live[n], there |-> TRUE])
        BY <1>0 DEF Archive, TypeOK
      <4>2. live[n] \in File BY <1>4
      <4>3. /\ DOMAIN arch'[n] = 1..(Len(arch[n]) + 1)
            /\ DOMAIN arch[n] = 1..Len(arch[n]) /\ Len(arch[n]) \in Nat
        BY <1>0, <4>1, <4>2, AppendIs
      <4> QED BY <4>3
    <3>2. cmd[p].at = "rename" BY DEF Archive, At
    <3>3. Archived(n)' = Archived(n) \cup {live[n]}
      BY <3>1, <3>2, ArchStep DEF Unlink, RemoveOne, At
    <3> QED BY <1>3, <1>4, <3>3
  <2>3. MovesDb(p, n) BY <1>4, <2>1, <2>2, LiveStep, FilesAssumption
  <2>4. Content(n) \cup {f} \subseteq over' BY <1>4, <2>3, FilesAssumption DEF MovesDb
  <2>5. data[f] \subseteq Content(n) BY <1>4, FilesAssumption DEF Content
  <2> QED BY <2>4, <2>5
<1>5. CASE f = old[n]
  <2>1. MovesDb(p, n) BY <1>3, <1>5, Grows
  <2>2. live'[n] = old[n] BY <1>0, <2>1 DEF MovesDb, TypeOK
  <2> QED BY <1>3, <1>5, <2>2
<1>6. CASE f \in Archived(n)
  <2>1. n = Nm(p) /\ (Unlink(p) \/ RemoveOne(p)) BY <1>3, <1>6, ArchStep
  <2>2. CASE RemoveOne(p)
    <3>1. cmd[p].listed # {} => gone' = gone \cup UNION {data[g] : g \in Archived(Nm(p)) \ Used'}
      BY <2>2 DEF RemoveOne
    <3>2. cmd[p].listed # {}
      <4> SUFFICES ASSUME cmd[p].listed = {} PROVE FALSE OBVIOUS
      <4>1. arch' = arch BY <2>2 DEF RemoveOne
      <4> QED BY <1>3, <1>6, <4>1 DEF Archived, Archives
    <3>3. f \in Archived(Nm(p)) \ Used' BY <1>6, <2>1
    <3> QED BY <3>1, <3>2, <3>3
  <2>3. CASE Unlink(p)
    <3>1. cmd[p].at = "unlink" /\ arch' = [arch EXCEPT ![n] = Without(n, cmd[p].listed)] /\ live' = live
          /\ Nm(p) \in Name
      BY <2>1, <2>3, UnlinkLocks DEF Unlink
    <3>2. PICK i \in Archives(n) : f = arch[n][i].file BY <1>6 DEF Archived
    <3>3. i \in cmd[p].listed
      <4> SUFFICES ASSUME i \notin cmd[p].listed PROVE FALSE OBVIOUS
      <4>1. arch'[n] = Without(n, cmd[p].listed) BY <1>0, <3>1 DEF TypeOK
      <4>2. i \in DOMAIN arch'[n] /\ arch'[n][i].file = f /\ arch'[n][i].there
        BY <1>0, <3>2, <4>1, WithoutIs DEF Archives
      <4>3. i \in Archives(n)' BY <4>2 DEF Archives
      <4> QED BY <1>3, <4>2, <4>3 DEF Archived
    <3>4. cmd[p].file = f /\ (live[n] = f \/ data[f] \subseteq over)
      BY <2>1, <3>1, <3>2, <3>3 DEF Linked
    <3>5. over \subseteq over' BY Grows
    <3> QED BY <1>3, <3>1, <3>4, <3>5
  <2> QED BY <2>1, <2>2, <2>3
<1> QED BY <1>2, <1>4, <1>5, <1>6 DEF Names

\* No step leaves a write of the behaviour in a -wal apart from its file.
LEMMA ToldStep ==
  ASSUME Locking, Told, NEW p \in Proc, Step(p) \/ Kill(p)
  PROVE  Told'
<1>0. TypeOK /\ Sound(p) /\ Aside(p) BY StepLocks DEF Locking, AllSound, Keeps
<1> SUFFICES ASSUME NEW n \in Name
             PROVE  /\ oldWal'[n] \cap Proc = {}
                    /\ live'[n] = None => wal'[n] \cap Proc \subseteq over'
                    /\ \A q \in Proc : cmd'[q].at = "rename" /\ Nm(q)' = n
                                         => wal'[n] \cap Proc \subseteq over'
  BY DEF Told
<1>1. oldWal[n] \cap Proc = {} BY DEF Told
<1>2. oldWal'[n] \cap Proc = {}
  <2>1. CASE MoveWal(p)
    <3>1. PICK m \in Name : MovesWal(p, m) BY <1>0, <2>1, MoveWalIs
    <3> QED BY <1>0, <1>1, <3>1 DEF MovesWal, TypeOK
  <2> QED BY <1>1, <2>1, Untouched
<1>3. \/ wal'[n] = wal[n] \/ wal'[n] \cap Proc = {}
      \/ Use(p) /\ n = Nm(p) /\ live[n] \in File /\ live' = live
  <2>1. MovesWal(p, n) => wal'[n] = oldWal[n] BY <1>0 DEF MovesWal, TypeOK
  <2> QED BY <1>1, <2>1, WalStep
<1>4. over \subseteq over' BY Grows
<1>5. ASSUME live'[n] = None PROVE wal'[n] \cap Proc \subseteq over'
  <2>1. wal[n] \cap Proc \subseteq over
    <3>1. CASE live[n] = None BY <3>1 DEF Told
    <3>2. CASE live[n] # None
      <4>1. n = Nm(p) /\ cmd[p].at = "rename" BY <1>5, <3>2, LiveStep, FilesAssumption
      <4> QED BY <4>1 DEF Told
    <3> QED BY <3>1, <3>2
  <2> QED BY <1>3, <1>4, <1>5, <2>1, FilesAssumption
<1>6. ASSUME NEW q \in Proc, cmd'[q].at = "rename", Nm(q)' = n
      PROVE  wal'[n] \cap Proc \subseteq over'
  <2>1. CASE q = p
    <3>1. Fold(p) /\ There(p) BY <1>6, <2>1, Arrivals
    <3>2. Nm(p) = n BY <1>6, <2>1, NameStays DEF Nm, ExclusivePhase
    <3>3. wal' = [wal EXCEPT ![Nm(p)] = {}] BY <3>1 DEF Fold
    <3> QED BY <1>0, <3>2, <3>3 DEF TypeOK
  <2>2. CASE q # p
    <3>1. cmd'[q] = cmd[q] BY <1>0, <2>2 DEF Aside
    <3>2. cmd[q].at = "rename" /\ Nm(q) = n BY <1>6, <3>1 DEF Nm
    <3>3. wal[n] \cap Proc \subseteq over BY <3>2 DEF Told
    <3>4. ~(Use(p) /\ n = Nm(p))
      <4>1. Use(p) => cmd[p].at = "use" BY DEF Use, At
      <4> QED BY <2>2, <3>2, <4>1, NobodyElse DEF ExclusivePhase, SharedPhase, OpenPhase
    <3> QED BY <1>3, <1>4, <3>3, <3>4
  <2> QED BY <2>1, <2>2
<1> QED BY <1>2, <1>5, <1>6

LEMMA KeptIs ==
  ASSUME Told, AllKept
  PROVE  AckedKept
<1>1. acked \subseteq Reach \cup Stranded \cup gone \cup over BY DEF AllKept, OnDisk
<1>2. Stranded \cap Proc \subseteq over BY DEF Stranded, Told
<1> QED BY <1>1, <1>2 DEF AckedKept

LEMMA KeptStep ==
  ASSUME Locking, Linked, AllKept, NEW p \in Proc, Step(p) \/ Kill(p)
  PROVE  AllKept'
<1>0. TypeOK /\ Sound(p) BY DEF Locking, AllSound
<1> SUFFICES ASSUME NEW w \in acked' PROVE w \in OnDisk' \cup gone' \cup over'
  BY DEF AllKept
<1>1. CASE w \in acked
  <2>1. CASE w \in gone \cup over BY <2>1, Grows
  <2>2. CASE w \in OnDisk
    <3>1. CASE \E n \in Name : w \in wal[n] \cup oldWal[n] BY <3>1, WalKept
    <3>2. CASE \E f \in File : f \in Used /\ w \in data[f]
      <4>1. PICK f \in File : f \in Used /\ w \in data[f] BY <3>2
      <4>2. CASE f \notin Used' BY <4>1, <4>2, FileKept
      <4>3. CASE f \in Used'
        <5>1. w \in data'[f] BY <4>1, Grows
        <5> QED BY <4>3, <5>1, OnDiskNext
      <4> QED BY <4>2, <4>3
    <3> QED BY <1>0, <2>2, <3>1, <3>2, OnDiskIs
  <2> QED BY <1>1, <2>1, <2>2 DEF AllKept
<1>2. CASE w \notin acked
  <2>1. Use(p) BY <1>2, Untouched
  <2>2. w = p /\ Nm(p) \in Name
    BY <1>0, <1>2, <2>1 DEF Use, At, Sound, SharedPhase, OpenPhase
  <2>3. over' = over \cup {p} \/ wal' = [wal EXCEPT ![Nm(p)] = wal[Nm(p)] \cup {p}]
    BY <2>1 DEF Use
  <2>4. p \in over' \/ p \in wal'[Nm(p)] BY <1>0, <2>2, <2>3 DEF TypeOK
  <2> QED BY <2>2, <2>4, OnDiskNext
<1> QED BY <1>1, <1>2

-----------------------------------------------------------------------------
(* The invariant                                                           *)

\* A directory tb starts in keeps the files of its boards apart.
LEMMA HomesInit ==
  ASSUME Init, Locking
  PROVE  SoleHome /\ FreshIsNew /\ Settling
<1>1. PICK w \in Worlds :
        /\ live = w.live /\ wal = w.wal /\ arch = w.arch /\ old = w.old /\ oldWal = w.oldWal
        /\ schema = w.schema /\ side = w.side /\ saved = w.saved
        /\ cmd = [p \in Proc |-> Empty(IF p \in w.runs THEN "start" ELSE "ended")]
        /\ newDir = HasDir(w)
  BY DEF Init
<1>2. /\ \A m, n \in Name : m # n => FilesOf(w, m) \cap FilesOf(w, n) \subseteq {None}
      /\ \A f \in File : w.schema[f] # "none" => \E n \in Name : f \in FilesOf(w, n)
      /\ ~HasDir(w) => \A n \in Name : w.arch[n] = <<>>
  BY WorldsAssumption
<1>3. \A n \in Name : Names(n) = FilesOf(w, n)
  BY <1>1 DEF Names, FilesOf, Archived, Archives
<1>4. SoleHome BY <1>2, <1>3 DEF SoleHome
<1>5. FreshIsNew
  <2> SUFFICES ASSUME NEW f \in File, data[f] = {} PROVE schema[f] # "old"
    BY DEF FreshIsNew
  <2>1. data[f] = IF f \in Used THEN {f} ELSE {} BY DEF Init
  <2>2. f \notin Used BY <2>1
  <2>3. \A n \in Name : f \notin Names(n) BY <2>2 DEF Names, Used
  <2> QED BY <1>1, <1>2, <1>3, <2>3
<1>6. \A p \in Proc : cmd[p].at \in {"start", "ended"}
  <2> DEFINE row(p) == Empty(IF p \in w.runs THEN "start" ELSE "ended")
  <2>1. cmd = [p \in Proc |-> row(p)] BY <1>1
  <2>2. \A p \in Proc : row(p).at \in {"start", "ended"} BY DEF Empty
  <2> HIDE DEF row
  <2> QED BY <2>1, <2>2
<1>7. Settling
  <2> SUFFICES ASSUME Moves, NEW n \in Name, old[n] # None PROVE SettlingAt(n)
    BY DEF Settling, SettlingAt
  <2>1. ~HasDir(w) BY <1>1, <1>6 DEF Moves
  <2>2. live[n] = None
    <3>1. live = [m \in Name |-> None] BY <1>1, <2>1 DEF HasDir
    <3> QED BY <3>1
  <2>3. arch[n] = <<>> BY <1>1, <1>2, <2>1
  <2>4. Archived(n) = {} BY <2>3 DEF Archived, Archives
  <2> QED BY <2>2, <2>3, <2>4, FilesAssumption DEF SettlingAt
<1> QED BY <1>4, <1>5, <1>7

LEMMA KeptInit ==
  ASSUME Init, Locking
  PROVE  Told /\ AllKept
<1>0. TypeOK BY DEF Locking
<1>4. Told
  <2>1. PICK w \in Worlds : live = w.live /\ wal = w.wal /\ oldWal = w.oldWal
    BY DEF Init
  <2>2. \A n \in Name : (w.wal[n] \cup w.oldWal[n]) \cap Proc = {} BY WorldsAssumption
  <2>3. \A n \in Name : (wal[n] \cup oldWal[n]) \cap Proc = {} BY <2>1, <2>2
  <2> QED BY <2>3 DEF Told
<1> SUFFICES ASSUME NEW w \in acked PROVE w \in OnDisk BY <1>4 DEF AllKept
<1>1. acked = (Used \ {None}) \cup UNION {wal[n] \cup oldWal[n] : n \in Name} BY DEF Init
<1>2. CASE w \in Used \ {None}
  <2>1. w \in File BY <1>0, <1>2, ArchivesIs DEF Used, TypeOK
  <2>2. w \in data[w] BY <1>2, <2>1 DEF Init
  <2> QED BY <1>2, <2>1, <2>2, FilesOnDisk
<1>3. CASE \E n \in Name : w \in wal[n] \cup oldWal[n] BY <1>3, WalsOnDisk
<1> QED BY <1>1, <1>2, <1>3

LEMMA InvariantInit == Init => IInv
<1> SUFFICES ASSUME Init PROVE IInv OBVIOUS
<1>1. Locking BY LockingInit
<1>2. \A p \in Proc : cmd[p].at \in {"start", "ended"} /\ ~cmd[p].made
  <2>1. PICK w \in Worlds :
          cmd = [p \in Proc |-> Empty(IF p \in w.runs THEN "start" ELSE "ended")]
    BY DEF Init
  <2> DEFINE row(p) == Empty(IF p \in w.runs THEN "start" ELSE "ended")
  <2>2. cmd = [p \in Proc |-> row(p)] BY <2>1
  <2>3. \A p \in Proc : row(p).at \in {"start", "ended"} /\ ~row(p).made BY DEF Empty
  <2> HIDE DEF row
  <2> QED BY <2>2, <2>3
<1>3. SoleHome /\ FreshIsNew /\ Settling BY <1>1, HomesInit
<1>4. InPlace /\ NotApart /\ OpenIsLive BY <1>2 DEF InPlace, NotApart, OpenIsLive, Opened
<1>5. Linked /\ Writing BY <1>2 DEF Linked, Writing
<1>6. Makers BY <1>2 DEF Makers, MakerMadeIt, Init
<1>7. Copies
  <2>1. bak = {} BY DEF Init
  <2> QED BY <1>2, <2>1 DEF Copies
<1>8. Told /\ AllKept BY <1>1, KeptInit
<1> QED BY <1>1, <1>3, <1>4, <1>5, <1>6, <1>7, <1>8 DEF IInv

LEMMA InvariantStep == IInv /\ [Next]_vars => IInv'
<1> SUFFICES ASSUME IInv, [Next]_vars PROVE IInv' OBVIOUS
<1>1. /\ Locking /\ SoleHome /\ FreshIsNew /\ Settling /\ InPlace /\ NotApart /\ OpenIsLive
      /\ Linked /\ Makers /\ Writing /\ Copies /\ Told /\ AllKept
  BY DEF IInv
<1>2. Locking' BY <1>1, LockingStep
<1>3. CASE Next
  <2>1. PICK p \in Proc : Step(p) \/ Kill(p) BY <1>3, OneSteps
  <2>2. SoleHome' /\ FreshIsNew' /\ Settling' BY <1>1, <2>1, SoleHomeStep, FreshStep, SettlingStep
  <2>3. InPlace' /\ NotApart' /\ OpenIsLive' BY <1>1, <2>1, InPlaceStep, NotApartStep, OpenStep
  <2>4. Linked' /\ Makers' /\ Writing' BY <1>1, <2>1, LinkedStep, MakersStep, WritingStep
  <2>5. Copies' BY <1>1, <2>1, CopiesStep
  <2>6. Told' /\ AllKept' BY <1>1, <2>1, ToldStep, KeptStep
  <2> QED BY <1>2, <2>2, <2>3, <2>4, <2>5, <2>6 DEF IInv
<1>4. CASE UNCHANGED vars
  <2> USE <1>1, <1>4 DEF vars, fileVars, legacyVars, boardVars, lockVars, pastVars
  <2>1. SoleHome' BY DEF SoleHome, Names, Archived, Archives
  <2>2. FreshIsNew' BY DEF FreshIsNew
  <2>3. Settling' BY DEF Settling, Moves, Archived, Archives, Nm
  <2>4. InPlace' BY DEF InPlace, Nm, MayCreate, OpensAnyway, Opened
  <2>5. NotApart' /\ OpenIsLive' BY DEF NotApart, OpenIsLive, Opened, Nm
  <2>6. Linked' BY DEF Linked, Archives, Nm
  <2>7. Makers' /\ Writing' BY DEF Makers, MakerMadeIt, Writing, Nm
  <2>8. Copies' BY DEF Copies, Copied, Content, Nm, At
  <2>9. Told' /\ AllKept'
    BY DEF Told, Nm, AllKept, OnDisk, Stranded, Reach, InBoards, InFiles, Content, Used, Archived,
       Archives
  <2> QED BY <1>2, <2>1, <2>2, <2>3, <2>4, <2>5, <2>6, <2>7, <2>8, <2>9 DEF IInv
<1> QED BY <1>3, <1>4

LEMMA InvariantHolds == Spec => []IInv
BY InvariantInit, InvariantStep, PTL DEF Spec

-----------------------------------------------------------------------------
(* What a user is promised                                                 *)

\* Whoever has a board open has the file its name stands for: archives and restores wait for
\* the lock it holds (boards.rs, archive and restore; store.rs, open).
THEOREM OpenStaysLive == Spec => []OpenIsLive
<1>1. IInv => OpenIsLive BY DEF IInv
<1> QED BY <1>1, InvariantHolds, PTL

\* A board names as its maker the process that created its file, however many opened it while
\* it was new (creator.rs; main.rs, open_board).
THEOREM MakersMadeIt == Spec => []MakerMadeIt
<1>1. IInv => MakerMadeIt BY DEF IInv, Makers
<1> QED BY <1>1, InvariantHolds, PTL

\* No acknowledged write is lost to an archive, a restore, a delete of another archive, an
\* upgrade or a kill, and the move of an old installation that breaks off between a database and
\* its -wal strands only what was written before it (boards.rs, archive, restore, delete and
\* migrate; store.rs, open).
THEOREM AcknowledgedStays == Spec => []AckedKept
<1>1. IInv => AckedKept BY KeptIs DEF IInv
<1> QED BY <1>1, InvariantHolds, PTL

\* A file appears under a board's name by a command that may create the board, or because an
\* archive or an old file is put there (main.rs, run: `creates'; store.rs, open_if_exists).
THEOREM FilesComeByCreators == Spec => OnlyCreatorsCreate
<1> DEFINE Creates ==
      \A n \in Name : Appears(n) =>
        \E p \in Proc : /\ MakerOf(p, n)
                        /\ OpensAnyway(p) \/ (MayCreate(p, n) /\ ~plan[p].pinned)
<1>1. IInv /\ [Next]_vars => [Creates]_vars
  <2> SUFFICES ASSUME IInv, Next, NEW n \in Name, Appears(n)
               PROVE  \E p \in Proc : /\ MakerOf(p, n)
                                      /\ OpensAnyway(p) \/ (MayCreate(p, n) /\ ~plan[p].pinned)
    OBVIOUS
  <2>1. Locking /\ InPlace BY DEF IInv
  <2>2. PICK p \in Proc : Step(p) \/ Kill(p) BY OneSteps
  <2>3. Make(p) /\ n = Nm(p) /\ live[n] = None /\ live'[n] \in File /\ cmd[p].at = "make"
    BY <2>1, <2>2, LiveStep DEF Appears
  <2>4. cmd'[p].made = TRUE /\ cmd'[p].file = live'[n]
    <3>1. PICK f \in File :
            /\ \/ f = live[Nm(p)]
               \/ live' = [live EXCEPT ![Nm(p)] = f] /\ cmd'[p].made = TRUE
            /\ cmd'[p].file = f
      BY <2>1, <2>3, MakeIs
    <3>2. f # live[Nm(p)] BY <2>3, <3>1, FilesAssumption
    <3> QED BY <2>1, <2>3, <3>1, <3>2 DEF Locking, TypeOK
  <2>5. MayCreate(p, n) \/ OpensAnyway(p) BY <2>1, <2>3 DEF InPlace
  <2>6. MayCreate(p, n) => ~plan[p].pinned BY <2>1, <2>3 DEF Locking, AllSound, Sound
  <2> QED BY <2>4, <2>5, <2>6 DEF MakerOf
<1> QED BY <1>1, InvariantHolds, PTL DEF Spec, OnlyCreatorsCreate

\* Of a board an older tb wrote nothing changes, tables added after the upgrade included, before
\* a whole copy of everything committed to it lies beside it, and of the processes that live one
\* made a copy (store.rs, open, upgrade and backup_aside).
THEOREM UpgradesAreBackedUp == Spec => UpgradeBackedUp
<1> DEFINE BackedUp ==
      \A f \in File :
        schema[f] = "old" /\ (schema'[f] # "old" \/ side'[f] # side[f]) =>
          /\ Backed(f) \/ f \in over
          /\ \A b, c \in bak : b.file = f /\ c.file = f /\ b.by # c.by =>
               At(b.by, "killed") \/ At(c.by, "killed")
<1>1. IInv /\ [Next]_vars => [BackedUp]_vars
  <2> SUFFICES ASSUME IInv, Next, NEW f \in File, schema[f] = "old",
                      schema'[f] # "old" \/ side'[f] # side[f]
               PROVE  /\ Backed(f) \/ f \in over
                      /\ \A b, c \in bak : b.file = f /\ c.file = f /\ b.by # c.by =>
                           At(b.by, "killed") \/ At(c.by, "killed")
    OBVIOUS
  <2>1. Locking /\ SoleHome /\ InPlace /\ Writing /\ Copies BY DEF IInv
  <2>2. PICK p \in Proc : Step(p) \/ Kill(p) BY OneSteps
  <2>3. UpgradeCommit(p) /\ cmd[p].file = f
    <3>1. CASE AddTables(p)
      <4>1. cmd[p].at = "tables" BY <3>1 DEF AddTables, At
      <4>2. schema[cmd[p].file] = "new" BY <2>1, <4>1 DEF InPlace
      <4>3. side'[f] = side[f] /\ schema' = schema
        BY <2>1, <3>1, <4>2 DEF AddTables, Locking, TypeOK
      <4> QED BY <4>3
    <3>2. CASE ~AddTables(p)
      <4>1. UpgradeCommit(p) BY <2>2, <3>2, Untouched
      <4> QED BY <2>1, <2>2, <3>2, <4>1, Untouched DEF UpgradeCommit, Locking, TypeOK
    <3> QED BY <3>1, <3>2
  <2>4. Backed(f) \/ f \in over
    <3>1. cmd[p].at = "commit" /\ Nm(p) \in Name
      BY <2>1, <2>3 DEF UpgradeCommit, At, Locking, AllSound, Sound, SharedPhase, OpenPhase
    <3>2. live[Nm(p)] = f BY <2>1, <2>3, <3>1 DEF InPlace, Opened
    <3>3. Copied(p) \/ f \in over BY <2>1, <2>3, <3>1 DEF Copies
    <3> QED BY <2>3, <3>1, <3>2, <3>3 DEF Copied, Backed
  <2>5. ASSUME NEW b \in bak, NEW c \in bak, b.file = f, c.file = f, b.by # c.by,
               ~At(b.by, "killed"), ~At(c.by, "killed")
        PROVE  FALSE
    <3> DEFINE q == b.by
               r == c.by
    <3>1. q \in Proc /\ r \in Proc BY <2>1 DEF Locking, TypeOK, Backup
    <3>2. /\ At(q, "commit") /\ cmd[q].file = f
          /\ At(r, "commit") /\ cmd[r].file = f
      BY <2>1, <2>5 DEF Copies
    <3>3. live[Nm(q)] = f /\ live[Nm(r)] = f
      BY <2>1, <3>1, <3>2 DEF InPlace, Opened, At
    <3>4. Nm(q) \in Name /\ Nm(r) \in Name
      BY <2>1, <3>1, <3>2 DEF Locking, AllSound, Sound, At, SharedPhase, OpenPhase
    <3>5. f \in Names(Nm(q)) /\ f \in Names(Nm(r)) BY <3>3 DEF Names
    <3>6. Nm(q) = Nm(r) BY <2>1, <3>4, <3>5, FilesAssumption DEF SoleHome
    <3>7. writer[Nm(q)] = q /\ writer[Nm(r)] = r BY <2>1, <3>1, <3>2 DEF Writing, At
    <3> QED BY <2>5, <3>6, <3>7
  <2> QED BY <2>4, <2>5
<1> QED BY <1>1, InvariantHolds, PTL DEF Spec, UpgradeBackedUp
=============================================================================
