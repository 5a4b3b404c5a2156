----------------------------- MODULE TrustProofs -----------------------------
(***************************************************************************)
(* What the hooks of a machine promise, for any number of commands, hooks  *)
(* and files, any boards and any settings to start from.                   *)
(*                                                                         *)
(* The argument: a digest is in the settings, or in what a command is      *)
(* about to write there, only when a person confirmed it for that name     *)
(* (Confirmed); the file of a run is held from its check to its end, and   *)
(* holds what that digest stands for until somebody writes it in place     *)
(* (Fires); the answers counted so far are those of the list asked for at  *)
(* the start (Judged); and who is about to rename the settings holds their *)
(* lock, so the other keys are still as they were read under it (Locked).  *)
(***************************************************************************)
EXTENDS Trust, TLAPS

\* The phases of one run, from the entry to the answer.
Held == {"ticket", "fill", "spawn", "running", "drain"}
Firing == {"entry", "check"} \cup Held
Phase == {"unborn", "start", "look", "lock", "write", "rename", "commit"} \cup Firing \cup Over
Token == Proc \X Nat

CmdRow == [at : Phase, hooks : Entries, default : Proc \cup {None}, path : Path \cup {None},
           digest : Bytes \cup {None}, entry : Entry, file : File \cup {None},
           asked : Seq(Hook), after : Hook \cup {None}, k : Nat \ {0}, post : BOOLEAN,
           ok : SUBSET Hook, skip : BOOLEAN, from : Token \cup {None}, depth : Nat]

TypeOK ==
  /\ settings \in [hooks : Entries, default : Proc \cup {None}, whole : BOOLEAN]
  /\ held \in Proc \cup {None}
  /\ leads \in [Argv -> Path \cup {None}] /\ bin \in [Path -> File \cup {None}]
  /\ bytes \in [File -> Bytes] /\ loose \subseteq Path /\ rewritten \subseteq Proc
  /\ asks \in [Board -> Wants]
  /\ tickets \subseteq [token : Token, whole : BOOLEAN]
  /\ plan \in [Proc -> PlanRow] /\ cmd \in [Proc -> CmdRow]
  /\ kid \in [Proc -> {"none", "run", "ok", "no", "killed"}]
  /\ grand \in [Proc -> SUBSET {"group", "own"}]
  /\ ran \in [Proc -> File \cup {None}]
  /\ proofs \subseteq Hook \X Bytes /\ spoiled \in BOOLEAN /\ meddled \in Nat

Proven(h, e) == e # None /\ e.digest # None => <<h, e.digest>> \in proofs

Confirmed ==
  /\ \A h \in Hook : Proven(h, settings.hooks[h])
  /\ \A p \in Proc : /\ \A h \in Hook : Proven(h, cmd[p].hooks[h])
                     /\ cmd[p].digest # None => <<plan[p].hook, cmd[p].digest>> \in proofs

\* What p's run has in hand: its hook's entry, and the file that was checked.
FiresWell(p) ==
  /\ cmd[p].at \in Firing /\ cmd[p].post => cmd[p].after \in Hook
  /\ cmd[p].at \in Firing /\ ~cmd[p].post => cmd[p].k \in 1..Len(cmd[p].asked)
  /\ cmd[p].at \in {"check"} \cup Held => Proven(HookOf(p), cmd[p].entry)
  /\ cmd[p].at \in Held => /\ cmd[p].file \in File /\ cmd[p].entry.digest \in Bytes
                           /\ p \notin rewritten => bytes[cmd[p].file] = cmd[p].entry.digest
  /\ At(p, "running") => ran[p] = cmd[p].file
Fires == \A p \in Proc : FiresWell(p)

\* What p has been answered so far.
GatedFor(p) ==
  \/ plan[p].glass
  \/ Range(cmd[p].asked) \subseteq cmd[p].ok /\ ~cmd[p].skip
  \/ cmd[p].skip /\ plan[cmd[p].from[1]].board = plan[p].board
JudgedWell(p) ==
  /\ cmd[p].at \in {"unborn", "start"} => ~cmd[p].post /\ ~cmd[p].skip /\ cmd[p].k = 1
  /\ cmd[p].at \in Firing /\ ~cmd[p].post =>
       ~cmd[p].skip /\ \A i \in 1..(cmd[p].k - 1) : cmd[p].asked[i] \in cmd[p].ok
  /\ At(p, "commit") \/ cmd[p].post => GatedFor(p)
Judged == \A p \in Proc : JudgedWell(p)

LockedWell(p) ==
  /\ cmd[p].at \in {"write", "rename"} => held = p
  /\ At(p, "rename") =>
       IF plan[p].op = "default" THEN cmd[p].hooks = settings.hooks
       ELSE cmd[p].default = settings.default
Locked == \A p \in Proc : LockedWell(p)

IInv == TypeOK /\ LeftWhole /\ Confirmed /\ Fires /\ Judged /\ Locked

-----------------------------------------------------------------------------
(* Types                                                                   *)

LEMMA BlankTyped == Blank \in Entry
BY DEF Blank, Entry

LEMMA InitTyped == Init => TypeOK
<1> SUFFICES ASSUME Init PROVE TypeOK OBVIOUS
<1>1. PICK w \in Worlds :
        /\ plan \in [Proc -> UNION {w.plans[p] : p \in Proc}]
        /\ meddled = w.meddled
        /\ settings = [hooks |-> w.hooks, default |-> None, whole |-> TRUE]
        /\ leads = w.leads /\ bin = w.bin /\ bytes = w.bytes /\ asks = w.asks
        /\ cmd = [p \in Proc |-> Resting(IF p \in w.runs THEN "start"
                                         ELSE IF p \in w.nested THEN "unborn" ELSE "ended")]
        /\ proofs = {<<h, w.hooks[h].digest>> : h \in {g \in Hook : w.hooks[g] # None}}
                    \cap (Hook \X Bytes)
  BY DEF Init
<1>2. w \in Machine BY WorldsAssumption
<1>3. plan \in [Proc -> PlanRow] BY <1>1, <1>2 DEF Machine
<1>4. cmd \in [Proc -> CmdRow]
  <2>1. \A ph \in {"start", "unborn", "ended"} : Resting(ph) \in CmdRow
    BY BlankTyped DEF Resting, CmdRow, Phase, Firing, Held, Over, Entries
  <2> QED BY <1>1, <2>1
<1> QED BY <1>1, <1>2, <1>3, <1>4 DEF Init, TypeOK, Machine

\* What a command leaves in the map of all hooks.
LEMMA EditedTyped ==
  ASSUME NEW p \in Proc, plan[p] \in PlanRow, cmd[p] \in CmdRow, NEW hooks \in Entries
  PROVE  Edited(p, hooks) \in Entries
<1> DEFINE old == IF hooks[plan[p].hook] = None THEN Blank ELSE hooks[plan[p].hook]
<1>1. plan[p].hook \in Hook /\ plan[p].argv \in Argv BY DEF PlanRow
<1>2. old \in Entry BY <1>1, BlankTyped DEF Entries
<1>3. cmd[p].path \in Path \cup {None} /\ cmd[p].digest \in Bytes \cup {None} BY DEF CmdRow
<1> HIDE DEF old
<1> DEFINE new == CASE plan[p].op = "record" -> [argv |-> plan[p].argv, path |-> cmd[p].path,
                                                 digest |-> None, secs |-> "usual"]
                    [] plan[p].op = "confirm" -> [old EXCEPT !.path = cmd[p].path,
                                                             !.digest = cmd[p].digest]
                    [] plan[p].op = "timeout" -> [old EXCEPT !.secs = "longer"]
                    [] OTHER -> None
<1>4. new \in Entry \cup {None} BY <1>1, <1>2, <1>3 DEF Entry
<1>5. Edited(p, hooks) = [hooks EXCEPT ![plan[p].hook] = new] BY DEF Edited, old
<1> QED BY <1>4, <1>5 DEF Entries

\* A command that only goes on, or ends.
LEMMA GoTyped ==
  ASSUME TypeOK, NEW p \in Proc, NEW ph \in Phase, Go(p, ph)
  PROVE  cmd' \in [Proc -> CmdRow]
<1>1. cmd \in [Proc -> CmdRow] BY DEF TypeOK
<1>2. [cmd[p] EXCEPT !.at = ph] \in CmdRow BY <1>1 DEF CmdRow
<1> QED BY <1>1, <1>2 DEF Go

LEMMA SavingTyped ==
  ASSUME TypeOK, NEW p \in Proc, Saving(p)
  PROVE  TypeOK'
<1> USE DEF diskVars, kidVars
<1>0. plan[p] \in PlanRow /\ cmd[p] \in CmdRow /\ cmd \in [Proc -> CmdRow] BY DEF TypeOK
<1>1. CASE Record(p)
  <2>1. cmd' \in [Proc -> CmdRow]
    <3>1. CASE Resolves(plan[p].argv)
      <4>1. leads[plan[p].argv] \in Path BY <3>1, <1>0 DEF Resolves, TypeOK, PlanRow
      <4>2. [cmd[p] EXCEPT !.at = "look", !.path = leads[plan[p].argv]] \in CmdRow
        BY <1>0, <4>1 DEF CmdRow, Phase
      <4> QED BY <1>0, <1>1, <3>1, <4>2 DEF Record
    <3>2. CASE ~Resolves(plan[p].argv) BY <1>1, <3>2, GoTyped DEF Record, Phase, Over
    <3> QED BY <3>1, <3>2
  <2> QED BY <1>1, <2>1 DEF Record, TypeOK
<1>2. CASE Confirm(p)
  <2> DEFINE e == settings.hooks[plan[p].hook]
  <2>1. CASE Go(p, "refused") /\ UNCHANGED proofs
    BY <1>2, <2>1, GoTyped DEF Confirm, TypeOK, Phase, Over
  <2>2. CASE ~(Go(p, "refused") /\ UNCHANGED proofs)
    <3>1. e # None /\ Resolves(e.argv) BY <1>2, <2>2 DEF Confirm
    <3>2. PICK given \in Bytes :
            /\ cmd' = [cmd EXCEPT ![p].at = "look", ![p].path = leads[e.argv], ![p].digest = given]
            /\ proofs' = proofs \cup {<<plan[p].hook, given>>}
      BY <1>2, <2>2 DEF Confirm
    <3>3. plan[p].hook \in Hook BY <1>0 DEF PlanRow
    <3>4. e \in Entry BY <3>1, <3>3 DEF TypeOK, Entries
    <3>5. leads[e.argv] \in Path BY <3>1, <3>4 DEF Resolves, TypeOK, Entry
    <3>6. [cmd[p] EXCEPT !.at = "look", !.path = leads[e.argv], !.digest = given] \in CmdRow
      BY <1>0, <3>5 DEF CmdRow, Phase
    <3>7. cmd' \in [Proc -> CmdRow] BY <1>0, <3>2, <3>6
    <3>8. proofs' \subseteq Hook \X Bytes BY <3>2, <3>3 DEF TypeOK
    <3>9. UNCHANGED <<settings, held, diskVars, asks, tickets, plan, kidVars, spoiled, meddled>>
      BY <1>2 DEF Confirm
    <3> QED BY <3>7, <3>8, <3>9 DEF TypeOK
  <2> QED BY <2>1, <2>2
<1>3. CASE Retime(p)
  BY <1>3, GoTyped DEF Retime, TypeOK, Phase, Over
<1>4. CASE Look(p)
  <2>1. cmd' \in [Proc -> CmdRow]
    <3> DEFINE hooks == IF plan[p].op = "default" THEN settings.hooks
                        ELSE Edited(p, settings.hooks)
    <3>1. settings.hooks \in Entries BY DEF TypeOK
    <3>2. hooks \in Entries BY <1>0, <3>1, EditedTyped
    <3> HIDE DEF hooks
    <3>3. [cmd[p] EXCEPT !.at = "lock", !.default = settings.default, !.hooks = hooks] \in CmdRow
      BY <1>0, <3>2 DEF CmdRow, Phase, TypeOK
    <3>4. CASE cmd' = [cmd EXCEPT ![p].at = "lock", ![p].default = settings.default,
                                  ![p].hooks = hooks]
      BY <1>0, <3>3, <3>4
    <3>5. CASE \E ph \in {"refused", "ended"} : Go(p, ph) BY <3>5, GoTyped DEF Phase, Over
    <3> QED BY <1>4, <3>4, <3>5 DEF Look, hooks
  <2> QED BY <1>4, <2>1 DEF Look, TypeOK
<1>5. CASE Lock(p) \/ LockBusy(p)
  BY <1>5, GoTyped DEF Lock, LockBusy, TypeOK, Phase, Over
<1>6. CASE Write(p)
  <2>1. Merged(p) \in [hooks : Entries, default : Proc \cup {None}, whole : BOOLEAN]
    BY <1>0 DEF Merged, Fresh, TypeOK, CmdRow
  <2>2. [cmd[p] EXCEPT !.at = "rename", !.hooks = Merged(p).hooks,
                       !.default = Merged(p).default] \in CmdRow
    BY <1>0, <2>1 DEF CmdRow, Phase, Firing, Held, Over
  <2>3. cmd' \in [Proc -> CmdRow]
    <3>1. CASE cmd' = [cmd EXCEPT ![p].at = "rename", ![p].hooks = Merged(p).hooks,
                                  ![p].default = Merged(p).default]
      BY <1>0, <2>2, <3>1
    <3>2. CASE \E ph \in {"refused", "ended"} : Go(p, ph) BY <3>2, GoTyped DEF Phase, Over
    <3> QED BY <1>6, <3>1, <3>2 DEF Write
  <2> QED BY <1>6, <2>3 DEF Write, TypeOK, Begun, Unlocked
<1>7. CASE Rename(p)
  <2>1. cmd' \in [Proc -> CmdRow] BY <1>7, GoTyped DEF Rename, Phase, Over
  <2>2. settings' \in [hooks : Entries, default : Proc \cup {None}, whole : BOOLEAN]
    BY <1>0, <1>7 DEF Rename, CmdRow
  <2> QED BY <1>7, <2>1, <2>2 DEF Rename, TypeOK, Unlocked
<1> QED BY <1>1, <1>2, <1>3, <1>4, <1>5, <1>6, <1>7 DEF Saving

\* The hook a run is about is a hook.
LEMMA HookTyped ==
  ASSUME TypeOK, Fires, NEW p \in Proc, cmd[p].at \in Firing
  PROVE  HookOf(p) \in Hook
<1>1. cmd[p] \in CmdRow BY DEF TypeOK
<1>2. CASE cmd[p].post BY <1>2 DEF Fires, FiresWell, HookOf
<1>3. CASE ~cmd[p].post
  <2>1. cmd[p].asked \in Seq(Hook) /\ cmd[p].k \in 1..Len(cmd[p].asked)
    BY <1>1, <1>3 DEF Fires, FiresWell, CmdRow
  <2> QED BY <1>3, <2>1 DEF HookOf
<1> QED BY <1>2, <1>3

LEMMA AskingTyped ==
  ASSUME TypeOK, Fires, NEW p \in Proc, Asking(p)
  PROVE  TypeOK'
<1> USE DEF diskVars, kidVars
<1>0. plan[p] \in PlanRow /\ cmd[p] \in CmdRow /\ cmd \in [Proc -> CmdRow] BY DEF TypeOK
<1>t. TokenOf(p) \in Token BY <1>0 DEF TokenOf, Token, CmdRow
<1>f. Failed(p) \in Phase BY DEF Failed, Phase, Over
<1>1. CASE SetHook(p)
  <2>1. cmd' \in [Proc -> CmdRow] BY <1>1, GoTyped DEF SetHook, Phase, Over
  <2>2. asks' \in [Board -> Wants]
    <3> DEFINE new == [asks[plan[p].board] EXCEPT !.pre = plan[p].list]
    <3>1. plan[p].list \in Seq(Hook) /\ plan[p].board \in Board BY <1>0 DEF PlanRow
    <3>2. asks \in [Board -> Wants] /\ asks[plan[p].board] \in Wants BY <3>1 DEF TypeOK
    <3>3. new \in Wants BY <3>1, <3>2 DEF Wants
    <3>4. asks' = [asks EXCEPT ![plan[p].board] = new] BY <1>1 DEF SetHook
    <3> HIDE DEF new
    <3> QED BY <3>1, <3>2, <3>3, <3>4
  <2>3. UNCHANGED <<settings, held, diskVars, tickets, plan, kidVars, proofs, spoiled, meddled>>
    BY <1>1 DEF SetHook
  <2> QED BY <2>1, <2>2, <2>3 DEF TypeOK
<1>2. CASE Judge(p)
  <2>1. asks[plan[p].board] \in Wants BY <1>0 DEF TypeOK, PlanRow
  <2> DEFINE pre == IF Nested(p) THEN <<>> ELSE asks[plan[p].board].pre
             after == IF Nested(p) THEN None ELSE asks[plan[p].board].post
             ph == IF plan[p].glass /\ ~Nested(p) /\ pre = <<>> THEN "refused"
                   ELSE IF plan[p].glass \/ pre = <<>> THEN "commit" ELSE "entry"
             row == [cmd[p] EXCEPT !.skip = Nested(p), !.asked = pre, !.after = after, !.at = ph]
  <2>2. pre \in Seq(Hook) /\ after \in Hook \cup {None} BY <2>1 DEF Wants
  <2>3. ph \in Phase BY DEF Phase, Over, Firing
  <2>4. Nested(p) \in BOOLEAN BY DEF Nested
  <2>5. cmd' = [cmd EXCEPT ![p].skip = Nested(p), ![p].asked = pre, ![p].after = after,
                           ![p].at = ph]
    BY <1>2 DEF Judge
  <2> HIDE DEF pre, after, ph
  <2>6. row \in CmdRow BY <1>0, <2>2, <2>3, <2>4 DEF CmdRow
  <2>7. cmd' \in [Proc -> CmdRow] BY <1>0, <2>5, <2>6
  <2> QED BY <1>2, <2>7 DEF Judge, TypeOK
<1>3. CASE LoadEntry(p)
  <2>1. CASE Go(p, Failed(p)) BY <1>3, <1>f, <2>1, GoTyped DEF LoadEntry, TypeOK
  <2>2. CASE ~Go(p, Failed(p))
    <3>1. HookOf(p) \in Hook BY <1>3, HookTyped DEF LoadEntry, At, Firing
    <3>2. settings.hooks[HookOf(p)] \in Entry
      BY <1>3, <2>2, <3>1 DEF LoadEntry, TypeOK, Entries
    <3>3. [cmd[p] EXCEPT !.at = "check", !.entry = settings.hooks[HookOf(p)]] \in CmdRow
      BY <1>0, <3>2 DEF CmdRow, Phase, Firing
    <3>4. cmd' \in [Proc -> CmdRow] BY <1>0, <1>3, <2>2, <3>3 DEF LoadEntry
    <3> QED BY <1>3, <3>4 DEF LoadEntry, TypeOK
  <2> QED BY <2>1, <2>2
<1>4. CASE Check(p)
  <2>1. CASE Go(p, Failed(p)) BY <1>4, <1>f, <2>1, GoTyped DEF Check, TypeOK
  <2>2. CASE ~Go(p, Failed(p))
    <3> DEFINE e == cmd[p].entry
    <3>1. e \in Entry BY <1>0 DEF CmdRow
    <3>2. Resolves(e.argv) BY <1>4, <2>2 DEF Check, Trusted
    <3>3. bin[leads[e.argv]] \in File BY <3>1, <3>2 DEF Resolves, TypeOK, Entry
    <3>4. [cmd[p] EXCEPT !.at = "ticket", !.file = bin[leads[e.argv]]] \in CmdRow
      BY <1>0, <3>3 DEF CmdRow, Phase, Firing, Held
    <3>5. cmd' \in [Proc -> CmdRow] BY <1>0, <1>4, <2>2, <3>4 DEF Check
    <3> QED BY <1>4, <3>5 DEF Check, TypeOK
  <2> QED BY <2>1, <2>2
<1>5. CASE OpenTicket(p)
  <2>1. cmd' \in [Proc -> CmdRow] BY <1>5, GoTyped DEF OpenTicket, Phase, Firing, Held
  <2>2. tickets' \subseteq [token : Token, whole : BOOLEAN]
    <3>1. [token |-> TokenOf(p), whole |-> FALSE] \in [token : Token, whole : BOOLEAN] BY <1>t
    <3>2. Pruned \subseteq tickets BY DEF Pruned
    <3> QED BY <1>5, <3>1, <3>2 DEF OpenTicket, TypeOK
  <2> QED BY <1>5, <2>1, <2>2 DEF OpenTicket, TypeOK
<1>6. CASE FillTicket(p)
  <2>1. cmd' \in [Proc -> CmdRow] BY <1>6, GoTyped DEF FillTicket, Phase, Firing, Held
  <2>2. tickets' \subseteq [token : Token, whole : BOOLEAN]
    <3>1. \A t \in tickets : t \in [token : Token, whole : BOOLEAN] BY DEF TypeOK
    <3>2. \A t \in tickets : [t EXCEPT !.whole = TRUE] \in [token : Token, whole : BOOLEAN]
      BY <3>1
    <3> QED BY <1>6, <3>1, <3>2 DEF FillTicket
  <2> QED BY <1>6, <2>1, <2>2 DEF FillTicket, TypeOK
<1>7. CASE Spawn(p)
  <2>1. cmd' \in [Proc -> CmdRow] BY <1>7, GoTyped DEF Spawn, Phase, Firing, Held
  <2>2. ran' \in [Proc -> File \cup {None}] BY <1>0, <1>7 DEF Spawn, TypeOK, ByHandle, CmdRow
  <2> QED BY <1>7, <2>1, <2>2 DEF Spawn, TypeOK
<1>8. CASE NoSpawn(p)
  <2>1. cmd' \in [Proc -> CmdRow] BY <1>8, <1>f, GoTyped DEF NoSpawn
  <2> QED BY <1>8, <2>1 DEF NoSpawn, TypeOK
<1>9. CASE Poll(p)
  <2>1. cmd' \in [Proc -> CmdRow] BY <1>9, GoTyped DEF Poll, Phase, Firing, Held
  <2> QED BY <1>9, <2>1 DEF Poll, TypeOK
<1>10. CASE Timeout(p)
  <2>1. \A q \in Proc : /\ [cmd[q] EXCEPT !.at = "drain"] \in CmdRow
                        /\ [cmd[q] EXCEPT !.at = "killed"] \in CmdRow
                        /\ cmd[q] \in CmdRow
    <3> TAKE q \in Proc
    <3>1. cmd[q] \in CmdRow BY DEF TypeOK
    <3> QED BY <3>1 DEF CmdRow, Phase, Firing, Held, Over
  <2>2. cmd' \in [Proc -> CmdRow] BY <1>10, <2>1 DEF Timeout
  <2>3. held' \in Proc \cup {None} BY <1>10 DEF Timeout, TypeOK
  <2>4. grand' \in [Proc -> SUBSET {"group", "own"}]
    <3>1. \E S \in SUBSET {"group", "own"} : grand' = [grand EXCEPT ![p] = S]
      BY <1>10 DEF Timeout, TypeOK
    <3> QED BY <3>1 DEF TypeOK
  <2>5. kid' \in [Proc -> {"none", "run", "ok", "no", "killed"}] BY <1>10 DEF Timeout, TypeOK
  <2> QED BY <1>10, <2>2, <2>3, <2>4, <2>5 DEF Timeout, TypeOK
<1>11. CASE Drain(p)
  <2> DEFINE ok == cmd[p].ok \cup Counted(p)
             k == cmd[p].k + 1
             ph == Onward(p)
  <2>1. HookOf(p) \in Hook BY <1>11, HookTyped DEF Drain, At, Firing, Held
  <2>2. ok \in SUBSET Hook BY <1>0, <2>1 DEF Counted, CmdRow
  <2>3. ph \in Phase BY DEF Onward, Phase, Over, Firing
  <2>4. k \in Nat \ {0} BY <1>0 DEF CmdRow
  <2>5. cmd' = [cmd EXCEPT ![p] = [cmd[p] EXCEPT !.ok = ok, !.k = k, !.file = None,
                                                 !.entry = Blank, !.at = ph]]
    BY <1>0, <1>11 DEF Drain, CmdRow
  <2> HIDE DEF ok, k, ph
  <2>6. [cmd[p] EXCEPT !.ok = ok, !.k = k, !.file = None, !.entry = Blank, !.at = ph] \in CmdRow
    BY <1>0, <2>2, <2>3, <2>4, BlankTyped DEF CmdRow
  <2>7. cmd' \in [Proc -> CmdRow] BY <1>0, <2>5, <2>6
  <2> QED BY <1>11, <2>7 DEF Drain, TypeOK
<1>12. CASE Commit(p)
  <2>1. CASE Go(p, "refused")
    BY <1>12, <2>1, GoTyped DEF Commit, TypeOK, Phase, Over
  <2>2. CASE ~Go(p, "refused")
    <3> DEFINE ph == IF cmd[p].after = None THEN "ended" ELSE "entry"
    <3>1. ph \in Phase BY DEF Phase, Over, Firing
    <3>2. cmd' = [cmd EXCEPT ![p].at = ph, ![p].post = TRUE] BY <1>12, <2>2 DEF Commit
    <3> HIDE DEF ph
    <3>3. [cmd[p] EXCEPT !.at = ph, !.post = TRUE] \in CmdRow BY <1>0, <3>1 DEF CmdRow
    <3>4. cmd' \in [Proc -> CmdRow] BY <1>0, <3>2, <3>3
    <3> QED BY <1>12, <3>4 DEF Commit, TypeOK
  <2> QED BY <2>1, <2>2
<1> QED BY <1>1, <1>2, <1>3, <1>4, <1>5, <1>6, <1>7, <1>8, <1>9, <1>10, <1>11, <1>12 DEF Asking

LEMMA OthersTyped ==
  ASSUME TypeOK
  PROVE  /\ \A p \in Proc : Hooking(p) => TypeOK'
         /\ \A p \in Mortal : Kill(p) => TypeOK'
         /\ Meddle => TypeOK'
<1> USE DEF diskVars, kidVars
<1>1. ASSUME NEW p \in Proc, Hooking(p) PROVE TypeOK'
  <2>1. CASE Answer(p) BY <2>1 DEF Answer, TypeOK
  <2>3. CASE Fork(p) BY <2>3 DEF Fork, TypeOK
  <2>5. CASE LeaveGroup(p) BY <2>5 DEF LeaveGroup, TypeOK
  <2>4. CASE GrandEnds(p) BY <2>4 DEF GrandEnds, TypeOK
  <2>2. CASE CallTb(p)
    <3>1. PICK q \in Proc : cmd' = [cmd EXCEPT ![q].at = "start", ![q].from = TokenOf(p),
                                               ![q].depth = cmd[p].depth + 1]
      BY <2>2 DEF CallTb
    <3>2. cmd \in [Proc -> CmdRow] /\ cmd[p] \in CmdRow /\ cmd[q] \in CmdRow BY DEF TypeOK
    <3>3. TokenOf(p) \in Token /\ cmd[p].depth + 1 \in Nat BY <3>2 DEF TokenOf, Token, CmdRow
    <3>4. [cmd[q] EXCEPT !.at = "start", !.from = TokenOf(p), !.depth = cmd[p].depth + 1] \in CmdRow
      BY <3>2, <3>3 DEF CmdRow, Phase
    <3>5. cmd' \in [Proc -> CmdRow] BY <3>1, <3>2, <3>4
    <3> QED BY <2>2, <3>5 DEF CallTb, TypeOK
  <2> QED BY <1>1, <2>1, <2>2, <2>3, <2>4, <2>5 DEF Hooking
<1>2. ASSUME NEW p \in Mortal, Kill(p) PROVE TypeOK'
  <2>1. p \in Proc BY TrustAssumption
  <2>2. cmd' \in [Proc -> CmdRow] BY <1>2, <2>1, GoTyped DEF Kill, Phase, Over
  <2> QED BY <1>2, <2>2 DEF Kill, TypeOK, Unlocked
<1>3. ASSUME Meddle PROVE TypeOK'
  <2>1. /\ settings' \in [hooks : Entries, default : Proc \cup {None}, whole : BOOLEAN]
        /\ leads' \in [Argv -> Path \cup {None}] /\ bin' \in [Path -> File \cup {None}]
        /\ loose' \subseteq Path /\ spoiled' \in BOOLEAN /\ meddled' \in Nat
        /\ bytes' \in [File -> Bytes] /\ rewritten' \subseteq Proc
    <3>1. CASE /\ \E q \in Path, f \in File : bin' = [bin EXCEPT ![q] = f]
               /\ UNCHANGED <<settings, leads, bytes, loose, rewritten, spoiled>>
      BY <1>3, <3>1 DEF Meddle, TypeOK
    <3>2. CASE /\ \E a \in Argv, q \in Path : leads' = [leads EXCEPT ![a] = q]
               /\ UNCHANGED <<settings, bin, bytes, loose, rewritten, spoiled>>
      BY <1>3, <3>2 DEF Meddle, TypeOK
    <3>3. CASE /\ \E q \in Path : loose' = loose \cup {q}
               /\ UNCHANGED <<settings, leads, bin, bytes, rewritten, spoiled>>
      BY <1>3, <3>3 DEF Meddle, TypeOK
    <3>4. CASE /\ settings' = [settings EXCEPT !.whole = FALSE] /\ spoiled' = TRUE
               /\ UNCHANGED <<leads, bin, bytes, loose, rewritten>>
      <4>1. settings' \in [hooks : Entries, default : Proc \cup {None}, whole : BOOLEAN]
        BY <3>4 DEF TypeOK
      <4> QED BY <1>3, <3>4, <4>1 DEF Meddle, TypeOK
    <3>5. CASE /\ \E f \in File, x \in Bytes :
                    /\ bytes' = [bytes EXCEPT ![f] = x]
                    /\ rewritten' = rewritten \cup {p \in Proc : cmd[p].file = f}
               /\ UNCHANGED <<settings, leads, bin, loose, spoiled>>
      BY <1>3, <3>5 DEF Meddle, TypeOK
    <3> QED BY <1>3, <3>1, <3>2, <3>3, <3>4, <3>5 DEF Meddle
  <2> QED BY <1>3, <2>1 DEF Meddle, TypeOK
<1> QED BY <1>1, <1>2, <1>3

-----------------------------------------------------------------------------
(* What each kind of step leaves alone                                     *)

Answers(p) == <<cmd[p].post, cmd[p].asked, cmd[p].ok, cmd[p].skip, cmd[p].from, cmd[p].k>>
Keys(p) == <<cmd[p].hooks, cmd[p].default, cmd[p].digest>>
Beginning(p) == <<cmd[p].post, cmd[p].skip, cmd[p].k, Keys(p)>>

\* Nobody wrote what p checked, or it is known that somebody did.
StillReads(p) ==
  p \notin rewritten' =>
    p \notin rewritten /\ (cmd[p].file \in File => bytes'[cmd[p].file] = bytes[cmd[p].file])

\* A command that changes the settings asks no hook.
LEMMA SavingFrame ==
  ASSUME TypeOK, NEW p \in Proc, Saving(p)
  PROVE  /\ UNCHANGED <<bytes, rewritten, plan, ran>> /\ proofs \subseteq proofs'
         /\ \A q \in Proc \ {p} : cmd'[q] = cmd[q]
         /\ cmd'[p].at \in {"look", "lock", "write", "rename", "ended", "refused"}
         /\ Answers(p)' = Answers(p)
<1> USE DEF diskVars, kidVars, Answers
<1>0. cmd[p] \in CmdRow /\ cmd \in [Proc -> CmdRow] BY DEF TypeOK
<1>1. CASE Record(p) BY <1>0, <1>1 DEF Record, Go, CmdRow
<1>2. CASE Confirm(p)
  <2>1. CASE Go(p, "refused") /\ UNCHANGED proofs
    BY <1>0, <1>2, <2>1 DEF Confirm, Go, CmdRow
  <2>2. CASE \E given \in Bytes :
               /\ cmd' = [cmd EXCEPT ![p].at = "look",
                            ![p].path = leads[settings.hooks[plan[p].hook].argv],
                            ![p].digest = given]
               /\ proofs' = proofs \cup {<<plan[p].hook, given>>}
    <3> DEFINE x == leads[settings.hooks[plan[p].hook].argv]
    <3>1. PICK given : /\ cmd' = [cmd EXCEPT ![p].at = "look", ![p].path = x, ![p].digest = given]
                       /\ proofs' = proofs \cup {<<plan[p].hook, given>>}
      BY <2>2
    <3> HIDE DEF x
    <3>2. /\ \A q \in Proc \ {p} : cmd'[q] = cmd[q]
          /\ cmd'[p].at = "look"
          /\ Answers(p)' = Answers(p)
      BY <1>0, <3>1 DEF CmdRow
    <3>3. UNCHANGED <<bytes, rewritten, plan, ran>> BY <1>2 DEF Confirm
    <3> QED BY <3>1, <3>2, <3>3
  <2> QED BY <1>2, <2>1, <2>2 DEF Confirm
<1>3. CASE Retime(p) BY <1>0, <1>3 DEF Retime, Go, CmdRow
<1>4. CASE Look(p)
  <2>1. CASE \E ph \in {"refused", "ended"} : Go(p, ph)
    BY <1>0, <1>4, <2>1 DEF Look, Go, CmdRow
  <2>2. CASE \E hooks : cmd' = [cmd EXCEPT ![p].at = "lock", ![p].default = settings.default,
                                           ![p].hooks = hooks]
    BY <1>0, <1>4, <2>2 DEF Look, CmdRow
  <2> QED BY <1>4, <2>1, <2>2 DEF Look
<1>5. CASE Lock(p) BY <1>0, <1>5 DEF Lock, Go, CmdRow
<1>6. CASE LockBusy(p) BY <1>0, <1>6 DEF LockBusy, Go, CmdRow
<1>7. CASE Write(p)
  <2>1. CASE \E ph \in {"refused", "ended"} : Go(p, ph)
    BY <1>0, <1>7, <2>1 DEF Write, Go, CmdRow
  <2>2. CASE cmd' = [cmd EXCEPT ![p].at = "rename", ![p].hooks = Merged(p).hooks,
                                ![p].default = Merged(p).default]
    BY <1>0, <1>7, <2>2 DEF Write, CmdRow
  <2> QED BY <1>7, <2>1, <2>2 DEF Write
<1>8. CASE Rename(p) BY <1>0, <1>8 DEF Rename, Go, CmdRow
<1> QED BY <1>1, <1>2, <1>3, <1>4, <1>5, <1>6, <1>7, <1>8 DEF Saving

\* A command that asks hooks, or changes what a board asks, writes no settings.  It may kill
\* the tb commands its hook called; nobody else loses the lock.
LEMMA AskingFrame ==
  ASSUME TypeOK, NEW p \in Proc, Asking(p)
  PROVE  /\ UNCHANGED <<settings, bytes, plan, proofs, spoiled>>
         /\ \A q \in Proc : Keys(q)' = Keys(q)
         /\ \A q \in Proc \ {p} : /\ ran'[q] = ran[q] /\ (q \in rewritten' <=> q \in rewritten)
                                  /\ \/ cmd'[q] = cmd[q] /\ (held = q => held' = q)
                                     \/ cmd'[q] = [cmd[q] EXCEPT !.at = "killed"]
         /\ cmd'[p].at \in Firing \cup {"commit", "ended", "refused"}
<1> USE DEF diskVars, kidVars, Keys
<1>0. cmd \in [Proc -> CmdRow] /\ ran \in [Proc -> File \cup {None}] BY DEF TypeOK
<1>r. \A q \in Proc : cmd[q] \in CmdRow BY <1>0
<1>f. Failed(p) \in {"ended", "refused"} BY DEF Failed
<1>g. ASSUME NEW ph \in Firing \cup {"commit", "ended", "refused"}, Go(p, ph)
      PROVE  /\ \A q \in Proc : Keys(q)' = Keys(q)
             /\ \A q \in Proc \ {p} : cmd'[q] = cmd[q]
             /\ cmd'[p].at \in Firing \cup {"commit", "ended", "refused"}
  BY <1>0, <1>r, <1>g DEF Go, CmdRow
<1>1. CASE SetHook(p) BY <1>1, <1>g DEF SetHook
<1>2. CASE Judge(p)
  <2> DEFINE pre == IF Nested(p) THEN <<>> ELSE asks[plan[p].board].pre
             after == IF Nested(p) THEN None ELSE asks[plan[p].board].post
             ph == IF plan[p].glass /\ ~Nested(p) /\ pre = <<>> THEN "refused"
                   ELSE IF plan[p].glass \/ pre = <<>> THEN "commit" ELSE "entry"
  <2>1. cmd' = [cmd EXCEPT ![p].skip = Nested(p), ![p].asked = pre, ![p].after = after,
                           ![p].at = ph]
    BY <1>2 DEF Judge
  <2>3. ph \in {"refused", "commit", "entry"} OBVIOUS
  <2> HIDE DEF pre, after, ph
  <2>2. /\ \A q \in Proc : Keys(q)' = Keys(q)
        /\ \A q \in Proc \ {p} : cmd'[q] = cmd[q]
        /\ cmd'[p].at \in Firing \cup {"commit", "ended", "refused"}
    BY <1>0, <1>r, <2>1, <2>3 DEF CmdRow, Firing
  <2> QED BY <1>2, <2>2 DEF Judge
<1>3. CASE LoadEntry(p)
  <2>1. CASE Go(p, Failed(p)) BY <1>3, <1>f, <1>g, <2>1 DEF LoadEntry
  <2>2. CASE \E e : cmd' = [cmd EXCEPT ![p].at = "check", ![p].entry = e]
    <3>1. /\ \A q \in Proc : Keys(q)' = Keys(q)
          /\ \A q \in Proc \ {p} : cmd'[q] = cmd[q]
          /\ cmd'[p].at \in Firing
      BY <1>0, <1>r, <2>2 DEF CmdRow, Firing
    <3> QED BY <1>3, <3>1 DEF LoadEntry
  <2> QED BY <1>3, <2>1, <2>2 DEF LoadEntry
<1>4. CASE Check(p)
  <2>1. CASE Go(p, Failed(p)) BY <1>4, <1>f, <1>g, <2>1 DEF Check
  <2>2. CASE \E f : cmd' = [cmd EXCEPT ![p].at = "ticket", ![p].file = f]
    <3>1. /\ \A q \in Proc : Keys(q)' = Keys(q)
          /\ \A q \in Proc \ {p} : cmd'[q] = cmd[q]
          /\ cmd'[p].at \in Firing
      BY <1>0, <1>r, <2>2 DEF CmdRow, Firing, Held
    <3> QED BY <1>4, <3>1 DEF Check
  <2> QED BY <1>4, <2>1, <2>2 DEF Check
<1>5. CASE OpenTicket(p) BY <1>5, <1>g DEF OpenTicket, Firing, Held
<1>6. CASE FillTicket(p) BY <1>6, <1>g DEF FillTicket, Firing, Held
<1>7. CASE Spawn(p)
  <2>1. \A q \in Proc \ {p} : ran'[q] = ran[q] BY <1>0, <1>7 DEF Spawn
  <2> QED BY <1>7, <1>g, <2>1 DEF Spawn, Firing, Held
<1>8. CASE NoSpawn(p) BY <1>8, <1>f, <1>g DEF NoSpawn
<1>9. CASE Poll(p) BY <1>9, <1>g DEF Poll, Firing, Held
<1>10. CASE Timeout(p)
  <2>1. \A q \in Proc : cmd'[q] = IF q = p THEN [cmd[q] EXCEPT !.at = "drain"]
                                  ELSE IF q \in Group(p) THEN [cmd[q] EXCEPT !.at = "killed"]
                                  ELSE cmd[q]
    BY <1>10 DEF Timeout
  <2>2. \A q \in Proc : Keys(q)' = Keys(q) BY <1>r, <2>1 DEF CmdRow
  <2>3. \A q \in Proc \ {p} : q \notin Group(p) => (held = q => held' = q)
    BY <1>10 DEF Timeout
  <2>4. cmd'[p].at \in Firing BY <1>r, <2>1 DEF CmdRow, Firing, Held
  <2>5. \A q \in Proc \ {p} : \/ cmd'[q] = cmd[q] /\ (held = q => held' = q)
                              \/ cmd'[q] = [cmd[q] EXCEPT !.at = "killed"]
    BY <2>1, <2>3
  <2> QED BY <1>10, <2>2, <2>4, <2>5 DEF Timeout
<1>11. CASE Drain(p)
  <2> DEFINE ok == cmd[p].ok \cup Counted(p)
             k == cmd[p].k + 1
             ph == Onward(p)
  <2>1. cmd' = [cmd EXCEPT ![p].ok = ok, ![p].k = k, ![p].file = None, ![p].entry = Blank,
                           ![p].at = ph]
    BY <1>0, <1>r, <1>11 DEF Drain, CmdRow
  <2>4. ph \in {"ended", "refused", "entry", "commit"} BY DEF Onward
  <2> HIDE DEF ok, k, ph
  <2>2. /\ \A q \in Proc : Keys(q)' = Keys(q)
        /\ \A q \in Proc \ {p} : cmd'[q] = cmd[q]
        /\ cmd'[p].at \in Firing \cup {"commit", "ended", "refused"}
    BY <1>0, <1>r, <2>1, <2>4 DEF CmdRow, Firing
  <2>3. \A q \in Proc \ {p} : ran'[q] = ran[q] BY <1>0, <1>11 DEF Drain
  <2> QED BY <1>11, <2>2, <2>3 DEF Drain
<1>12. CASE Commit(p)
  <2>1. CASE Go(p, "refused") BY <1>12, <1>g, <2>1 DEF Commit
  <2>2. CASE \E ph \in {"ended", "entry"} : cmd' = [cmd EXCEPT ![p].at = ph, ![p].post = TRUE]
    <3>1. /\ \A q \in Proc : Keys(q)' = Keys(q)
          /\ \A q \in Proc \ {p} : cmd'[q] = cmd[q]
          /\ cmd'[p].at \in Firing \cup {"commit", "ended", "refused"}
      BY <1>0, <1>r, <2>2 DEF CmdRow, Firing
    <3> QED BY <1>12, <3>1 DEF Commit
  <2> QED BY <1>12, <2>1, <2>2 DEF Commit
<1> QED BY <1>1, <1>2, <1>3, <1>4, <1>5, <1>6, <1>7, <1>8, <1>9, <1>10, <1>11, <1>12 DEF Asking

\* Hooks, others on the machine and a kill from outside: at most one command starts or ends,
\* and nobody's answers or keys change.
LEMMA OthersFrame ==
  ASSUME TypeOK, \/ \E p \in Proc : Hooking(p)
                 \/ \E p \in Mortal : Kill(p)
                 \/ Meddle
  PROVE  /\ UNCHANGED <<plan, proofs, ran>> /\ \A q \in Proc : StillReads(q)
         /\ settings'.hooks = settings.hooks /\ settings'.default = settings.default
         /\ settings'.whole = settings.whole \/ spoiled'
         /\ spoiled => spoiled'
         /\ \A q \in Proc :
              \/ cmd'[q] = cmd[q] /\ (held = q => held' = q)
              \/ cmd'[q] = [cmd[q] EXCEPT !.at = "killed"]
              \/ At(q, "unborn") /\ At(q, "start")' /\ Beginning(q)' = Beginning(q)
<1> USE DEF diskVars, kidVars
<1>0. cmd \in [Proc -> CmdRow] BY DEF TypeOK
<1>r. \A q \in Proc : cmd[q] \in CmdRow BY <1>0
<1>1. ASSUME NEW p \in Proc, Answer(p) \/ Fork(p) \/ LeaveGroup(p) \/ GrandEnds(p)
      PROVE  UNCHANGED <<settings, held, bytes, rewritten, plan, cmd, proofs, ran, spoiled>>
  BY <1>1 DEF Answer, Fork, LeaveGroup, GrandEnds
<1>2. ASSUME NEW p \in Proc, CallTb(p)
      PROVE  /\ UNCHANGED <<settings, held, bytes, rewritten, plan, proofs, ran, spoiled>>
             /\ \A q \in Proc :
                  \/ cmd'[q] = cmd[q]
                  \/ At(q, "unborn") /\ At(q, "start")' /\ Beginning(q)' = Beginning(q)
  <2>1. PICK u \in Proc : /\ At(u, "unborn")
                          /\ cmd' = [cmd EXCEPT ![u].at = "start", ![u].from = TokenOf(p),
                                                ![u].depth = cmd[p].depth + 1]
    BY <1>2 DEF CallTb
  <2> DEFINE d == cmd[p].depth + 1
  <2>2. cmd' = [cmd EXCEPT ![u].at = "start", ![u].from = TokenOf(p), ![u].depth = d] BY <2>1
  <2> HIDE DEF d
  <2>3. At(u, "start")' /\ Beginning(u)' = Beginning(u) BY <1>0, <1>r, <2>2 DEF CmdRow, At, Beginning, Keys
  <2>4. \A q \in Proc \ {u} : cmd'[q] = cmd[q] BY <1>0, <2>2
  <2>5. UNCHANGED <<settings, held, bytes, rewritten, plan, proofs, ran, spoiled>> BY <1>2 DEF CallTb
  <2> QED BY <2>1, <2>3, <2>4, <2>5
<1>3. ASSUME NEW p \in Mortal, Kill(p)
      PROVE  /\ UNCHANGED <<settings, bytes, rewritten, plan, proofs, ran, spoiled>>
             /\ \A q \in Proc : \/ cmd'[q] = cmd[q] /\ (held = q => held' = q)
                                \/ cmd'[q] = [cmd[q] EXCEPT !.at = "killed"]
  BY <1>0, <1>3, TrustAssumption DEF Kill, Go, Unlocked
<1>4. ASSUME Meddle
      PROVE  /\ UNCHANGED <<held, plan, cmd, proofs, ran>> /\ \A q \in Proc : StillReads(q)
             /\ settings'.hooks = settings.hooks /\ settings'.default = settings.default
             /\ settings'.whole = settings.whole \/ spoiled'
             /\ spoiled => spoiled'
  <2>u. ASSUME NEW q \in Proc PROVE StillReads(q)
    <3>1. CASE UNCHANGED <<bytes, rewritten>> BY <3>1 DEF StillReads
    <3>2. CASE \E f \in File, x \in Bytes :
                 /\ bytes' = [bytes EXCEPT ![f] = x]
                 /\ rewritten' = rewritten \cup {p \in Proc : cmd[p].file = f}
      <4>1. PICK f \in File, x \in Bytes :
              /\ bytes' = [bytes EXCEPT ![f] = x]
              /\ rewritten' = rewritten \cup {p \in Proc : cmd[p].file = f}
        BY <3>2
      <4>2. q \notin rewritten' => q \notin rewritten /\ cmd[q].file # f BY <4>1
      <4>3. \A g \in File : g # f => bytes'[g] = bytes[g] BY <4>1 DEF TypeOK
      <4> QED BY <4>2, <4>3 DEF StillReads
    <3> QED BY <1>4, <3>1, <3>2 DEF Meddle
  <2>1. CASE UNCHANGED <<settings, spoiled>> BY <1>4, <2>1, <2>u DEF Meddle
  <2>2. CASE settings' = [settings EXCEPT !.whole = FALSE] /\ spoiled'
    <3>1. settings'.hooks = settings.hooks /\ settings'.default = settings.default
      BY <2>2 DEF TypeOK
    <3> QED BY <1>4, <2>2, <2>u, <3>1 DEF Meddle
  <2> QED BY <1>4, <2>1, <2>2 DEF Meddle
<1> QED BY <1>1, <1>2, <1>3, <1>4 DEF Hooking, StillReads

-----------------------------------------------------------------------------
(* Digests a person confirmed, and the lock of the settings                *)

\* What a command is about to write has no digest that was not in the settings or confirmed.
LEMMA EditedProven ==
  ASSUME NEW p \in Proc, plan[p] \in PlanRow, cmd[p] \in CmdRow, NEW hooks \in Entries,
         \A h \in Hook : Proven(h, hooks[h]),
         cmd[p].digest # None => <<plan[p].hook, cmd[p].digest>> \in proofs
  PROVE  \A h \in Hook : Proven(h, Edited(p, hooks)[h])
<1> DEFINE g == plan[p].hook
           old == IF hooks[g] = None THEN Blank ELSE hooks[g]
           record == [argv |-> plan[p].argv, path |-> cmd[p].path, digest |-> None,
                      secs |-> "usual"]
           confirm == [old EXCEPT !.path = cmd[p].path, !.digest = cmd[p].digest]
           timeout == [old EXCEPT !.secs = "longer"]
<1>1. g \in Hook BY DEF PlanRow
<1>2. old \in Entry BY <1>1, BlankTyped DEF Entries
<1>3. Proven(g, old) BY <1>1 DEF Proven, Blank
<1> HIDE DEF old
<1>4. Proven(g, record) BY DEF Proven
<1>5. Proven(g, confirm) BY <1>2 DEF Proven, Entry
<1>6. Proven(g, timeout)
  <2>1. timeout.digest = old.digest BY <1>2 DEF Entry
  <2>2. old.digest # None => <<g, old.digest>> \in proofs
    <3>1. CASE old = None
      BY <1>1, <3>1, BlankTyped DEF Proven, old, Blank
    <3> QED BY <1>3, <3>1 DEF Proven
  <2> QED BY <2>1, <2>2 DEF Proven
<1>7. Proven(g, None) BY DEF Proven
<1> HIDE DEF record, confirm, timeout
<1>8. PICK new \in {record, confirm, timeout, None} : Edited(p, hooks) = [hooks EXCEPT ![g] = new]
  <2>1. CASE plan[p].op = "record" BY <2>1 DEF Edited, old, record
  <2>2. CASE plan[p].op = "confirm" BY <2>2 DEF Edited, old, confirm
  <2>3. CASE plan[p].op = "timeout" BY <2>3 DEF Edited, old, timeout
  <2>4. CASE plan[p].op \notin {"record", "confirm", "timeout"} BY <2>4 DEF Edited
  <2> QED BY <2>1, <2>2, <2>3, <2>4
<1>9. Proven(g, new) BY <1>4, <1>5, <1>6, <1>7, <1>8
<1> QED
  <2> TAKE h \in Hook
  <2>1. CASE h = g BY <1>1, <1>8, <1>9, <2>1 DEF Entries
  <2>2. CASE h # g BY <1>8, <2>2 DEF Entries
  <2> QED BY <2>1, <2>2

LEMMA SavingConfirms ==
  ASSUME TypeOK, Confirmed, NEW p \in Proc, Saving(p)
  PROVE  Confirmed'
<1> USE DEF Proven
<1>0. plan[p] \in PlanRow /\ cmd[p] \in CmdRow /\ cmd \in [Proc -> CmdRow] BY DEF TypeOK
<1>1. UNCHANGED plan /\ proofs \subseteq proofs' /\ \A q \in Proc \ {p} : cmd'[q] = cmd[q]
  BY SavingFrame
<1>2. \A q \in Proc \ {p} : /\ \A h \in Hook : Proven(h, cmd[q].hooks[h])'
                            /\ cmd'[q].digest # None => <<plan'[q].hook, cmd'[q].digest>> \in proofs'
  BY <1>1 DEF Confirmed
<1>3. \A h \in Hook : Proven(h, settings.hooks[h])'
  <2>1. CASE settings'.hooks = settings.hooks BY <1>1, <2>1 DEF Confirmed
  <2>2. CASE settings' = [hooks |-> cmd[p].hooks, default |-> cmd[p].default, whole |-> TRUE]
    BY <1>1, <2>2 DEF Confirmed
  <2> QED BY <2>1, <2>2 DEF Saving, Record, Confirm, Retime, Look, Lock, LockBusy, Write, Begun,
                            Rename
<1>4. /\ \A h \in Hook : Proven(h, cmd[p].hooks[h])'
      /\ cmd'[p].digest # None => <<plan'[p].hook, cmd'[p].digest>> \in proofs'
  <2>1. CASE Keys(p)' = Keys(p) BY <1>1, <2>1 DEF Confirmed, Keys
  <2>2. CASE Record(p) BY <1>0, <2>1, <2>2 DEF Record, Go, Keys, CmdRow
  <2>3. CASE Confirm(p)
    <3>1. CASE Go(p, "refused") BY <1>0, <2>1, <3>1 DEF Go, Keys, CmdRow
    <3>2. CASE ~Go(p, "refused")
      <4> DEFINE x == leads[settings.hooks[plan[p].hook].argv]
      <4>1. PICK given : /\ cmd' = [cmd EXCEPT ![p].at = "look", ![p].path = x,
                                               ![p].digest = given]
                         /\ proofs' = proofs \cup {<<plan[p].hook, given>>}
        BY <2>3, <3>2 DEF Confirm
      <4> HIDE DEF x
      <4>2. cmd'[p].hooks = cmd[p].hooks /\ cmd'[p].digest = given BY <1>0, <4>1 DEF CmdRow
      <4>3. \A h \in Hook : Proven(h, cmd[p].hooks[h])' BY <1>1, <4>2 DEF Confirmed
      <4>4. <<plan'[p].hook, cmd'[p].digest>> \in proofs' BY <1>1, <4>1, <4>2
      <4> QED BY <4>3, <4>4
    <3> QED BY <3>1, <3>2
  <2>4. CASE Retime(p) BY <1>0, <2>1, <2>4 DEF Retime, Go, Keys, CmdRow
  <2>5. CASE Look(p)
    <3>1. CASE \E ph \in {"refused", "ended"} : Go(p, ph)
      BY <1>0, <2>1, <3>1 DEF Go, Keys, CmdRow
    <3>2. CASE ~\E ph \in {"refused", "ended"} : Go(p, ph)
      <4> DEFINE hooks == IF plan[p].op = "default" THEN settings.hooks
                          ELSE Edited(p, settings.hooks)
      <4>1. cmd' = [cmd EXCEPT ![p].at = "lock", ![p].default = settings.default,
                               ![p].hooks = hooks]
        BY <2>5, <3>2 DEF Look
      <4>2. \A h \in Hook : Proven(h, hooks[h])
        <5>1. settings.hooks \in Entries BY DEF TypeOK
        <5>2. \A h \in Hook : Proven(h, Edited(p, settings.hooks)[h])
          BY <1>0, <5>1, EditedProven DEF Confirmed
        <5> QED BY <5>2 DEF Confirmed
      <4> HIDE DEF hooks
      <4>3. cmd'[p].hooks = hooks /\ cmd'[p].digest = cmd[p].digest BY <1>0, <4>1 DEF CmdRow
      <4> QED BY <1>1, <4>2, <4>3 DEF Confirmed
    <3> QED BY <3>1, <3>2
  <2>6. CASE Lock(p) \/ LockBusy(p) BY <1>0, <2>1, <2>6 DEF Lock, LockBusy, Go, Keys, CmdRow
  <2>7. CASE Write(p)
    <3>1. CASE \E ph \in {"refused", "ended"} : Go(p, ph)
      BY <1>0, <2>1, <3>1 DEF Go, Keys, CmdRow
    <3>2. CASE ~\E ph \in {"refused", "ended"} : Go(p, ph)
      <4>1. cmd' = [cmd EXCEPT ![p].at = "rename", ![p].hooks = Merged(p).hooks,
                               ![p].default = Merged(p).default]
        BY <2>7, <3>2 DEF Write
      <4>2. cmd'[p].hooks = Merged(p).hooks /\ cmd'[p].digest = cmd[p].digest
        BY <1>0, <4>1 DEF CmdRow
      <4>3. Merged(p).hooks \in {settings.hooks, cmd[p].hooks} BY DEF Merged, Fresh, TypeOK
      <4> QED BY <1>1, <4>2, <4>3 DEF Confirmed
    <3> QED BY <3>1, <3>2
  <2>8. CASE Rename(p) BY <1>0, <2>1, <2>8 DEF Rename, Go, Keys, CmdRow
  <2> QED BY <2>2, <2>3, <2>4, <2>5, <2>6, <2>7, <2>8 DEF Saving
<1> QED BY <1>2, <1>3, <1>4 DEF Confirmed

\* Who is about to rename the settings holds their lock, and nobody else changes them.
LEMMA SavingLocks ==
  ASSUME TypeOK, Locked, LeftWhole, NEW p \in Proc, Saving(p)
  PROVE  Locked' /\ LeftWhole'
<1>0. cmd[p] \in CmdRow /\ cmd \in [Proc -> CmdRow] /\ held \in Proc \cup {None} BY DEF TypeOK
<1>1. UNCHANGED plan /\ \A q \in Proc \ {p} : cmd'[q] = cmd[q] BY SavingFrame
<1>2. CASE UNCHANGED <<settings, held, spoiled>> /\ cmd'[p].at \notin {"write", "rename"}
  BY <1>1, <1>2 DEF Locked, LockedWell, LeftWhole, At
<1>3. CASE Lock(p)
  <2>1. held = None /\ held' = p /\ At(p, "write")' /\ UNCHANGED <<settings, spoiled>>
    BY <1>0, <1>3 DEF Lock, Go, At
  <2>2. \A q \in Proc : cmd[q].at \notin {"write", "rename"}
    BY <2>1, TrustAssumption DEF Locked, LockedWell
  <2> QED BY <1>1, <2>1, <2>2 DEF Locked, LockedWell, LeftWhole, At
<1>4. CASE Write(p)
  <2>1. held = p BY <1>4 DEF Write, At, Locked, LockedWell
  <2>2. \A q \in Proc \ {p} : cmd[q].at \notin {"write", "rename"}
    BY <2>1 DEF Locked, LockedWell
  <2>3. UNCHANGED <<settings, spoiled>> BY <1>4 DEF Write, Begun
  <2>4. CASE \E ph \in {"refused", "ended"} : Go(p, ph)
    <3>1. cmd'[p].at \notin {"write", "rename"} BY <1>0, <2>4 DEF Go
    <3> QED BY <1>1, <2>2, <2>3, <3>1 DEF Locked, LockedWell, LeftWhole, At
  <2>5. CASE ~\E ph \in {"refused", "ended"} : Go(p, ph)
    <3>1. /\ cmd' = [cmd EXCEPT ![p].at = "rename", ![p].hooks = Merged(p).hooks,
                                ![p].default = Merged(p).default]
          /\ held' = held
      BY <1>4, <2>5 DEF Write
    <3>2. cmd'[p].hooks = Merged(p).hooks /\ cmd'[p].default = Merged(p).default
      BY <1>0, <3>1 DEF CmdRow
    <3>3. IF plan[p].op = "default" THEN Merged(p).hooks = settings.hooks
          ELSE Merged(p).default = settings.default
      BY DEF Merged, Fresh, TypeOK
    <3>4. LockedWell(p)' BY <1>1, <2>1, <2>3, <3>1, <3>2, <3>3 DEF LockedWell
    <3> QED BY <1>1, <2>2, <2>3, <3>4 DEF Locked, LockedWell, LeftWhole, At
  <2> QED BY <2>4, <2>5
<1>5. CASE Rename(p)
  <2>1. held = p BY <1>5 DEF Rename, At, Locked, LockedWell
  <2>2. \A q \in Proc \ {p} : cmd[q].at \notin {"write", "rename"}
    BY <2>1 DEF Locked, LockedWell
  <2>3. cmd'[p].at = "ended" /\ settings'.whole BY <1>0, <1>5 DEF Rename, Go
  <2> QED BY <1>1, <2>2, <2>3 DEF Locked, LockedWell, LeftWhole, At
<1>6. CASE Record(p)
  <2>1. cmd'[p].at \notin {"write", "rename"} BY <1>0, <1>6 DEF Record, Go, CmdRow
  <2> QED BY <1>2, <1>6, <2>1 DEF Record
<1>10. CASE Confirm(p)
  <2> DEFINE x == leads[settings.hooks[plan[p].hook].argv]
  <2>1. \/ Go(p, "refused")
        \/ \E given : cmd' = [cmd EXCEPT ![p].at = "look", ![p].path = x, ![p].digest = given]
    BY <1>10 DEF Confirm
  <2> HIDE DEF x
  <2>2. cmd'[p].at \notin {"write", "rename"} BY <1>0, <2>1 DEF Go, CmdRow
  <2> QED BY <1>2, <1>10, <2>2 DEF Confirm
<1>7. CASE Retime(p) BY <1>0, <1>2, <1>7 DEF Retime, Go
<1>8. CASE Look(p)
  <2>1. cmd'[p].at \notin {"write", "rename"} BY <1>0, <1>8 DEF Look, Go, CmdRow
  <2> QED BY <1>2, <1>8, <2>1 DEF Look
<1>9. CASE LockBusy(p) BY <1>0, <1>2, <1>9 DEF LockBusy, Go
<1> QED BY <1>3, <1>4, <1>5, <1>6, <1>7, <1>8, <1>9, <1>10 DEF Saving

-----------------------------------------------------------------------------
(* Runs and their answers                                                  *)

\* A command that was not touched, or killed, keeps what it had; one that asks no hook too.
LEMMA RunUntouched ==
  ASSUME TypeOK, Fires, Judged, NEW q \in Proc,
         UNCHANGED plan, StillReads(q), proofs \subseteq proofs', ran'[q] = ran[q],
         cmd'[q] = cmd[q] \/ cmd'[q] = [cmd[q] EXCEPT !.at = "killed"]
  PROVE  FiresWell(q)' /\ JudgedWell(q)'
<1>0. cmd[q] \in CmdRow BY DEF TypeOK
<1>1. FiresWell(q) /\ JudgedWell(q) BY DEF Fires, Judged
<1>2. CASE cmd'[q] = cmd[q]
  BY <1>1, <1>2 DEF FiresWell, JudgedWell, GatedFor, HookOf, Proven, At, StillReads
<1>3. CASE cmd'[q] = [cmd[q] EXCEPT !.at = "killed"]
  <2>1. cmd'[q].at = "killed" /\ Answers(q)' = Answers(q) BY <1>0, <1>3 DEF CmdRow, Answers
  <2>2. FiresWell(q)' BY <2>1 DEF FiresWell, At, Firing, Held
  <2>3. JudgedWell(q)' BY <1>1, <2>1 DEF JudgedWell, GatedFor, Answers, At, Firing, Held
  <2> QED BY <2>2, <2>3
<1> QED BY <1>2, <1>3

LEMMA RunOver ==
  ASSUME TypeOK, Judged, NEW p \in Proc, UNCHANGED plan, Answers(p)' = Answers(p),
         cmd'[p].at \in {"look", "lock", "write", "rename"} \cup Over
  PROVE  FiresWell(p)' /\ JudgedWell(p)'
<1>1. FiresWell(p)' BY DEF FiresWell, At, Firing, Held, Over
<1>2. JudgedWell(p)' BY DEF Judged, JudgedWell, GatedFor, Answers, At, Firing, Held, Over
<1> QED BY <1>1, <1>2

LEMMA SavingRuns ==
  ASSUME TypeOK, Fires, Judged, NEW p \in Proc, Saving(p)
  PROVE  Fires' /\ Judged'
<1>1. \A q \in Proc \ {p} : FiresWell(q)' /\ JudgedWell(q)'
  BY SavingFrame, RunUntouched DEF StillReads
<1>2. FiresWell(p)' /\ JudgedWell(p)' BY SavingFrame, RunOver DEF Over
<1> QED BY <1>1, <1>2 DEF Fires, Judged

\* What is asked, and when nothing needs to be.
LEMMA JudgeRuns ==
  ASSUME TypeOK, Judged, NEW p \in Proc, Judge(p)
  PROVE  FiresWell(p)' /\ JudgedWell(p)'
<1> DEFINE pre == IF Nested(p) THEN <<>> ELSE asks[plan[p].board].pre
           after == IF Nested(p) THEN None ELSE asks[plan[p].board].post
           ph == IF plan[p].glass /\ ~Nested(p) /\ pre = <<>> THEN "refused"
                 ELSE IF plan[p].glass \/ pre = <<>> THEN "commit" ELSE "entry"
<1>0. cmd[p] \in CmdRow /\ cmd \in [Proc -> CmdRow] BY DEF TypeOK
<1>1. ~cmd[p].post /\ ~cmd[p].skip /\ cmd[p].k = 1 BY DEF Judge, At, Judged, JudgedWell
<1>2. cmd' = [cmd EXCEPT ![p].skip = Nested(p), ![p].asked = pre, ![p].after = after,
                         ![p].at = ph]
  BY DEF Judge
<1>3. UNCHANGED plan BY DEF Judge
<1>4. pre \in Seq(Hook)
  <2>1. plan[p].board \in Board BY DEF TypeOK, PlanRow
  <2>2. asks[plan[p].board] \in Wants BY <2>1 DEF TypeOK
  <2> QED BY <2>2 DEF Wants
<1>5. Nested(p) => pre = <<>> /\ plan[cmd[p].from[1]].board = plan[p].board BY DEF Nested
<1>6. /\ ph = "entry" => ~plan[p].glass /\ pre # <<>>
      /\ ph = "commit" => plan[p].glass \/ pre = <<>>
      /\ ph \in {"refused", "commit", "entry"}
  OBVIOUS
<1> HIDE DEF pre, after, ph
<1>7. /\ cmd'[p].skip = Nested(p) /\ cmd'[p].asked = pre /\ cmd'[p].at = ph
      /\ cmd'[p].post = FALSE /\ cmd'[p].k = 1 /\ cmd'[p].from = cmd[p].from
      /\ cmd'[p].ok = cmd[p].ok
  BY <1>0, <1>1, <1>2 DEF CmdRow
<1>8. FiresWell(p)'
  <2>1. pre # <<>> => 1 \in 1..Len(pre) BY <1>4
  <2> QED BY <1>6, <1>7, <2>1 DEF FiresWell, At, Firing, Held
<1>9. JudgedWell(p)'
  <2>1. ph = "entry" => ~Nested(p) BY <1>5, <1>6
  <2>2. ph = "commit" => GatedFor(p)'
    <3>1. pre = <<>> => Range(pre) = {} BY DEF Range
    <3> QED BY <1>3, <1>5, <1>6, <1>7, <3>1 DEF GatedFor
  <2> QED BY <1>6, <1>7, <2>1, <2>2 DEF JudgedWell, At, Firing, Held
<1> QED BY <1>8, <1>9

\* An answer: one more hook of the list has allowed the change, or the command ends.
LEMMA DrainRuns ==
  ASSUME TypeOK, Fires, Judged, NEW p \in Proc, Drain(p)
  PROVE  FiresWell(p)' /\ JudgedWell(p)'
<1> DEFINE ok == cmd[p].ok \cup Counted(p)
           k == cmd[p].k + 1
           ph == Onward(p)
<1>0. cmd[p] \in CmdRow /\ cmd \in [Proc -> CmdRow] /\ cmd[p].k \in Nat \ {0}
      /\ cmd[p].asked \in Seq(Hook)
  BY DEF TypeOK, CmdRow
<1>1. cmd' = [cmd EXCEPT ![p].ok = ok, ![p].k = k, ![p].file = None, ![p].entry = Blank,
                         ![p].at = ph]
  BY <1>0 DEF Drain, CmdRow
<1>2. FiresWell(p) /\ JudgedWell(p) /\ cmd[p].at \in Firing
  BY DEF Fires, Judged, Drain, At, Firing, Held
<1>3. UNCHANGED plan BY DEF Drain
<1>4. CASE cmd[p].post
  <2>1. ph = "ended" BY <1>4 DEF Onward
  <2> HIDE DEF ok, k, ph
  <2>2. /\ cmd'[p].at = "ended" /\ cmd'[p].post /\ cmd'[p].ok = ok
        /\ cmd'[p].asked = cmd[p].asked /\ cmd'[p].skip = cmd[p].skip
        /\ cmd'[p].from = cmd[p].from
    BY <1>0, <1>1, <1>4, <2>1 DEF CmdRow
  <2>3. cmd[p].ok \subseteq ok BY DEF ok
  <2>4. GatedFor(p)' BY <1>2, <1>3, <1>4, <2>2, <2>3 DEF JudgedWell, GatedFor
  <2> QED BY <2>2, <2>4 DEF FiresWell, JudgedWell, At, Firing, Held
<1>5. CASE ~cmd[p].post
  <2>1. /\ cmd[p].k \in 1..Len(cmd[p].asked) /\ ~cmd[p].skip
        /\ \A i \in 1..(cmd[p].k - 1) : cmd[p].asked[i] \in cmd[p].ok
    BY <1>2, <1>5 DEF FiresWell, JudgedWell
  <2>2. ph \in {"entry", "commit"} => kid[p] = "ok" BY <1>5 DEF Onward, Allows
  <2>3. kid[p] = "ok" => \A i \in 1..cmd[p].k : cmd[p].asked[i] \in ok
    BY <1>0, <1>5, <2>1 DEF Counted, HookOf
  <2>4. /\ ph = "entry" => cmd[p].k < Len(cmd[p].asked)
        /\ ph = "commit" => ~(cmd[p].k < Len(cmd[p].asked))
        /\ ph \in {"refused", "entry", "commit"}
    BY <1>5 DEF Onward
  <2>5. k - 1 = cmd[p].k /\ k \in Nat BY <1>0
  <2>6. k = cmd[p].k + 1 OBVIOUS
  <2> HIDE DEF ok, k, ph
  <2>7. /\ cmd'[p].at = ph /\ cmd'[p].post = FALSE /\ cmd'[p].ok = ok /\ cmd'[p].k = k
        /\ cmd'[p].asked = cmd[p].asked /\ cmd'[p].skip = FALSE
    BY <1>0, <1>1, <1>5, <2>1 DEF CmdRow
  <2>8. FiresWell(p)'
    <3>1. ph = "entry" => k \in 1..Len(cmd[p].asked) BY <1>0, <2>4, <2>6
    <3> QED BY <2>4, <2>7, <3>1 DEF FiresWell, At, Firing, Held
  <2>9. JudgedWell(p)'
    <3>1. ph = "commit" => Range(cmd[p].asked) \subseteq ok
      <4> SUFFICES ASSUME ph = "commit", NEW i \in 1..Len(cmd[p].asked) PROVE cmd[p].asked[i] \in ok
        BY <1>0 DEF Range
      <4> QED BY <1>0, <2>1, <2>2, <2>3, <2>4
    <3>2. ph = "commit" => GatedFor(p)' BY <2>7, <3>1 DEF GatedFor
    <3> QED BY <2>2, <2>3, <2>4, <2>5, <2>7, <3>2 DEF JudgedWell, At, Firing, Held
  <2> QED BY <2>8, <2>9
<1> QED BY <1>4, <1>5

\* A step of one run: what it has in hand stays with it, from the check of the file on.
LEMMA AskingRuns ==
  ASSUME TypeOK, Confirmed, Fires, Judged, NEW p \in Proc, Asking(p)
  PROVE  Fires' /\ Judged'
<1> USE DEF diskVars, kidVars
<1>0. cmd[p] \in CmdRow /\ cmd \in [Proc -> CmdRow] /\ ran \in [Proc -> File \cup {None}]
  BY DEF TypeOK
<1>f. Failed(p) \in Over BY DEF Failed, Over
<1>u. UNCHANGED <<bytes, plan, proofs, settings>> BY AskingFrame
<1>w. FiresWell(p) /\ JudgedWell(p) BY DEF Fires, Judged
<1>o. ASSUME NEW ph \in Over, Go(p, ph) PROVE FiresWell(p)' /\ JudgedWell(p)'
  <2>1. Answers(p)' = Answers(p) /\ cmd'[p].at \in Over BY <1>0, <1>o DEF Go, Answers, CmdRow
  <2> QED BY <1>u, <2>1, RunOver
<1>g. ASSUME NEW ph \in Held, Go(p, ph), cmd[p].at \in Held,
             ph = "running" => ran'[p] = cmd[p].file, rewritten' = rewritten
      PROVE  FiresWell(p)' /\ JudgedWell(p)'
  <2>1. /\ Answers(p)' = Answers(p) /\ cmd'[p].at = ph /\ cmd'[p].after = cmd[p].after
        /\ cmd'[p].entry = cmd[p].entry /\ cmd'[p].file = cmd[p].file
    BY <1>0, <1>g DEF Go, Answers, CmdRow
  <2>2. HookOf(p)' = HookOf(p) BY <2>1 DEF HookOf, Answers
  <2>3. FiresWell(p)'
    BY <1>g, <1>u, <1>w, <2>1, <2>2 DEF FiresWell, Answers, At, Firing, Held, Proven
  <2>4. JudgedWell(p)' BY <1>g, <1>u, <1>w, <2>1 DEF JudgedWell, GatedFor, Answers, At, Firing, Held
  <2> QED BY <2>3, <2>4
<1>p. FiresWell(p)' /\ JudgedWell(p)'
  <2>1. CASE SetHook(p) BY <1>o, <2>1 DEF SetHook, Over
  <2>2. CASE Judge(p) BY <2>2, JudgeRuns
  <2>3. CASE LoadEntry(p)
    <3>1. CASE Go(p, Failed(p)) BY <1>f, <1>o, <3>1
    <3>2. CASE ~Go(p, Failed(p))
      <4> DEFINE e == settings.hooks[HookOf(p)]
      <4>1. cmd' = [cmd EXCEPT ![p].at = "check", ![p].entry = e] BY <2>3, <3>2 DEF LoadEntry
      <4>2. At(p, "entry") BY <2>3 DEF LoadEntry
      <4>3. Proven(HookOf(p), e)
        BY <4>2, HookTyped DEF Confirmed, At, Firing
      <4> HIDE DEF e
      <4>4. /\ Answers(p)' = Answers(p) /\ cmd'[p].at = "check" /\ cmd'[p].after = cmd[p].after
            /\ cmd'[p].entry = e
        BY <1>0, <4>1 DEF Answers, CmdRow
      <4>5. HookOf(p)' = HookOf(p) BY <4>4 DEF HookOf, Answers
      <4>6. FiresWell(p)'
        BY <1>u, <1>w, <4>2, <4>3, <4>4, <4>5 DEF FiresWell, Answers, At, Firing, Held, Proven
      <4>7. JudgedWell(p)'
        BY <1>u, <1>w, <4>2, <4>4 DEF JudgedWell, GatedFor, Answers, At, Firing, Held
      <4> QED BY <4>6, <4>7
    <3> QED BY <3>1, <3>2
  <2>4. CASE Check(p)
    <3>1. CASE Go(p, Failed(p)) BY <1>f, <1>o, <3>1
    <3>2. CASE ~Go(p, Failed(p))
      <4> DEFINE f == bin[leads[cmd[p].entry.argv]]
      <4>1. cmd' = [cmd EXCEPT ![p].at = "ticket", ![p].file = f] BY <2>4, <3>2 DEF Check
      <4>2. At(p, "check") /\ Trusted(cmd[p].entry) BY <2>4, <3>2 DEF Check
      <4>3. f \in File /\ bytes[f] = cmd[p].entry.digest
        BY <1>0, <4>2 DEF Trusted, Resolves, Digest, TypeOK, CmdRow, Entry
      <4>8. bytes[f] \in Bytes BY <4>3 DEF TypeOK
      <4> HIDE DEF f
      <4>4. /\ Answers(p)' = Answers(p) /\ cmd'[p].at = "ticket" /\ cmd'[p].after = cmd[p].after
            /\ cmd'[p].entry = cmd[p].entry /\ cmd'[p].file = f
        BY <1>0, <4>1 DEF Answers, CmdRow
      <4>5. HookOf(p)' = HookOf(p) BY <4>4 DEF HookOf, Answers
      <4>6. FiresWell(p)'
        BY <1>u, <1>w, <4>2, <4>3, <4>4, <4>5, <4>8
        DEF FiresWell, Answers, At, Firing, Held, Proven
      <4>7. JudgedWell(p)'
        BY <1>u, <1>w, <4>2, <4>4 DEF JudgedWell, GatedFor, Answers, At, Firing, Held
      <4> QED BY <4>6, <4>7
    <3> QED BY <3>1, <3>2
  <2>5. CASE OpenTicket(p) BY <1>g, <2>5 DEF OpenTicket, At, Held
  <2>6. CASE FillTicket(p) BY <1>g, <2>6 DEF FillTicket, At, Held
  <2>7. CASE Spawn(p)
    <3>1. ran'[p] = cmd[p].file BY <1>0, <2>7 DEF Spawn, ByHandle
    <3> QED BY <1>g, <2>7, <3>1 DEF Spawn, At, Held
  <2>8. CASE NoSpawn(p) BY <1>f, <1>o, <2>8 DEF NoSpawn
  <2>9. CASE Poll(p) BY <1>g, <2>9 DEF Poll, At, Held
  <2>10. CASE Timeout(p)
    <3>1. /\ cmd'[p] = [cmd[p] EXCEPT !.at = "drain"] /\ At(p, "running")
          /\ rewritten' = rewritten
      BY <2>10 DEF Timeout
    <3>2. /\ Answers(p)' = Answers(p) /\ cmd'[p].at = "drain" /\ cmd'[p].after = cmd[p].after
          /\ cmd'[p].entry = cmd[p].entry /\ cmd'[p].file = cmd[p].file
      BY <1>0, <3>1 DEF Answers, CmdRow
    <3>3. HookOf(p)' = HookOf(p) BY <3>2 DEF HookOf, Answers
    <3>4. FiresWell(p)'
      BY <1>u, <1>w, <3>1, <3>2, <3>3 DEF FiresWell, Answers, At, Firing, Held, Proven
    <3>5. JudgedWell(p)'
      BY <1>u, <1>w, <3>1, <3>2 DEF JudgedWell, GatedFor, Answers, At, Firing, Held
    <3> QED BY <3>4, <3>5
  <2>11. CASE Drain(p) BY <2>11, DrainRuns
  <2>12. CASE Commit(p)
    <3>1. CASE Go(p, "refused") BY <1>o, <3>1 DEF Over
    <3>2. CASE ~Go(p, "refused")
      <4> DEFINE ph == IF cmd[p].after = None THEN "ended" ELSE "entry"
      <4>1. cmd' = [cmd EXCEPT ![p].at = ph, ![p].post = TRUE] BY <2>12, <3>2 DEF Commit
      <4>2. GatedFor(p) BY <1>w, <2>12 DEF Commit, JudgedWell
      <4>3. ph \in {"ended", "entry"} /\ (ph = "entry" => cmd[p].after # None) OBVIOUS
      <4> HIDE DEF ph
      <4>4. /\ cmd'[p].at = ph /\ cmd'[p].post /\ cmd'[p].after = cmd[p].after
            /\ cmd'[p].asked = cmd[p].asked /\ cmd'[p].ok = cmd[p].ok
            /\ cmd'[p].skip = cmd[p].skip /\ cmd'[p].from = cmd[p].from
        BY <1>0, <4>1 DEF CmdRow
      <4>5. cmd[p].after \in Hook \cup {None} BY <1>0 DEF CmdRow
      <4>6. FiresWell(p)' BY <4>3, <4>4, <4>5 DEF FiresWell, At, Firing, Held
      <4>7. JudgedWell(p)' BY <1>u, <4>2, <4>3, <4>4 DEF JudgedWell, GatedFor, At, Firing, Held
      <4> QED BY <4>6, <4>7
    <3> QED BY <3>1, <3>2
  <2> QED BY <2>1, <2>2, <2>3, <2>4, <2>5, <2>6, <2>7, <2>8, <2>9, <2>10, <2>11, <2>12 DEF Asking
<1>q. \A q \in Proc \ {p} : FiresWell(q)' /\ JudgedWell(q)'
  BY AskingFrame, RunUntouched DEF StillReads
<1> QED BY <1>p, <1>q DEF Fires, Judged

-----------------------------------------------------------------------------
(* The invariant                                                           *)

LEMMA AskingKeeps ==
  ASSUME IInv, NEW p \in Proc, Asking(p)
  PROVE  IInv'
<1> USE DEF IInv
<1>1. TypeOK' BY AskingTyped
<1>2. UNCHANGED <<settings, plan, proofs, spoiled>> /\ \A q \in Proc : Keys(q)' = Keys(q)
  BY AskingFrame
<1>3. LeftWhole' BY <1>2 DEF LeftWhole
<1>4. Confirmed' BY <1>2 DEF Confirmed, Proven, Keys
<1>5. Fires' /\ Judged' BY AskingRuns
<1>6. Locked'
  <2>1. LockedWell(p)' BY AskingFrame DEF LockedWell, At, Firing, Held
  <2>2. ASSUME NEW q \in Proc \ {p} PROVE LockedWell(q)'
    <3>1. CASE cmd'[q] = cmd[q] /\ (held = q => held' = q)
      BY <1>2, <3>1 DEF Locked, LockedWell, At
    <3>2. CASE cmd'[q] = [cmd[q] EXCEPT !.at = "killed"]
      <4>1. cmd[q] \in CmdRow BY DEF TypeOK
      <4>2. cmd'[q].at = "killed" BY <3>2, <4>1 DEF CmdRow
      <4> QED BY <4>2 DEF LockedWell, At
    <3> QED BY <3>1, <3>2, AskingFrame
  <2> QED BY <2>1, <2>2 DEF Locked
<1> QED BY <1>1, <1>3, <1>4, <1>5, <1>6

LEMMA OthersKeep ==
  ASSUME IInv, \/ \E p \in Proc : Hooking(p)
               \/ \E p \in Mortal : Kill(p)
               \/ Meddle
  PROVE  IInv'
<1> USE DEF IInv
<1>1. TypeOK' BY OthersTyped
<1>2. /\ UNCHANGED <<plan, proofs, ran>> /\ \A q \in Proc : StillReads(q)
      /\ settings'.hooks = settings.hooks /\ settings'.default = settings.default
      /\ settings'.whole = settings.whole \/ spoiled'
      /\ spoiled => spoiled'
      /\ \A q \in Proc : \/ cmd'[q] = cmd[q] /\ (held = q => held' = q)
                         \/ cmd'[q] = [cmd[q] EXCEPT !.at = "killed"]
                         \/ At(q, "unborn") /\ At(q, "start")' /\ Beginning(q)' = Beginning(q)
  BY OthersFrame
<1>3. LeftWhole' BY <1>2 DEF LeftWhole
<1>4. ASSUME NEW q \in Proc
      PROVE  Keys(q)' = Keys(q) /\ FiresWell(q)' /\ JudgedWell(q)' /\ LockedWell(q)'
  <2>0. cmd[q] \in CmdRow BY DEF TypeOK
  <2>1. CASE cmd'[q] = cmd[q] /\ (held = q => held' = q)
    <3>1. FiresWell(q)' /\ JudgedWell(q)' BY <1>2, <2>1, RunUntouched
    <3>2. LockedWell(q)' BY <1>2, <2>1 DEF Locked, LockedWell, At
    <3> QED BY <2>1, <3>1, <3>2 DEF Keys
  <2>2. CASE cmd'[q] = [cmd[q] EXCEPT !.at = "killed"]
    <3>1. FiresWell(q)' /\ JudgedWell(q)' BY <1>2, <2>2, RunUntouched
    <3>2. cmd'[q].at = "killed" /\ Keys(q)' = Keys(q) BY <2>0, <2>2 DEF CmdRow, Keys
    <3>3. LockedWell(q)' BY <3>2 DEF LockedWell, At
    <3> QED BY <3>1, <3>2, <3>3
  <2>3. CASE At(q, "unborn") /\ At(q, "start")' /\ Beginning(q)' = Beginning(q)
    <3>1. ~cmd'[q].post /\ ~cmd'[q].skip /\ cmd'[q].k = 1
      BY <2>3 DEF Beginning, At, Judged, JudgedWell
    <3> QED BY <2>3, <3>1 DEF Beginning, FiresWell, JudgedWell, LockedWell, At, Firing, Held
  <2> QED BY <1>2, <2>1, <2>2, <2>3
<1>5. Confirmed' BY <1>2, <1>4 DEF Confirmed, Proven, Keys
<1> QED BY <1>1, <1>3, <1>4, <1>5 DEF Fires, Judged, Locked

LEMMA InitIInv == Init => IInv
<1> SUFFICES ASSUME Init PROVE IInv OBVIOUS
<1>1. TypeOK BY InitTyped
<1>2. PICK w \in Worlds :
        /\ settings = [hooks |-> w.hooks, default |-> None, whole |-> TRUE]
        /\ cmd = [p \in Proc |-> Resting(IF p \in w.runs THEN "start"
                                         ELSE IF p \in w.nested THEN "unborn" ELSE "ended")]
        /\ proofs = {<<h, w.hooks[h].digest>> : h \in {g \in Hook : w.hooks[g] # None}}
                    \cap (Hook \X Bytes)
  BY DEF Init
<1>3. \A p \in Proc : /\ cmd[p].at \in {"start", "unborn", "ended"}
                      /\ ~cmd[p].post /\ ~cmd[p].skip /\ cmd[p].k = 1 /\ cmd[p].digest = None
                      /\ \A h \in Hook : cmd[p].hooks[h] = None
  BY <1>2 DEF Resting
<1>4. \A h \in Hook : Proven(h, settings.hooks[h])
  <2> SUFFICES ASSUME NEW h \in Hook, w.hooks[h] # None, w.hooks[h].digest # None
               PROVE  <<h, w.hooks[h].digest>> \in proofs
    BY <1>2 DEF Proven
  <2>1. w.hooks[h] \in Entry BY WorldsAssumption DEF Machine, Entries
  <2>2. w.hooks[h].digest \in Bytes BY <2>1 DEF Entry
  <2> QED BY <1>2, <2>2
<1>5. Confirmed BY <1>3, <1>4 DEF Confirmed, Proven
<1>6. Fires /\ Judged /\ Locked
  BY <1>3 DEF Fires, FiresWell, Judged, JudgedWell, Locked, LockedWell, At, Firing, Held
<1>7. LeftWhole BY <1>2 DEF LeftWhole
<1> QED BY <1>1, <1>5, <1>6, <1>7 DEF IInv

LEMMA NextKeeps == IInv /\ [Next]_vars => IInv'
<1> SUFFICES ASSUME IInv, [Next]_vars PROVE IInv' OBVIOUS
<1>1. ASSUME NEW p \in Proc, Saving(p) PROVE IInv'
  <2>1. Locked' /\ LeftWhole' BY <1>1, SavingLocks DEF IInv
  <2>2. Fires' /\ Judged' BY <1>1, SavingRuns DEF IInv
  <2> QED BY <1>1, <2>1, <2>2, SavingTyped, SavingConfirms DEF IInv
<1>2. ASSUME NEW p \in Proc, Asking(p) PROVE IInv' BY <1>2, AskingKeeps
<1>3. CASE (\E p \in Proc : Hooking(p)) \/ (\E p \in Mortal : Kill(p)) \/ Meddle
  BY <1>3, OthersKeep
<1>4. CASE UNCHANGED vars
  BY <1>4 DEF vars, diskVars, kidVars, IInv, TypeOK, LeftWhole, Confirmed, Proven, Fires,
              FiresWell, Judged, JudgedWell, GatedFor, Locked, LockedWell, HookOf, At
<1> QED BY <1>1, <1>2, <1>3, <1>4 DEF Next, Step

LEMMA TrustInvariance == Spec => []IInv
<1>1. Spec => Init /\ [][Next]_vars BY DEF Spec
<1> QED BY <1>1, InitIInv, NextKeeps, PTL

-----------------------------------------------------------------------------
(* What the hooks promise                                                  *)

\* Every reachable state of the settings, the commands and the runs has the types above:
\* nothing is ever taken out of an entry or a list that is not there.
THEOREM TrustTypeCorrect == Spec => []TypeOK
<1>1. IInv => TypeOK BY DEF IInv
<1> QED BY <1>1, TrustInvariance, PTL

\* A tb killed at any point of a write leaves settings the next one can read.
THEOREM SettingsStayWhole == Spec => []LeftWhole
<1>1. IInv => LeftWhole BY DEF IInv
<1> QED BY <1>1, TrustInvariance, PTL

\* What runs for a name is the file that was checked, and a person confirmed what it holds
\* for that name, whatever was renamed, relinked, loosened or edited meanwhile; only bytes its
\* owner wrote into that very file after the check can be others.
THEOREM OnlyConfirmedRuns == Spec => []RanConfirmed
<1>1. IInv => RanConfirmed
  <2> SUFFICES ASSUME IInv, NEW p \in Proc, At(p, "running")
               PROVE  /\ ran[p] = cmd[p].file
                      /\ p \notin rewritten => <<HookOf(p), bytes[ran[p]]>> \in proofs
    BY DEF RanConfirmed
  <2>1. FiresWell(p) BY DEF IInv, Fires
  <2>0. cmd[p].at = "running" /\ cmd[p].at \in Held BY DEF At, Held
  <2>2. /\ ran[p] = cmd[p].file /\ cmd[p].entry.digest \in Bytes
        /\ p \notin rewritten => bytes[cmd[p].file] = cmd[p].entry.digest
        /\ Proven(HookOf(p), cmd[p].entry)
    BY <2>0, <2>1 DEF FiresWell, At
  <2>3. cmd[p].entry.digest # None BY <2>2, TrustAssumption
  <2>4. cmd[p].entry # None BY EntryAssumption DEF IInv, TypeOK, CmdRow
  <2> QED BY <2>2, <2>3, <2>4 DEF Proven
<1> QED BY <1>1, TrustInvariance, PTL

\* A change is made only when every hook its board named answered 0 in time, or with a
\* recorded break-glass, or from inside a hook's own run for that same board.
THEOREM ChangesAreGated == Spec => []Gated
<1>1. IInv => Gated BY DEF IInv, Judged, JudgedWell, GatedFor, Gated
<1> QED BY <1>1, TrustInvariance, PTL

\* Each top-level key of the settings changes only by the rename of a command that changes
\* that key: no command reverts another's write with what it read before the lock.
THEOREM SettingsKeysKept == Spec => KeysKept
<1> DEFINE A == /\ settings'.default # settings.default =>
                     \E p \in Proc : Renames(p) /\ plan[p].op = "default"
                /\ settings'.hooks # settings.hooks =>
                     \E p \in Proc : Renames(p) /\ plan[p].op # "default"
<1>1. IInv /\ [Next]_vars => [A]_vars
  <2> SUFFICES ASSUME IInv, Next PROVE A OBVIOUS
  <2>1. CASE settings'.default = settings.default /\ settings'.hooks = settings.hooks
    BY <2>1
  <2>2. ASSUME NEW p \in Proc, Saving(p), settings' # settings PROVE A
    <3>1. Rename(p)
      BY <2>2 DEF Saving, Record, Confirm, Retime, Look, Lock, LockBusy, Write, Begun
    <3>2. At(p, "rename") /\ LockedWell(p) BY <3>1 DEF Rename, IInv, Locked
    <3>3. settings'.hooks = cmd[p].hooks /\ settings'.default = cmd[p].default
      BY <3>1 DEF Rename
    <3>4. cmd'[p].at = "ended" BY <3>1 DEF Rename, Go, IInv, TypeOK, CmdRow
    <3>5. Renames(p) BY <3>2, <3>4 DEF Renames, At
    <3> QED BY <3>2, <3>3, <3>5 DEF LockedWell
  <2>3. ASSUME NEW p \in Proc, Asking(p) PROVE UNCHANGED settings
    BY <2>3, AskingFrame DEF IInv
  <2>4. CASE (\E p \in Proc : Hooking(p)) \/ (\E p \in Mortal : Kill(p)) \/ Meddle
    BY <2>1, <2>4, OthersFrame DEF IInv
  <2> QED BY <2>1, <2>2, <2>3, <2>4 DEF Next, Step
<1>2. Spec => [][Next]_vars BY DEF Spec
<1>3. Spec => [][A]_vars BY <1>1, <1>2, TrustInvariance, PTL
<1> QED BY <1>3 DEF KeysKept
=============================================================================
