------------------------------- MODULE Trust --------------------------------
(***************************************************************************)
(* Hooks on one machine: the settings file that says which commands are    *)
(* trusted, the commands that change it, and the runs of those commands    *)
(* when a board asks for them.                                             *)
(*                                                                         *)
(* A process is one tb command: one that changes the settings (tb trust,   *)
(* tb boards --default), one that changes what a board asks for (tb config *)
(* hook), or one that changes a card and so asks the board's hooks.  A     *)
(* hook may fork, hang, exit and call tb again; the tb it calls is a       *)
(* process of its own, in the hook's process group.  What the change does  *)
(* to the card is module Board's; here it is the one step Commit.          *)
(*                                                                         *)
(* Settings are written under the lock of module FileLock, taken here in   *)
(* one step.  Editors, package managers and whoever else rewrites files    *)
(* are the actions of Meddle, at most MaxMeddle of them.                   *)
(***************************************************************************)
EXTENDS Naturals, Sequences, SequencesExt

CONSTANTS
  Proc,       \* the tb commands of a behaviour
  Mortal,     \* bound: the commands that may be killed from outside
  Hook,       \* hook names
  Argv,       \* recorded commands
  Path,       \* where commands lie
  File,       \* command files (inodes)
  Bytes,      \* what they hold; a digest stands for its bytes
  Board,
  Worlds,     \* the settings, boards and commands a behaviour may start from
  MaxDepth,   \* hooks.rs, MAX_DEPTH
  MaxMeddle,  \* bound: changes made by others (a world may start with them used up)
  None

ASSUME TrustAssumption ==
  /\ MaxDepth \in Nat /\ MaxMeddle \in Nat /\ Mortal \subseteq Proc
  /\ None \notin Proc \cup Hook \cup Argv \cup Path \cup File \cup Bytes

\* An entry of .hooks: the recorded command, where it led and the digest a person confirmed.
Entry == [argv : Argv \cup {None}, path : Path \cup {None}, digest : Bytes \cup {None},
          secs : {"usual", "longer"}]
Entries == [Hook -> Entry \cup {None}]
Wants == [pre : Seq(Hook), post : Hook \cup {None}]

\* A command line: of tb trust (record, confirm, timeout, forget), boards --default, config
\* hook, or a change of a card.
PlanRow == [op : {"record", "confirm", "timeout", "forget", "default", "config", "change"},
            hook : Hook, argv : Argv, list : Seq(Hook), board : Board, glass : BOOLEAN]

\* What a behaviour starts from: a command leads nowhere or to a path, a path to a file.
Machine == [hooks : Entries, leads : [Argv -> Path \cup {None}], bin : [Path -> File \cup {None}],
            bytes : [File -> Bytes], asks : [Board -> Wants], plans : [Proc -> SUBSET PlanRow],
            runs : SUBSET Proc, nested : SUBSET Proc, meddled : Nat]

ASSUME EntryAssumption == None \notin Entry
ASSUME WorldsAssumption == Worlds \subseteq Machine

VARIABLES
  settings,   \* config.json: .hooks, the entry of each hook or None, .default, and .whole: a JSON object
  held,       \* who holds its .lock
  leads,      \* leads[a]: the path a command's argv[0] resolves to
  bin,        \* bin[q]: the file at path q
  bytes,      \* bytes[f]: what file f holds
  loose,      \* the paths others may write
  rewritten,  \* history: the commands whose checked file was written in place since the check
  asks,       \* asks[b]: the pre-change and post-change hooks board b names
  tickets,    \* hook-runs/TOKEN.run: the token <<process, number>>, and whether all of it is written
  plan, cmd,  \* what command p is, and where it is
  kid,        \* kid[p]: the hook process p started last
  grand,      \* grand[p]: what that hook forked holds its output pipe, in the hook's group or outside
  ran,        \* ran[p]: the file that runs as kid[p]
  proofs,     \* history: the <<hook, bytes>> a person confirmed
  spoiled,    \* history: somebody broke the settings file
  meddled

diskVars == <<leads, bin, bytes, loose, rewritten>>
kidVars == <<kid, grand, ran>>
vars == <<settings, held, diskVars, asks, tickets, plan, cmd, kidVars, proofs, spoiled, meddled>>

\* An entry nothing is known of; its seconds are the usual ones or longer.
Blank == [argv |-> None, path |-> None, digest |-> None, secs |-> "usual"]
Over == {"ended", "refused", "killed"}

Resting(ph) ==
  [at |-> ph, hooks |-> [h \in Hook |-> None], default |-> None, path |-> None, digest |-> None,
   entry |-> Blank, file |-> None, asked |-> <<>>, after |-> None, k |-> 1, post |-> FALSE,
   ok |-> {}, skip |-> FALSE, from |-> None, depth |-> 0]

Init ==
  /\ \E w \in Worlds :
       /\ plan \in [Proc -> UNION {w.plans[p] : p \in Proc}]
       /\ \A p \in Proc : plan[p] \in w.plans[p]
       /\ meddled = w.meddled
       /\ settings = [hooks |-> w.hooks, default |-> None, whole |-> TRUE]
       /\ leads = w.leads /\ bin = w.bin /\ bytes = w.bytes /\ asks = w.asks
       /\ cmd = [p \in Proc |-> Resting(IF p \in w.runs THEN "start"
                                        ELSE IF p \in w.nested THEN "unborn" ELSE "ended")]
       /\ proofs = {<<h, w.hooks[h].digest>> : h \in {g \in Hook : w.hooks[g] # None}}
                   \cap (Hook \X Bytes)
  /\ held = None /\ loose = {} /\ rewritten = {} /\ tickets = {}
  /\ kid = [p \in Proc |-> "none"] /\ grand = [p \in Proc |-> {}]
  /\ ran = [p \in Proc |-> None]
  /\ spoiled = FALSE

-----------------------------------------------------------------------------
At(p, ph) == cmd[p].at = ph
Go(p, ph) == cmd' = [cmd EXCEPT ![p].at = ph]
Unlocked(p) == IF held = p THEN None ELSE held

\* hooks.rs, resolve: argv[0] as an executable file, links followed.
Resolves(a) == a # None /\ leads[a] # None /\ bin[leads[a]] # None
Digest(a) == bytes[bin[leads[a]]]

(* The commands of tb trust: what they look at before they write           *)

\* hooks.rs, record: the command must resolve; its file and digest are shown.
Record(p) ==
  /\ At(p, "start") /\ plan[p].op = "record"
  /\ IF Resolves(plan[p].argv)
     THEN cmd' = [cmd EXCEPT ![p].at = "look", ![p].path = leads[plan[p].argv]]
     ELSE Go(p, "refused")
  /\ UNCHANGED <<settings, held, diskVars, asks, tickets, plan, kidVars, proofs, spoiled, meddled>>

\* hooks.rs, confirm: the digest given must be what the recorded command's file has now.
Confirm(p) ==
  /\ At(p, "start") /\ plan[p].op = "confirm"
  /\ LET e == settings.hooks[plan[p].hook] IN
       IF ~settings.whole \/ e = None \/ ~Resolves(IF e = None THEN None ELSE e.argv)
       THEN Go(p, "refused") /\ UNCHANGED proofs
       ELSE \E given \in Bytes :
              IF given = Digest(e.argv)
              THEN /\ cmd' = [cmd EXCEPT ![p].at = "look", ![p].path = leads[e.argv],
                                         ![p].digest = given]
                   /\ proofs' = proofs \cup {<<plan[p].hook, given>>}
              ELSE Go(p, "refused") /\ UNCHANGED proofs
  /\ UNCHANGED <<settings, held, diskVars, asks, tickets, plan, kidVars, spoiled, meddled>>

\* hooks.rs, set_timeout and forget: the name must be known.  boards.rs, set_default: no
\* hook is looked up.
Retime(p) ==
  /\ At(p, "start") /\ plan[p].op \in {"timeout", "forget", "default"}
  /\ Go(p, IF plan[p].op # "default"
              /\ (~settings.whole \/ settings.hooks[plan[p].hook] = None)
           THEN "refused" ELSE "look")
  /\ UNCHANGED <<settings, held, diskVars, asks, tickets, plan, kidVars, proofs, spoiled, meddled>>

\* hooks.rs, edit: one hook's entry changed in the map of all hooks.  (A name that went away
\* meanwhile comes back with the fields this command sets.)
Edited(p, hooks) ==
  LET e == IF hooks[plan[p].hook] = None THEN Blank ELSE hooks[plan[p].hook] IN
  [hooks EXCEPT ![plan[p].hook] =
     CASE plan[p].op = "record" -> [argv |-> plan[p].argv, path |-> cmd[p].path,
                                    digest |-> None, secs |-> "usual"]
       [] plan[p].op = "confirm" -> [e EXCEPT !.path = cmd[p].path, !.digest = cmd[p].digest]
       [] plan[p].op = "timeout" -> [e EXCEPT !.secs = "longer"]
       [] OTHER -> None]

\* machine.rs, delta: the one top-level key the command changes, from its unlocked read.
Changes(p) ==
  IF plan[p].op = "default" THEN settings.default # p
  ELSE Edited(p, settings.hooks) # settings.hooks

\* machine.rs, update_at: the read without the lock.  A change that changes nothing ends here.
Look(p) ==
  /\ At(p, "look")
  /\ IF ~settings.whole THEN Go(p, "refused")
     ELSE IF ~Changes(p) THEN Go(p, "ended")
     ELSE cmd' = [cmd EXCEPT ![p].at = "lock", ![p].default = settings.default,
                   ![p].hooks = IF plan[p].op = "default" THEN settings.hooks
                                ELSE Edited(p, settings.hooks)]
  /\ UNCHANGED <<settings, held, diskVars, asks, tickets, plan, kidVars, proofs, spoiled, meddled>>

Lock(p) ==
  /\ At(p, "lock") /\ held = None
  /\ held' = p /\ Go(p, "write")
  /\ UNCHANGED <<settings, diskVars, asks, tickets, plan, kidVars, proofs, spoiled, meddled>>

\* machine.rs, lock_settings: the wait runs out.
LockBusy(p) ==
  /\ At(p, "lock") /\ held # None
  /\ Go(p, "refused")
  /\ UNCHANGED <<settings, held, diskVars, asks, tickets, plan, kidVars, proofs, spoiled, meddled>>

\* The file as it is read again inside the lock, and with this command's key put into it.
FreshFromBefore(p) == [hooks |-> cmd[p].hooks, default |-> cmd[p].default, whole |-> TRUE]
Fresh(p) == settings
Merged(p) ==
  IF plan[p].op = "default" THEN [Fresh(p) EXCEPT !.default = p]
  ELSE [Fresh(p) EXCEPT !.hooks = cmd[p].hooks]

\* machine.rs, write_atomically: what the settings file is while the new text is being
\* written.  The text goes to a temporary file.
BegunInPlace == [settings EXCEPT !.whole = FALSE]
Begun == settings

Write(p) ==
  /\ At(p, "write")
  /\ IF ~settings.whole \/ Merged(p) = settings
     THEN /\ held' = Unlocked(p) /\ Go(p, IF settings.whole THEN "ended" ELSE "refused")
          /\ UNCHANGED settings
     ELSE /\ settings' = Begun
          /\ cmd' = [cmd EXCEPT ![p].at = "rename", ![p].hooks = Merged(p).hooks,
                                ![p].default = Merged(p).default]
          /\ UNCHANGED held
  /\ UNCHANGED <<diskVars, asks, tickets, plan, kidVars, proofs, spoiled, meddled>>

Rename(p) ==
  /\ At(p, "rename")
  /\ settings' = [hooks |-> cmd[p].hooks, default |-> cmd[p].default, whole |-> TRUE]
  /\ held' = Unlocked(p) /\ Go(p, "ended")
  /\ UNCHANGED <<diskVars, asks, tickets, plan, kidVars, proofs, spoiled, meddled>>

-----------------------------------------------------------------------------
(* What a board asks for, and whether a change asks at all                 *)

\* gate.rs, set_hook (the comma-separated list; the log line is left out).
SetHook(p) ==
  /\ At(p, "start") /\ plan[p].op = "config"
  /\ asks' = [asks EXCEPT ![plan[p].board].pre = plan[p].list]
  /\ Go(p, "ended")
  /\ UNCHANGED <<settings, held, diskVars, tickets, plan, kidVars, proofs, spoiled, meddled>>

Alive(p) == cmd[p].at \notin Over \cup {"unborn"}

\* hooks.rs, nested: the token names a whole ticket of a live tb for this very board.
Nested(p) ==
  \E t \in tickets : /\ t.token = cmd[p].from /\ t.whole /\ Alive(t.token[1])
                     /\ plan[t.token[1]].board = plan[p].board

\* store.rs, transition: what is asked, read once before anything runs.
Judge(p) ==
  /\ At(p, "start") /\ plan[p].op = "change"
  /\ LET a == asks[plan[p].board]
         skip == Nested(p)
         pre == IF skip THEN <<>> ELSE a.pre
     IN cmd' = [cmd EXCEPT ![p].skip = skip, ![p].asked = pre,
                  ![p].after = IF skip THEN None ELSE a.post,
                  ![p].at = IF plan[p].glass /\ ~skip /\ pre = <<>> THEN "refused"
                            ELSE IF plan[p].glass \/ pre = <<>> THEN "commit" ELSE "entry"]
  /\ UNCHANGED <<settings, held, diskVars, asks, tickets, plan, kidVars, proofs, spoiled, meddled>>

-----------------------------------------------------------------------------
(* One run: hooks.rs, fire                                                 *)

HookOf(p) == IF cmd[p].post THEN cmd[p].after ELSE cmd[p].asked[cmd[p].k]
TokenOf(p) == <<p, cmd[p].k>>

\* fire_after: a post-change hook decides nothing.
Failed(p) == IF cmd[p].post THEN "ended" ELSE "refused"

\* fire: too deep, unreadable settings and an unknown name refuse; else the entry is copied.
LoadEntry(p) ==
  /\ At(p, "entry")
  /\ IF cmd[p].depth >= MaxDepth \/ ~settings.whole \/ settings.hooks[HookOf(p)] = None
     THEN Go(p, Failed(p))
     ELSE cmd' = [cmd EXCEPT ![p].at = "check", ![p].entry = settings.hooks[HookOf(p)]]
  /\ UNCHANGED <<settings, held, diskVars, asks, tickets, plan, kidVars, proofs, spoiled, meddled>>

\* check: trusted, unmoved, unchanged and not writable by others.
Trusted(e) ==
  /\ Resolves(e.argv) /\ e.digest = Digest(e.argv)
  /\ e.path \in {None, leads[e.argv]} /\ leads[e.argv] \notin loose

\* check: the file is opened once, read, and held open.
Check(p) ==
  /\ At(p, "check")
  /\ IF Trusted(cmd[p].entry)
     THEN cmd' = [cmd EXCEPT ![p].at = "ticket", ![p].file = bin[leads[cmd[p].entry.argv]]]
     ELSE Go(p, Failed(p))
  /\ rewritten' = rewritten \ {p}
  /\ UNCHANGED <<settings, held, leads, bin, bytes, loose, asks, tickets, plan, kidVars, proofs,
                 spoiled, meddled>>

\* prune: what a killed tb left.  A ticket whose pid cannot be read goes too.
Pruned == {t \in tickets : t.whole /\ Alive(t.token[1])}

\* issue: prune, then a new file ...
OpenTicket(p) ==
  /\ At(p, "ticket")
  /\ tickets' = Pruned \cup {[token |-> TokenOf(p), whole |-> FALSE]}
  /\ Go(p, "fill")
  /\ UNCHANGED <<settings, held, diskVars, asks, plan, kidVars, proofs, spoiled, meddled>>

\* ... which is then filled in, through its open handle.
FillTicket(p) ==
  /\ At(p, "fill")
  /\ tickets' = {IF t.token = TokenOf(p) THEN [t EXCEPT !.whole = TRUE] ELSE t : t \in tickets}
  /\ Go(p, "spawn")
  /\ UNCHANGED <<settings, held, diskVars, asks, plan, kidVars, proofs, spoiled, meddled>>

\* command_for: the open handle is what runs, with what the file holds by then (by_handle, on
\* Linux; elsewhere by_copy runs a private copy of the bytes that were read).
ByPath(p) == bin[cmd[p].entry.path]
ByHandle(p) == cmd[p].file

\* run: the child leads a process group of its own.  (A file that cannot be started: refused.)
Spawn(p) ==
  /\ At(p, "spawn")
  /\ kid' = [kid EXCEPT ![p] = "run"] /\ grand' = [grand EXCEPT ![p] = {}]
  /\ ran' = [ran EXCEPT ![p] = ByHandle(p)]
  /\ Go(p, "running")
  /\ UNCHANGED <<settings, held, diskVars, asks, tickets, plan, proofs, spoiled, meddled>>

NoSpawn(p) ==
  /\ At(p, "spawn")
  /\ tickets' = {t \in tickets : t.token # TokenOf(p)}
  /\ Go(p, Failed(p))
  /\ UNCHANGED <<settings, held, diskVars, asks, plan, kidVars, proofs, spoiled, meddled>>

\* run: try_wait sees the exit.
Poll(p) ==
  /\ At(p, "running") /\ kid[p] \in {"ok", "no"}
  /\ Go(p, "drain")
  /\ UNCHANGED <<settings, held, diskVars, asks, tickets, plan, kidVars, proofs, spoiled, meddled>>

\* kill_all: everything in the child's group: what it forked, and the tb commands it called.
\* (What left the group lives on.)
OnlyTheChild(p) == {}
Group(p) == {q \in Proc : cmd[q].from = TokenOf(p) /\ Alive(q)} \cup {p}

\* run: the time is up.
Timeout(p) ==
  /\ At(p, "running") /\ kid[p] = "run"
  /\ kid' = [kid EXCEPT ![p] = "killed"]
  /\ grand' = [grand EXCEPT ![p] = IF p \in Group(p) THEN @ \ {"group"} ELSE @]
  /\ cmd' = [q \in Proc |-> IF q = p THEN [cmd[q] EXCEPT !.at = "drain"]
                            ELSE IF q \in Group(p) THEN [cmd[q] EXCEPT !.at = "killed"]
                            ELSE cmd[q]]
  /\ held' = IF held # None /\ held \in Group(p) \ {p} THEN None ELSE held
  /\ UNCHANGED <<settings, diskVars, asks, tickets, plan, ran, proofs, spoiled, meddled>>

\* fire: exit 0 within the time allows the change; anything else refuses it.
AllowsLate(p) == kid[p] # "no"
Allows(p) == kid[p] = "ok"

\* What the answer counts for: the next hook of the list, the change, or the end.
Counted(p) == IF kid[p] = "ok" THEN {HookOf(p)} ELSE {}
Onward(p) ==
  IF cmd[p].post THEN "ended" ELSE IF ~Allows(p) THEN "refused"
  ELSE IF cmd[p].k < Len(cmd[p].asked) THEN "entry" ELSE "commit"

\* run: the readers are joined at the end of the output pipes.  Then the ticket is dropped
\* and the answer counts.
Drain(p) ==
  /\ At(p, "drain") /\ grand[p] = {}
  /\ tickets' = {t \in tickets : t.token # TokenOf(p)}
  /\ cmd' = [cmd EXCEPT ![p].ok = @ \cup Counted(p), ![p].k = @ + 1, ![p].file = None,
               ![p].entry = Blank, ![p].at = Onward(p)]
  /\ kid' = [kid EXCEPT ![p] = "none"] /\ ran' = [ran EXCEPT ![p] = None]
  /\ UNCHANGED <<settings, held, diskVars, asks, plan, grand, proofs, spoiled, meddled>>

\* transition: the change is made, or its guards refuse it; then the post-change hook.
Commit(p) ==
  /\ At(p, "commit")
  /\ \/ cmd' = [cmd EXCEPT ![p].at = IF cmd[p].after = None THEN "ended" ELSE "entry",
                           ![p].post = TRUE]
     \/ Go(p, "refused")
  /\ UNCHANGED <<settings, held, diskVars, asks, tickets, plan, kidVars, proofs, spoiled, meddled>>

-----------------------------------------------------------------------------
(* The hook itself, and others on the machine                              *)

\* It answers, forks something that keeps its output open, or calls tb.
Answer(p) ==
  /\ kid[p] = "run" /\ \E a \in {"ok", "no"} : kid' = [kid EXCEPT ![p] = a]
  /\ UNCHANGED <<settings, held, diskVars, asks, tickets, plan, cmd, grand, ran, proofs, spoiled, meddled>>

Fork(p) ==
  /\ At(p, "running") /\ kid[p] = "run" /\ grand[p] = {}
  /\ grand' = [grand EXCEPT ![p] = {"group"}]
  /\ UNCHANGED <<settings, held, diskVars, asks, tickets, plan, cmd, kid, ran, proofs, spoiled, meddled>>

\* What it forked makes a group of its own (setsid), and keeps the output open.
LeaveGroup(p) ==
  /\ "group" \in grand[p] /\ grand' = [grand EXCEPT ![p] = {"own"}]
  /\ UNCHANGED <<settings, held, diskVars, asks, tickets, plan, cmd, kid, ran, proofs, spoiled, meddled>>

GrandEnds(p) ==
  /\ grand[p] # {} /\ grand' = [grand EXCEPT ![p] = {}]
  /\ UNCHANGED <<settings, held, diskVars, asks, tickets, plan, cmd, kid, ran, proofs, spoiled, meddled>>

\* TB_HOOK_TOKEN and TB_HOOK_DEPTH are what the run set.
CallTb(p) ==
  /\ kid[p] = "run"
  /\ \E q \in Proc :
       /\ At(q, "unborn")
       /\ cmd' = [cmd EXCEPT ![q].at = "start", ![q].from = TokenOf(p),
                             ![q].depth = cmd[p].depth + 1]
  /\ UNCHANGED <<settings, held, diskVars, asks, tickets, plan, kidVars, proofs, spoiled, meddled>>

\* Killed from outside: the lock goes with it, its ticket and its hook stay.  (Nobody waits
\* for the output any more.)
Kill(p) ==
  /\ Alive(p) /\ ~At(p, "start")
  /\ held' = Unlocked(p) /\ Go(p, "killed") /\ grand' = [grand EXCEPT ![p] = {}]
  /\ UNCHANGED <<settings, diskVars, asks, tickets, plan, kid, ran, proofs, spoiled, meddled>>

\* A command's file is written in place (by its owner, or by anyone where the mode lets him),
\* another file is renamed over it, PATH or a link leads elsewhere, a mode is loosened, an
\* editor leaves the settings broken.
Meddle ==
  /\ meddled < MaxMeddle /\ meddled' = meddled + 1
  /\ \/ /\ \E f \in File, x \in Bytes :
             /\ bytes' = [bytes EXCEPT ![f] = x]
             /\ rewritten' = rewritten \cup {p \in Proc : cmd[p].file = f}
        /\ UNCHANGED <<settings, leads, bin, loose, spoiled>>
     \/ /\ \E q \in Path, f \in File : bin' = [bin EXCEPT ![q] = f]
        /\ UNCHANGED <<settings, leads, bytes, loose, rewritten, spoiled>>
     \/ /\ \E a \in Argv, q \in Path : leads' = [leads EXCEPT ![a] = q]
        /\ UNCHANGED <<settings, bin, bytes, loose, rewritten, spoiled>>
     \/ /\ \E q \in Path : loose' = loose \cup {q}
        /\ UNCHANGED <<settings, leads, bin, bytes, rewritten, spoiled>>
     \/ /\ settings' = [settings EXCEPT !.whole = FALSE] /\ spoiled' = TRUE
        /\ UNCHANGED diskVars
  /\ UNCHANGED <<held, asks, tickets, plan, cmd, kidVars, proofs>>

-----------------------------------------------------------------------------
Saving(p) == Record(p) \/ Confirm(p) \/ Retime(p) \/ Look(p) \/ Lock(p) \/ LockBusy(p)
             \/ Write(p) \/ Rename(p)
Asking(p) == SetHook(p) \/ Judge(p) \/ LoadEntry(p) \/ Check(p) \/ OpenTicket(p) \/ FillTicket(p)
             \/ Spawn(p) \/ NoSpawn(p) \/ Poll(p) \/ Timeout(p) \/ Drain(p) \/ Commit(p)
Step(p) == Saving(p) \/ Asking(p)
Hooking(p) == Answer(p) \/ Fork(p) \/ LeaveGroup(p) \/ GrandEnds(p) \/ CallTb(p)

Next ==
  \/ \E p \in Proc : Step(p) \/ Hooking(p)
  \/ \E p \in Mortal : Kill(p)
  \/ Meddle

\* tb runs when it can and its clock advances; a hook owes nothing.
Fairness == \A p \in Proc : WF_vars(Step(p))

Spec == Init /\ [][Next]_vars /\ Fairness

-----------------------------------------------------------------------------
(* What the hooks promise                                                  *)

Renames(p) == cmd[p].at = "rename" /\ cmd'[p].at = "ended"

\* Each top-level key of the settings changes only by a command that changes that key: who
\* saves a default board keeps a trust given a moment before, and the other way round.
KeysKept ==
  [][/\ settings'.default # settings.default =>
          \E p \in Proc : Renames(p) /\ plan[p].op = "default"
     /\ settings'.hooks # settings.hooks =>
          \E p \in Proc : Renames(p) /\ plan[p].op # "default"]_vars

\* A tb killed at any point leaves settings the next one can read.
LeftWhole == settings.whole \/ spoiled

\* What runs for a name is the very file that was checked, whatever was renamed, relinked or
\* loosened meanwhile, and a person once confirmed what it holds for that name.  (Unless its
\* owner wrote it in place after the check, which README.md:1249 grants: the open file is what
\* runs, not what was read of it.)
RanConfirmed ==
  \A p \in Proc : kid[p] = "run" /\ At(p, "running") =>
    /\ ran[p] = cmd[p].file
    /\ p \notin rewritten => <<HookOf(p), bytes[ran[p]]>> \in proofs

\* A change is made only when every hook its board named answered 0 in time, or with a
\* recorded break-glass, or from inside a hook's own run for that same board.
Gated ==
  \A p \in Proc : At(p, "commit") \/ cmd[p].post =>
    \/ plan[p].glass
    \/ Range(cmd[p].asked) \subseteq cmd[p].ok /\ ~cmd[p].skip
    \/ cmd[p].skip /\ plan[cmd[p].from[1]].board = plan[p].board

\* Something the hook forked holds its output: the hook itself is gone, and what is left was not
\* in its group when the time ran out, or no time runs any more.
Waits(p) ==
  \/ kid[p] \in {"ok", "no"} /\ grand[p] # {}
  \/ kid[p] = "killed" /\ "own" \in grand[p]

\* A command ends within the time limit however its hook behaves, hangs, forks or calls tb: the
\* hook is stopped with all of its process group.  (Except while something it forked holds its
\* output after the hook exited, or from outside the group: see HookReturns.)
HangsEnd ==
  \A p \in Proc : At(p, "start") ~> cmd[p].at \in Over \/ Waits(p)

\* hooks.rs:39: only the change that asked for it waits, up to its timeout.
\* Does not hold: README, known disagreements.
HookReturns == \A p \in Proc : At(p, "start") ~> cmd[p].at \in Over

\* machine.rs:21: a write by someone else between the read and the write is kept, not
\* reverted; a trust that was taken back comes back only by a confirmation of that hook.
\* Does not hold: README, known disagreements.
RevocationKept ==
  [][\A h \in Hook :
       /\ settings.hooks[h] = None
       /\ settings'.hooks[h] # None
       => \E p \in Proc : Renames(p) /\ plan[p].hook = h /\ plan[p].op # "forget"]_vars

\* hooks.rs:161: a hook that runs tb against the board that asked for it is not fired again.
\* Does not hold: README, known disagreements.
NeverAskedAgain ==
  \A p, q \in Proc :
    kid[p] = "run" /\ At(p, "running") /\ kid[q] = "run" /\ At(q, "running")
    /\ cmd[q].from = TokenOf(p) => plan[q].board # plan[p].board
=============================================================================
