----------------------------- MODULE Settings -----------------------------
(***************************************************************************)
(* tb config, tb new --kind and --from: which settings a board has, what   *)
(* each argument of tb config asks, who may set a key, and the single      *)
(* statements a change is made of.  No change of a setting is a            *)
(* transaction: the old value is read, each row is written, and a line is  *)
(* logged, one statement after the other.                                  *)
(***************************************************************************)
EXTENDS Rows

\* An argument of tb config that no setting takes: out of range, unknown, empty.
CONSTANT Bad

ASSUME SettingsAssumption == Bad # None /\ Bad # Unset

-----------------------------------------------------------------------------
(* What a setter does besides writing its row                              *)

Quiet == [logs |-> FALSE, person |-> FALSE]
Noted == [logs |-> TRUE, person |-> FALSE]
\* verifier.rs, person_only; readers.rs, set_readers: an agent is refused, whatever its name.
Personal == [logs |-> TRUE, person |-> TRUE]

Wip == Noted
WipPerOwner == Noted
Actors == Noted
VerifierOnly == Personal
Verifiers == Personal
Readers == Personal
Rules == Noted
Kind == Noted
RmMode == Noted
FileMode == Noted
Hook == Noted
DoneBy == Quiet
DoneNeedsNote == Quiet
DoneNeedsLink == Quiet
MaxRounds == Quiet
WipCountsBlocked == Quiet
WaitingLane == Quiet
CardLine == Quiet
Label == Quiet
Sort == Quiet
Tz == Quiet
DueWarn == Quiet
Theme == Quiet
Layout == Quiet
Panel == Quiet
GithubRepo == Quiet

Labels == {"label.todo", "label.doing", "label.review", "label.done"}
Panels == {"github-panel", "agents-panel"}
Hooks == {"hook", "hook-after"}
Named ==
  [wip |-> Wip, wip_per_owner |-> WipPerOwner, actors |-> Actors, verifier_only |-> VerifierOnly,
   verifiers |-> Verifiers, readers |-> Readers, rules |-> Rules, kind |-> Kind, rm |-> RmMode,
   file_mode |-> FileMode, done_by |-> DoneBy, done_needs_note |-> DoneNeedsNote,
   done_needs_link |-> DoneNeedsLink, max_rounds |-> MaxRounds,
   wip_counts_blocked |-> WipCountsBlocked, waiting_lane |-> WaitingLane, card_line |-> CardLine,
   sort |-> Sort, tz |-> Tz, due_warn |-> DueWarn, theme |-> Theme, layout |-> Layout,
   github |-> GithubRepo]
Key == DOMAIN Named \cup Labels \cup Panels \cup Hooks
\* setup.rs, SETUP_DONE: a row tb setup writes, and no setting.
SetupDone == "setup_done"
Setting(key) ==
  CASE key \in Labels -> Label [] key \in Panels -> Panel [] key \in Hooks -> Hook
    [] OTHER -> Named[key]

PersonKeys == {key \in Key : Setting(key).person}

-----------------------------------------------------------------------------
(* The arms of tb config: what (key, value, --off) asks for                *)

\* None as value: the value is left out.
ValueOrRead(c) == IF c.value = None THEN "read" ELSE "set"

\* Keys whose default is a word: --off is refused.
Words == {"wip_counts_blocked", "waiting_lane", "done_needs_note"}
WordArm(c) == IF c.off THEN "refused" ELSE ValueOrRead(c)

\* --off clears the text; a text and --off together are refused.
LabelArm(c) ==
  IF c.off /\ c.value # None THEN "refused" ELSE IF c.off THEN "clear" ELSE ValueOrRead(c)

\* --off clears, whatever the value.
RoundsArm(c) == IF c.off THEN "clear" ELSE ValueOrRead(c)

\* `readers off' is readers --off; verifier-only has its own word off.
PersonArm(c) ==
  IF c.key = "verifier_only" THEN WordArm(c)
  ELSE IF c.off THEN "clear" ELSE ValueOrRead(c)

CloseArm(c) == IF c.off THEN "clear" ELSE ValueOrRead(c)

\* kind, card-line: no --off.
KindArm(c) == IF c.off THEN "refused" ELSE ValueOrRead(c)

\* The repository is asked for on GitHub before it is saved.
GithubArm(c) == IF c.off THEN "clear" ELSE ValueOrRead(c)

\* wip has no reading arm of its own and ignores --off; --off with actors means nobody is named.
LimitArm(c) ==
  IF c.key = "actors" /\ c.off THEN "set"
  ELSE IF c.key = "wip" /\ c.value = None THEN "refused" ELSE ValueOrRead(c)

\* theme, layout, panels: a value or nothing at all.
LookArm(c) == IF c.value = None THEN "refused" ELSE "set"

\* tz, due-warn, sort: no --off.
DateArm(c) == IF c.off THEN "refused" ELSE ValueOrRead(c)

\* rm and file-mode take no notice of --off; a hook is unset by it.
FileArm(c) == IF c.off /\ c.key \in Hooks THEN "clear" ELSE ValueOrRead(c)

Asks(c) ==
  CASE c.key \in Words -> WordArm(c)
    [] c.key \in Labels -> LabelArm(c)
    [] c.key = "max_rounds" -> RoundsArm(c)
    [] c.key \in PersonKeys -> PersonArm(c)
    [] c.key \in {"done_by", "rules", "done_needs_link"} -> CloseArm(c)
    [] c.key \in {"kind", "card_line"} -> KindArm(c)
    [] c.key = "github" -> GithubArm(c)
    [] c.key \in {"wip", "wip_per_owner", "actors"} -> LimitArm(c)
    [] c.key \in {"theme", "layout"} \cup Panels -> LookArm(c)
    [] c.key \in {"tz", "due_warn", "sort"} -> DateArm(c)
    [] OTHER -> FileArm(c)

\* The value the row is to have; `local' and `delete' and `private' are the absence of a row.
Wanted(c) ==
  IF c.key = "actors" /\ c.off THEN {}
  ELSE IF Asks(c) = "clear" \/ <<c.key, c.value>> \in {<<"tz", "local">>, <<"rm", "delete">>,
                                                       <<"file_mode", "private">>,
                                                       <<"kind", "default">>}
  THEN None ELSE c.value

\* access.rs, set_actors: a list that leaves its own maker out is refused.
LocksOut(c) == c.key = "actors" /\ ~c.off /\ ~Known(c.value, c.by)

\* What a setter refuses before it reads or writes anything.
MaySet(c) ==
  /\ Setting(c.key).person => ~c.agent
  /\ Asks(c) = "set" => c.value # Bad /\ ~LocksOut(c)

-----------------------------------------------------------------------------
(* The statements of a change                                              *)

Do(what) == [do |-> what, arg |-> None]
Put(key, value) == [do |-> "put", arg |-> <<key, value>>]

\* kinds.rs, bundle.
Bundle(kind) ==
  IF kind # "deadline" THEN <<>>
  ELSE <<Put("sort", "due"), Put("card_line", "due"), Put("due_warn", "7"),
         Put("waiting_lane", "shown"), Put("wip_counts_blocked", "no"),
         Put("label.todo", "TO PREPARE"), Put("label.doing", "IN HAND"),
         Put("label.review", "WITH REVIEWER"), Put("label.done", "FILED")>>

\* kinds.rs, apply_kind: the bundle, then the name of the kind.
ApplyKind(kind) == Bundle(kind) \o <<Put("kind", IF kind = "default" THEN None ELSE kind)>>

\* kinds.rs, kind_intact: the name is shown as it is only while every setting stands.
KindIntact(d) ==
  LET kind == Get(d, "kind")
  IN kind # None => \A n \in DOMAIN Bundle(kind) :
                       Get(d, Bundle(kind)[n].arg[1]) = Bundle(kind)[n].arg[2]

\* kinds.rs, NOT_COPIED and copyable.
NotCopied == {"github", "done_by", "verifiers", "verifier_only", "readers", "file_mode"}

\* kinds.rs, copy_settings_from: each row of the other board, read once, in one order.
CopySettings(from) ==
  LET keys == SetToSeq(DOMAIN from \ (NotCopied \cup {SetupDone}))
  IN [n \in DOMAIN keys |-> Put(keys[n], from[keys[n]])]

\* store.rs, set_github.
SetGithub(repo) ==
  LET forget == [do |-> "forget", arg |-> repo]
  IN IF repo = None THEN <<Put("github", None), forget>>
     ELSE <<forget, Put("github", repo), Put("github-panel", "shown")>>

SetSteps(c) ==
  CASE c.key = "github" -> SetGithub(Wanted(c))
    [] c.key = "kind" -> ApplyKind(c.value)
    [] OTHER -> <<Put(c.key, Wanted(c))>>

\* main.rs, the config command: nothing but a read when there is no value.
ConfigSteps(c) ==
  IF Asks(c) = "read" THEN <<Do("old")>>
  ELSE (IF c.key = "github" /\ Asks(c) = "set" THEN <<Do("ask")>> ELSE <<>>)
       \o <<Do("old")>> \o SetSteps(c) \o <<Do("note")>>

\* A change is logged when the value differs from the one that was read; sharing the file always.
IsNews(c, old) ==
  CASE c.op = "from" -> TRUE
    [] c.op = "new" -> c.value # "default"
    [] Asks(c) = "read" -> FALSE
    [] c.key = "kind" -> c.value # "default" \/ old # None
    [] c.key = "file_mode" /\ c.value = "shared" -> TRUE
    [] OTHER -> Setting(c.key).logs /\ old # Wanted(c)
=============================================================================
