------------------------------- MODULE Screen -------------------------------
(***************************************************************************)
(* The full-screen board (tb without a command): what it shows, what its   *)
(* keys do to the board, and the thread that asks GitHub behind it.        *)
(*                                                                         *)
(* The screen decides on what it last read: the cards, an open card's      *)
(* checklist, the repository.  A key runs to its end before the next one;  *)
(* its writes are the same phases as the commands of module Desk, and      *)
(* those of other processes run between them.  Where the cursor is, is     *)
(* left out: a key may be about any card that is shown.                    *)
(***************************************************************************)
EXTENDS Wizard

CONSTANTS
  Tui,       \* the process of the screen
  Me,        \* its actor
  AwayRepo   \* the repository of the other board it can switch to

ASSUME ScreenAssumption ==
  /\ Tui \in Proc /\ Me \in STRING \ {Unset} /\ None # "form"
  /\ \A w \in Worlds : \A c \in w.keys : Meant(c) /\ DOMAIN c = DOMAIN Blank /\ c.by = Me

\* app: what the screen holds.  on: which board it has open; mode, card, typed, base: the key it
\* waits for, about which card, with which command and over which shown fields; why: the prompt,
\* or the issue that is open; cards, items, repo, page, panel: as last read; busy, past: a key's command under way, what follows
\* it and the holder it is forced past; target, slot: the GitHub thread's; keys, left, fetches:
\* bounds, the commands that may be typed, how many keys and how many fetches.
VARIABLE app

screenVars == <<deskVars, choreVars, home, app>>

NoCards == [i \in Id |-> None]

\* store.rs, snapshot: GITHUB is a panel of the board unless it is hidden.
PanelShown(d) == Get(d, "github-panel") # "hidden"

\* tui.rs, reload: everything that is shown is read anew; an open popup follows its card.
Reloaded(a) ==
  IF a.on = "away" THEN [a EXCEPT !.cards = NoCards, !.items = <<>>, !.repo = AwayRepo, !.page = None, !.panel = TRUE]
  ELSE [a EXCEPT !.cards = db.card, !.repo = Get(db, "github"), !.page = Shown(db),
                 !.panel = PanelShown(db), !.mode = IF @ = "panel" /\ ~PanelShown(db) THEN "normal" ELSE @,
                 !.items = IF a.mode = "popup" THEN db.items[a.card] ELSE <<>>]

\* App::new.
Opened(w) ==
  [open |-> w.keys # {}, on |-> "here", mode |-> "normal", card |-> 1, typed |-> None, base |-> None,
   why |-> None, cards |-> w.db.card, items |-> <<>>, repo |-> Get(w.db, "github"), page |-> None,
   panel |-> PanelShown(w.db), busy |-> None, past |-> None, target |-> None, slot |-> None,
   keys |-> w.keys, left |-> w.left, fetches |-> w.fetches]

ScreenSteps(c) == IF c.op = "screen" THEN <<>> ELSE WizardSteps(c)
ScreenInit == \E w \in Worlds : StartsIn(w, ScreenSteps) /\ ChoresStart(w) /\ home = w.home /\ app = Opened(w)

Idle == app.open /\ app.busy = None /\ cmd[Tui].left = <<>>
Press == Idle /\ app.left > 0
In(mode) == app.mode = mode
Asked == {c \in app.keys : app.on = "here" /\ (c.op # "add" => app.cards[c.card] # None)}

\* A key that only changes what the screen waits for.
Waits(a) == app' = [a EXCEPT !.left = @ - 1] /\ UNCHANGED <<plan, cmd>>
\* A key whose command runs now; then: "ok" reads the board anew when it succeeded, "always" in
\* any case, "form" also keeps the form when it did not, "never".
Runs(c, steps, then) ==
  /\ plan' = [plan EXCEPT ![Tui] = c]
  /\ cmd' = [cmd EXCEPT ![Tui] = [Fresh(steps) EXCEPT !.base = app.base]]
  /\ app' = [app EXCEPT !.busy = then, !.left = @ - 1, !.mode = IF @ \in {"popup", "form", "panel", "item"} THEN @ ELSE "normal"]

-----------------------------------------------------------------------------
(* Somebody else's card                                                    *)

\* What the store is asked to do for a change to a card, without any holder check.
HeldWrite(c) ==
  CASE c.op = "check" -> <<Do("item"), Do("write"), Do("log")>>
    [] c.op = "rmcheck" -> <<Do("item"), Do("write")>>
    [] OTHER -> <<Do("write")>>

Prompt(c, why) == Waits([app EXCEPT !.mode = "confirm", !.typed = c, !.why = why, !.card = c.card])

\* tui.rs, guard_write: whether to ask is decided on the cards as shown.
GuardWrite(c) ==
  IF app.cards[c.card] # None /\ HeldByOther(app.cards[c.card], Me) THEN Prompt(c, "write")
  ELSE Runs(c, HeldWrite(c), IF c.op = "check" THEN "always" ELSE "ok")

\* tui.rs, commit_forced_write: whoever holds the card by now is the holder of the forced line,
\* which is written even when the change was refused.
CommitForcedWrite(c) == Runs(c, <<Do("past")>> \o HeldWrite(c), IF c.op = "check" THEN "always" ELSE "ok")
PastHolder(p) ==
  /\ At(p, "past") /\ Goes(p, cmd[p])
  /\ app' = [app EXCEPT !.past = IF Exists(db, C(p).card) THEN Past(db.card[C(p).card], Me) ELSE None]
  /\ UNCHANGED <<db, writer, work, plan>>

-----------------------------------------------------------------------------
(* Moves                                                                   *)

\* tui.rs, open_on_github.
OpenOnGithub(i) == app.page # None /\ app.cards[i].ref \in app.page.open

\* tui.rs, is_own_review: asked of the board, not of what is shown; a card in REVIEW keeps its
\* owner, who is its author.
IsOwnReview(i) == Exists(db, i) /\ db.card[i].col = "review" /\ db.card[i].owner = Me

\* tui.rs, verifier_refuses; how is the role of an agent.
VerifierRefuses(c) == Get(db, "verifier_only") = "on" /\ c.agent /\ c.how # "verifier"

\* tui.rs, ask_own_close, on a card that is the actor's own review.
AskOwnClose(c) ==
  IF VerifierRefuses(c) THEN Waits([app EXCEPT !.mode = "normal"])
  ELSE Prompt([c EXCEPT !.force = TRUE], "own")

\* tui.rs, move_selected.
MoveSelected(c) ==
  LET r == app.cards[c.card]
      closes == c.col = "done" /\ r.col # "done"
  IN /\ In("normal") /\ c.op = "move"
     /\ IF HeldByOther(r, Me) THEN Prompt([c EXCEPT !.force = TRUE], "holder")
        ELSE IF closes /\ OpenOnGithub(c.card) THEN Prompt(c, "open")
        ELSE IF closes /\ IsOwnReview(c.card) THEN AskOwnClose(c)
        ELSE IF r.col = "review" /\ c.col = "doing"
        THEN Waits([app EXCEPT !.mode = "typing", !.typed = c, !.card = c.card])
        ELSE Runs(c, <<Do("write")>>, "ok")

\* tui.rs, reorder_selected: DONE has no order.
ReorderSelected(c) == In("normal") /\ c.op = "prio" /\ app.cards[c.card].col # "done" /\ GuardWrite(c)

\* normal_key, x.
AskRemove(c) ==
  /\ In("normal") /\ c.op = "rm"
  /\ Prompt([c EXCEPT !.force = HeldByOther(app.cards[c.card], Me)], "remove")

\* Mode::Confirm: y does what the prompt named, any other key cancels.
Cancel == In("confirm") /\ Waits([app EXCEPT !.mode = "normal"])
Confirm ==
  /\ In("confirm")
  /\ CASE app.why = "write" -> CommitForcedWrite(app.typed)
       [] app.why = "open" /\ IsOwnReview(app.card) -> AskOwnClose(app.typed)
       [] app.why = "own" /\ VerifierRefuses(app.typed) -> Waits([app EXCEPT !.mode = "normal"])
       [] OTHER -> Runs(app.typed, IF app.typed.op = "rm" THEN RmSteps ELSE <<Do("write")>>, "ok")

-----------------------------------------------------------------------------
(* Lines that are typed                                                    *)

\* normal_key, a and n; in the popup, a is about its checklist.
Opens(c) ==
  /\ \/ In("normal") /\ c.op \in {"add", "note"}
     \/ In("popup") /\ c.op \in {"note", "addcheck"} /\ c.card = app.card
  /\ Waits([app EXCEPT !.mode = "typing", !.typed = c, !.card = c.card])

\* Mode::Add and AddDue: the date is typed before the card is made.
EnterAdd(c) == c.op = "add" /\ Runs(c, AddSteps(c), "ok")
\* Mode::Note.
EnterNote(c) == c.op = "note" /\ Runs(c, <<Do("write")>>, "always")
\* Mode::SendBack.
EnterSendBack(c) == c.op = "move" /\ Runs(c, <<Do("write")>>, "ok")
\* Mode::AddCheck.
EnterAddCheck(c) == c.op = "addcheck" /\ GuardWrite(c)
Enter ==
  LET c == app.typed
  IN In("typing") /\ (EnterAdd(c) \/ EnterNote(c) \/ EnterSendBack(c) \/ EnterAddCheck(c))

Escape == app.mode \in {"typing", "form", "popup", "panel", "item"} /\ Waits([app EXCEPT !.mode = "normal"])

-----------------------------------------------------------------------------
(* A card's popup and its form                                             *)

\* normal_key, Enter: store.show.
OpenPopup(c) ==
  /\ In("normal") /\ c.op \in {"check", "rmcheck", "addcheck"} /\ Exists(db, c.card)
  /\ Waits([app EXCEPT !.mode = "popup", !.card = c.card, !.items = db.items[c.card]])

\* Mode::Popup: Enter and d are about the item the cursor is on, by its number as shown.
PopupKey(c) ==
  In("popup") /\ c.op \in {"check", "rmcheck"} /\ c.card = app.card /\ c.n \in DOMAIN app.items
  /\ GuardWrite(c)

\* focus_key, Enter: the items are read at the key.
FocusKey(c) == In("normal") /\ c.op = "check" /\ c.n \in DOMAIN db.items[c.card] /\ GuardWrite(c)

\* tui.rs, open_edit: refused for a card that is shown as held.
OpenEdit(c) ==
  LET r == app.cards[c.card]
  IN /\ app.mode \in {"normal", "popup"} /\ c.op = "edit" /\ ~HeldByOther(r, Me)
     /\ Waits([app EXCEPT !.mode = "form", !.card = c.card,
                          !.base = r])

\* Mode::Edit, Enter: the date is compared with the one the form showed, then the text is saved
\* against what it showed, then the date.
Redated(c) == c.due # Unset /\ c.due # app.base.due
SaveSteps(c) ==
  (IF Redated(c) THEN <<Do("same")>> ELSE <<>>)
  \o (IF Writes(app.base, "title", c.title) \/ Writes(app.base, "desc", c.desc) \/ ~Redated(c)
      THEN <<Do("write")>> ELSE <<>>)
  \o (IF Redated(c) THEN <<Do("due")>> ELSE <<>>)
SaveForm(c) == In("form") /\ c.op = "edit" /\ c.card = app.card /\ Runs(c, SaveSteps(c), "form")

SameDate(p) ==
  /\ At(p, "same") /\ UNCHANGED app
  /\ LET now == IF Exists(db, C(p).card) THEN db.card[C(p).card].due ELSE None
     IN IF now = cmd[p].base.due THEN Reads(p, cmd[p]) ELSE Refused(p)
  /\ UNCHANGED plan

-----------------------------------------------------------------------------
(* Settings, GitHub, other boards                                          *)

\* The board-wide keys work in a panel too; those about a card do nothing there.
BoardWide == app.mode \in {"normal", "panel"}

\* normal_key, L A G T + -: a setting of the board, by the setter tb config uses.
SettingKey(c) == BoardWide /\ c.op = "config" /\ c.key # "github" /\ Runs(c, ConfigSteps(c), "ok")

\* tui.rs, pick_repo: a repository that is typed is asked for, one of the list is not.
PickRepo(c) ==
  /\ BoardWide /\ c.op = "config" /\ c.key = "github"
  /\ Runs(c, (IF c.bad /\ Wanted(c) # None THEN <<Do("ask")>> ELSE <<>>) \o SetGithub(Wanted(c)), "ok")

\* tui.rs, cycle_focus and panel_key: Tab goes to the panel, Enter opens the issue it is on.
FocusPanel == In("normal") /\ app.panel /\ Waits([app EXCEPT !.mode = "panel"])
OpenItem ==
  /\ In("panel") /\ app.repo # None /\ app.page # None
  /\ \E n \in app.page.open : Waits([app EXCEPT !.mode = "item", !.why = n])

\* tui.rs, add_gh_card: once, as far as the cards shown say; the issue stays open on the screen.
AddGhCard(c) ==
  /\ In("item") /\ c.op = "add" /\ c.ref = app.why /\ app.page # None
  /\ \A i \in Id : app.cards[i] # None => app.cards[i].ref # c.ref
  /\ Runs(c, <<Do("write")>>, "ok")

\* tui.rs, switch_board: nothing of the old board's is kept.
SwitchBoard ==
  /\ BoardWide
  /\ Waits(Reloaded([app EXCEPT !.mode = "normal", !.on = IF @ = "here" THEN "away" ELSE "here"]))

\* normal_key, q.
Quit == Waits([app EXCEPT !.open = FALSE])

-----------------------------------------------------------------------------
(* tui.rs, run: the loop and the thread                                    *)

\* A key's command has ended.
Settle ==
  /\ app.open /\ app.busy # None /\ cmd[Tui].left = <<>>
  /\ LET ok == cmd[Tui].end = "ok"
         closed == IF app.busy = "form" /\ ok THEN [app EXCEPT !.mode = "normal"] ELSE app
         now == IF app.busy = "always" \/ (ok /\ app.busy # "never") THEN Reloaded(closed) ELSE closed
     IN IF app.past = None THEN app' = [now EXCEPT !.busy = None] /\ UNCHANGED cmd
        ELSE /\ app' = [now EXCEPT !.busy = "never", !.past = None]
             /\ cmd' = [cmd EXCEPT ![Tui] = [Fresh(<<Do("force")>>) EXCEPT !.past = app.past]]
  /\ UNCHANGED plan

\* Every two seconds.
Refresh == Idle /\ app' = Reloaded(app) /\ UNCHANGED <<plan, cmd>>

\* The thread takes the repository and the board the loop last left for it.
ThreadStarts ==
  /\ Idle /\ app.fetches > 0 /\ app.target = None /\ app.repo # None
  /\ app' = [app EXCEPT !.target = [repo |-> app.repo, on |-> app.on], !.fetches = @ - 1]
  /\ UNCHANGED <<plan, cmd>>

\* It asks GitHub, and about the cards of that board the page does not list.
ThreadFetches ==
  /\ app.open /\ app.target # None
  /\ \E r \in FetchRaw(app.target.repo) :
       \E seen \in (IF r.ok /\ app.target.on = "here"
                    THEN FoundStates(app.target.repo, NeedsState(db, r)) ELSE {{}}) :
         app' = [app EXCEPT !.target = None, !.slot = [repo |-> app.target.repo, result |-> r, seen |-> seen]]
  /\ UNCHANGED <<plan, cmd>>

\* Bug: whatever was fetched is for the board that is open.
WantedAlways(repo) == TRUE

\* A result the board that is open now does not want is dropped.
WantedNow(repo) == repo = app.repo

\* What is taken is saved, and moves the cards that are on the board now.
TakeFetched ==
  /\ Idle /\ app.slot # None
  /\ IF WantedNow(app.slot.repo) /\ app.on = "here"
     THEN /\ plan' = [plan EXCEPT ![Tui] = [Blank EXCEPT !.op = "fetched", !.by = Github]]
          /\ cmd' = [cmd EXCEPT ![Tui] =
                       [Fresh(<<Do("save"), Do("cards"), Do("plan")>>) EXCEPT
                          !.item = app.slot.repo, !.old = app.slot.result, !.past = app.slot.seen, !.made = {}]]
          /\ app' = [app EXCEPT !.slot = None, !.busy = "always"]
     ELSE app' = [app EXCEPT !.slot = None] /\ UNCHANGED <<plan, cmd>>

-----------------------------------------------------------------------------
CardKey(c) ==
  \/ MoveSelected(c) \/ ReorderSelected(c) \/ AskRemove(c) \/ Opens(c) \/ OpenPopup(c) \/ PopupKey(c)
  \/ FocusKey(c) \/ OpenEdit(c) \/ SaveForm(c) \/ SettingKey(c) \/ PickRepo(c) \/ AddGhCard(c)

HandleKey ==
  /\ Press
  /\ (\E c \in Asked : CardKey(c)) \/ Confirm \/ Cancel \/ Enter \/ Escape
     \/ FocusPanel \/ OpenItem \/ SwitchBoard \/ Quit

Loop == HandleKey \/ Settle \/ Refresh \/ ThreadStarts \/ ThreadFetches \/ TakeFetched

ScreenNext ==
  /\ \/ WizardStep /\ UNCHANGED app
     \/ Loop /\ UNCHANGED <<db, writer, work, from, tail, machine, journal, home>>
     \/ (PastHolder(Tui) \/ SameDate(Tui)) /\ UNCHANGED <<db, writer, work, from, tail, machine, journal, home>>
  /\ Records

ScreenSpec == ScreenInit /\ [][ScreenNext]_screenVars

-----------------------------------------------------------------------------
(* Properties                                                              *)

\* A form that was open while somebody else worked never takes their words away: a title or a
\* description it replaces is the one it showed when it was opened (store.rs, edit_tagged).
EditKeepsNewer ==
  [][\A i \in Id : \A field \in {"title", "desc"} :
       /\ app.busy = "form" /\ cmd'[Tui] # cmd[Tui] /\ Exists(db, i) /\ Exists(db', i)
       /\ db'.card[i][field] # db.card[i][field]
       => db.card[i][field] = app.base[field]]_screenVars
=============================================================================
