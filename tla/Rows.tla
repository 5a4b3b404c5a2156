------------------------------- MODULE Rows -------------------------------
(***************************************************************************)
(* What one statement or one transaction of a board file leaves in it: the *)
(* operators the commands of module Desk are made of.  A board file is a   *)
(* record d of its tables.  Titles, texts and dates are members of small   *)
(* sets: nothing here looks inside them.                                   *)
(***************************************************************************)
EXTENDS Naturals, Sequences, SequencesExt, FiniteSets

CONSTANTS
  MaxId,    \* bound: the card ids a behaviour may use
  Github,   \* the name the sync acts under
  Unset,    \* a field a command does not name
  None

Id == 1..MaxId
Column == {"todo", "doing", "review", "done"}

\* What a command or a document may say of a field, and a row of the cards table.
Said == STRING \cup {None, Unset}
CardRow == [col : Column, owner : STRING \cup {None}, title : Said, desc : Said, due : Said,
            block : Said, on : Nat \cup {None}, ref : Nat \cup {None}, returned : BOOLEAN]
\* What a line of the events table is about.
LineKind == {"created", "imported", "moved", "edit", "due", "blocked", "unblocked", "prio", "check",
             "link", "note", "force", "github", "headless", "headless-pid", "archived", "restored"}

ASSUME RowsAssumption == MaxId \in Nat /\ Unset # None /\ None \notin Nat /\ None \notin CardRow

\* A card of the cards table, as add makes it; ref is the gh#N its title names, on the card its
\* block waits for.
NewCard(title, desc, due, block) ==
  [col |-> "todo", owner |-> None, title |-> title, desc |-> desc, due |-> due,
   block |-> block, on |-> None, ref |-> None, returned |-> FALSE]

\* The board file: cards, each column's order by position, checklist and links by idx, events
\* (a row each, eid its rowid) with the next rowid, archived_cards (the rows of each, and away,
\* the events of all of them), board_events, config as key -> value, the GitHub snapshot, and the
\* next card id (AUTOINCREMENT: neither a card's id nor a rowid is given twice).
EmptyBoard ==
  [card |-> [i \in Id |-> None], order |-> [k \in Column |-> <<>>],
   items |-> [i \in Id |-> <<>>], links |-> [i \in Id |-> <<>>],
   log |-> {}, eid |-> 1, shelf |-> <<>>, away |-> {}, blog |-> <<>>, conf |-> <<>>, snap |-> None,
   next |-> 1]

Exists(d, i) == i \in Id /\ d.card[i] # None
Get(d, key) == IF key \in DOMAIN d.conf THEN d.conf[key] ELSE None

-----------------------------------------------------------------------------
(* Names                                                                   *)

\* access.rs, actors_of: the names that may write, {} when the board lists none.
ActorsOf(d) == IF "actors" \in DOMAIN d.conf THEN d.conf["actors"] ELSE {}

\* access.rs, known.
Known(names, by) == names = {} \/ by = Github \/ by \in names

\* access.rs, guard_actor: what Store::log refuses.
Knows(d, by) == Known(ActorsOf(d), by)

\* archive.rs, held_by_other.
HeldByOther(r, by) == r.col = "doing" /\ by # Github /\ r.owner \notin {None, by}

\* archive.rs, holder_guard: the holder a forced change goes past, None when there is none.
Past(r, by) == IF HeldByOther(r, by) THEN r.owner ELSE None
HolderGuard(r, by, force) == HeldByOther(r, by) => force

-----------------------------------------------------------------------------
(* The two logs                                                            *)

\* store.rs, Store::log without its guard: one row of events.
Logged(d, i, by, kind) ==
  [d EXCEPT !.log = @ \cup {[eid |-> d.eid, card |-> i, by |-> by, kind |-> kind]},
            !.eid = @ + 1]

\* store.rs, log_board: one row of board_events; nobody is refused.
BoardLogged(d, by, kind, text) == [d EXCEPT !.blog = Append(@, [by |-> by, kind |-> kind, text |-> text])]

\* archive.rs, log_forced.
LogForced(d, i, by) == Logged(d, i, by, "force")

-----------------------------------------------------------------------------
(* Cards                                                                   *)

\* store.rs, add_tagged: the card goes to the bottom of TODO.
AddTagged(d, by, title, ref, checks) ==
  Logged([d EXCEPT !.card[d.next] = [NewCard(title, None, None, None) EXCEPT !.ref = ref], !.next = @ + 1,
                   !.order["todo"] = Append(@, d.next),
                   !.items[d.next] = [n \in DOMAIN checks |-> [what |-> checks[n], done |-> FALSE]]],
         d.next, by, "created")

\* due.rs, set_due: a date the card has is neither written nor logged.
SetDue(d, i, by, due) ==
  IF d.card[i].due = due THEN d ELSE Logged([d EXCEPT !.card[i].due = due], i, by, "due")

\* blocks.rs, block_opts without --on: block None lifts it.
Blocked(d, i, by, block) ==
  Logged([d EXCEPT !.card[i] = [@ EXCEPT !.block = block, !.on = None]], i, by,
         IF block = None THEN "unblocked" ELSE "blocked")

\* blocks.rs, on_done: every block that waits for card i is lifted, in the order of their ids.
WaitingOn(d, i) == {w \in Id : Exists(d, w) /\ d.card[w].on = i}
OnDone(d, i, by) ==
  LET W == WaitingOn(d, i)
      line(w) == [eid |-> d.eid + Cardinality({v \in W : v < w}), card |-> w, by |-> by, kind |-> "unblocked"]
  IN [d EXCEPT !.card = [j \in Id |-> IF j \in W THEN [d.card[j] EXCEPT !.block = None, !.on = None]
                                          ELSE d.card[j]],
               !.log = @ \cup {line(w) : w \in W}, !.eid = @ + Cardinality(W)]

\* Which fields an edit writes.  base is what the full-screen form showed when it was opened,
\* None for the command line: a field typed over as it was is not written.
Writes(base, field, typed) == typed # Unset /\ (base = None \/ typed # base[field])

\* store.rs, edit_tagged, its `conflict': somebody else wrote the field since the form opened.
Conflict(r, base, field, typed) ==
  base # None /\ Writes(base, field, typed) /\ r[field] # base[field] /\ typed # r[field]

\* Bug: the description is not compared.
MayEditTitleOnly(r, base, title, desc) ==
  /\ ~Conflict(r, base, "title", title)
  /\ Writes(base, "title", title) \/ Writes(base, "desc", desc)

\* store.rs, edit_tagged: refused on a conflict, and when nothing is left to write.
MayEdit(r, base, title, desc) ==
  /\ ~Conflict(r, base, "title", title) /\ ~Conflict(r, base, "desc", desc)
  /\ Writes(base, "title", title) \/ Writes(base, "desc", desc)
Edited(d, i, by, base, title, desc) ==
  Logged([d EXCEPT !.card[i].title = IF Writes(base, "title", title) THEN title ELSE @,
                   !.card[i].desc = IF Writes(base, "desc", desc) THEN desc ELSE @], i, by, "edit")

\* store.rs, reorder: within the card's column; a card that stays where it is is not logged.
Place(s, i) == CHOOSE n \in DOMAIN s : s[n] = i
Minus(s, i) == RemoveAt(s, Place(s, i))
Target(s, i, how) ==
  LET n == Place(s, i)
  IN CASE how = "top" -> 1 [] how = "bottom" -> Len(s)
       [] how = "up" -> IF n = 1 THEN 1 ELSE n - 1
       [] OTHER -> IF n = Len(s) THEN n ELSE n + 1
Reordered(d, i, by, how) ==
  LET k == d.card[i].col   s == d.order[k]   to == Target(s, i, how)
      moved == [d EXCEPT !.order[k] = InsertAt(Minus(s, i), to, i)]
  IN IF to = Place(s, i) THEN d ELSE Logged(moved, i, by, "prio")

\* Bug: what hangs on the card stays behind.
RemovedAlone(d, i, by) ==
  BoardLogged([d EXCEPT !.card[i] = None, !.order[d.card[i].col] = Minus(@, i)],
              by, "delete", Unset)

\* archive.rs, remove_card: a forced removal says so, on the board too.
Forced(d, i, by) ==
  IF HeldByOther(d.card[i], by) THEN BoardLogged(LogForced(d, i, by), by, "force", Unset) ELSE d

\* The rows of a card leave the board with it.
Gone(d, i) ==
  [d EXCEPT !.card[i] = None, !.items[i] = <<>>, !.links[i] = <<>>,
            !.order[d.card[i].col] = Minus(@, i), !.log = {e \in @ : e.card # i}]

\* remove_card on a board that deletes: the board's log keeps a line.
Removed(d, i, by) == BoardLogged(Gone(Forced(d, i, by), i), by, "delete", Unset)

\* remove_card on a board that archives: the rows are kept aside, the card's log with them.
Archived(d, i, by) ==
  LET e == Logged(Forced(d, i, by), i, by, "archived")
      row == [card |-> e.card[i], items |-> e.items[i], links |-> e.links[i]]
  IN BoardLogged([Gone(e, i) EXCEPT !.shelf = [j \in DOMAIN @ \cup {i} |-> IF j = i THEN row ELSE @[j]],
                                    !.away = @ \cup {l \in e.log : l.card = i}], by, "archive", Unset)

\* archive.rs, restore: to the bottom of the column it was in, each row as it was, each line of
\* its log under the rowid it had.
Restored(d, i, by) ==
  LET row == d.shelf[i]
      back == [d EXCEPT !.card[i] = row.card, !.items[i] = row.items, !.links[i] = row.links,
                        !.order[row.card.col] = Append(@, i),
                        !.log = @ \cup {l \in d.away : l.card = i}, !.away = {l \in @ : l.card # i},
                        !.shelf = [j \in DOMAIN @ \ {i} |-> @[j]]]
  IN BoardLogged(Logged(back, i, by, "restored"), by, "restore", Unset)

\* The row of card i is row, and it stands last in column k.
Under(d, i, k, row) ==
  LET out == [d EXCEPT !.card[i] = row, !.order[d.card[i].col] = Minus(@, i)]
  IN [out EXCEPT !.order[k] = Append(@, i)]

\* What a move leaves of a card (module Board has its rules): nobody owns a TODO card, a claimed
\* card is its claimer's; a card returned from REVIEW stays marked; one that is done is blocked
\* by nothing.
Shifted(d, i, by, k, owner) ==
  LET r == d.card[i]
      row == [r EXCEPT !.col = k, !.owner = owner, !.block = IF k = "done" THEN None ELSE @,
                       !.returned = @ \/ (r.col = "review" /\ k = "doing")]
      there == Under(d, i, k, row)
  IN Logged(IF k = "done" /\ r.block # None THEN Logged(there, i, by, "unblocked") ELSE there, i, by, "moved")

\* store.rs, transition: the cards that waited for it are let go in the same transaction.
MoveTo(d, i, by, k, owner) ==
  IF d.card[i].col = k THEN d
  ELSE IF k = "done" THEN OnDone(Shifted(d, i, by, k, owner), i, by) ELSE Shifted(d, i, by, k, owner)

-----------------------------------------------------------------------------
(* Checklist and links                                                     *)

\* store.rs, add_check.
AddCheck(d, i, by, text) ==
  Logged([d EXCEPT !.items[i] = Append(@, [what |-> text, done |-> FALSE])], i, by, "check")

\* store.rs, check: the UPDATE alone, from the item as it was read; its log line is another
\* statement, outside any transaction.
Ticked(d, i, n, item) ==
  IF n \in DOMAIN d.items[i] THEN [d EXCEPT !.items[i][n].done = ~item.done] ELSE d

\* store.rs, remove_check: the rest is renumbered; the log names the item as it was read.
RemoveCheck(d, i, by, n) ==
  Logged(IF n \in DOMAIN d.items[i] THEN [d EXCEPT !.items[i] = RemoveAt(@, n)] ELSE d, i, by, "check")

\* links.rs, add_link and remove_link.
AddLink(d, i, by, text) == Logged([d EXCEPT !.links[i] = Append(@, text)], i, by, "link")
RemoveLink(d, i, by, n) ==
  Logged(IF n \in DOMAIN d.links[i] THEN [d EXCEPT !.links[i] = RemoveAt(@, n)] ELSE d, i, by, "link")

-----------------------------------------------------------------------------
(* Rows of a document                                                      *)

\* A field that is set on purpose: absent and null are both nothing.
Given(v) == IF v = Unset THEN None ELSE v

\* bulk.rs, import_row: a whole card, each field that is set in the log.
ImportRow(d, by, row) ==
  LET i == d.next
      added == Logged(AddTagged(d, by, row.title, Given(row.ref), <<>>), i, by, "imported")
      made == [added EXCEPT !.items[i] = row.checks, !.card[i].desc = Given(row.desc)]
      dated == IF Given(row.due) = None THEN made ELSE SetDue(made, i, by, row.due)
  IN IF Given(row.block) = None THEN dated ELSE Blocked(dated, i, by, row.block)

\* bulk.rs, edit_row: a row about no card, or about a held one without --force, is a problem.
RowProblem(d, by, row, force) ==
  ~Exists(d, row.card) \/ ~HolderGuard(d.card[row.card], by, force)
Differs(r, row, field) == row[field] # Unset /\ row[field] # r[field]
EditRow(d, by, row) ==
  LET i == row.card   r == d.card[i]
      texts == \E field \in {"title", "desc", "ref"} : Differs(r, row, field)
      named == IF Differs(r, row, "ref") THEN [d EXCEPT !.card[i].ref = row.ref] ELSE d
      wrote == IF texts THEN Edited(named, i, by, None, row.title, row.desc) ELSE d
      dated == IF Differs(r, row, "due") THEN SetDue(wrote, i, by, row.due) ELSE wrote
      shut == IF Differs(r, row, "block") THEN Blocked(dated, i, by, row.block) ELSE dated
  IN IF shut # d /\ HeldByOther(r, by) THEN LogForced(shut, i, by) ELSE shut

-----------------------------------------------------------------------------
(* The config table                                                        *)

\* store.rs, set_config, and the DELETEs of the setters: value None removes the row.
SetConfig(d, key, value) ==
  [d EXCEPT !.conf = [k \in (DOMAIN @ \cup {key}) \ (IF value = None THEN {key} ELSE {}) |->
                        IF k = key THEN value ELSE @[k]]]

\* store.rs, set_github: the snapshot of another repository is forgotten first.
Forget(d, repo) == IF Get(d, "github") = repo /\ repo # None THEN d ELSE [d EXCEPT !.snap = None]

\* store.rs, save_github: a failure keeps the last snapshot and counts; a success resets.
SaveGithub(d, result) ==
  [d EXCEPT !.snap = IF result.ok THEN [repo |-> result.repo, open |-> result.open, fails |-> 0]
                     ELSE IF @ = None THEN [repo |-> None, open |-> {}, fails |-> 1]
                     ELSE [@ EXCEPT !.fails = @ + 1]]

\* store.rs, github_view: only a snapshot of the configured repository is shown.
Shown(d) == IF d.snap # None /\ d.snap.repo = Get(d, "github") THEN d.snap ELSE None
=============================================================================
