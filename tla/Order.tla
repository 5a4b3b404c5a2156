------------------------------- MODULE Order -------------------------------
(***************************************************************************)
(* store/order.rs and store/due.rs: the one ordering of cards, which every *)
(* list, the screen and tb next go by, and what a due date means today.  A *)
(* due text is a date when the calendar has it; older free text is none.   *)
(***************************************************************************)
EXTENDS Rows

CONSTANTS
  Calendar  \* the due texts that are dates -> the day each names

ASSUME OrderAssumption == \A t \in DOMAIN Calendar : Calendar[t] \in Nat

\* due.rs, parse_date.
DateOf(due) == IF due \in DOMAIN Calendar THEN Calendar[due] ELSE None

\* order.rs, sort_of: the board's sort, position when it sets none tb knows.
SortOf(d) == IF Get(d, "sort") = "due" THEN "due" ELSE "position"

\* order.rs, by_date: only the two queues, and only under sort due.
ByDate(sort, k) == sort = "due" /\ k \in {"todo", "review"}

ByPosition(d, i, j) == LET s == d.order[d.card[i].col] IN Place(s, i) < Place(s, j)

\* When a card came to its column: the last line that says so (ties are its id's).
Since(d, i) ==
  Max({0} \cup {e.eid : e \in {f \in d.log : f.card = i /\ f.kind \in {"created", "moved"}}})

\* order.rs, cmp: of two cards of one column, i comes first.
Before(d, sort, i, j) ==
  LET k == d.card[i].col   x == DateOf(d.card[i].due)   y == DateOf(d.card[j].due)
  IN IF k = "done" THEN Since(d, i) > Since(d, j) \/ (Since(d, i) = Since(d, j) /\ i < j)
     ELSE IF ~ByDate(sort, k) \/ x = y THEN ByPosition(d, i, j)
     ELSE x # None /\ (y = None \/ x < y)

\* One column as it is drawn.
InColumn(d, k) == SetToSortSeq(Range(d.order[k]), LAMBDA i, j : Before(d, SortOf(d), i, j))

\* order.rs, cmp_board: column by column.
OnBoard(d) == InColumn(d, "todo") \o InColumn(d, "doing") \o InColumn(d, "review") \o InColumn(d, "done")

\* order.rs, listed: by id under sort position.
Listed(d) == IF SortOf(d) = "position" THEN SetToSortSeq({i \in Id : Exists(d, i)}, <) ELSE OnBoard(d)

\* order.rs, place: where tb prio says the card ended up.
PlaceOf(d, i) == LET s == InColumn(d, d.card[i].col) IN <<Place(s, i), Len(s)>>

\* due.rs, DueCtx::of: warned about from `warn' days before its day, and never once it is done.
DueState(due, k, today, warn) ==
  LET day == DateOf(due)
  IN IF day = None \/ k = "done" THEN None
     ELSE IF day < today THEN "overdue" ELSE IF day - today <= warn THEN "soon" ELSE "ok"

\* github.rs, still_open: what the board's own snapshot says of a card's issue.
StillOpen(d, ref) == ref # None /\ Shown(d) # None /\ ref \in Shown(d).open
=============================================================================
