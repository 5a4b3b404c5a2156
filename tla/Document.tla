----------------------------- MODULE Document -----------------------------
(***************************************************************************)
(* import.rs: a document of many cards becomes rows, and every row a plan  *)
(* or problems, before any board is opened.  A row is a JSON object; what  *)
(* its fields say is a member of a small set:                              *)
(*   Unset   the field is absent         None   it is null                 *)
(*   Bad     a value of the wrong kind   ""     a text of blanks           *)
(* inTag and inRef stand for the tag: and the gh#N the title itself        *)
(* carries.  Problems are kept as the fields they are about.               *)
(***************************************************************************)
EXTENDS Settings

Fields == {"id", "title", "tag", "gh_ref", "description", "due", "blocked", "checklist"}
BlankRow == [f \in Fields \cup {"inTag", "inRef"} |-> IF f \in Fields THEN Unset ELSE None]

\* A bulk command: import, or edit --from.
Document(shape, rows) == [shape |-> shape, rows |-> rows]

-----------------------------------------------------------------------------
(* The rows of a document                                                  *)

BoardOrder == <<"todo", "doing", "review", "done">>

\* A list of cards, a board as tb board --json prints it (its columns in board order, whatever
\* the order of the document), one card; anything else has no rows, which is refused.
RowsOf(doc) ==
  CASE doc.shape \in {"array", "cards"} -> doc.rows
    [] doc.shape = "board" -> FlattenSeq([n \in 1..4 |-> doc.rows[BoardOrder[n]]])
    [] doc.shape = "card" -> <<doc.rows>>
    [] OTHER -> <<>>
Readable(doc) == RowsOf(doc) # <<>>

-----------------------------------------------------------------------------
(* One row                                                                 *)

\* The fields a mode knows; the others are left out of the plan: an imported card has no past.
Applied(mode) == (Fields \ {"id", "checklist"}) \cup (IF mode = "import" THEN {"checklist"} ELSE {"id"})

\* A blank text clears the field, as null does.
Cleared(v) == IF v = "" THEN None ELSE v

\* The field and what the title carries, both said, and not the same.
Contradicts(row, field, carried) ==
  /\ row.title \notin {Unset, None, Bad, ""} /\ carried # None
  /\ field \notin {Unset, Bad, carried}

NoTitle(row, mode) == row.title \in {None, ""} \/ (row.title = Unset /\ mode = "import")
NoId(row, mode) == mode = "bulkedit" /\ row.id \in {Unset, None}
BadItems(row, mode) ==
  mode = "import" /\ row.checklist \notin {Unset, None, Bad} /\ Bad \in Range(row.checklist)

ProblemsIn(row, mode) ==
  {f \in Applied(mode) : row[f] = Bad}
  \cup (IF NoTitle(row, mode) THEN {"title"} ELSE {})
  \cup (IF NoId(row, mode) THEN {"id"} ELSE {})
  \cup (IF Contradicts(row, Cleared(row.tag), row.inTag) THEN {"tag"} ELSE {})
  \cup (IF Contradicts(row, row.gh_ref, row.inRef) THEN {"gh_ref"} ELSE {})
  \cup (IF BadItems(row, mode) THEN {"checklist"} ELSE {})

\* import.rs, plan_row: the row as the store applies it (Rows.ImportRow, Rows.EditRow).
PlanRow(row, mode) ==
  [card |-> row.id, title |-> row.title, desc |-> Cleared(row.description), due |-> row.due,
   block |-> Cleared(row.blocked),
   ref |-> IF row.gh_ref = Unset /\ row.inRef # None THEN row.inRef ELSE row.gh_ref,
   checks |-> IF mode = "bulkedit" \/ row.checklist \in {Unset, None} THEN <<>> ELSE row.checklist]

-----------------------------------------------------------------------------
(* All of them                                                             *)

\* A second row about a card is a problem whether or not the first one was.
Twice(rows, n, mode) ==
  /\ mode = "bulkedit" /\ rows[n] # Bad /\ rows[n].id \notin {Unset, None, Bad}
  /\ \E m \in 1..n-1 : rows[m] # Bad /\ rows[m].id = rows[n].id

\* A row that is no object, has a problem of its own or comes twice.
Flawed(rows, n, mode) ==
  rows[n] = Bad \/ ProblemsIn(rows[n], mode) # {} \/ Twice(rows, n, mode)

\* The numbers of S, smallest first.
InOrder(S) ==
  CHOOSE s \in [1..Cardinality(S) -> S] : \A m, n \in 1..Cardinality(S) : m < n => s[m] < s[n]

\* import.rs, plan.
Plans(rows, mode) ==
  LET good == InOrder({n \in DOMAIN rows : ~Flawed(rows, n, mode)})
  IN [k \in DOMAIN good |-> PlanRow(rows[good[k]], mode)]

\* import.rs, Request::read and will_write.
Request(c) ==
  LET rows == RowsOf(c.doc)
  IN [plans |-> Plans(rows, c.op), refused |-> \E n \in DOMAIN rows : Flawed(rows, n, c.op)]
WillWrite(c) == ~c.dry /\ ~Request(c).refused
=============================================================================
