------------------------------ MODULE MCDesk ------------------------------
EXTENDS Desk, TLC
CONSTANTS p1, p2, p3

Item1 == <<[what |-> "a", done |-> FALSE], [what |-> "b", done |-> FALSE]>>
Row1 == [NewCard("t", "d", None, None) EXCEPT !.col = "doing", !.owner = "bo"]
Row2 == NewCard("t", "d", None, None)
Two ==
  [EmptyBoard EXCEPT !.card[1] = Row1, !.card[2] = Row2, !.order["doing"] = <<1>>, !.order["todo"] = <<2>>,
     !.items[1] = Item1, !.links[1] = <<"l">>, !.next = 3]

Ann == [Blank EXCEPT !.by = "ann"]
Bo == [Blank EXCEPT !.by = "bo"]
Cy == [Blank EXCEPT !.by = "cy"]
Thing(text, done) == [what |-> text, done |-> done]
In(title) ==
  [BlankRow EXCEPT !.title = title, !.due = "day", !.blocked = "b", !.inRef = 1,
     !.checklist = <<Thing("x", TRUE)>>]
Ch(i) == [BlankRow EXCEPT !.id = i, !.description = "d2", !.due = "day", !.blocked = ""]
Doc(shape, rows) == Document(shape, rows)
Whole(todo, done) == Doc("board", [todo |-> todo, doing |-> <<>>, review |-> <<>>, done |-> done])
Env(b, field, v) == [b EXCEPT !.env[field] = v]
Set(b, k, v) == [b EXCEPT !.op = "config", !.key = k, !.value = v]
Off(b, k) == [Set(b, k, None) EXCEPT !.off = TRUE]

Cards ==
  [db |-> Two, from |-> <<>>, watched |-> FALSE,
   plans |-> [p \in {p1, p2, p3} |->
     CASE p = p1 -> {[Ann EXCEPT !.op = "check", !.n = 2, !.force = TRUE], [Ann EXCEPT !.op = "check", !.n = 2],
                     [Ann EXCEPT !.op = "rmcheck", !.n = 1, !.force = TRUE],
                     [Ann EXCEPT !.op = "addcheck", !.text = "c", !.force = TRUE],
                     [Ann EXCEPT !.op = "edit", !.card = 2, !.title = "t2", !.due = "day"],
                     [Ann EXCEPT !.op = "unlink"], [Ann EXCEPT !.op = "link", !.text = "m"],
                     [Ann EXCEPT !.op = "next"], [Ann EXCEPT !.op = "note"]}
       [] p = p2 -> {[Bo EXCEPT !.op = "rmcheck", !.n = 1], [Bo EXCEPT !.op = "take", !.card = 2],
                     [Bo EXCEPT !.op = "rm"], [Bo EXCEPT !.op = "move", !.col = "review"],
                     [Bo EXCEPT !.op = "prio", !.card = 2, !.how = "top"], [Bo EXCEPT !.op = "block", !.card = 2, !.block = "b"],
                     [Bo EXCEPT !.op = "add", !.title = "n", !.due = "day", !.checks = <<"x">>]}
       [] OTHER -> {Set(Cy, "actors", {"bo", "cy"}), Set(Cy, "actors", {"bo"}), Set(Cy, "rules", "r"),
                    [Cy EXCEPT !.op = "import", !.doc = Whole(<<In("j")>>, <<In("i")>>)],
                    [Cy EXCEPT !.op = "bulkedit", !.doc = Doc("array", <<Ch(2), Ch(1)>>)],
                    [Cy EXCEPT !.op = "bulkedit", !.doc = Doc("array", <<Ch(2), Ch(1)>>), !.force = TRUE],
                    [Cy EXCEPT !.op = "import", !.doc = Doc("card", In("i")), !.dry = TRUE]}]]

Settled == [sort |-> "due", readers |-> {"bo"}, verifiers |-> {"rv"}, github |-> "r"]
Boxes ==
  [db |-> EmptyBoard, from |-> Settled, watched |-> FALSE,
   plans |-> [p \in {p1, p2, p3} |->
     CASE p = p1 -> {[Ann EXCEPT !.op = "from", !.key = "kind", !.agent = TRUE],
                     [Ann EXCEPT !.op = "new", !.key = "kind", !.value = "deadline", !.agent = TRUE],
                     Set(Ann, "kind", "default"), Set(Ann, "github", "s"), Off(Ann, "github"),
                     Set([Ann EXCEPT !.agent = TRUE], "verifiers", {"ann"}),
                     Set(Ann, "readers", {"cy"}), Off(Ann, "readers")}
       [] p = p2 -> {Set(Bo, "verifier_only", "off"), Set(Bo, "file_mode", "shared"), Set(Bo, "wip", Bad),
                     Off(Bo, "done_by"), Off(Bo, "sort"), Set(Bo, "sort", None), Off(Bo, "hook"), Off(Bo, "max_rounds"),
                     Off(Bo, "actors"), Set(Bo, "layout", None), Off(Bo, "label.todo"), Off(Bo, "waiting_lane"), Set(Bo, "github-panel", "hidden"),
                     Set(Bo, "wip", "4")}
       [] OTHER -> {Set([Cy EXCEPT !.agent = TRUE], "wip", "5"), Set([Cy EXCEPT !.agent = TRUE], "rm", "archive"), Set(Cy, "readers", {"bo"}),
                    Set(Cy, "github", "r")}]]
\* A watch beside a command that logs twice, one that takes lines away, for good or to the
\* archive, one that brings them back and a document.
Stream(conf) ==
  [db |-> [Two EXCEPT !.conf = conf], from |-> <<>>, watched |-> TRUE,
   plans |-> [p \in {p1, p2, p3} |->
     CASE p = p1 -> {[Ann EXCEPT !.op = "edit", !.card = 2, !.title = "t2", !.due = "day"], [Ann EXCEPT !.op = "note"]}
       [] p = p2 -> {[Bo EXCEPT !.op = "rm", !.card = 2], [Bo EXCEPT !.op = "take", !.card = 2]}
       [] OTHER -> {[Cy EXCEPT !.op = "import", !.doc = Doc("card", In("i"))], [Cy EXCEPT !.op = "restore", !.card = 2],
                    Set(Cy, "rm", "archive")}]]
\* A command that is refused at once.
Nobody == [Ann EXCEPT !.op = "note", !.by = Unset]
Board2(plans) == [db |-> Two, from |-> <<>>, watched |-> FALSE, plans |-> plans]
\* Sessions held to a name, to a card or to reading, beside somebody who blocks another way or
\* archives; card 1 waits for card 2.
Sessions ==
  [Board2([p \in {p1, p2, p3} |->
     CASE p = p1 ->
            {Env([c EXCEPT !.env.bound = 2], "role", r) :
               c \in {[Ann EXCEPT !.op = "prio", !.force = TRUE], [Ann EXCEPT !.op = "note"], [Ann EXCEPT !.op = "next"],
                      [Ann EXCEPT !.op = "edit", !.card = 2, !.title = "t2"], [Ann EXCEPT !.op = "block", !.force = TRUE, !.block = "b"],
                      [Ann EXCEPT !.op = "move", !.card = 2, !.col = "done"], [Ann EXCEPT !.op = "restore", !.card = 3], [Ann EXCEPT !.op = "add", !.title = "n"]},
               r \in {None, "lead"}}
       [] p = p2 ->
            {Env(Env(c, "pin", "bo"), f, TRUE) :
               c \in {[Ann EXCEPT !.op = "addcheck", !.text = "c", !.force = TRUE], Set(Bo, "wip", "4"), [Bo EXCEPT !.op = "link", !.text = "m"],
                      [Ann EXCEPT !.op = "new", !.key = "kind", !.value = "deadline"]},
               f \in {"ticket", "home", "readonly"}}
            \cup {Env(Bo, "home", FALSE), [Bo EXCEPT !.op = "note", !.by = Github],
                  Env([Env(Ann, "pin", "bo") EXCEPT !.op = "note"], "file", "outside"), Env(Env(Bo, "file", "inside"), "named", TRUE)}
       [] OTHER -> {Nobody, [Cy EXCEPT !.op = "block", !.force = TRUE, !.block = "c"]}])
   EXCEPT !.db.card[1].block = "b", !.db.card[1].on = 2, !.db.shelf = [i \in {3} |-> [card |-> Row2, items |-> <<>>, links |-> <<>>]],
          !.db.next = 4]
\* Documents that are no good, and some that are, beside somebody who takes or removes a card.
Documents ==
  Board2([p \in {p1, p2, p3} |->
     CASE p = p1 -> {Nobody}
       [] p = p2 -> {[Bo EXCEPT !.op = "rm", !.card = 2, !.force = TRUE], [Bo EXCEPT !.op = "take", !.card = 2]}
       [] OTHER ->
            {[Cy EXCEPT !.op = "import", !.doc = d] :
               d \in {Doc("array", <<>>), Doc("other", <<>>), Doc("cards", <<In("i"), Bad>>),
                      Doc("cards", <<[In("i") EXCEPT !.gh_ref = 2]>>), Doc("cards", <<[In("i") EXCEPT !.gh_ref = 1, !.tag = ""]>>),
                      Doc("cards", <<[In("i") EXCEPT !.checklist = <<Thing("x", TRUE), Bad>>]>>), Doc("cards", <<[In("i") EXCEPT !.title = ""]>>)}}
            \cup {[Cy EXCEPT !.op = "bulkedit", !.force = TRUE, !.doc = d] :
               d \in {Doc("cards", <<Ch(2), [Ch(2) EXCEPT !.title = Bad]>>), Doc("cards", <<[Ch(2) EXCEPT !.id = Unset]>>),
                      Doc("cards", <<[Ch(2) EXCEPT !.gh_ref = 3, !.tag = "t", !.inTag = "t"]>>)}}])
\* A card whose issue the last sync saw open, in a queue sorted by date.
Issues ==
  [Board2([p \in {p1, p2, p3} |->
     CASE p = p1 -> {[Ann EXCEPT !.op = "move", !.card = 2, !.col = "done", !.force = f] : f \in BOOLEAN}
       [] p = p2 -> {Set(Bo, "github", "s"), Set(Bo, "sort", "position"), [Bo EXCEPT !.op = "edit", !.card = 3, !.due = "day2"]}
       [] OTHER -> {[Cy EXCEPT !.op = "next"]}])
   EXCEPT !.db = [Two EXCEPT !.card[2].ref = 1, !.card[3] = [Row2 EXCEPT !.due = "day"], !.order["todo"] = <<2, 3>>,
                    !.next = 4, !.conf = [github |-> "r", sort |-> "due"],
                    !.snap = [repo |-> "r", open |-> {1}, fails |-> 0]]]
MCWorlds == {Cards, Boxes, Stream(<<>>), Stream([rm |-> "archive"]), Sessions, Documents, Issues}

\* Four cards of one column, with every choice of dates, free text and none.
MCCalendar == [day |-> 3, day2 |-> 4, day3 |-> 4]
Queue(dues, sort) ==
  [EmptyBoard EXCEPT !.card = [i \in Id |-> [NewCard("t", None, dues[i], None) EXCEPT !.col = "review"]],
                     !.order["review"] = <<3, 1, 2, 4>>, !.conf = [sort |-> sort]]

\* order.rs: whatever the dates, the order is total, the dated cards come first, nearest first,
\* and cards of one day, or of none, keep their position.
ASSUME OrderIsTotal ==
  \A dues \in [Id -> {"day", "day2", "day3", "Sep 22", None}] :
    LET d == Queue(dues, "due")   s == InColumn(d, "review")
        undated(i) == DateOf(dues[i]) = None
    IN /\ InColumn(Queue(dues, "position"), "review") = <<3, 1, 2, 4>>
       /\ Range(s) = Id /\ Listed(d) = s /\ \A i \in Id : PlaceOf(d, i)[1] = Place(s, i)
       /\ \A m, n \in DOMAIN s : m < n =>
            /\ undated(s[m]) => undated(s[n])
            /\ ~undated(s[n]) => DateOf(dues[s[m]]) <= DateOf(dues[s[n]])
            /\ DateOf(dues[s[m]]) = DateOf(dues[s[n]]) => ByPosition(d, s[m], s[n])

\* due.rs: as the days pass a card goes from ok to soon to overdue and never back; a finished
\* one, and one whose text is no date, warns of nothing.
ASSUME DueGoesOneWay ==
  LET rank == [ok |-> 1, soon |-> 2, overdue |-> 3]
  IN /\ \A t \in 0..8, w \in 0..3 :
         rank[DueState("day", "todo", t, w)] <= rank[DueState("day", "todo", t + 1, w)]
     /\ \A t \in 0..8, w \in 0..3 : DueState("day", "todo", t, w) = "overdue" <=> t > 3
     /\ \A t \in 0..8 : DueState("day", "done", t, 3) = None /\ DueState("Sep 22", "todo", t, 3) = None
=============================================================================
