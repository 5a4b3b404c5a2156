----------------------------- MODULE MCScreen -----------------------------
EXTENDS Screen, TLC
CONSTANTS p1, p2, p3

Ref(pr, state, paged, by, newer) == [pr |-> pr, state |-> state, paged |-> paged, by |-> by, newer |-> newer]
MCHub ==
  [r |-> (1 :> Ref(FALSE, "open", TRUE, "page", TRUE) @@ 2 :> Ref(TRUE, "merged", FALSE, "none", FALSE) @@ 3 :> Ref(FALSE, "open", TRUE, "none", FALSE)),
   s |-> (1 :> Ref(FALSE, "closed", FALSE, "none", FALSE) @@ 2 :> Ref(TRUE, "open", FALSE, "beyond", FALSE)),
   t |-> (1 :> Ref(FALSE, "open", TRUE, "page", TRUE))]

MCCalendar == [day |-> 1, day2 |-> 2]
Quietly == [vouch |-> [n \in {"bo", "cy"} |-> {}], day |-> 0, kill |-> FALSE, ledger |-> FALSE, ticks |-> <<>>, news |-> 1]
Card1 == [NewCard("t", "d", None, None) EXCEPT !.col = "doing", !.owner = "bo", !.ref = 1]
Card2 == [NewCard("t", "d", None, None) EXCEPT !.ref = 2]
OnHub ==
  [EmptyBoard EXCEPT !.card[1] = Card1, !.card[2] = Card2, !.order["doing"] = <<1>>, !.order["todo"] = <<2>>,
     !.next = 3, !.conf = [github |-> "r"]]
Ann == [Blank EXCEPT !.by = "ann"]
Bo == [Blank EXCEPT !.by = "bo"]
Cy == [Blank EXCEPT !.by = "cy"]
NoHome == [lines |-> <<>>, claude |-> FALSE, skill |-> FALSE, conf |-> FALSE]
Reap == [Blank EXCEPT !.op = "reap", !.by = Reaper, !.force = TRUE]

Synced ==
  [db |-> OnHub, from |-> <<>>, home |-> NoHome, watched |-> FALSE, keys |-> {}, left |-> 0, fetches |-> 0, machine |-> [Quietly EXCEPT !.day = MaxDay, !.news = 0],
   journal |-> <<>>, young |-> {},
   plans |-> [p \in {p1, p2, p3} |->
     CASE p = p1 -> {[Ann EXCEPT !.op = "sync"]}
       [] p = p2 -> {[Bo EXCEPT !.op = "take", !.card = 2], [Bo EXCEPT !.op = "rm"],
                     [Bo EXCEPT !.op = "move", !.col = "done"],
                     [Bo EXCEPT !.op = "config", !.key = "github", !.value = "s"]}
       [] OTHER -> {[Cy EXCEPT !.op = "refresh"], [Cy EXCEPT !.op = "refresh", !.force = TRUE]}]]

\* bo was named dead on the first day, the second after it moved the card.
Named1 == <<[day |-> 0, at |-> 0, dead |-> {<<1, "cy">>}, current |-> FALSE],
            [day |-> 0, at |-> 1, dead |-> {<<1, "bo">>}, current |-> TRUE]>>
Reaped ==
  [db |-> [OnHub EXCEPT !.log = {[eid |-> 1, card |-> 1, by |-> "bo", kind |-> "moved"]}, !.eid = 2,
                     !.conf = [github |-> "r", rm |-> "archive"]],
   from |-> <<>>, home |-> NoHome, watched |-> FALSE, keys |-> {}, left |-> 0, fetches |-> 0,
   machine |-> [Quietly EXCEPT !.vouch["cy"] = {"session"}, !.ticks = <<2>>],
   journal |-> Named1, young |-> {},
   plans |-> [p \in {p1, p2, p3} |->
     CASE p = p1 -> {Reap, [Reap EXCEPT !.agent = TRUE, !.text = "bo"], [Reap EXCEPT !.force = FALSE]}
       [] p = p2 -> {[Bo EXCEPT !.op = "addcheck", !.text = "c"], [Bo EXCEPT !.op = "move", !.col = "review"],
                     [Bo EXCEPT !.op = "rm"],
                     [Ann EXCEPT !.op = "release"], [Ann EXCEPT !.op = "release", !.agent = TRUE, !.text = "bo"]}
       [] OTHER -> {[Cy EXCEPT !.op = "restore"], [Reap EXCEPT !.dry = TRUE], [Reap EXCEPT !.dry = TRUE, !.agent = TRUE, !.text = "bo"]}]]

\* The screen beside somebody who edits, takes or removes what it shows: the form, a card's popup,
\* moves and removals, and the fetch of a repository while another board or another one is picked.
MeDo == [Blank EXCEPT !.by = "me"]
Screened(keys, left, fetches, others) ==
  [db |-> [OnHub EXCEPT !.items[1] = <<[what |-> "a", done |-> FALSE]>>], from |-> <<>>, home |-> NoHome, watched |-> FALSE,
   machine |-> [Quietly EXCEPT !.day = MaxDay, !.news = 0], journal |-> <<>>, young |-> {},
   keys |-> keys, left |-> left, fetches |-> fetches,
   plans |-> [p \in {p1, p2, p3} |-> IF p = p2 THEN others ELSE {[MeDo EXCEPT !.op = "screen"]}]]
Form ==
  Screened({[MeDo EXCEPT !.op = "edit", !.card = 2, !.title = "t1", !.desc = "d1", !.due = "day"],
            [MeDo EXCEPT !.op = "edit", !.card = 2, !.desc = "d1"]}, 3, 0,
           {[Bo EXCEPT !.op = "edit", !.card = 2, !.title = "t2", !.due = "day2"],
            [Bo EXCEPT !.op = "edit", !.card = 2, !.desc = "d2"], [Bo EXCEPT !.op = "take", !.card = 2]})
Popup ==
  Screened({[MeDo EXCEPT !.op = "check"], [MeDo EXCEPT !.op = "rmcheck"],
            [MeDo EXCEPT !.op = "addcheck", !.text = "c"], [MeDo EXCEPT !.op = "note"]}, 4, 0,
           {[Bo EXCEPT !.op = "rm"], [Bo EXCEPT !.op = "move", !.col = "review"],
            [Bo EXCEPT !.op = "rmcheck"]})
Walk ==
  Screened({[MeDo EXCEPT !.op = "move", !.card = 2, !.col = "review"], [MeDo EXCEPT !.op = "move", !.card = 2, !.col = "doing"],
            [MeDo EXCEPT !.op = "move", !.card = 2, !.col = "done"], [MeDo EXCEPT !.op = "move", !.col = "done"],
            [MeDo EXCEPT !.op = "rm"], [MeDo EXCEPT !.op = "prio", !.card = 2],
            [MeDo EXCEPT !.op = "add", !.title = "n", !.due = "day"],
            [MeDo EXCEPT !.op = "config", !.key = "theme", !.value = "light"]}, 4, 0,
           {[Bo EXCEPT !.op = "take", !.card = 2], [Bo EXCEPT !.op = "move", !.col = "review"]})
Fetching ==
  Screened({[MeDo EXCEPT !.op = "add", !.title = "g", !.ref = 3],
            [MeDo EXCEPT !.op = "config", !.key = "github", !.value = "s"]}, 3, 2,
           {[Bo EXCEPT !.op = "take", !.card = 2], [Bo EXCEPT !.op = "config", !.key = "github", !.value = "s"]})
\* An agent's screen: its own card is open on GitHub, which moves it to REVIEW by itself, beside
\* the person who gives the board its verifier rule.
Agents ==
  LET keys == {[MeDo EXCEPT !.op = "move", !.col = col, !.agent = TRUE, !.how = "builder"] : col \in {"review", "done"}}
      rule == {[Bo EXCEPT !.op = "config", !.key = "verifier_only", !.value = "on"]}
  IN [Screened(keys, 4, 1, rule) EXCEPT !.db.card[1].owner = "me"]
\* tb setup, whatever it is told, beside a command that sets what it asks about and the person's
\* editor: a connected board and one that is not, a block that is there and one that is not.
SetupAs(o) == [MeDo EXCEPT !.op = "setup", !.value = o]
Told ==
  {[Options EXCEPT !.yes = TRUE], [Options EXCEPT !.yes = TRUE, !.github = "s", !.agents = FALSE],
   [Options EXCEPT !.no_github = TRUE, !.agents = TRUE, !.path = TRUE],
   [Options EXCEPT !.first = TRUE, !.go = FALSE], [Options EXCEPT !.first = TRUE, !.connect = TRUE, !.pick = "t", !.file = TRUE],
   [Options EXCEPT !.change = TRUE, !.pick = "s", !.show = FALSE], [Options EXCEPT !.skill = TRUE, !.file = TRUE]}
SetUp(conf, lines) ==
  [db |-> [OnHub EXCEPT !.conf = conf], from |-> <<>>, watched |-> FALSE, keys |-> {}, left |-> 0, fetches |-> 0,
   home |-> [NoHome EXCEPT !.lines = lines, !.claude = TRUE],
   machine |-> [Quietly EXCEPT !.day = MaxDay, !.kill = TRUE, !.ledger = TRUE, !.news = 0], journal |-> <<>>, young |-> {},
   plans |-> [p \in {p1, p2, p3} |->
     CASE p = p1 -> {SetupAs(o) : o \in Told} \cup {[SetupAs([Options EXCEPT !.yes = TRUE, !.github = "s", !.path = TRUE]) EXCEPT !.dry = TRUE]}
       [] p = p2 -> {[Bo EXCEPT !.op = "config", !.key = "github", !.value = "t"],
                     [Bo EXCEPT !.op = "config", !.key = "agents-panel", !.value = "shown"]}
       [] OTHER -> {[MeDo EXCEPT !.op = "screen"]}]]
Setups ==
  {SetUp([github |-> "r"], <<"text", StartMark, "old", EndMark, "text">>), SetUp(<<>>, <<"text">>),
   SetUp([github |-> "r"] @@ ("agents-panel" :> "hidden"), <<StartMark, "snippet", EndMark, "text", StartMark, "old", EndMark>>)}
MCWorlds == {Synced, Reaped, Form, Popup, Walk, Fetching, Agents} \cup Setups
=============================================================================
