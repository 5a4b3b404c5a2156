------------------------------- MODULE Wizard -------------------------------
(***************************************************************************)
(* tb setup (setup.rs): the wizard asks, step by step, and writes what was *)
(* answered: rows of the config table, GitHub's first snapshot, and files  *)
(* of the person's own - a skill, and a marked block in an AGENTS.md.      *)
(* Each step looks at the board or at a file, waits for the person, and    *)
(* writes; other commands, and the person's editor, run in between.        *)
(***************************************************************************)
EXTENDS Chores

\* home: the lines of the AGENTS.md, whether there is a ~/.claude and the skill in it, and
\* whether install.conf remembers the file.
VARIABLE home

\* The options of tb setup (a command's value) and what the person will answer; None: enter, or
\* no terminal.  first: bare tb on a machine where nothing is set up.
Options ==
  [yes |-> FALSE, github |-> None, no_github |-> FALSE, agents |-> None, path |-> FALSE, first |-> FALSE,
   go |-> None, change |-> None, connect |-> None, pick |-> None, show |-> None, skill |-> None, file |-> FALSE]
O(p) == C(p).value

\* Prompt::ask.
Says(o, question, default) == IF o.yes \/ o[question] = None THEN default ELSE o[question]

-----------------------------------------------------------------------------
(* The marked block                                                        *)

StartMark == "start"
EndMark == "end"

\* setup.rs, strip_block_text: from a start mark to the next end mark, or to the end.
StripBlock(text) ==
  FoldLeft(LAMBDA acc, l : CASE l = StartMark -> [acc EXCEPT !.skip = TRUE]
                             [] l = EndMark -> [acc EXCEPT !.skip = FALSE]
                             [] acc.skip -> acc
                             [] OTHER -> [acc EXCEPT !.kept = Append(@, l)],
           [kept |-> <<>>, skip |-> FALSE], text).kept

\* setup.rs, write_block, without the blank lines it sets the block apart with.
WithBlock(text) == StripBlock(text) \o <<StartMark, "snippet", EndMark>>

-----------------------------------------------------------------------------
(* The steps                                                               *)

SetupSteps(c) ==
  <<Do("open"), Do("welcome"), Do("connect"), Do("panel"), Do("skill"), Do("snippet")>>
  \o (IF c.dry THEN <<>> ELSE <<Put(SetupDone, "1")>>)
WizardSteps(c) == IF c.op = "setup" THEN SetupSteps(c) ELSE ChoreSteps(c)

\* Bug: the board is asked about as if it were not connected.
WantUnasked(o, current) ==
  IF o.no_github THEN "skip"
  ELSE IF o.github # None THEN "connect"
  ELSE IF Says(o, "connect", FALSE) THEN "connect" ELSE "skip"

\* Wizard::github: a board that is connected stays so unless the person says otherwise.
Want(o, current) ==
  IF o.no_github THEN "skip"
  ELSE IF o.github # None THEN "connect"
  ELSE IF current # None THEN IF Says(o, "change", FALSE) THEN "connect" ELSE "keep"
  ELSE IF Says(o, "connect", FALSE) THEN "connect" ELSE "skip"

\* Wizard::github_repo: gh may be missing or not logged in, and stay so; a repository GitHub does
\* not know is an error when it was an option, and no repository when it was typed.
RepoChosen(o, dry) ==
  LET asked == IF dry \/ o.github # None THEN o.github ELSE Says(o, "pick", None)
  IN {None, asked} \cup (IF ~dry /\ o.github # None THEN {Bad} ELSE {})

Disconnect == SetGithub(None) \o <<Put("github-panel", "hidden")>>
Connected(repo) == SetGithub(repo) \o <<Put("github-panel", "shown"), Do("fetch"), Do("save")>>

\* What the wizard goes on with before its next step.
Then(p, c, steps) ==
  Turns(p, c, (IF C(p).dry THEN <<>> ELSE steps) \o Tail(c.left)) /\ UNCHANGED <<db, writer, work>>

OnlyAsks == Still /\ Alone /\ UNCHANGED home

\* On a first run the person may skip all of it.
Welcome(p) ==
  /\ At(p, "welcome") /\ OnlyAsks
  /\ IF O(p).first /\ ~Says(O(p), "go", TRUE)
     THEN Turns(p, cmd[p], <<Put(SetupDone, "1")>>) /\ UNCHANGED <<db, writer, work>>
     ELSE Then(p, cmd[p], <<>>)

ConnectStep(p) ==
  /\ At(p, "connect") /\ OnlyAsks
  /\ LET current == Get(db, "github")
         want == Want(O(p), current)
         seen == [cmd[p] EXCEPT !.base = current]
     IN IF want = "connect" /\ ~C(p).dry THEN Then(p, seen, <<Do("choose")>>)
        ELSE Then(p, seen, IF want = "skip" THEN Disconnect ELSE <<>>)

Choose(p) ==
  /\ At(p, "choose") /\ OnlyAsks
  /\ \E repo \in RepoChosen(O(p), C(p).dry) :
       IF repo = Bad THEN Refused(p)
       ELSE Then(p, [cmd[p] EXCEPT !.item = repo], IF repo = None THEN Disconnect ELSE Connected(repo))

\* The panel's default is what the board has, else whether herdr is there.
PanelStep(p) ==
  /\ At(p, "panel") /\ OnlyAsks
  /\ \E herdr \in BOOLEAN :
       LET chosen == Get(db, "agents-panel")
           default == IF chosen # None THEN chosen # "hidden" ELSE herdr /\ ~O(p).yes
           show == IF O(p).agents # None THEN O(p).agents ELSE Says(O(p), "show", default)
       IN Then(p, [cmd[p] EXCEPT !.made = chosen], <<Put("agents-panel", IF show THEN "shown" ELSE "hidden")>>)

\* A file that cannot be written ends the wizard.
SkillStep(p) ==
  /\ At(p, "skill") /\ Still /\ Alone
  /\ LET want == IF O(p).agents # None THEN O(p).agents ELSE home.claude /\ Says(O(p), "skill", FALSE)
     IN IF want /\ ~C(p).dry
        THEN \/ Reads(p, cmd[p]) /\ home' = [home EXCEPT !.skill = TRUE]
             \/ Refused(p) /\ UNCHANGED home
        ELSE Reads(p, cmd[p]) /\ UNCHANGED home

\* An AGENTS.md named by an option or typed, Wizard::snippet_path; its text is read.
SnippetStep(p) ==
  /\ At(p, "snippet") /\ OnlyAsks
  /\ LET o == O(p)
         wanted == o.path \/ (o.agents # FALSE /\ ~o.yes /\ o.file)
     IN Then(p, [cmd[p] EXCEPT !.old = home.lines], IF wanted THEN <<Do("block"), Do("remember")>> ELSE <<>>)

WriteBlock(p) ==
  /\ At(p, "block") /\ Still /\ Alone
  /\ \/ Reads(p, cmd[p]) /\ home' = [home EXCEPT !.lines = WithBlock(cmd[p].old)]
     \/ Refused(p) /\ UNCHANGED home

\* For install.sh --uninstall; a failure is not even noticed.
Remember(p) ==
  /\ At(p, "remember") /\ Reads(p, cmd[p]) /\ Still /\ Alone
  /\ \E written \in BOOLEAN : home' = [home EXCEPT !.conf = @ \/ written]

SetupStep(p) ==
  \/ Welcome(p) \/ ConnectStep(p) \/ Choose(p) \/ PanelStep(p) \/ SkillStep(p) \/ SnippetStep(p)
  \/ WriteBlock(p) \/ Remember(p)

\* The person's own editor.
Edits == News([machine EXCEPT !.kill = @]) /\ home' = [home EXCEPT !.lines = Append(@, "more")]

WizardStep == (ChoresStep /\ UNCHANGED home) \/ Edits \/ \E p \in Proc : SetupStep(p)

-----------------------------------------------------------------------------
(* Properties                                                              *)

\* tb setup can be run as often as one likes: unless its options or answers ask for a change, a
\* repository and a choice of panel it found on the board are what it leaves there, whatever was
\* set meanwhile by others; a dry run changes nothing; and of an AGENTS.md it keeps every line
\* outside its block, with one block in the end (setup.rs; README.md, Setup).
AsksRepo(o) == o.no_github \/ o.github # None \/ (~o.yes /\ o.change = TRUE)
AsksPanel(o) == o.agents # None \/ (~o.yes /\ o.show # None)
OwnLines(text) ==
  LET blocked(n) == \E m \in 1..n : text[m] = StartMark /\ \A k \in m..n-1 : text[k] # EndMark
      own == SelectSeq([n \in DOMAIN text |-> n], LAMBDA n : text[n] # EndMark /\ ~blocked(n))
  IN [k \in DOMAIN own |-> text[own[k]]]
SetupKeeps ==
  [][\A p \in Proc : plan[p].op = "setup" /\ cmd'[p] # cmd[p] =>
       /\ plan[p].dry => db' = db /\ home' = home
       /\ ~At(p, "open") /\ cmd[p].base # None /\ ~AsksRepo(O(p)) => Get(db', "github") = Get(db, "github")
       /\ cmd[p].made # None /\ ~AsksPanel(O(p)) /\ Get(db', "agents-panel") # Get(db, "agents-panel") =>
            Get(db', "agents-panel") = cmd[p].made
       /\ home'.lines # home.lines =>
            /\ OwnLines(home'.lines) = OwnLines(cmd[p].old)
            /\ Cardinality({n \in DOMAIN home'.lines : home'.lines[n] = StartMark}) = 1]_<<deskVars, choreVars, home>>
=============================================================================
