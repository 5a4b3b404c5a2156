-------------------------------- MODULE Gate --------------------------------
(***************************************************************************)
(* What stands before every command (main.rs, run): what the session that  *)
(* runs it may ask of a board, from its environment and from the parsed    *)
(* command alone.  Only the reader list is read from the board; each of    *)
(* the others is decided once, before the command begins.                  *)
(***************************************************************************)
EXTENDS Document

\* TB_READONLY or --read-only; TB_AS, the name the session was launched as; TB_CARD, the card
\* it was launched for, Elsewhere for one of another board; TB_ROLE; HOME; TB_DB, a file
\* "inside" or "outside" tb's own directories; a board named beside TB_DB; a live hook ticket.
Plain ==
  [readonly |-> FALSE, pin |-> None, bound |-> None, role |-> None, home |-> TRUE, file |-> None,
   named |-> FALSE, ticket |-> FALSE]
Elsewhere == 0

-----------------------------------------------------------------------------
(* What the commands are                                                   *)

\* main.rs, Cmd::writes: the commands that act under a name.
CmdWrites(c) == c.op \notin {"refresh", "new", "from"}

\* main.rs, changes_the_board: whatever is not known to be a read.
ChangesTheBoard(c) ==
  ~ \/ c.op = "config" /\ c.value = None /\ ~c.off
    \/ c.op = "refresh" /\ ~c.force

\* Bug: a card's order and its blocks are anybody's.
CardBoundWriteButPrio(c) ==
  CASE c.op \in {"take", "check", "addcheck", "rmcheck", "link", "unlink", "move", "release", "rm", "restore"} -> c.card
    [] c.op = "edit" -> c.card
    [] c.op = "add" \/ c.op = "bulkedit" \/ (c.op = "import" /\ ~c.dry) -> Unset
    [] OTHER -> None

\* main.rs, card_bound_write: the card a command changes, Unset for one it makes.  A note goes
\* on any card; next, which takes a card of its own choice, and sync are in no list.
CardBoundWrite(c) ==
  CASE c.op \in {"take", "check", "addcheck", "rmcheck", "link", "unlink", "move", "block", "release",
                 "rm", "restore", "prio"} -> c.card
    [] c.op = "edit" -> c.card
    [] c.op = "add" \/ c.op = "bulkedit" \/ (c.op = "import" /\ ~c.dry) -> Unset
    [] OTHER -> None

-----------------------------------------------------------------------------
(* What a session may do                                                   *)

\* An --as of blanks names nobody.
Someone(c) == c.by # Unset

ReadOnlyAllows(c) == c.env.readonly => ~ChangesTheBoard(c)

\* The name tb's own sync acts under is nobody else's.
OwnName(c) == CmdWrites(c) => c.by # Github

\* TB_DB needs no HOME, and takes no board name.
HasPlace(c) == (c.env.file = None => c.env.home) /\ (c.env.file # None => ~c.env.named)

\* main.rs, db_exempt: a file of one's own is outside every rule about sessions.
DbExempt(c) == c.env.file = "outside"

\* main.rs, pin_guards_creation for what makes a board, pin_guards_existing for the rest; a hook
\* that has a ticket for the board acts under any name.
PinGuards(c) == c.env.pin \in {None, c.by} \/ c.env.ticket \/ DbExempt(c)

\* Whoever steers a board is bound to no card of it.
Steers(c) == c.env.role \in {"lead", "orchestrator"}
BoundAllows(c) ==
  \/ c.env.bound = None \/ Steers(c) \/ DbExempt(c)
  \/ CardBoundWrite(c) \in {None, c.env.bound}

\* readers.rs, may_read.
MayRead(d, c) ==
  LET readers == IF "readers" \in DOMAIN d.conf THEN d.conf["readers"] ELSE {}
  IN readers = {} \/ ~c.agent \/ c.by \in readers

\* tb new takes its own way in: TB_DB has no board to make, and nobody is bound away from it.
MayMake(c) == Someone(c) /\ ReadOnlyAllows(c) /\ c.env.file = None /\ c.env.home /\ PinGuards(c)

Admitted(d, c) ==
  IF c.op \in {"new", "from"} THEN MayMake(c) /\ MayRead(d, c)
  ELSE /\ Someone(c) /\ ReadOnlyAllows(c) /\ OwnName(c) /\ HasPlace(c)
       /\ c.op \in {"import", "bulkedit"} => Readable(c.doc)
       /\ PinGuards(c) /\ MayRead(d, c) /\ BoundAllows(c)
=============================================================================
