------------------------------ MODULE MCReview ------------------------------
(* One card, a person, a builder agent and two registered verifiers.       *)
EXTENDS MCBoard

CONSTANT k1

\* Who may finish the card: claims, probes, forced and stale closes, send-backs.
ClaimAsks == [p \in Procs |->
  CASE p = "tty"    -> {Plain("add", k1), Give(k1, "rex"), Forced(Plain("done", k1))}
    [] p = "build"  -> {Plain("take", k1), Plain("done", k1), Forced(To(k1, "done"))}
    [] p = "check1" -> {Plain("claim", k1), Plain("done", k1), Because(To(k1, "todo"))}
    [] p = "check2" -> {Plain("claim", k1), Plain("nextreview", k1), Plain("done", k1),
                        Because(To(k1, "doing"))}
    [] OTHER        -> {}]

\* Whose work it is: takes, an assignment, drops, a dead holder's release, moves by others, GitHub sync,
\* the archive, and the closing note and link the board asks for.
WorkAsks == [p \in Procs |->
  CASE p = "tty"    -> {Plain("add", k1), Give(k1, "rev"), To(k1, "review"), To(k1, "doing"),
                        Because(Plain("release", k1)), Plain("rm", k1), Plain("restore", k1)}
    [] p = "build"  -> {Plain("take", k1), Plain("done", k1), Plain("drop", k1), Plain("note", k1)}
    [] p = "check1" -> {Plain("nextreview", k1), Plain("done", k1), Plain("link", k1)}
    [] p = "cron"   -> {Sync(k1)}
    [] OTHER        -> {}]
WorkBoard == [Defaults EXCEPT !.needsNote = TRUE, !.needsLink = TRUE]
=============================================================================
