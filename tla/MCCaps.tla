------------------------------- MODULE MCCaps -------------------------------
(* Five cards and three holders against the WIP limits, blocked cards      *)
(* discounted: one command at a time, because the limits are read inside   *)
(* the transaction that spends them.                                       *)
EXTENDS MCBoard, TLC

CONSTANTS k1, k2, k3, k4, k5
Cards == {k1, k2, k3, k4, k5}
Alike == Permutations({k2, k3, k4, k5})

\* Only k1 goes through review, and comes back on top of the limit.
CapAsks == [p \in Procs |->
  CASE p = "tty"    -> {Plain("add", None), Plain("next", None), Plain("unblock", k1)}
                         \cup {Give(c, "bob") : c \in Cards} \cup {Plain("block", c) : c \in Cards}
    [] p = "build"  -> {Plain("next", None), Plain("done", k1)}
    [] p = "check2" -> {Plain("next", None), Because(To(k1, "doing"))}
    [] OTHER        -> {}]
CapBoard == [Defaults EXCEPT !.wip = 2, !.perOwner = 1, !.countsBlocked = FALSE]
=============================================================================
