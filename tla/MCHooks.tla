------------------------------ MODULE MCHooks ------------------------------
(* Two cards on a board that asks a pre-change hook, so that every change  *)
(* is approved at one moment and made at a later one, with a second card   *)
(* that may wait for the first.                                            *)
EXTENDS MCBoard

CONSTANTS k1, k2
Cards == {k1, k2}

Glass(ask) == [ask EXCEPT !.glass = TRUE]
Wait(c, d) == [Plain("block", c) EXCEPT !.on = d]

HookAsks == [p \in Procs |->
  CASE p = "tty"    -> {Plain("add", None), Glass(Forced(Plain("done", k1))),
                        Plain("done", k1), To(k1, "todo")}
    [] p = "build"  -> {Plain("next", None), Plain("done", k1), Plain("drop", k1), Plain("drop", k2)}
    [] p = "check2" -> {Plain("next", None), Wait(k2, k1), Plain("unblock", k2)}
    [] OTHER        -> {}]
HookBoard == [Defaults EXCEPT !.hook = TRUE, !.archive = FALSE]
=============================================================================
