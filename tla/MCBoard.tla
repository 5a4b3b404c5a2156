------------------------------ MODULE MCBoard ------------------------------
(* Values the MC modules of Board share: command lines and identities.     *)
EXTENDS Board

Plain(kind, c) == [kind |-> kind, card |-> c, to |-> None, name |-> None, on |-> None,
                   force |-> FALSE, why |-> FALSE, glass |-> FALSE]
To(c, col) == [Plain("move", c) EXCEPT !.to = col]
Sync(c) == [Plain("sync", c) EXCEPT !.to = "review"]
Give(c, n) == [Plain("assign", c) EXCEPT !.name = n]
Because(ask) == [ask EXCEPT !.why = TRUE]
Forced(ask) == [ask EXCEPT !.force = TRUE]

Person(n) == [name |-> n, agent |-> FALSE, verifier |-> FALSE, lead |-> FALSE,
              registered |-> FALSE, session |-> None, scrubbed |-> FALSE]
Builder(n, s) == [Person(n) EXCEPT !.agent = TRUE, !.session = s]
Verifier(n, s) == [Builder(n, s) EXCEPT !.verifier = TRUE, !.registered = TRUE]

Names == {"ann", "bob", "rev", "rex"}
Sessions == {"s1", "s2", "s3"}
Procs == {"tty", "build", "check1", "check2", "cron"}
People == [p \in Procs |->
  CASE p = "build"  -> Builder("bob", "s1")
    [] p = "check1" -> Verifier("rev", "s2")
    [] p = "check2" -> Verifier("rex", "s3")
    [] OTHER        -> Person("ann")]

Defaults == [wip |-> 1, countsBlocked |-> TRUE, perOwner |-> 0, maxRounds |-> 0,
             verifierOnly |-> TRUE, verifiers |-> {}, doneBy |-> {}, needsNote |-> FALSE,
             needsLink |-> FALSE, hook |-> FALSE, actors |-> {}, archive |-> TRUE]
=============================================================================
