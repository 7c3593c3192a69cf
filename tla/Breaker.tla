------------------------------ MODULE Breaker ------------------------------
(***************************************************************************)
(* The circuit breaker of one deployment                                   *)
(* (dataplane/internal/router/breaker.go).                                 *)
(*                                                                         *)
(* Every method takes the breaker's mutex for its whole body, so a method  *)
(* is a function from the breaker's value to its next value.  The wall     *)
(* clock is replaced by `age', the number of ticks since openedAt, which   *)
(* stops counting at Cooldown: the code only ever asks whether the         *)
(* cooldown has elapsed.                                                   *)
(***************************************************************************)
EXTENDS Naturals

CONSTANTS FailureThreshold, Cooldown, HalfOpenSuccesses

ASSUME BreakerAssumption ==
  /\ FailureThreshold \in Nat \ {0}
  /\ Cooldown \in Nat \ {0}
  /\ HalfOpenSuccesses \in Nat \ {0}

\* state is "closed", "open" or "halfOpen"; age is the time since it opened, up
\* to Cooldown.
NewBreaker == [state |-> "closed", failures |-> 0, successes |-> 0,
               age |-> 0, probeInFlight |-> FALSE]

\* The boolean Allow returns.
Allows(b) ==
  \/ b.state = "closed"
  \/ b.state = "open" /\ b.age >= Cooldown
  \/ b.state = "halfOpen" /\ ~b.probeInFlight

\* What an Allow that returns TRUE leaves behind; one that returns FALSE
\* changes nothing.
Allow(b) ==
  CASE b.state = "closed"   -> b
    [] b.state = "open"     -> [b EXCEPT !.state = "halfOpen",
                                         !.successes = 0,
                                         !.probeInFlight = TRUE]
    [] b.state = "halfOpen" -> [b EXCEPT !.probeInFlight = TRUE]

\* Mutant of Succeed: the slot is not given back.
SucceedKeepsSlot(b) ==
  IF b.state = "halfOpen" THEN b ELSE [b EXCEPT !.failures = 0]

Succeed(b) ==
  LET cleared == [b EXCEPT !.probeInFlight = FALSE, !.failures = 0]
  IN  CASE b.state # "halfOpen" -> cleared
        [] b.state = "halfOpen" /\ b.successes + 1 >= HalfOpenSuccesses ->
             [cleared EXCEPT !.state = "closed", !.successes = 0]
        [] OTHER -> [cleared EXCEPT !.successes = @ + 1]

\* Mutant of Fail: the slot of the failed probe is kept.
FailKeepsSlot(b) ==
  CASE b.state = "halfOpen" ->
         [b EXCEPT !.state = "open", !.age = 0, !.successes = 0]
    [] b.state # "halfOpen" /\ b.failures + 1 >= FailureThreshold ->
         [b EXCEPT !.state = "open", !.age = 0, !.failures = 0]
    [] OTHER -> [b EXCEPT !.failures = @ + 1]

Fail(b) ==
  LET cleared == [b EXCEPT !.probeInFlight = FALSE]
  IN  CASE b.state = "halfOpen" ->
             [cleared EXCEPT !.state = "open", !.age = 0, !.successes = 0]
        [] b.state # "halfOpen" /\ b.failures + 1 >= FailureThreshold ->
             [cleared EXCEPT !.state = "open", !.age = 0, !.failures = 0]
        [] OTHER -> [cleared EXCEPT !.failures = @ + 1]

\* One tick of the clock the breaker reads.
Older(b) == [b EXCEPT !.age = IF @ < Cooldown THEN @ + 1 ELSE @]

=============================================================================
