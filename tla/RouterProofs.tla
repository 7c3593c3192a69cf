---------------------------- MODULE RouterProofs ----------------------------
(***************************************************************************)
(* Proofs about candidate selection, failover and the circuit breakers,    *)
(* for any deployments, tiers, requests and thresholds.                    *)
(*                                                                         *)
(* The first part is about one breaker: every method keeps its probing     *)
(* state local, whatever order overlapping attempts call them in.  The     *)
(* second is about Execute's loop: the index bounds the deployments called *)
(* so far, and lastErr is set exactly when there is one.                   *)
(***************************************************************************)
EXTENDS Router, FiniteSetTheorems, TLAPS

BreakerStates == {"closed", "open", "halfOpen"}

BreakerType == [state: BreakerStates, failures: Nat, successes: Nat, age: Nat,
                probeInFlight: BOOLEAN]

LocalProbe(b) ==
  b.state # "halfOpen" => ~b.probeInFlight /\ b.successes = 0

BreakerOK(b) == b \in BreakerType /\ LocalProbe(b)

RouterLabels == {"done", "attempt", "admitted", "calling"}

RouterOutcomes == {"none", "ok", "rejected", "failed", "no_candidates", "model_not_found",
             "not_serving", "trust_tier_denied", "endpoint_unsupported"}

Execution == [pc: RouterLabels, minTier: Nat, candidates: Seq(Deployments),
              n: Nat \ {0}, lastErr: BOOLEAN, outcome: RouterOutcomes,
              called: SUBSET Deployments]

RouterTypeOK ==
  /\ breaker \in [Deployments -> BreakerType]
  /\ req \in [Requests -> Execution]
  /\ probing \subseteq Deployments

\* What holds of the locals q of one Select and Execute.
ExecutionOK(q) ==
  /\ \A i \in 1..Len(q.candidates) : q.candidates[i] \in Eligible(q.minTier)
  /\ q.called \subseteq Eligible(q.minTier)
  /\ IsFiniteSet(q.called) /\ Cardinality(q.called) <= MaxAttempts
  /\ q.pc \in {"admitted", "calling"} =>
       q.n <= Len(q.candidates) /\ q.n <= MaxAttempts
  /\ q.pc \in {"attempt", "admitted"} =>
       /\ Cardinality(q.called) <= q.n - 1
       /\ q.lastErr <=> q.called # {}
  /\ q.pc = "calling" =>
       /\ Cardinality(q.called) <= q.n
       /\ q.called # {}
  /\ q.pc = "done" =>
       /\ q.outcome = "no_candidates" => q.called = {}
       /\ q.outcome \in {"ok", "rejected", "failed"} => q.called # {}

RouterInv ==
  /\ RouterTypeOK
  /\ \A d \in Deployments : LocalProbe(breaker[d])
  /\ \A r \in Requests : ExecutionOK(req[r])

-----------------------------------------------------------------------------
(* One breaker *)

\* Setting one field of a breaker.
LEMMA BreakerSet ==
  ASSUME NEW b \in BreakerType
  PROVE  /\ \A x \in BreakerStates : [b EXCEPT !.state = x] \in BreakerType
         /\ \A x \in Nat : [b EXCEPT !.failures = x] \in BreakerType
         /\ \A x \in Nat : [b EXCEPT !.successes = x] \in BreakerType
         /\ \A x \in Nat : [b EXCEPT !.age = x] \in BreakerType
         /\ \A x \in BOOLEAN : [b EXCEPT !.probeInFlight = x] \in BreakerType
BY Zenon DEF BreakerType

\* newBreaker: closed, with no probe.
LEMMA NewBreakerOK == BreakerOK(NewBreaker)
BY Zenon DEF BreakerOK, NewBreaker, BreakerType, BreakerStates, LocalProbe

\* Allow keeps a breaker sound.
LEMMA AllowKeeps ==
  ASSUME NEW b, BreakerOK(b)
  PROVE  BreakerOK(Allow(b))
<1>0. b \in BreakerType /\ LocalProbe(b) /\ b.state \in BreakerStates
  BY Zenon DEF BreakerOK, BreakerType
<1>1. CASE b.state = "closed"
  BY <1>1, Zenon DEF Allow, BreakerOK
<1>2. CASE b.state = "open"
  <2> DEFINE s == [b EXCEPT !.state = "halfOpen"]
             t == [s EXCEPT !.successes = 0]
             u == [t EXCEPT !.probeInFlight = TRUE]
  <2>1. Allow(b) = u
    BY <1>2, Zenon DEF Allow
  <2>2. s \in BreakerType
    BY <1>0, BreakerSet, Zenon DEF BreakerStates
  <2>3. t \in BreakerType
    BY <2>2, BreakerSet, Zenon
  <2>4. u \in BreakerType
    BY <2>3, BreakerSet, Zenon
  <2>5. u.state = "halfOpen"
    BY <1>0, Zenon DEF BreakerType
  <2> QED
    BY <2>1, <2>4, <2>5, Zenon DEF BreakerOK, LocalProbe
<1>3. CASE b.state = "halfOpen"
  <2> DEFINE u == [b EXCEPT !.probeInFlight = TRUE]
  <2>1. Allow(b) = u
    BY <1>3, Zenon DEF Allow
  <2>2. u \in BreakerType
    BY <1>0, BreakerSet, Zenon
  <2>3. u.state = "halfOpen"
    BY <1>0, <1>3, Zenon DEF BreakerType
  <2> QED
    BY <2>1, <2>2, <2>3, Zenon DEF BreakerOK, LocalProbe
<1> QED
  BY <1>0, <1>1, <1>2, <1>3, Zenon DEF BreakerStates

\* Succeed keeps a breaker sound.
LEMMA SucceedKeeps ==
  ASSUME NEW b, BreakerOK(b)
  PROVE  BreakerOK(Succeed(b))
<1> DEFINE f == [b EXCEPT !.probeInFlight = FALSE]
           c == [f EXCEPT !.failures = 0]
<1>0. b \in BreakerType /\ LocalProbe(b) /\ b.successes \in Nat
  BY Zenon DEF BreakerOK, BreakerType
<1>1. f \in BreakerType
  BY <1>0, BreakerSet, Zenon
<1>2. /\ c \in BreakerType
      /\ c = [b EXCEPT !.probeInFlight = FALSE, !.failures = 0]
  BY <1>1, BreakerSet, Zenon
<1>3. c.state = b.state /\ c.successes = b.successes /\ ~c.probeInFlight
  BY <1>0, Zenon DEF BreakerType
<1>4. Succeed(b) = CASE b.state # "halfOpen" -> c
        [] b.state = "halfOpen" /\ b.successes + 1 >= HalfOpenSuccesses ->
             [c EXCEPT !.state = "closed", !.successes = 0]
        [] OTHER -> [c EXCEPT !.successes = @ + 1]
  BY <1>2, Zenon DEF Succeed
<1> HIDE DEF c, f
<1>5. CASE b.state # "halfOpen"
  <2>1. Succeed(b) = c
    BY <1>4, <1>5, Zenon
  <2> QED
    BY <1>0, <1>2, <1>3, <1>5, <2>1, Zenon DEF BreakerOK, LocalProbe
<1>6. CASE b.state = "halfOpen" /\ b.successes + 1 >= HalfOpenSuccesses
  <2> DEFINE s == [c EXCEPT !.state = "closed"]
             t == [s EXCEPT !.successes = 0]
  <2>1. Succeed(b) = t
    BY <1>4, <1>6, Zenon
  <2>2. s \in BreakerType
    BY <1>2, BreakerSet, Zenon DEF BreakerStates
  <2>3. t \in BreakerType
    BY <2>2, BreakerSet, Zenon
  <2>4. ~t.probeInFlight /\ t.successes = 0
    BY <1>2, <1>3, Zenon DEF BreakerType
  <2> QED
    BY <2>1, <2>3, <2>4, Zenon DEF BreakerOK, LocalProbe
<1>7. CASE b.state = "halfOpen" /\ ~(b.successes + 1 >= HalfOpenSuccesses)
  <2> DEFINE s == [c EXCEPT !.successes = b.successes + 1]
  <2>1. Succeed(b) = s
    BY <1>2, <1>3, <1>4, <1>7, Zenon DEF BreakerType
  <2>2. s \in BreakerType
    <3>1. b.successes + 1 \in Nat
      BY <1>0
    <3> QED
      BY <1>2, <3>1, BreakerSet, Zenon
  <2>3. s.state = "halfOpen"
    BY <1>2, <1>3, <1>7, Zenon DEF BreakerType
  <2> QED
    BY <2>1, <2>2, <2>3, Zenon DEF BreakerOK, LocalProbe
<1> QED
  BY <1>5, <1>6, <1>7, Zenon

\* Fail keeps a breaker sound.
LEMMA FailKeeps ==
  ASSUME NEW b, BreakerOK(b)
  PROVE  BreakerOK(Fail(b))
<1> DEFINE c == [b EXCEPT !.probeInFlight = FALSE]
<1>0. b \in BreakerType /\ LocalProbe(b) /\ b.failures \in Nat
  BY Zenon DEF BreakerOK, BreakerType
<1>1. c \in BreakerType
  BY <1>0, BreakerSet, Zenon
<1>2. /\ c.state = b.state /\ c.successes = b.successes /\ ~c.probeInFlight
      /\ c.failures = b.failures
  BY <1>0, Zenon DEF BreakerType
<1>3. Fail(b) = CASE b.state = "halfOpen" ->
             [c EXCEPT !.state = "open", !.age = 0, !.successes = 0]
        [] b.state # "halfOpen" /\ b.failures + 1 >= FailureThreshold ->
             [c EXCEPT !.state = "open", !.age = 0, !.failures = 0]
        [] OTHER -> [c EXCEPT !.failures = @ + 1]
  BY Zenon DEF Fail
<1> HIDE DEF c
<1> DEFINE s == [c EXCEPT !.state = "open"]
           t == [s EXCEPT !.age = 0]
<1>4. s \in BreakerType
  BY <1>1, BreakerSet, Zenon DEF BreakerStates
<1>5. t \in BreakerType
  BY <1>4, BreakerSet, Zenon
<1>6. t.successes = b.successes /\ ~t.probeInFlight
  BY <1>1, <1>2, Zenon DEF BreakerType
<1>7. CASE b.state = "halfOpen"
  <2> DEFINE u == [t EXCEPT !.successes = 0]
  <2>1. Fail(b) = u
    BY <1>3, <1>7, Zenon
  <2>2. u \in BreakerType
    BY <1>5, BreakerSet, Zenon
  <2> HIDE DEF t
  <2>3. ~u.probeInFlight /\ u.successes = 0
    BY <1>5, <1>6, Zenon DEF BreakerType
  <2> QED
    BY <2>1, <2>2, <2>3, Zenon DEF BreakerOK, LocalProbe
<1>8. CASE b.state # "halfOpen" /\ b.failures + 1 >= FailureThreshold
  <2> DEFINE u == [t EXCEPT !.failures = 0]
  <2>1. Fail(b) = u
    BY <1>3, <1>8, Zenon
  <2>2. u \in BreakerType
    BY <1>5, BreakerSet, Zenon
  <2>3. t.successes = 0
    BY <1>0, <1>6, <1>8, Zenon DEF LocalProbe
  <2> HIDE DEF t
  <2>4. ~u.probeInFlight /\ u.successes = 0
    BY <1>5, <1>6, <2>3, Zenon DEF BreakerType
  <2> QED
    BY <2>1, <2>2, <2>4, Zenon DEF BreakerOK, LocalProbe
<1>9. CASE b.state # "halfOpen" /\ ~(b.failures + 1 >= FailureThreshold)
  <2> DEFINE u == [c EXCEPT !.failures = b.failures + 1]
  <2>1. Fail(b) = u
    BY <1>1, <1>2, <1>3, <1>9, Zenon DEF BreakerType
  <2>2. u \in BreakerType
    BY <1>0, <1>1, BreakerSet
  <2>3. ~u.probeInFlight /\ u.successes = 0
    BY <1>0, <1>1, <1>2, <1>9, Zenon DEF BreakerType, LocalProbe
  <2> QED
    BY <2>1, <2>2, <2>3, Zenon DEF BreakerOK, LocalProbe
<1> QED
  BY <1>7, <1>8, <1>9, Zenon

\* Time passing keeps a breaker sound.
LEMMA OlderKeeps ==
  ASSUME NEW b, BreakerOK(b)
  PROVE  BreakerOK(Older(b))
<1>0. b \in BreakerType /\ LocalProbe(b) /\ b.age \in Nat
  BY Zenon DEF BreakerOK, BreakerType
<1>1. PICK a \in Nat : a = IF b.age < Cooldown THEN b.age + 1 ELSE b.age
  BY <1>0
<1>2. Older(b) = [b EXCEPT !.age = a]
  BY <1>0, <1>1, Zenon DEF Older, BreakerType
<1>3. Older(b) \in BreakerType
  BY <1>0, <1>2, BreakerSet, Zenon
<1>4. /\ Older(b).state = b.state /\ Older(b).successes = b.successes
      /\ Older(b).probeInFlight = b.probeInFlight
  BY <1>0, <1>2, Zenon DEF BreakerType
<1> QED
  BY <1>0, <1>3, <1>4, Zenon DEF BreakerOK, LocalProbe

\* A step that replaces one breaker by the value of one of its methods.
LEMMA BreakersKept ==
  ASSUME breaker \in [Deployments -> BreakerType],
         \A d \in Deployments : LocalProbe(breaker[d]),
         NEW d \in Deployments, NEW v, BreakerOK(v),
         breaker' = [breaker EXCEPT ![d] = v]
  PROVE  /\ breaker' \in [Deployments -> BreakerType]
         /\ \A e \in Deployments : LocalProbe(breaker'[e])
BY Zenon DEF BreakerOK

-----------------------------------------------------------------------------
(* The locals of Select and Execute *)

\* Setting one local.
LEMMA ExecutionSet ==
  ASSUME NEW q \in Execution
  PROVE  /\ \A x \in RouterLabels : [q EXCEPT !.pc = x] \in Execution
         /\ \A x \in Nat : [q EXCEPT !.minTier = x] \in Execution
         /\ \A x \in Seq(Deployments) : [q EXCEPT !.candidates = x] \in Execution
         /\ \A x \in Nat \ {0} : [q EXCEPT !.n = x] \in Execution
         /\ \A x \in BOOLEAN : [q EXCEPT !.lastErr = x] \in Execution
         /\ \A x \in RouterOutcomes : [q EXCEPT !.outcome = x] \in Execution
         /\ \A x \in SUBSET Deployments : [q EXCEPT !.called = x] \in Execution
<1>1. \A x \in RouterLabels : [q EXCEPT !.pc = x] \in Execution
  BY Zenon DEF Execution
<1>2. \A x \in Nat : [q EXCEPT !.minTier = x] \in Execution
  BY Zenon DEF Execution
<1>3. \A x \in Seq(Deployments) : [q EXCEPT !.candidates = x] \in Execution
  BY Zenon DEF Execution
<1>4. \A x \in Nat \ {0} : [q EXCEPT !.n = x] \in Execution
  BY Zenon DEF Execution
<1>5. \A x \in BOOLEAN : [q EXCEPT !.lastErr = x] \in Execution
  BY Zenon DEF Execution
<1>6. \A x \in RouterOutcomes : [q EXCEPT !.outcome = x] \in Execution
  BY Zenon DEF Execution
<1>7. \A x \in SUBSET Deployments : [q EXCEPT !.called = x] \in Execution
  BY Zenon DEF Execution
<1> QED
  BY <1>1, <1>2, <1>3, <1>4, <1>5, <1>6, <1>7, Zenon

\* A request before its first selection.
LEMMA IdleTyped ==
  /\ Idle \in Execution
  /\ Idle.pc = "done" /\ Idle.minTier = 0 /\ Idle.candidates = <<>> /\ Idle.n = 1
  /\ Idle.lastErr = FALSE /\ Idle.outcome = "none" /\ Idle.called = {}
<1>1. <<>> \in Seq(Deployments) /\ {} \in SUBSET Deployments /\ 1 \in Nat \ {0}
  OBVIOUS
<1>2. Idle \in Execution
  BY <1>1, Zenon DEF Idle, Execution, RouterLabels, RouterOutcomes
<1> QED
  BY <1>2, Zenon DEF Idle

\* What is left of an execution that has returned.
LEMMA EndedShape ==
  ASSUME NEW q \in Execution, NEW outcome \in RouterOutcomes
  PROVE  /\ Ended(q, outcome) \in Execution
         /\ Ended(q, outcome).pc = "done"
         /\ Ended(q, outcome).outcome = outcome
         /\ Ended(q, outcome).minTier = q.minTier
         /\ Ended(q, outcome).called = q.called
         /\ Ended(q, outcome).candidates = <<>>
<1> DEFINE a == [Idle EXCEPT !.outcome = outcome]
           b == [a EXCEPT !.minTier = q.minTier]
           c == [b EXCEPT !.called = q.called]
<1>1. q.minTier \in Nat /\ q.called \in SUBSET Deployments
  BY Zenon DEF Execution
<1>2. a \in Execution
  BY IdleTyped, ExecutionSet, Zenon
<1>3. b \in Execution
  BY <1>1, <1>2, ExecutionSet, Zenon
<1>4. c \in Execution
  BY <1>1, <1>3, ExecutionSet, Zenon
<1>5. Ended(q, outcome) = c
  BY Zenon DEF Ended
<1>6. c.pc = "done" /\ c.outcome = outcome /\ c.minTier = q.minTier
      /\ c.called = q.called /\ c.candidates = <<>>
  BY IdleTyped, Zenon DEF Idle
<1> HIDE DEF c
<1> QED
  BY <1>4, <1>5, <1>6, Zenon

\* An execution may end from any point of the loop with an outcome that tells
\* whether it called a provider.
LEMMA EndedOK ==
  ASSUME NEW q \in Execution, ExecutionOK(q), NEW outcome \in RouterOutcomes,
         outcome = "no_candidates" => q.called = {},
         outcome \in {"ok", "rejected", "failed"} => q.called # {}
  PROVE  Ended(q, outcome) \in Execution /\ ExecutionOK(Ended(q, outcome))
<1> DEFINE e == Ended(q, outcome)
<1>1. /\ e \in Execution /\ e.pc = "done" /\ e.outcome = outcome
      /\ e.minTier = q.minTier /\ e.called = q.called /\ e.candidates = <<>>
  BY EndedShape, Zenon
<1> HIDE DEF e
<1>2. /\ q.called \subseteq Eligible(q.minTier)
      /\ IsFiniteSet(q.called) /\ Cardinality(q.called) <= MaxAttempts
  BY Zenon DEF ExecutionOK
<1>3. ExecutionOK(e)
  BY <1>1, <1>2 DEF ExecutionOK
<1> QED
  BY <1>1, <1>3, Zenon DEF e

\* The loop gives up: lastErr tells whether it called a provider.
LEMMA GaveUpOK ==
  ASSUME NEW q \in Execution, ExecutionOK(q), q.pc \in {"attempt", "admitted"}
  PROVE  GaveUp(q) \in Execution /\ ExecutionOK(GaveUp(q))
<1>1. q.lastErr <=> q.called # {}
  BY Zenon DEF ExecutionOK
<1>2. CASE q.lastErr
  BY <1>1, <1>2, EndedOK, Zenon DEF GaveUp, RouterOutcomes
<1>3. CASE ~q.lastErr
  BY <1>1, <1>3, EndedOK, Zenon DEF GaveUp, RouterOutcomes
<1> QED
  BY <1>2, <1>3, Zenon

\* A step of r that leaves its locals with the value v.
LEMMA RequestsKept ==
  ASSUME RouterInv, NEW r \in Requests, NEW v \in Execution, ExecutionOK(v),
         req' = [req EXCEPT ![r] = v]
  PROVE  /\ req' \in [Requests -> Execution]
         /\ \A s \in Requests : ExecutionOK(req'[s])
BY Zenon DEF RouterInv, RouterTypeOK

\* Select: the candidates are those of the tier asked for.
LEMMA SelectKept ==
  ASSUME RouterInv, NEW r \in Requests, NEW t \in MinTiers, Select(r, t)
  PROVE  RouterInv'
<1>1. PICK v : v \in Execution /\ ExecutionOK(v) /\ req' = [req EXCEPT ![r] = v]
  <2>0. t \in Nat
    BY RouterAssumption, Zenon
  <2>1. CASE Eligible(t) = {}
    <3> DEFINE a == [Idle EXCEPT !.minTier = t]
               b == [a EXCEPT !.outcome = selectionError(t)]
    <3>1. a \in Execution
      BY <2>0, IdleTyped, ExecutionSet, Zenon
    <3>2. /\ selectionError(t) \in RouterOutcomes
          /\ selectionError(t) \notin {"no_candidates", "ok", "rejected", "failed"}
      BY Zenon DEF selectionError, RouterOutcomes
    <3>3. b \in Execution
      BY <3>1, <3>2, ExecutionSet, Zenon
    <3>4. /\ b.pc = "done" /\ b.outcome = selectionError(t) /\ b.minTier = t
          /\ b.called = {} /\ b.candidates = <<>>
      BY IdleTyped, Zenon DEF Idle
    <3>5. req' = [req EXCEPT ![r] = b]
      BY <2>1, Zenon DEF Select
    <3> HIDE DEF b
    <3>6. IsFiniteSet({}) /\ Cardinality({}) = 0
      BY FS_EmptySet, Zenon
    <3>7. ExecutionOK(b)
      BY <3>2, <3>4, <3>6, RouterAssumption DEF ExecutionOK
    <3> QED
      BY <3>3, <3>5, <3>7, Zenon
  <2>2. CASE Eligible(t) # {}
    <3>1. PICK order \in Bijection(1..Cardinality(Eligible(t)), Eligible(t)) :
            req' = [req EXCEPT ![r] = [Idle EXCEPT !.pc = "attempt", !.minTier = t,
                                                   !.candidates = order]]
      BY <2>2, Zenon DEF Select
    <3>2. /\ order \in Seq(Deployments)
          /\ \A i \in 1..Len(order) : order[i] \in Eligible(t)
      <4>1. Eligible(t) \subseteq Deployments
        BY RouterAssumption, Zenon DEF Eligible, MeetsTier
      <4>2. IsFiniteSet(Eligible(t))
        BY <4>1, FS_Subset, RouterAssumption, Zenon
      <4>3. Cardinality(Eligible(t)) \in Nat
        BY <4>2, FS_CardinalityType, Zenon
      <4>4. order \in [1..Cardinality(Eligible(t)) -> Eligible(t)]
        BY Zenon DEF Bijection, Injection
      <4> HIDE DEF Eligible
      <4>5. order \in Seq(Eligible(t)) /\ Len(order) = Cardinality(Eligible(t))
        BY <4>3, <4>4
      <4> QED
        BY <4>1, <4>5
    <3> DEFINE a == [Idle EXCEPT !.pc = "attempt"]
               b == [a EXCEPT !.minTier = t]
               c == [b EXCEPT !.candidates = order]
    <3>3. a \in Execution
      BY IdleTyped, ExecutionSet, Zenon DEF RouterLabels
    <3>4. b \in Execution
      BY <2>0, <3>3, ExecutionSet, Zenon
    <3>5. c \in Execution
      BY <3>2, <3>4, ExecutionSet, Zenon
    <3>6. /\ c.pc = "attempt" /\ c.minTier = t /\ c.called = {}
          /\ c.candidates = order /\ c.n = 1 /\ c.lastErr = FALSE
      BY IdleTyped, Zenon DEF Idle
    <3>7. req' = [req EXCEPT ![r] = c]
      BY <3>1, Zenon
    <3> HIDE DEF c
    <3>8. IsFiniteSet({}) /\ Cardinality({}) = 0
      BY FS_EmptySet, Zenon
    <3>9. ExecutionOK(c)
      BY <3>2, <3>6, <3>8, RouterAssumption DEF ExecutionOK
    <3> QED
      BY <3>5, <3>7, <3>9, Zenon
  <2> QED
    BY <2>1, <2>2, Zenon
<1>2. breaker' = breaker /\ probing' = probing
  BY Zenon DEF Select
<1>3. req' \in [Requests -> Execution] /\ \A s \in Requests : ExecutionOK(req'[s])
  BY <1>1, RequestsKept, Zenon
<1> QED
  BY <1>2, <1>3, Zenon DEF RouterInv, RouterTypeOK

-----------------------------------------------------------------------------
(* The steps of Execute *)

\* The candidate an attempt is at is eligible.
LEMMA CandidateEligible ==
  ASSUME RouterInv, NEW r \in Requests, req[r].n <= Len(req[r].candidates)
  PROVE  /\ Candidate(r) \in Eligible(req[r].minTier)
         /\ Candidate(r) \in Deployments
<1>1. req[r] \in Execution /\ ExecutionOK(req[r])
  BY Zenon DEF RouterInv, RouterTypeOK
<1>2. req[r].n \in 1..Len(req[r].candidates)
  BY <1>1 DEF Execution
<1>3. Candidate(r) \in Eligible(req[r].minTier)
  BY <1>1, <1>2, Zenon DEF ExecutionOK, Candidate
<1> QED
  BY <1>3, RouterAssumption, Zenon DEF Eligible, MeetsTier

\* The three ways Execute gives up.
LEMMA GiveUpKept ==
  ASSUME RouterInv, NEW r \in Requests,
         Exhausted(r) \/ OutOfBudget(r) \/ BackoffCancelled(r)
  PROVE  RouterInv'
<1>1. /\ req[r].pc \in {"attempt", "admitted"}
      /\ breaker' = breaker /\ probing' = probing
      /\ req' = [req EXCEPT ![r] = GaveUp(req[r])]
  BY Zenon DEF Exhausted, OutOfBudget, BackoffCancelled, HasAttempt
<1>2. req[r] \in Execution /\ ExecutionOK(req[r])
  BY Zenon DEF RouterInv, RouterTypeOK
<1>3. GaveUp(req[r]) \in Execution /\ ExecutionOK(GaveUp(req[r]))
  BY <1>1, <1>2, GaveUpOK, Zenon
<1>4. req' \in [Requests -> Execution] /\ \A s \in Requests : ExecutionOK(req'[s])
  BY <1>1, <1>3, RequestsKept, Zenon
<1> QED
  BY <1>1, <1>4, Zenon DEF RouterInv, RouterTypeOK

\* A candidate whose breaker refuses is passed over.
LEMMA SkipKept ==
  ASSUME RouterInv, NEW r \in Requests, Skip(r)
  PROVE  RouterInv'
<1> DEFINE q == req[r]
           v == [q EXCEPT !.n = q.n + 1]
<1>1. q \in Execution /\ ExecutionOK(q)
  BY Zenon DEF RouterInv, RouterTypeOK
<1>2. q.n \in Nat \ {0} /\ q.n + 1 \in Nat \ {0}
  BY <1>1 DEF Execution
<1>3. v \in Execution
  BY <1>1, <1>2, ExecutionSet, Zenon
<1>4. /\ v.pc = q.pc /\ v.minTier = q.minTier /\ v.candidates = q.candidates
      /\ v.n = q.n + 1 /\ v.lastErr = q.lastErr /\ v.called = q.called
  BY <1>1, Zenon DEF Execution
<1>5. req' = [req EXCEPT ![r] = v]
  BY Zenon DEF Skip, RouterInv, RouterTypeOK
<1>6. q.pc = "attempt" /\ breaker' = breaker /\ probing' = probing
  BY Zenon DEF Skip, HasAttempt
<1> HIDE DEF v, q
<1>7. ExecutionOK(v)
  <2>1. Cardinality(q.called) \in Nat
    BY <1>1, FS_CardinalityType, Zenon DEF ExecutionOK
  <2> QED
    BY <1>1, <1>2, <1>4, <1>6, <2>1 DEF ExecutionOK
<1>8. req' \in [Requests -> Execution] /\ \A s \in Requests : ExecutionOK(req'[s])
  BY <1>3, <1>5, <1>7, RequestsKept, Zenon
<1> QED
  BY <1>6, <1>8, Zenon DEF RouterInv, RouterTypeOK

\* A candidate whose breaker admits the call.
LEMMA AdmitKept ==
  ASSUME RouterInv, NEW r \in Requests, Admit(r)
  PROVE  RouterInv'
<1> DEFINE q == req[r]
           v == [q EXCEPT !.pc = "admitted"]
           d == Candidate(r)
<1>1. q \in Execution /\ ExecutionOK(q)
  BY Zenon DEF RouterInv, RouterTypeOK
<1>2. q.pc = "attempt" /\ q.n <= Len(q.candidates) /\ q.n <= MaxAttempts
      /\ probing' = probing
  BY Zenon DEF Admit, HasAttempt
<1>3. d \in Deployments
  BY <1>2, CandidateEligible, Zenon
<1>4. v \in Execution
  BY <1>1, ExecutionSet, Zenon DEF RouterLabels
<1>5. /\ v.pc = "admitted" /\ v.minTier = q.minTier /\ v.candidates = q.candidates
      /\ v.n = q.n /\ v.lastErr = q.lastErr /\ v.called = q.called
  BY <1>1, Zenon DEF Execution
<1>6. req' = [req EXCEPT ![r] = v]
  BY Zenon DEF Admit, RouterInv, RouterTypeOK
<1>7. breaker' = [breaker EXCEPT ![d] = Allow(breaker[d])]
  BY Zenon DEF Admit
<1> HIDE DEF v, q, d
<1>8. ExecutionOK(v)
  BY <1>1, <1>2, <1>5, Zenon DEF ExecutionOK
<1>9. req' \in [Requests -> Execution] /\ \A s \in Requests : ExecutionOK(req'[s])
  BY <1>4, <1>6, <1>8, RequestsKept, Zenon
<1>10. BreakerOK(Allow(breaker[d]))
  BY <1>3, AllowKeeps, Zenon DEF RouterInv, RouterTypeOK, BreakerOK
<1>11. /\ breaker' \in [Deployments -> BreakerType]
       /\ \A e \in Deployments : LocalProbe(breaker'[e])
  BY <1>3, <1>7, <1>10, BreakersKept, Zenon DEF RouterInv, RouterTypeOK
<1> QED
  BY <1>2, <1>9, <1>11, Zenon DEF RouterInv, RouterTypeOK

\* The call leaves for its deployment.
LEMMA StartCallKept ==
  ASSUME RouterInv, NEW r \in Requests, StartCall(r)
  PROVE  RouterInv'
<1> DEFINE q == req[r]
           d == Candidate(r)
           to == q.called \cup {d}
           u == [q EXCEPT !.pc = "calling"]
           v == [u EXCEPT !.called = to]
<1>1. q \in Execution /\ ExecutionOK(q) /\ q.pc = "admitted"
  BY Zenon DEF RouterInv, RouterTypeOK, StartCall
<1>2. q.n \in Nat \ {0} /\ q.n <= Len(q.candidates) /\ q.n <= MaxAttempts
  BY <1>1, Zenon DEF ExecutionOK, Execution
<1>3. d \in Deployments /\ d \in Eligible(q.minTier)
  BY <1>2, CandidateEligible, Zenon
<1>4. to \in SUBSET Deployments
  BY <1>1, <1>3, Zenon DEF Execution
<1>5. req' = [req EXCEPT ![r] = v] /\ breaker' = breaker /\ probing' = probing
  BY Zenon DEF StartCall, RouterInv, RouterTypeOK
<1>6. u \in Execution
  BY <1>1, ExecutionSet, Zenon DEF RouterLabels
<1> HIDE DEF to
<1>7. v \in Execution
  BY <1>4, <1>6, ExecutionSet, Zenon
<1>8. /\ v.pc = "calling" /\ v.minTier = q.minTier /\ v.candidates = q.candidates
      /\ v.n = q.n /\ v.called = to
  BY <1>1, Zenon DEF Execution
<1> HIDE DEF v, u, q, d
<1>9. /\ IsFiniteSet(to) /\ Cardinality(to) <= q.n /\ to # {}
      /\ to \subseteq Eligible(q.minTier)
  <2>1. /\ IsFiniteSet(q.called) /\ q.called \subseteq Eligible(q.minTier)
        /\ Cardinality(q.called) <= q.n - 1
    BY <1>1, Zenon DEF ExecutionOK
  <2>2. IsFiniteSet(to) /\ (Cardinality(to) = Cardinality(q.called)
                            \/ Cardinality(to) = Cardinality(q.called) + 1)
    BY <2>1, FS_AddElement, Zenon DEF to
  <2>3. Cardinality(q.called) \in Nat
    BY <2>1, FS_CardinalityType, Zenon
  <2>4. Cardinality(to) <= q.n
    BY <1>2, <2>1, <2>2, <2>3
  <2> QED
    BY <1>3, <2>1, <2>2, <2>4, Zenon DEF to
<1>10. Cardinality(to) \in Nat /\ MaxAttempts \in Nat
  BY <1>9, FS_CardinalityType, RouterAssumption, Zenon
<1>11. Cardinality(to) <= MaxAttempts
  BY <1>2, <1>9, <1>10
<1>12. ExecutionOK(v)
  BY <1>1, <1>2, <1>8, <1>9, <1>11, Zenon DEF ExecutionOK
<1>13. req' \in [Requests -> Execution] /\ \A s \in Requests : ExecutionOK(req'[s])
  BY <1>5, <1>7, <1>12, RequestsKept, Zenon
<1> QED
  BY <1>5, <1>13, Zenon DEF RouterInv, RouterTypeOK

\* The provider's answer ends the execution; a success also tells the breaker.
LEMMA AnsweredKept ==
  ASSUME RouterInv, NEW r \in Requests, CallSucceeds(r) \/ CallRejected(r)
  PROVE  RouterInv'
<1> DEFINE q == req[r]
           d == Candidate(r)
<1>1. q \in Execution /\ ExecutionOK(q) /\ q.pc = "calling"
  BY Zenon DEF RouterInv, RouterTypeOK, CallSucceeds, CallRejected
<1>2. q.called # {} /\ q.n <= Len(q.candidates)
  BY <1>1, Zenon DEF ExecutionOK
<1>3. d \in Deployments
  BY <1>2, CandidateEligible, Zenon
<1>4. PICK o \in {"ok", "rejected"} : req' = [req EXCEPT ![r] = Ended(q, o)]
  BY Zenon DEF CallSucceeds, CallRejected
<1>5. \/ breaker' = breaker
      \/ breaker' = [breaker EXCEPT ![d] = Succeed(breaker[d])]
  BY Zenon DEF CallSucceeds, CallRejected
<1>6. probing' = probing
  BY Zenon DEF CallSucceeds, CallRejected
<1> HIDE DEF q, d
<1>7. Ended(q, o) \in Execution /\ ExecutionOK(Ended(q, o))
  <2>1. o \in RouterOutcomes /\ o # "no_candidates"
    BY Zenon DEF RouterOutcomes
  <2> QED
    BY <1>1, <1>2, <2>1, EndedOK, Zenon
<1>8. req' \in [Requests -> Execution] /\ \A s \in Requests : ExecutionOK(req'[s])
  BY <1>4, <1>7, RequestsKept, Zenon
<1>9. BreakerOK(Succeed(breaker[d]))
  BY <1>3, SucceedKeeps, Zenon DEF RouterInv, RouterTypeOK, BreakerOK
<1>10. /\ breaker' \in [Deployments -> BreakerType]
       /\ \A e \in Deployments : LocalProbe(breaker'[e])
  <2>1. CASE breaker' = breaker
    BY <2>1, Zenon DEF RouterInv, RouterTypeOK
  <2>2. CASE breaker' = [breaker EXCEPT ![d] = Succeed(breaker[d])]
    BY <1>3, <1>9, <2>2, BreakersKept, Zenon DEF RouterInv, RouterTypeOK
  <2> QED
    BY <1>5, <2>1, <2>2, Zenon
<1> QED
  BY <1>6, <1>8, <1>10, Zenon DEF RouterInv, RouterTypeOK

\* A failed call is counted and the next candidate tried.
LEMMA CallFailsKept ==
  ASSUME RouterInv, NEW r \in Requests, CallFails(r)
  PROVE  RouterInv'
<1> DEFINE q == req[r]
           d == Candidate(r)
           a == [q EXCEPT !.pc = "attempt"]
           b == [a EXCEPT !.n = q.n + 1]
           v == [b EXCEPT !.lastErr = TRUE]
<1>1. q \in Execution /\ ExecutionOK(q) /\ q.pc = "calling"
  BY Zenon DEF RouterInv, RouterTypeOK, CallFails
<1>2. /\ q.n \in Nat \ {0} /\ q.n + 1 \in Nat \ {0}
      /\ q.n <= Len(q.candidates) /\ q.called # {}
  BY <1>1 DEF ExecutionOK, Execution
<1>3. d \in Deployments
  BY <1>2, CandidateEligible, Zenon
<1>4. a \in Execution
  BY <1>1, ExecutionSet, Zenon DEF RouterLabels
<1>5. b \in Execution
  BY <1>2, <1>4, ExecutionSet, Zenon
<1>6. v \in Execution
  BY <1>5, ExecutionSet, Zenon
<1>7. /\ v.pc = "attempt" /\ v.minTier = q.minTier /\ v.candidates = q.candidates
      /\ v.n = q.n + 1 /\ v.lastErr = TRUE /\ v.called = q.called
  BY <1>1, Zenon DEF Execution
<1>8. /\ req' = [req EXCEPT ![r] = v] /\ probing' = probing
      /\ breaker' = [breaker EXCEPT ![d] = Fail(breaker[d])]
  BY Zenon DEF CallFails, RouterInv, RouterTypeOK
<1> HIDE DEF v, b, a, q, d
<1>9. ExecutionOK(v)
  <2>1. Cardinality(q.called) \in Nat
    BY <1>1, FS_CardinalityType, Zenon DEF ExecutionOK
  <2> QED
    BY <1>1, <1>2, <1>7, <2>1 DEF ExecutionOK
<1>10. req' \in [Requests -> Execution] /\ \A s \in Requests : ExecutionOK(req'[s])
  BY <1>6, <1>8, <1>9, RequestsKept, Zenon
<1>11. BreakerOK(Fail(breaker[d]))
  BY <1>3, FailKeeps, Zenon DEF RouterInv, RouterTypeOK, BreakerOK
<1>12. /\ breaker' \in [Deployments -> BreakerType]
       /\ \A e \in Deployments : LocalProbe(breaker'[e])
  BY <1>3, <1>8, <1>11, BreakersKept, Zenon DEF RouterInv, RouterTypeOK
<1> QED
  BY <1>8, <1>10, <1>12, Zenon DEF RouterInv, RouterTypeOK

-----------------------------------------------------------------------------
(* The prober and the clock *)

\* The prober and the clock, around the requests.
LEMMA AroundKept ==
  ASSUME RouterInv,
         RunOnce \/ Tick \/ \E d \in Deployments : ProbeSucceeds(d) \/ ProbeFails(d)
  PROVE  RouterInv'
<1>1. req' = req
  BY Zenon DEF RunOnce, Tick, ProbeSucceeds, ProbeFails
<1>2. probing' \subseteq Deployments
  BY Zenon DEF RunOnce, Tick, ProbeSucceeds, ProbeFails, RouterInv, RouterTypeOK
<1>3. /\ breaker' \in [Deployments -> BreakerType]
      /\ \A e \in Deployments : LocalProbe(breaker'[e])
  <2>0. \A d \in Deployments : BreakerOK(breaker[d])
    BY Zenon DEF RouterInv, RouterTypeOK, BreakerOK
  <2>1. CASE breaker' = breaker
    BY <2>1, Zenon DEF RouterInv, RouterTypeOK
  <2>2. CASE Tick
    <3>1. \A d \in Deployments : BreakerOK(Older(breaker[d]))
      BY <2>0, OlderKeeps, Zenon
    <3> QED
      BY <2>2, <3>1, Zenon DEF Tick, BreakerOK
  <2>3. ASSUME NEW d \in Deployments, ProbeSucceeds(d)
        PROVE  /\ breaker' \in [Deployments -> BreakerType]
               /\ \A e \in Deployments : LocalProbe(breaker'[e])
    <3>1. BreakerOK(Succeed(breaker[d]))
      BY <2>0, SucceedKeeps, Zenon
    <3>2. breaker' = [breaker EXCEPT ![d] = Succeed(breaker[d])]
      BY <2>3, Zenon DEF ProbeSucceeds
    <3> QED
      BY <3>1, <3>2, BreakersKept, Zenon DEF RouterInv, RouterTypeOK
  <2>4. CASE RunOnce \/ \E d \in Deployments : ProbeFails(d)
    BY <2>1, <2>4, Zenon DEF RunOnce, ProbeFails
  <2> QED
    BY <2>2, <2>3, <2>4, Zenon
<1> QED
  BY <1>1, <1>2, <1>3, Zenon DEF RouterInv, RouterTypeOK

\* The invariant holds initially.
LEMMA RouterInvInit == Init => RouterInv
<1> SUFFICES ASSUME Init PROVE RouterInv
  BY Zenon
<1>1. BreakerOK(NewBreaker)
  BY NewBreakerOK, Zenon
<1>2. /\ breaker \in [Deployments -> BreakerType]
      /\ \A d \in Deployments : LocalProbe(breaker[d])
  BY <1>1, Zenon DEF Init, BreakerOK
<1>3. ExecutionOK(Idle)
  <2>1. IsFiniteSet({}) /\ Cardinality({}) = 0
    BY FS_EmptySet, Zenon
  <2> QED
    BY <2>1, IdleTyped, RouterAssumption DEF ExecutionOK
<1> QED
  BY <1>2, <1>3, IdleTyped, Zenon DEF Init, RouterInv, RouterTypeOK

\* Every step keeps the invariant.
LEMMA RouterInvNext == RouterInv /\ [Next]_vars => RouterInv'
<1> SUFFICES ASSUME RouterInv, [Next]_vars PROVE RouterInv'
  BY Zenon
<1>1. CASE UNCHANGED vars
  BY <1>1, Zenon DEF vars, RouterInv, RouterTypeOK
<1>2. ASSUME NEW r \in Requests, NEW t \in MinTiers, Select(r, t) PROVE RouterInv'
  BY <1>2, SelectKept, Zenon
<1>3. ASSUME NEW r \in Requests, ExecuteStep(r) PROVE RouterInv'
  BY <1>3, GiveUpKept, SkipKept, AdmitKept, StartCallKept, AnsweredKept,
     CallFailsKept, Zenon DEF ExecuteStep
<1>4. CASE RunOnce \/ Tick \/ \E d \in Deployments : ProbeSucceeds(d) \/ ProbeFails(d)
  BY <1>4, AroundKept, Zenon
<1> QED
  BY <1>1, <1>2, <1>3, <1>4, Zenon DEF Next

\* The invariant holds throughout.
LEMMA RouterInvariant == Spec => []RouterInv
BY RouterInvInit, RouterInvNext, PTL DEF Spec

-----------------------------------------------------------------------------
(* The theorems *)

\* However attempts and probes overlap, a breaker that is not half-open has no
\* probe in flight and no successes counted (Allow, Succeed and Fail of
\* breaker.go), for any thresholds.
THEOREM ProbingStateIsLocalHolds == Spec => []ProbingStateIsLocal
<1>1. RouterInv => ProbingStateIsLocal
  BY Zenon DEF RouterInv, LocalProbe, ProbingStateIsLocal
<1> QED
  BY <1>1, RouterInvariant, PTL

\* What Execute reports is true of what it did, and it never calls a deployment
\* that is not eligible nor more than maxAttempts of them, for any deployments,
\* tiers and order of the candidates (Select and Execute of router.go).
THEOREM OutcomeTruthfulHolds == Spec => []OutcomeTruthful
<1>1. RouterInv => OutcomeTruthful
  BY Zenon DEF RouterInv, ExecutionOK, OutcomeTruthful
<1> QED
  BY <1>1, RouterInvariant, PTL

=============================================================================
