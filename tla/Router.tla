------------------------------- MODULE Router -------------------------------
(***************************************************************************)
(* Candidate selection, failover and active probing                        *)
(* (dataplane/internal/router/router.go, prober.go) over one breaker per   *)
(* deployment.                                                             *)
(*                                                                         *)
(* A request is a goroutine in Pipeline.route: Select builds its candidate *)
(* list, Execute walks it.  Execute is cut where another goroutine can     *)
(* run: at each breaker call, at the backoff, and around the provider      *)
(* call.  The prober is one more goroutine that walks the deployments that *)
(* were idle when its ticker fired.                                        *)
(*                                                                         *)
(* Scores are floating point, so the order Select leaves the candidates in *)
(* (health, price, locality, the weighted draw of the head) is any order.  *)
(***************************************************************************)
EXTENDS Breaker, FiniteSets, Sequences, Functions

CONSTANTS Deployments,        \* the deployments of the requested model
          Requests,           \* goroutines that route requests
          Tier,               \* Tier[d]: the deployment's trust tier
          MinTiers,           \* the minimum tiers requests ask for
          Serving,            \* deployments with Serving() true
          Supporting,         \* those with the capabilities and the endpoint
          MaxAttempts,        \* Router.maxAttempts
          IdleBeforeProbing   \* idleBeforeProbing, in ticks

ASSUME RouterAssumption ==
  /\ IsFiniteSet(Deployments)
  /\ Tier \in [Deployments -> Nat]
  /\ MinTiers \subseteq Nat
  /\ Serving \subseteq Deployments
  /\ Supporting \subseteq Deployments
  /\ MaxAttempts \in Nat \ {0}
  /\ IdleBeforeProbing \in Nat \ {0}

VARIABLES breaker,   \* breaker[d]: Router.breakers
          idleFor,   \* idleFor[d]: ticks since Prober.lastSeen[d]
          probing,   \* the deployments the prober's current pass has left
          req        \* req[r]: the locals of one Select and Execute

vars == <<breaker, idleFor, probing, req>>

(***************************************************************************)
(* pc: "done" outside Select and Execute, "attempt" at the head of         *)
(* Execute's loop, "admitted" after Allow returned true, "calling" while   *)
(* the provider call runs.  `n' is the loop index (from 1), `lastErr'      *)
(* whether lastErr is set.  `called' is history: the deployments this      *)
(* execution called.                                                       *)
(***************************************************************************)
Idle == [pc |-> "done", minTier |-> 0, candidates |-> <<>>, n |-> 1,
         lastErr |-> FALSE, outcome |-> "none", called |-> {}]

Init ==
  /\ breaker = [d \in Deployments |-> NewBreaker]
  /\ idleFor = [d \in Deployments |-> IdleBeforeProbing]   \* never seen
  /\ probing = {}
  /\ req = [r \in Requests |-> Idle]

-----------------------------------------------------------------------------
(* Select *)

MeetsTier(t) == {d \in Serving : Tier[d] >= t}
Eligible(t) == MeetsTier(t) \cap Supporting

selectionError(t) ==
  CASE Deployments = {}  -> "model_not_found"
    [] Deployments # {} /\ Serving = {} -> "not_serving"
    [] Serving # {} /\ MeetsTier(t) = {} -> "trust_tier_denied"
    [] OTHER -> "endpoint_unsupported"

Select(r, t) ==
  /\ req[r].pc = "done"
  /\ IF Eligible(t) = {}
     THEN req' = [req EXCEPT ![r] = [Idle EXCEPT !.minTier = t,
                                                 !.outcome = selectionError(t)]]
     ELSE \E order \in Bijection(1..Cardinality(Eligible(t)), Eligible(t)) :
            req' = [req EXCEPT ![r] = [Idle EXCEPT !.pc = "attempt",
                                                   !.minTier = t,
                                                   !.candidates = order]]
  /\ UNCHANGED <<breaker, idleFor, probing>>

-----------------------------------------------------------------------------
(* Execute *)

Candidate(r) == req[r].candidates[req[r].n]

\* The loop has a candidate left and an attempt to spend on it.
HasAttempt(r) == /\ req[r].pc = "attempt"
                 /\ req[r].n <= Len(req[r].candidates)
                 /\ req[r].n <= MaxAttempts

\* Execute returns: its locals go out of scope.
Ended(q, outcome) == [Idle EXCEPT !.outcome = outcome, !.minTier = q.minTier,
                                  !.called = q.called]

\* The loop ended without a response.
GaveUp(q) == Ended(q, IF q.lastErr THEN "failed" ELSE "no_candidates")

\* The candidates or the attempts are used up.
Exhausted(r) ==
  /\ req[r].pc = "attempt"
  /\ ~HasAttempt(r)
  /\ req' = [req EXCEPT ![r] = GaveUp(@)]
  /\ UNCHANGED <<breaker, idleFor, probing>>

\* remaining() is below minAttemptBudget.
OutOfBudget(r) ==
  /\ HasAttempt(r)
  /\ req' = [req EXCEPT ![r] = GaveUp(@)]
  /\ UNCHANGED <<breaker, idleFor, probing>>

\* Allow returned false: the attempt is recorded as skipped.
Skip(r) ==
  /\ HasAttempt(r)
  /\ ~Allows(breaker[Candidate(r)])
  /\ req' = [req EXCEPT ![r].n = @ + 1]
  /\ UNCHANGED <<breaker, idleFor, probing>>

Admit(r) ==
  LET d == Candidate(r)
  IN  /\ HasAttempt(r)
      /\ Allows(breaker[d])
      /\ breaker' = [breaker EXCEPT ![d] = Allow(@)]
      /\ req' = [req EXCEPT ![r].pc = "admitted"]
      /\ UNCHANGED <<idleFor, probing>>

\* The caller's context ends during the backoff before a second or later
\* attempt: Execute stops, and the breaker that admitted it hears nothing.
BackoffCancelled(r) ==
  /\ req[r].pc = "admitted"
  /\ req[r].n > 1
  /\ req' = [req EXCEPT ![r] = GaveUp(@)]
  /\ UNCHANGED <<breaker, idleFor, probing>>

\* The backoff, if any, is over: Saw, then the provider is called.  The worker's
\* providers are fixed when it starts, so the one it resolved has not vanished.
StartCall(r) ==
  /\ req[r].pc = "admitted"
  /\ idleFor' = [idleFor EXCEPT ![Candidate(r)] = 0]
  /\ req' = [req EXCEPT ![r].pc = "calling",
                        ![r].called = @ \cup {Candidate(r)}]
  /\ UNCHANGED <<breaker, probing>>

CallSucceeds(r) ==
  /\ req[r].pc = "calling"
  /\ breaker' = [breaker EXCEPT ![Candidate(r)] = Succeed(@)]
  /\ req' = [req EXCEPT ![r] = Ended(@, "ok")]
  /\ UNCHANGED <<idleFor, probing>>

\* Mutant of CallFails: lastErr is not set.
CallFailsUnrecorded(r) ==
  /\ req[r].pc = "calling"
  /\ breaker' = [breaker EXCEPT ![Candidate(r)] = Fail(@)]
  /\ req' = [req EXCEPT ![r].pc = "attempt", ![r].n = @ + 1]
  /\ UNCHANGED <<idleFor, probing>>

\* A retryable error counts against the deployment and moves on.
CallFails(r) ==
  /\ req[r].pc = "calling"
  /\ breaker' = [breaker EXCEPT ![Candidate(r)] = Fail(@)]
  /\ req' = [req EXCEPT ![r].pc = "attempt", ![r].n = @ + 1,
                        ![r].lastErr = TRUE]
  /\ UNCHANGED <<idleFor, probing>>

\* A non-retryable error is returned at once; the breaker is not told.
CallRejected(r) ==
  /\ req[r].pc = "calling"
  /\ req' = [req EXCEPT ![r] = Ended(@, "rejected")]
  /\ UNCHANGED <<breaker, idleFor, probing>>

-----------------------------------------------------------------------------
(* Prober *)

\* The ticker fires: RunOnce collects the deployments idle now.
RunOnce ==
  /\ probing = {}
  /\ probing' = {d \in Deployments : idleFor[d] >= IdleBeforeProbing}
  /\ UNCHANGED <<breaker, idleFor, req>>

ProbeSucceeds(d) ==
  /\ d \in probing
  /\ probing' = probing \ {d}
  /\ breaker' = [breaker EXCEPT ![d] = Succeed(@)]
  /\ UNCHANGED <<idleFor, req>>

\* The probe errs, or its credential cannot be resolved.
ProbeFails(d) ==
  /\ d \in probing
  /\ probing' = probing \ {d}
  /\ UNCHANGED <<breaker, idleFor, req>>

-----------------------------------------------------------------------------
Tick ==
  /\ breaker' = [d \in Deployments |-> Older(breaker[d])]
  /\ idleFor' = [d \in Deployments |->
                   IF idleFor[d] < IdleBeforeProbing THEN idleFor[d] + 1
                                                     ELSE idleFor[d]]
  /\ UNCHANGED <<probing, req>>

ExecuteStep(r) ==
  \/ Exhausted(r)
  \/ OutOfBudget(r)
  \/ Skip(r)
  \/ Admit(r)
  \/ BackoffCancelled(r)
  \/ StartCall(r)
  \/ CallSucceeds(r)
  \/ CallFails(r)
  \/ CallRejected(r)

Next ==
  \/ \E r \in Requests, t \in MinTiers : Select(r, t)
  \/ \E r \in Requests : ExecuteStep(r)
  \/ RunOnce
  \/ \E d \in Deployments : ProbeSucceeds(d) \/ ProbeFails(d)
  \/ Tick

Spec == Init /\ [][Next]_vars

(***************************************************************************)
(* Time passes and the prober's loop keeps running (main.go starts it      *)
(* unconditionally).  Strong fairness of ProbeSucceeds says that a         *)
(* deployment that is probed again and again has recovered: some probe is  *)
(* answered.  Nothing is assumed of requests: a provider call may hang.    *)
(***************************************************************************)
LiveSpec ==
  /\ Spec
  /\ WF_vars(Tick)
  /\ WF_vars(RunOnce)
  /\ \A d \in Deployments : /\ WF_vars(ProbeSucceeds(d) \/ ProbeFails(d))
                            /\ SF_vars(ProbeSucceeds(d))

-----------------------------------------------------------------------------
(* Properties *)

\* However the outcomes of overlapping attempts and probes interleave, the
\* probe slot and the success count belong to a half-open breaker only: a
\* breaker that closed or reopened carries nothing over from its last probing
\* phase (Allow, Succeed and Fail in breaker.go).
ProbingStateIsLocal ==
  \A d \in Deployments :
    breaker[d].state # "halfOpen" =>
      ~breaker[d].probeInFlight /\ breaker[d].successes = 0

\* What Execute reports is true of what it did: no candidates only when it called
\* no provider, and any other ending of the loop only after a call (its two last
\* returns); and no path through it, failover included, calls a deployment below
\* the tier the request was prepared for or without what it requires, nor more of
\* them than maxAttempts (the promise of Select's comment).
OutcomeTruthful ==
  \A r \in Requests :
    LET q == req[r] IN
    /\ q.pc = "done" /\ q.outcome = "no_candidates" => q.called = {}
    /\ q.pc = "done" /\ q.outcome \in {"ok", "rejected", "failed"} => q.called # {}
    /\ q.called \subseteq Eligible(q.minTier)
    /\ Cardinality(q.called) <= MaxAttempts

\* A probe slot whose request ended without telling the breaker (a
\* non-retryable error, a backoff cut short) is not lost for good: refused
\* traffic lets the deployment go idle, and the prober's success frees it.
ProbeSlotFreed == \A d \in Deployments : []<>(~breaker[d].probeInFlight)

=============================================================================
