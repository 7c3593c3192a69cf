------------------------------ MODULE Pipeline ------------------------------
(***************************************************************************)
(* The request path of one worker for one principal                        *)
(* (dataplane/internal/gateway/pipeline.go and audit.go, entered from      *)
(* httpapi/server.go): authenticate, admit, guard, route, adapt, and what  *)
(* each exit does about the usage event, the audit event, the concurrency  *)
(* slot and the token vault.                                               *)
(*                                                                         *)
(* Handle and HandleStream share their stages and differ in how they end:  *)
(* a buffered request releases its slot by a defer, a stream by Finish,    *)
(* which only the transport calls.  What a stage decides is any of its     *)
(* outcomes; what is kept is the payload's form, since the transform is    *)
(* chosen per attempt from the destination's tier and the data class.      *)
(***************************************************************************)
EXTENDS Naturals, FiniteSets, Sequences, Functions

CONSTANTS Requests,
          Streams,         \* the requests with "stream": true
          Deployments,
          Internal,        \* deployments with TrustTier >= TrustInternal
          KeyClass,        \* the key's DefaultClass
          HasVault,        \* whether the worker has a token vault
          MaxConcurrent,   \* the principal's MaxConcurrent
          MaxAttempts      \* Router.maxAttempts

Classes == {"public", "internal", "confidential"}

ASSUME PipelineAssumption ==
  /\ Streams \subseteq Requests
  /\ Internal \subseteq Deployments
  /\ IsFiniteSet(Deployments)
  /\ KeyClass \in Classes
  /\ HasVault \in BOOLEAN
  /\ MaxConcurrent \in Nat \ {0}
  /\ MaxAttempts \in Nat \ {0}

VARIABLES req,      \* req[r]: the locals of a handler
          slots,    \* the principal's in-flight counter
          vault,    \* requests with originals in the vault
          usage,    \* usage[r]: the usage events r has emitted
          audit     \* audit[r]: the actions of the audit events r has emitted

pipelineVars == <<req, slots, vault, usage, audit>>

(***************************************************************************)
(* `class' is principal.DefaultClass after policy has run, `out' whether   *)
(* *out holds replacements.  History: `sent', every deployment the payload *)
(* was sent to with its form there; `slotted', whether the handler has a   *)
(* slot to release.                                                        *)
(***************************************************************************)
Forms == {"plain", "redacted", "tokenized"}

Fresh == [pc |-> "new", class |-> KeyClass, pii |-> FALSE,
          candidates |-> <<>>, n |-> 1, out |-> FALSE,
          slotted |-> FALSE, sent |-> {}]

PipelineInit ==
  /\ req = [r \in Requests |-> Fresh]
  /\ slots = 0
  /\ vault = {}
  /\ usage = [r \in Requests |-> <<>>]
  /\ audit = [r \in Requests |-> <<>>]

Candidate(r) == req[r].candidates[req[r].n]

\* The deployment a usage event is attributed to, "none" before there is one.
NoDeployment == "none"

-----------------------------------------------------------------------------
(* Exit paths *)

emitUsage(r, outcome, d) ==
  usage' = [usage EXCEPT ![r] = Append(@, [outcome |-> outcome, deployment |-> d])]

\* auditable: result.Principal is the copy made before admit, so the class it
\* sees is the key's.
auditable(outcome, redactions) ==
  CASE outcome = "error" -> <<"request">>
    [] outcome = "ok" /\ redactions -> <<"pii.redact">>
    [] outcome = "ok" /\ ~redactions /\ KeyClass # "public" -> <<"request">>
    [] OTHER -> <<>>

emitAudit(r, outcome, redactions) ==
  audit' = [audit EXCEPT ![r] = @ \o auditable(outcome, redactions)]

\* The handler returns.
Return(r) == req' = [req EXCEPT ![r].pc = "done", ![r].slotted = FALSE,
                                ![r].candidates = <<>>, ![r].n = 1]

\* Mutant of ReleaseOnError: the slot is released whether or not it was taken.
ReleaseUntaken(r) == slots' = slots - 1

\* The deferred limiter.Release of Handle runs on every exit after admit.  A
\* stream's slot is left to Finish, which streamCompletion does not reach when
\* HandleStream returned an error.
ReleaseOnError(r) ==
  slots' = IF req[r].slotted /\ r \notin Streams THEN slots - 1 ELSE slots

\* A stage failed: emit(err), and the error goes to the caller.
StageFails(r, d) ==
  /\ emitUsage(r, "error", d)
  /\ emitAudit(r, "error", FALSE)
  /\ ReleaseOnError(r)
  /\ Return(r)

-----------------------------------------------------------------------------
(* Stages before the provider *)

\* A request arrives; its payload has personal data or has none.
Arrive(r, pii) ==
  /\ req[r].pc \in {"new", "done"}
  /\ req' = [req EXCEPT ![r] = [Fresh EXCEPT !.pc = "authenticate", !.pii = pii]]
  /\ usage' = [usage EXCEPT ![r] = <<>>]
  /\ audit' = [audit EXCEPT ![r] = <<>>]
  /\ UNCHANGED <<slots, vault>>

authenticate(r) ==
  /\ req[r].pc = "authenticate"
  /\ req' = [req EXCEPT ![r].pc = "admit"]
  /\ UNCHANGED <<slots, vault, usage, audit>>

\* Policy may replace the class; then the limiter takes a slot.
admit(r, class) ==
  /\ req[r].pc = "admit"
  /\ slots < MaxConcurrent
  /\ slots' = slots + 1
  /\ req' = [req EXCEPT ![r].pc = "guard", ![r].class = class,
                        ![r].slotted = TRUE]
  /\ UNCHANGED <<vault, usage, audit>>

guard(r) ==
  /\ req[r].pc = "guard"
  /\ req' = [req EXCEPT ![r].pc = "route"]
  /\ UNCHANGED <<slots, vault, usage, audit>>

route(r, order) ==
  /\ req[r].pc = "route"
  /\ req' = [req EXCEPT ![r].pc = "attempt", ![r].candidates = order]
  /\ UNCHANGED <<slots, vault, usage, audit>>

\* Mutant of Refuse: only requests that reached a provider are reported.
RefuseSilently(r) ==
  /\ req[r].pc \in {"authenticate", "admit", "guard", "route"}
  /\ ReleaseOnError(r)
  /\ Return(r)
  /\ UNCHANGED <<vault, usage, audit>>

\* One of the four stages refuses: an unknown key, a policy, an exhausted
\* budget, a limit, a guardrail, or no eligible deployment.
Refuse(r) ==
  /\ req[r].pc \in {"authenticate", "admit", "guard", "route"}
  /\ StageFails(r, NoDeployment)
  /\ UNCHANGED vault

-----------------------------------------------------------------------------
(* adapt: Execute's loop around the attempt *)

HasAttempt(r) == /\ req[r].pc = "attempt"
                 /\ req[r].n <= Len(req[r].candidates)
                 /\ req[r].n <= MaxAttempts

\* The deployment an adapt error is attributed to after `tried' attempts: a
\* buffered request has the first candidate's since routing, a stream takes
\* the last attempt's.
Attributed(r, tried) ==
  IF r \notin Streams THEN req[r].candidates[1]
  ELSE IF tried = 0 THEN NoDeployment ELSE req[r].candidates[tried]

\* The breaker refuses the candidate.
Skip(r) ==
  /\ HasAttempt(r)
  /\ req' = [req EXCEPT ![r].n = @ + 1]
  /\ UNCHANGED <<slots, vault, usage, audit>>

\* The candidates, the attempts or the deadline are used up.
AdaptGivesUp(r) ==
  /\ req[r].pc = "attempt"
  /\ StageFails(r, Attributed(r, req[r].n - 1))
  /\ UNCHANGED vault

strategyFor(class, d) ==
  CASE d \in Internal -> "plain"
    [] d \notin Internal /\ class = "confidential" -> "tokenized"
    [] d \notin Internal /\ class = "internal" -> "redacted"
    [] OTHER -> "plain"

\* Mutant of FormFor: the payload is transformed once, for the first candidate.
FormForFirst(r, d) ==
  IF req[r].pii THEN strategyFor(req[r].class, req[r].candidates[1]) ELSE "plain"

\* The form protect gives the payload: a payload with nothing to replace is
\* sent as it is.
FormFor(r, d) == IF req[r].pii THEN strategyFor(req[r].class, d) ELSE "plain"

\* protect stores the originals of a tokenised payload.
Stores(r, d) == HasVault /\ FormFor(r, d) = "tokenized"

\* Mutant of Protect: *out keeps an earlier attempt's replacements when this
\* attempt has none.
ProtectKeepsOut(r) ==
  LET d == Candidate(r)
      form == FormFor(r, d)
  IN  /\ HasAttempt(r)
      /\ vault' = IF Stores(r, d) THEN vault \cup {r} ELSE vault
      /\ req' = [req EXCEPT ![r].pc = "calling",
                            ![r].out = @ \/ form = "tokenized",
                            ![r].sent = @ \cup {<<d, form>>}]
      /\ UNCHANGED <<slots, usage, audit>>

\* protect succeeds, *out is set, and the provider is called.
Protect(r) ==
  LET d == Candidate(r)
      form == FormFor(r, d)
  IN  /\ HasAttempt(r)
      /\ vault' = IF Stores(r, d) THEN vault \cup {r} ELSE vault
      /\ req' = [req EXCEPT ![r].pc = "calling",
                            ![r].out = (form = "tokenized"),
                            ![r].sent = @ \cup {<<d, form>>}]
      /\ UNCHANGED <<slots, usage, audit>>

\* The credential cannot be resolved, deep inspection is required and not
\* available, or the vault fails, having stored some of the originals by then.
\* None of these errors is retryable.
ProtectFails(r) ==
  /\ HasAttempt(r)
  /\ StageFails(r, Attributed(r, req[r].n))
  /\ \/ UNCHANGED vault
     \/ Stores(r, Candidate(r)) /\ vault' = vault \cup {r}

\* The provider answers; a stream has begun.
CallSucceeds(r) ==
  /\ req[r].pc = "calling"
  /\ req' = [req EXCEPT ![r].pc = IF r \in Streams THEN "relay" ELSE "served"]
  /\ UNCHANGED <<slots, vault, usage, audit>>

CallFails(r) ==
  /\ req[r].pc = "calling"
  /\ req' = [req EXCEPT ![r].pc = "attempt", ![r].n = @ + 1]
  /\ UNCHANGED <<slots, vault, usage, audit>>

CallRejected(r) ==
  /\ req[r].pc = "calling"
  /\ StageFails(r, Attributed(r, req[r].n))
  /\ UNCHANGED vault

-----------------------------------------------------------------------------
(* After the provider *)

\* vault.Forget with the replacements of the attempt that served.
Forget(r) == vault' = IF HasVault /\ req[r].out THEN vault \ {r} ELSE vault

\* Handle restores the body, forgets the originals, records the tokens, emits,
\* mirrors, and returns through the deferred Release.
Complete(r) ==
  /\ req[r].pc = "served"
  /\ Forget(r)
  /\ emitUsage(r, "ok", Candidate(r))
  /\ emitAudit(r, "ok", req[r].out)
  /\ slots' = slots - 1
  /\ Return(r)

\* The stream ends, fails or loses its caller, and the deferred Finish runs.
Finish(r, outcome) ==
  /\ req[r].pc = "relay"
  /\ Forget(r)
  /\ slots' = slots - 1
  /\ emitUsage(r, outcome, Candidate(r))
  /\ emitAudit(r, outcome, req[r].out)
  /\ Return(r)

-----------------------------------------------------------------------------
Orders == UNION {Bijection(1..Cardinality(D), D) : D \in SUBSET Deployments \ {{}}}

PipelineNext == \E r \in Requests :
  \/ \E pii \in BOOLEAN : Arrive(r, pii)
  \/ authenticate(r)
  \/ \E class \in Classes : admit(r, class)
  \/ guard(r)
  \/ \E order \in Orders : route(r, order)
  \/ Refuse(r)
  \/ Skip(r)
  \/ AdaptGivesUp(r)
  \/ Protect(r)
  \/ ProtectFails(r)
  \/ CallSucceeds(r)
  \/ CallFails(r)
  \/ CallRejected(r)
  \/ Complete(r)
  \/ \E outcome \in {"ok", "error"} : Finish(r, outcome)

PipelineSpec == PipelineInit /\ [][PipelineNext]_pipelineVars

-----------------------------------------------------------------------------
(* Properties *)

Holding == {r \in Requests : req[r].slotted}

\* "One usage event per request, on every exit path": a request has emitted
\* nothing until it returns and exactly one event when it has, whichever stage,
\* attempt or end of stream it returned from; and an event that reports success
\* names the deployment the payload was last sent to (Handle, HandleStream,
\* Finish).
OneUsageEvent ==
  \A r \in Requests :
    /\ Len(usage[r]) = IF req[r].pc = "done" THEN 1 ELSE 0
    /\ \A e \in Range(usage[r]) : e.outcome = "ok" =>
         \E form \in Forms : <<e.deployment, form>> \in req[r].sent

\* No exit gives back a slot twice, or one it does not have: the counter is
\* never below the number of handlers that hold a slot (the deferred Release
\* of Handle, the once-only Finish).  A slot that is never given back is
\* SlotsMatchHolders.
SlotsCoverHolders == slots >= Cardinality(Holding)

\* What may leave for deployment d with personal data of a class.  A worker with a
\* vault sends the form the class requires; of one without it this asks only that
\* nothing leaves unprotected (what it is said to send is VaultlessRedacts).
MaySend(class, d) ==
  IF HasVault \/ strategyFor(class, d) = "plain"
  THEN {strategyFor(class, d)}
  ELSE {"redacted", "tokenized"}

\* A payload with personal data leaves for a deployment outside the trust
\* boundary only in a form its class allows, on a fallback too: a payload
\* prepared for one tier is never reused for another (ADR 0007).
SentAsRequired ==
  \A r \in Requests : \A s \in req[r].sent :
    req[r].pii => s[2] \in MaySend(req[r].class, s[1])

\* What WithVault and the gateway's start-up say of a worker without a token vault:
\* a request that would have been tokenised is redacted instead (pipeline.go:168-171,
\* cmd/gateway/main.go:256-260).
VaultlessRedacts ==
  ~HasVault => \A r \in Requests : \A s \in req[r].sent : s[2] # "tokenized"

\* The response is restored with the replacements of the attempt that served,
\* and with none if that attempt sent the payload as it was, whatever earlier
\* attempts replaced (the comment on `replacements' in Handle).  They are the
\* handler's own, so this does not depend on the vault.
RestoredFromServing ==
  \A r \in Requests :
    req[r].pc \in {"served", "relay"} =>
      (req[r].out <=> <<Candidate(r), "tokenized">> \in req[r].sent)

\* The transport's obligation, "Released by Finish", and Handle's "Released on
\* every exit path below": the counter counts handlers that are running.
SlotsMatchHolders == slots = Cardinality(Holding)

\* The audit trail's promise: every redaction and every access to data
\* classified above public is recorded.
DecisionsAudited ==
  \A r \in Requests :
    req[r].pc = "done" /\ req[r].class # "public" /\ req[r].sent # {}
      => audit[r] # <<>>

=============================================================================
