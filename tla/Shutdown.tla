----------------------------- MODULE Shutdown ------------------------------
(***************************************************************************)
(* How a gateway process stops (dataplane/cmd/gateway/main.go): the HTTP   *)
(* server drains within its grace, then the deferred calls run, last one   *)
(* first: the shadow mirror's Wait (dataplane/internal/shadow/shadow.go)   *)
(* and the telemetry emitter's Close.  Request handlers and the mirror's   *)
(* workers are the emitter's producers.                                    *)
(*                                                                         *)
(* A request emits one event here and enqueues at most one mirrored call.  *)
(* The steps between those two share no state with them: prober.Stop is    *)
(* left out, guardrailChain.Wait is in GuardrailChain.                     *)
(***************************************************************************)
EXTENDS Emitter

CONSTANTS Handlers,       \* goroutines of the HTTP server
          MirrorWorkers,  \* goroutines started by Mirror.Start
          QueueSize,      \* capacity of the mirror's queue
          MaxRequests     \* bound: requests accepted in a run

ASSUME ShutdownAssumption ==
  /\ Producers = Handlers \cup MirrorWorkers
  /\ Handlers \cap MirrorWorkers = {}
  /\ MirrorWorkers # {}
  /\ QueueSize \in Nat \ {0}
  /\ MaxRequests \in Nat
  /\ MaxEvents >= 2 * MaxRequests

VARIABLES main,        \* where run, the process's main function, is
          graceful,    \* FALSE once main went on without its handlers
          requests,    \* number of requests accepted
          handler,     \* handler[h]: where in a request h is
          mirror,      \* mirror[m]: where mirror worker m is
          queue,       \* number of jobs in the mirror's queue
          queueOpen,   \* FALSE once Wait has closed the queue
          accepted,    \* history: jobs Send put in the queue
          mirrored, mirrorFailed, mirrorDropped,   \* Mirror.Stats
          panics       \* history: sends on the closed queue

mirrorVars == <<mirror, queue, queueOpen, accepted, mirrored, mirrorFailed,
                mirrorDropped>>
vars == <<evars, main, graceful, requests, handler, mirrorVars, panics>>

Init ==
  /\ EInit
  /\ main = "serving"
  /\ graceful = TRUE
  /\ requests = 0
  /\ handler = [h \in Handlers |-> "idle"]
  /\ mirror = [m \in MirrorWorkers |-> "waiting"]
  /\ queue = 0
  /\ queueOpen = TRUE
  /\ accepted = 0
  /\ mirrored = 0 /\ mirrorFailed = 0 /\ mirrorDropped = 0
  /\ panics = 0

-----------------------------------------------------------------------------
(* Request handlers *)

Accept(h) ==
  /\ main = "serving"
  /\ requests < MaxRequests
  /\ handler[h] = "idle"
  /\ requests' = requests + 1
  /\ handler' = [handler EXCEPT ![h] = "running"]
  /\ UNCHANGED <<evars, main, graceful, mirrorVars, panics>>

EmitUsage(h) ==
  /\ handler[h] = "running"
  /\ Emit(h)
  /\ handler' = [handler EXCEPT ![h] = "emitting"]
  /\ UNCHANGED <<main, graceful, requests, mirrorVars, panics>>

\* Emit returned.  Only a request that was served goes on to mirror.
UsageEmitted(h, served) ==
  /\ handler[h] = "emitting"
  /\ pc[h] = "idle"
  /\ handler' = [handler EXCEPT ![h] = IF served THEN "mirroring" ELSE "idle"]
  /\ UNCHANGED <<evars, main, graceful, requests, mirrorVars, panics>>

\* Mirror.Send.  A send on the queue after Wait has closed it panics, and the
\* HTTP server's recovery ends the request.
MirrorSend(h) ==
  /\ handler[h] = "mirroring"
  /\ handler' = [handler EXCEPT ![h] = "idle"]
  /\ \/ /\ ~queueOpen
        /\ panics' = panics + 1
        /\ UNCHANGED <<queue, accepted, mirrorDropped>>
     \/ /\ queueOpen /\ queue < QueueSize
        /\ queue' = queue + 1
        /\ accepted' = accepted + 1
        /\ UNCHANGED <<mirrorDropped, panics>>
     \/ /\ queueOpen /\ queue = QueueSize
        /\ mirrorDropped' = mirrorDropped + 1
        /\ UNCHANGED <<queue, accepted, panics>>
  /\ UNCHANGED <<evars, main, graceful, requests, mirror, queueOpen, mirrored,
                 mirrorFailed>>

-----------------------------------------------------------------------------
(* Mirror workers *)

TakeJob(m) ==
  /\ mirror[m] = "waiting"
  /\ queue > 0
  /\ queue' = queue - 1
  /\ mirror' = [mirror EXCEPT ![m] = "calling"]
  /\ UNCHANGED <<evars, main, graceful, requests, handler, queueOpen, accepted,
                 mirrored, mirrorFailed, mirrorDropped, panics>>

\* run counts the outcome of the call.
Counted(m, ok) ==
  /\ mirror' = [mirror EXCEPT ![m] = "waiting"]
  /\ mirrored' = mirrored + (IF ok THEN 1 ELSE 0)
  /\ mirrorFailed' = mirrorFailed + (IF ok THEN 0 ELSE 1)
  /\ UNCHANGED <<evars, main, graceful, requests, handler, queue, queueOpen,
                 accepted, mirrorDropped, panics>>

\* ShadowCall fails before it reaches the provider, and emits nothing.
CallNotMade(m) ==
  /\ mirror[m] = "calling"
  /\ Counted(m, FALSE)

\* The provider answered, failed or timed out: the cost is emitted either way.
ShadowUsage(m) ==
  /\ mirror[m] = "calling"
  /\ Emit(m)
  /\ mirror' = [mirror EXCEPT ![m] = "emitting"]
  /\ UNCHANGED <<main, graceful, requests, handler, queue, queueOpen, accepted,
                 mirrored, mirrorFailed, mirrorDropped, panics>>

ShadowEmitted(m, ok) ==
  /\ mirror[m] = "emitting"
  /\ pc[m] = "idle"
  /\ Counted(m, ok)

\* range over the closed and empty queue ends.
WorkerReturns(m) ==
  /\ mirror[m] = "waiting"
  /\ ~queueOpen
  /\ queue = 0
  /\ mirror' = [mirror EXCEPT ![m] = "returned"]
  /\ UNCHANGED <<evars, main, graceful, requests, handler, queue, queueOpen,
                 accepted, mirrored, mirrorFailed, mirrorDropped, panics>>

-----------------------------------------------------------------------------
(* main *)

mainUnchanged == UNCHANGED <<requests, handler, mirror, queue, accepted, mirrored,
                             mirrorFailed, mirrorDropped, panics>>

Signal ==
  /\ main = "serving"
  /\ main' = "draining"
  /\ UNCHANGED <<evars, graceful, queueOpen>> /\ mainUnchanged

\* ListenAndServe failed: run returns without Shutdown.
ServeFails ==
  /\ main = "serving"
  /\ main' = "waiting"
  /\ graceful' = FALSE
  /\ UNCHANGED <<evars, queueOpen>> /\ mainUnchanged

Drained ==
  /\ main = "draining"
  /\ \A h \in Handlers : handler[h] = "idle"
  /\ main' = "waiting"
  /\ UNCHANGED <<evars, graceful, queueOpen>> /\ mainUnchanged

\* Mutant of GraceExpires: Shutdown waits for the handlers without a deadline.
GraceIgnored == Drained

GraceExpires ==
  /\ main = "draining"
  /\ \E h \in Handlers : handler[h] # "idle"
  /\ main' = "waiting"
  /\ graceful' = FALSE
  /\ UNCHANGED <<evars, queueOpen>> /\ mainUnchanged

\* Mirror.Wait: the queue is closed, then every worker is waited for.
WaitBegins ==
  /\ main = "waiting"
  /\ queueOpen
  /\ queueOpen' = FALSE
  /\ UNCHANGED <<evars, main, graceful>> /\ mainUnchanged

WaitEnds ==
  /\ main = "waiting"
  /\ ~queueOpen
  /\ \A m \in MirrorWorkers : mirror[m] = "returned"
  /\ main' = "closing"
  /\ UNCHANGED <<evars, graceful, queueOpen>> /\ mainUnchanged

\* Mutant of CloseEmitter: deferred after the mirror was started, so closed first.
CloseEmitterEarly ==
  /\ main \in {"waiting", "closing"}
  /\ Close
  /\ UNCHANGED <<main, graceful, queueOpen>> /\ mainUnchanged

CloseEmitter ==
  /\ main = "closing"
  /\ Close
  /\ UNCHANGED <<main, graceful, queueOpen>> /\ mainUnchanged

\* The process exits, and takes whatever still runs with it.
Exit ==
  /\ main = "closing"
  /\ worker = "stopped"
  /\ main' = "exited"
  /\ UNCHANGED <<evars, graceful, queueOpen>> /\ mainUnchanged

EmitterStep(A) == A /\ UNCHANGED <<main, graceful, requests, handler, mirrorVars, panics>>

HandlerStep(h) ==
  \/ Accept(h)
  \/ EmitUsage(h)
  \/ EmitterStep(EmitStep(h))
  \/ \E served \in BOOLEAN : UsageEmitted(h, served)
  \/ MirrorSend(h)

WorkerStep(m) ==
  \/ TakeJob(m)
  \/ CallNotMade(m)
  \/ ShadowUsage(m)
  \/ EmitterStep(EmitStep(m))
  \/ \E ok \in BOOLEAN : ShadowEmitted(m, ok)
  \/ WorkerReturns(m)

MainStep ==
  \/ Drained
  \/ GraceExpires
  \/ WaitBegins
  \/ WaitEnds
  \/ CloseEmitter
  \/ Exit

Running ==
  \/ \E h \in Handlers : HandlerStep(h)
  \/ \E m \in MirrorWorkers : WorkerStep(m)
  \/ EmitterStep(RunStep)
  \/ Signal
  \/ ServeFails
  \/ MainStep

Exited == main = "exited" /\ UNCHANGED vars

Next == (main # "exited" /\ Running) \/ Exited

Spec == Init /\ [][Next]_vars

(***************************************************************************)
(* main, the emitter's goroutine and the mirror's workers keep running: a  *)
(* mirrored call and a sink's write have timeouts, and the grace is a      *)
(* timer.  Nothing makes a request handler finish.                         *)
(***************************************************************************)
LiveSpec ==
  /\ Spec
  /\ WF_vars(MainStep)
  /\ WF_vars(EmitterStep(RunStep))
  /\ \A m \in MirrorWorkers : WF_vars(WorkerStep(m))

-----------------------------------------------------------------------------
(* Properties *)

TypeOK ==
  /\ ETypeOK
  /\ main \in {"serving", "draining", "waiting", "closing", "exited"}
  /\ graceful \in BOOLEAN /\ queueOpen \in BOOLEAN
  /\ requests \in 0 .. MaxRequests
  /\ handler \in [Handlers -> {"idle", "running", "emitting", "mirroring"}]
  /\ mirror \in [MirrorWorkers -> {"waiting", "calling", "emitting", "returned"}]
  /\ queue \in 0 .. QueueSize
  /\ accepted \in Nat /\ mirrored \in Nat /\ mirrorFailed \in Nat
  /\ mirrorDropped \in Nat /\ panics \in Nat

(***************************************************************************)
(* Why the order of the deferred calls is enough: the inductive invariant  *)
(* of GracefulExitLosesNothing, with the type invariant and ExactLoss.     *)
(***************************************************************************)
\* Jobs in the hands of a mirror worker, and the account of all jobs.
Busy == {m \in MirrorWorkers : mirror[m] \in {"calling", "emitting"}}
MirrorExact == accepted = mirrored + mirrorFailed + queue + Cardinality(Busy)

\* A producer is inside Emit only where its own code calls Emit.
InsideEmit ==
  /\ \A h \in Handlers : handler[h] # "emitting" => pc[h] = "idle"
  /\ \A m \in MirrorWorkers : mirror[m] # "emitting" => pc[m] = "idle"

\* Each stage of main has outlived the goroutines that it waited for.
Serving == main \in {"serving", "draining"}

Stages ==
  /\ graceful /\ ~Serving => \A h \in Handlers : handler[h] = "idle"
  /\ Serving => queueOpen
  /\ \A m \in MirrorWorkers : mirror[m] = "returned" => ~queueOpen /\ queue = 0
  /\ main \in {"closing", "exited"} => \A m \in MirrorWorkers : mirror[m] = "returned"
  /\ stopping => main \in {"closing", "exited"}
  /\ worker # "collecting" => stopping
  /\ main = "exited" => worker = "stopped"

\* With every producer gone, the buffer that run found empty stays empty.
Emptied ==
  /\ graceful /\ worker \in {"flushing", "stopped"} => buffer = 0
  /\ worker = "stopped" => batch = 0
  /\ graceful => panics = 0

\* A shutdown whose requests all finished within the grace loses nothing
\* uncounted: every event was written or counted dropped, every mirrored call
\* that was accepted ran to its outcome, and no request met the closed queue
\* ("so the last in-flight requests' usage events survive a deploy").  It rests
\* on the order of main's deferred calls.
GracefulExitLosesNothing ==
  main = "exited" /\ graceful =>
    /\ received = dropped + written
    /\ accepted = mirrored + mirrorFailed
    /\ panics = 0

\* A signalled process exits, even when a request handler never returns: no
\* deferred call waits on a goroutine that waits on another.
ShutdownCompletes == []<>(main \in {"serving", "exited"})

=============================================================================
