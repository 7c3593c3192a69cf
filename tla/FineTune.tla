------------------------------ MODULE FineTune ------------------------------
(***************************************************************************)
(* A fine-tune job: the reconcilers that take it from submission through   *)
(* training and the eval gate, and walk its canary (service/finetune.py,   *)
(* finetune_main.py), the operator's requests about it, and a trainer.     *)
(*                                                                         *)
(* Of the row's status columns the model keeps those that decide what      *)
(* happens next.  SQLAlchemy writes the columns a session has changed,     *)
(* over whatever the row holds by then; SELECT ... FOR UPDATE SKIP LOCKED  *)
(* holds the row until the commit, and an UPDATE waits for it.             *)
(***************************************************************************)
EXTENDS Integers, Sequences

CONSTANTS Reconcilers,
          Operators,      \* requests to the admin API about the job
          CanarySteps,
          MaxFailures     \* bound: reconcilers that die, calls that raise

ASSUME FineTuneAssumption ==
  /\ \A i \in 1 .. Len(CanarySteps) : CanarySteps[i] \in 1 .. 100
  /\ MaxFailures \in Nat

VARIABLES row,         \* the committed row of the job
          rowLock,     \* the reconcilers that hold it FOR UPDATE
          reconciler,  \* reconciler[r]: the pass r is in
          request,     \* request[o]: the session of an operator's request
          trainerRun,  \* the run the trainer holds for the job's key
          failures

jobVars == <<row, rowLock, reconciler, request, trainerRun, failures>>

TERMINAL == {"trained", "ready", "failed", "cancelled"}

\* Mutant of ACTIONABLE: a submission in flight is left alone.
ActionableUnlessSubmitting == {"pending", "training", "evaluating"}

ACTIONABLE == {"pending", "submitting", "training", "evaluating"}

\* The columns, before there is a job: whether the spec names an eval suite and
\* whether external_id is set, and the rollout's step and weight.
NoJob == [phase |-> "none", eval_suite |-> FALSE, external_id |-> FALSE,
          step |-> -1, weight |-> 0]

\* _apply_status and the UPDATE: the columns in which status differs from what
\* the session loaded.
ApplyStatus(loaded, status) ==
  [c \in DOMAIN row |-> IF status[c] # loaded[c] THEN status[c] ELSE row[c]]

\* A session: what it loaded, and the status it computed from that.
Session(point, loaded, status) == [pc |-> point, loaded |-> loaded, status |-> status]
NoSession == Session("idle", NoJob, NoJob)

JobInit ==
  /\ row = NoJob
  /\ rowLock = {}
  /\ reconciler = [r \in Reconcilers |-> NoSession]
  /\ request = [o \in Operators |-> NoSession]
  /\ trainerRun = "none"
  /\ failures = 0

-----------------------------------------------------------------------------
(* The domain's moves, each on a status *)

moveTo(status, phase) == [status EXCEPT !.phase = phase]

\* submitted and trained raise on an answer without an id or an artifact: the
\* transaction rolls back, as for every other exception, which is PassEnds.
submitted(status) == [status EXCEPT !.phase = "training", !.external_id = TRUE]
trained(status) == moveTo(status, IF status.eval_suite THEN "evaluating" ELSE "trained")
evaluated(status, passed) == moveTo(status, IF passed THEN "ready" ELSE "failed")

CanStart(status) == status.phase = "ready" /\ status.step < 0
CanAdvance(status) == status.step >= 0 /\ status.step < Len(CanarySteps)
CanAbort(status) == status.step >= 0

started(status) == [status EXCEPT !.step = 0, !.weight = 0]
advanced(status) ==
  [status EXCEPT !.step = @ + 1, !.weight = CanarySteps[status.step + 1]]
aborted(status) == [status EXCEPT !.step = 0, !.weight = 0]

-----------------------------------------------------------------------------
(* FineTuneService, one transaction per request *)

submit(suite) ==
  /\ row = NoJob
  /\ row' = [NoJob EXCEPT !.phase = "pending", !.eval_suite = suite]
  /\ UNCHANGED <<rowLock, reconciler, request, trainerRun, failures>>

\* The reads are not locked.  A cancel tells the trainer about the run, if the row
\* it read names one, before it stores.
RequestReads(o, point, status) ==
  /\ request[o].pc = "idle"
  /\ request' = [request EXCEPT ![o] = Session(point, row, status)]
  /\ UNCHANGED <<row, rowLock, reconciler, trainerRun, failures>>

cancel(o) ==
  /\ row.phase \notin TERMINAL \cup {"none"}
  /\ RequestReads(o, IF row.external_id THEN "stopping" ELSE "storing",
                  moveTo(row, "cancelled"))

CancelRun(o) ==
  /\ request[o].pc = "stopping"
  /\ trainerRun' = IF trainerRun = "running" THEN "failed" ELSE trainerRun
  /\ request' = [request EXCEPT ![o].pc = "storing"]
  /\ UNCHANGED <<row, rowLock, reconciler, failures>>

start_rollout(o) == CanStart(row) /\ RequestReads(o, "storing", started(row))
advance_rollout(o) == CanAdvance(row) /\ RequestReads(o, "storing", advanced(row))
abort_rollout(o) == CanAbort(row) /\ RequestReads(o, "storing", aborted(row))

\* The commit of the request: its UPDATE waits for a locked row.
Store(o) ==
  /\ request[o].pc = "storing"
  /\ rowLock = {}
  /\ row' = ApplyStatus(request[o].loaded, request[o].status)
  /\ request' = [request EXCEPT ![o] = NoSession]
  /\ UNCHANGED <<rowLock, reconciler, trainerRun, failures>>

\* An exception rolls the request back.
RequestFails(o) ==
  /\ request[o].pc # "idle"
  /\ request' = [request EXCEPT ![o] = NoSession]
  /\ UNCHANGED <<row, rowLock, reconciler, trainerRun, failures>>

-----------------------------------------------------------------------------
(* Reconciler *)

\* reconcile_once: _needing_work, unlocked, is a hint.
NeedingWork(r) ==
  /\ reconciler[r].pc = "idle"
  /\ row.phase \in ACTIONABLE
  /\ reconciler' = [reconciler EXCEPT ![r].pc = "selected"]
  /\ UNCHANGED <<row, rowLock, request, trainerRun, failures>>

\* _advance loads the row.  Locked by another or terminal, it is passed over; a
\* pending one is committed as submitting, which lets go of the lock.
LoadRow(r) ==
  LET submitting == moveTo(row, "submitting") IN
  /\ reconciler[r].pc = "selected"
  /\ \/ /\ rowLock # {} \/ row.phase \in TERMINAL
        /\ reconciler' = [reconciler EXCEPT ![r] = NoSession]
        /\ UNCHANGED <<row, rowLock>>
     \/ /\ rowLock = {} /\ row.phase = "pending"
        /\ row' = submitting
        /\ reconciler' = [reconciler EXCEPT ![r] = Session("calling", submitting, submitting)]
        /\ UNCHANGED rowLock
     \/ /\ rowLock = {} /\ row.phase \notin TERMINAL \cup {"pending"}
        /\ rowLock' = {r}
        /\ reconciler' = [reconciler EXCEPT ![r] = Session("calling", row, row)]
        /\ UNCHANGED row
  /\ UNCHANGED <<request, trainerRun, failures>>

\* What _step makes of the trainer's or the suite's answer.
Answers(r, status) ==
  /\ reconciler' = [reconciler EXCEPT ![r].pc = "writing", ![r].status = status]
  /\ UNCHANGED <<row, rowLock, request, failures>>

\* trainer.submit: the run this key started, or a new one, which may be refused.
SubmitRun(r) ==
  LET status == reconciler[r].status IN
  /\ reconciler[r].pc = "calling"
  /\ status.phase = "submitting"
  /\ IF trainerRun \in {"none", "unknown"} THEN trainerRun' \in {"running", "failed"}
                                          ELSE UNCHANGED trainerRun
  /\ Answers(r, IF trainerRun' = "failed" THEN moveTo(status, "failed") ELSE submitted(status))

\* trainer.poll
PollRun(r) ==
  LET status == reconciler[r].status IN
  /\ reconciler[r].pc = "calling"
  /\ status.phase = "training"
  /\ Answers(r, CASE trainerRun = "succeeded" -> trained(status)
                  [] trainerRun \in {"failed", "unknown"} -> moveTo(status, "failed")
                  [] trainerRun = "running" -> status)
  /\ UNCHANGED trainerRun

\* _evaluate
Evaluate(r) ==
  LET status == reconciler[r].status IN
  /\ reconciler[r].pc = "calling"
  /\ status.phase = "evaluating"
  /\ \E passed \in BOOLEAN : Answers(r, evaluated(status, passed))
  /\ UNCHANGED trainerRun

\* _apply_status and the commit of _advance.
WriteStatus(r) ==
  /\ reconciler[r].pc = "writing"
  /\ rowLock \subseteq {r}
  /\ row' = ApplyStatus(reconciler[r].loaded, reconciler[r].status)
  /\ rowLock' = {}
  /\ reconciler' = [reconciler EXCEPT ![r] = NoSession]
  /\ UNCHANGED <<request, trainerRun, failures>>

\* advance_rollouts, where it is switched on, on a verdict to advance or to abort.
\* It holds the row from the read to the commit, so it is one step.
AdvanceRollouts(r) ==
  /\ reconciler[r].pc = "idle"
  /\ rowLock = {}
  /\ row.step >= 0 /\ row.weight < 100
  /\ \/ CanAdvance(row) /\ row' = advanced(row)
     \/ row' = aborted(row)
  /\ UNCHANGED <<rowLock, reconciler, request, trainerRun, failures>>

-----------------------------------------------------------------------------
(* The trainer, and failures *)

RunEnds ==
  /\ trainerRun = "running"
  /\ trainerRun' \in {"succeeded", "failed", "unknown"}
  /\ UNCHANGED <<row, rowLock, reconciler, request, failures>>

\* The pass ends without its write, and the transaction with it: the process
\* dies, or a call or the domain's record of its answer raises.
PassEnds(r) ==
  /\ failures < MaxFailures
  /\ failures' = failures + 1
  /\ reconciler[r].pc # "idle"
  /\ reconciler' = [reconciler EXCEPT ![r] = NoSession]
  /\ rowLock' = rowLock \ {r}
  /\ UNCHANGED <<row, request, trainerRun>>

ReconcilerStep(r) ==
  \/ NeedingWork(r) \/ LoadRow(r)
  \/ SubmitRun(r) \/ PollRun(r) \/ Evaluate(r)
  \/ WriteStatus(r)

JobNext ==
  \/ \E suite \in BOOLEAN : submit(suite)
  \/ \E o \in Operators :
       \/ cancel(o) \/ CancelRun(o)
       \/ start_rollout(o) \/ advance_rollout(o) \/ abort_rollout(o)
       \/ Store(o) \/ RequestFails(o)
  \/ \E r \in Reconcilers : ReconcilerStep(r) \/ AdvanceRollouts(r) \/ PassEnds(r)
  \/ RunEnds

(***************************************************************************)
(* A reconciler is a loop that a restart resumes, and a run ends.  Nobody  *)
(* is obliged to ask for anything.                                         *)
(***************************************************************************)
JobFairness ==
  /\ \A r \in Reconcilers : WF_jobVars(ReconcilerStep(r))
  /\ WF_jobVars(RunEnds)

JobSpec == JobInit /\ [][JobNext]_jobVars /\ JobFairness

-----------------------------------------------------------------------------
(* Properties *)

\* A job that was accepted comes to rest in a terminal phase, wherever a
\* reconciler dies, whichever call raises and whoever cancels it meanwhile: what
\* a pass left behind, a later one takes up.  A call that raises on every pass,
\* or a trainer that never answers with an id or an artifact, is left out: such a
\* job stays where it is.
JobConcludes ==
  row.phase # "none" ~> [](row.phase \in TERMINAL)

\* TERMINAL, "Phases from which nothing further happens.  Enforced in the domain
\* rather than in the reconciler": no write moves a job out of one.
TerminalStays == [][row.phase \in TERMINAL => row'.phase = row.phase]_jobVars

=============================================================================
