----------------------------- MODULE Admission -----------------------------
(***************************************************************************)
(* Admitting a component: one run of cmd/admissionrunner, from the         *)
(* manifest through the sandbox (internal/sandbox) or the WASM runtime and *)
(* the contract suite (internal/contracts) to the verdict it reports       *)
(* (internal/admission), and what the control plane's registry makes of    *)
(* the report (controlplane service/registry.py) while an operator may     *)
(* retire the component.                                                   *)
(*                                                                         *)
(* The component may stop, the run may be interrupted, and every call to   *)
(* the outside may fail, between any two steps.                            *)
(***************************************************************************)
EXTENDS GuardrailPort, Integers, Sequences

CONSTANTS Jobs      \* the runs to start from, a set of Job

Answer(word, payload, reason) ==
  [verdict |-> word, payload |-> payload, reason |-> reason]

\* What a component does: its answers to the two fixtures, whether a repeated
\* call may be answered otherwise, whether it never answers, and whether it
\* fails on an empty payload.
Component == [benign: Response, trigger: Response,
              flaky: BOOLEAN, hangs: BOOLEAN, emptyFails: BOOLEAN]

Executions == {"in_process", "sidecar", "", "remote"}

Job == [digest: BOOLEAN, port: {"guardrail", "provider"}, name: BOOLEAN,
        execution: Executions,
        pinned: BOOLEAN,             \* the image is pinned by digest
        module: Module,              \* the bytes in the store
        store: {"none", "missing", "altered", "has"},
        benign: BOOLEAN, trigger: BOOLEAN,    \* the fixtures supplied
        component: Component, dryRun: BOOLEAN]

ASSUME JobsAssumption == Jobs \subseteq Job

VARIABLES job,
          step,        \* where run and Runner.Run are
          canceled,    \* the run's context is done
          container,   \* "none", "running", "exited" by itself, "removed"
          socketDir,   \* the temporary directory exists
          runtime,     \* the WASM runtime is open
          rmFailed,    \* the container runtime failed to remove the container
          report,      \* the outcome of each case, in order
          verdict,     \* "none", "error", "pass" or "fail"
          evidence,    \* the report is on disk
          exit,        \* the exit code, -1 before
          componentStatus, admissions,   \* the component's row and its admission rows
          read,        \* the status the reporting session has read
          operator     \* the retiring session: "idle", "read" or "done"

hostVars == <<container, socketDir, runtime, rmFailed>>
registryVars == <<componentStatus, admissions, read, operator>>
admissionVars == <<job, step, canceled, hostVars, report, verdict, evidence, exit, registryVars>>

AdmissionInit ==
  /\ job \in Jobs
  /\ step = "start"
  /\ canceled = FALSE
  /\ container = "none" /\ socketDir = FALSE /\ runtime = FALSE /\ rmFailed = FALSE
  /\ report = <<>>
  /\ verdict = "none"
  /\ evidence = FALSE
  /\ exit = -1
  /\ componentStatus = "pending" /\ admissions = <<>> /\ read = "none" /\ operator = "idle"

exitCouldNotRun == 1
exitFailedSuite == 2

Exit(code) == step' = "exited" /\ exit' = code
Goto(s) == step' = s /\ UNCHANGED exit

\* Runner.Run returns an error, through the calls it has deferred: "teardown"
\* once Start has returned a handle, "release" before.
GiveUp(at) == Goto(at) /\ verdict' = "error"

Sidecar == job.execution \in {"sidecar", ""}

-----------------------------------------------------------------------------
(* Before the component runs *)

\* Flags, fixtures, the client and the manifest: any of them may fail.
Fetch ==
  /\ step = "start"
  /\ \/ ~canceled /\ Goto("check")
     \/ Exit(exitCouldNotRun)
  /\ UNCHANGED <<job, canceled, hostVars, report, verdict, evidence, registryVars>>

\* Runner.Run's early returns.
Accepted ==
  /\ job.digest /\ job.port = "guardrail" /\ job.benign
  /\ \/ Sidecar
     \/ job.execution = "in_process" /\ job.store # "none"

Check ==
  /\ step = "check"
  /\ IF Accepted THEN Goto(IF Sidecar THEN "prepare" ELSE "load") /\ UNCHANGED verdict
                 ELSE GiveUp("release")
  /\ UNCHANGED <<job, canceled, hostVars, report, evidence, registryVars>>

Prepare ==
  /\ step = "prepare"
  /\ \/ socketDir' = TRUE /\ Goto("launch") /\ UNCHANGED verdict
     \/ UNCHANGED socketDir /\ GiveUp("release")
  /\ UNCHANGED <<job, canceled, container, runtime, rmFailed, report, evidence, registryVars>>

\* validate: the spec must name immutable content (pinnedByDigest).
Validated == job.pinned

\* Container.Start up to cmd.Start.
Launch ==
  /\ step = "launch"
  /\ \/ Validated /\ ~canceled /\ container' = "running" /\ Goto("await") /\ UNCHANGED verdict
     \/ UNCHANGED container /\ GiveUp("release")
  /\ UNCHANGED <<job, canceled, socketDir, runtime, rmFailed, report, evidence, registryVars>>

\* Handle.Close: the container is removed by name, best effort.
Close ==
  \/ container' = (IF container = "running" THEN "removed" ELSE container) /\ UNCHANGED rmFailed
  \/ container = "running" /\ rmFailed' = TRUE /\ UNCHANGED container

\* Mutant of Await: Start leaves the container to the caller on an error.
AwaitNoClose ==
  /\ step = "await"
  /\ \/ Goto("ping") /\ UNCHANGED verdict
     \/ GiveUp("release")
  /\ UNCHANGED <<job, canceled, hostVars, report, evidence, registryVars>>

\* awaitSocket: the component has bound its socket (and may have stopped since),
\* or it exits first, or the deadline passes; Start closes the handle before it
\* returns the error.
Await ==
  /\ step = "await"
  /\ \/ Goto("ping") /\ UNCHANGED <<container, rmFailed, verdict>>
     \/ Close /\ GiveUp("release")
  /\ UNCHANGED <<job, canceled, socketDir, runtime, report, evidence, registryVars>>

\* guardrailsidecar.New and Ping.  From here Close is deferred.
PingComponent ==
  /\ step = "ping"
  /\ \/ /\ job.name /\ container = "running" /\ ~canceled
        /\ Goto("suite") /\ UNCHANGED verdict
     \/ GiveUp("teardown")
  /\ UNCHANGED <<job, canceled, hostVars, report, evidence, registryVars>>

\* ModuleStore.Load proves the bytes are the module's; NewRuntime may fail.
Load ==
  /\ step = "load"
  /\ \/ job.store = "has" /\ runtime' = TRUE /\ Goto("compile") /\ UNCHANGED verdict
     \/ UNCHANGED runtime /\ GiveUp("release")
  /\ UNCHANGED <<job, canceled, container, socketDir, rmFailed, report, evidence, registryVars>>

\* A module that does not compile, or has no name to compile under, is a
\* component that failed.
Compile ==
  /\ step = "compile"
  /\ IF Compiles(job.module) /\ job.name
     THEN Goto("suite") /\ UNCHANGED verdict
     ELSE Goto("teardown") /\ verdict' = "fail"
  /\ UNCHANGED <<job, canceled, hostVars, report, evidence, registryVars>>

-----------------------------------------------------------------------------
(* RunGuardrailSuite *)

GoodGuest(r) == [starts |-> TRUE, alloc |-> "inside", handle |-> "returns",
                 packed |-> "inside", parses |-> TRUE, body |-> r]

\* One Inspect of the component as it is now, which is answered with r if it
\* is answered; done is whether the context of the call is.
InspectAs(r, done) ==
  IF Sidecar
  THEN SidecarInspect([answered |-> container = "running" /\ ~done /\ ~job.component.hangs,
                       status |-> 200, parses |-> TRUE, body |-> r], done)
  ELSE WasmInspect([GoodGuest(r) EXCEPT !.starts = ~done,
                                        !.handle = IF job.component.hangs THEN "traps" ELSE @],
                   done \/ job.component.hangs, done)

\* The answers a payload may get: a flaky component's next one is another.
Benign == {job.component.benign}
  \cup IF job.component.flaky THEN {Answer("deny", "nil", TRUE)} ELSE {}

Allowed(result) == ~Failed(result) /\ result.verdict = "allow"

\* Mutant of ActsOnTrigger: a rewrite is not compared with what it rewrites.
ActsOnAnything(result) ==
  /\ ~Failed(result)
  /\ result.verdict # "allow"

ActsOnTrigger(result) ==
  /\ ~Failed(result)
  /\ CASE result.verdict = "deny" -> result.reason
       [] result.verdict = "mutate" -> result.payload = "rewritten"
       [] OTHER -> FALSE

\* The cases in the order they run, each given the answers it may get.
StableName == job.name
AllowsBenign(a) == Allowed(InspectAs(a, canceled))
AllowHasNoPayload(a) ==
  LET r == InspectAs(a, canceled)
  IN  ~Failed(r) /\ (r.verdict = "allow" => r.payload = "nil")
Deterministic(a, b) ==
  LET first == InspectAs(a, canceled)
      second == InspectAs(b, canceled)
  IN  ~Failed(first) /\ ~Failed(second) /\ first.verdict = second.verdict
LeavesInput(a) == ~Failed(InspectAs(a, canceled))   \* the payload was serialised
Acts == job.trigger => ActsOnTrigger(InspectAs(job.component.trigger, canceled))
RespectsCancel(a) ==
  LET r == InspectAs(a, TRUE) IN Failed(r) => r.canceled \/ r.err = "unavailable"
WithinDeadline == TRUE       \* the adapters return when the context is done
HandlesEmpty(a) == ~Failed(InspectAs(a, canceled)) /\ ~job.component.emptyFails

Case(n, a, b) ==
  CASE n = 1 -> StableName
    [] n = 2 -> AllowsBenign(a)
    [] n = 3 -> AllowHasNoPayload(a)
    [] n = 4 -> Deterministic(a, b)
    [] n = 5 -> LeavesInput(a)
    [] n = 6 -> Acts
    [] n = 7 -> RespectsCancel(a)
    [] n = 8 -> WithinDeadline
    [] n = 9 -> HandlesEmpty(a)
Cases == 9

\* Recorder.Run: one case, whatever it does isolated to it.
RunCase ==
  /\ step = "suite" /\ Len(report) < Cases
  /\ \E a, b \in Benign : report' = Append(report, Case(Len(report) + 1, a, b))
  /\ UNCHANGED <<job, step, exit, canceled, hostVars, verdict, evidence, registryVars>>

\* Report.Passed: an empty report has not passed.
Passed == report # <<>> /\ \A n \in DOMAIN report : report[n]

GiveVerdict ==
  /\ step = "suite" /\ Len(report) = Cases
  /\ verdict' = IF Passed THEN "pass" ELSE "fail"
  /\ Goto("teardown")
  /\ UNCHANGED <<job, canceled, hostVars, report, evidence, registryVars>>

\* The deferred calls of Runner.Run: Finish, Close, RemoveAll, runtime.Close.
Teardown ==
  /\ step \in {"teardown", "release"}
  /\ IF step = "teardown" /\ container # "none" THEN Close ELSE UNCHANGED <<container, rmFailed>>
  /\ socketDir' = FALSE
  /\ runtime' = FALSE
  /\ IF verdict = "error" THEN Exit(exitCouldNotRun) ELSE Goto("write")
  /\ UNCHANGED <<job, canceled, report, verdict, evidence, registryVars>>

-----------------------------------------------------------------------------
(* Reporting *)

passExit == IF verdict = "pass" THEN 0 ELSE exitFailedSuite

\* The evidence is kept before anything is reported.
WriteReport ==
  /\ step = "write"
  /\ \/ evidence' = TRUE /\ Goto("report")
     \/ UNCHANGED evidence /\ Exit(exitCouldNotRun)
  /\ UNCHANGED <<job, canceled, hostVars, report, verdict, registryVars>>

DryRun ==
  /\ step = "report" /\ job.dryRun
  /\ Exit(passExit)
  /\ UNCHANGED <<job, canceled, hostVars, report, verdict, evidence, registryVars>>

\* Client.Report reaches the control plane: record_admission loads the row.
\* The report may be refused or not get there.
ReportSent ==
  /\ step = "report" /\ ~job.dryRun
  /\ \/ ~canceled /\ read' = componentStatus /\ Goto("recording")
     \/ UNCHANGED read /\ Exit(exitCouldNotRun)
  /\ UNCHANGED <<job, canceled, hostVars, report, verdict, evidence, componentStatus,
                 admissions, operator>>

\* _record: the latest run is authoritative, except over a retirement.
RecordedStatus ==
  IF read = "retired" THEN read ELSE IF verdict = "pass" THEN "active" ELSE "pending"

\* The session commits; an UPDATE is sent only for a status it changed.  The
\* response may be lost on the way back.
RecordAdmission ==
  /\ step = "recording"
  /\ admissions' = Append(admissions, verdict)
  /\ componentStatus' = IF RecordedStatus # read THEN RecordedStatus ELSE componentStatus
  /\ read' = "none"
  /\ \/ Exit(passExit)
     \/ Exit(exitCouldNotRun)
  /\ UNCHANGED <<job, canceled, hostVars, report, verdict, evidence, operator>>

-----------------------------------------------------------------------------
(* The environment *)

\* An operator retires the component: the row is loaded, then written.
RetireReads ==
  /\ operator = "idle" /\ step # "exited"
  /\ operator' = "read"
  /\ UNCHANGED <<job, step, exit, canceled, hostVars, report, verdict, evidence, componentStatus,
                 admissions, read>>

RetireCommits ==
  /\ operator = "read"
  /\ operator' = "done"
  /\ componentStatus' = "retired"
  /\ UNCHANGED <<job, step, exit, canceled, hostVars, report, verdict, evidence, admissions, read>>

ComponentExits ==
  /\ container = "running"
  /\ container' = "exited"
  /\ UNCHANGED <<job, step, exit, canceled, socketDir, runtime, rmFailed, report, verdict,
                 evidence, registryVars>>

\* SIGINT or SIGTERM.
Interrupt ==
  /\ ~canceled /\ step # "exited"
  /\ canceled' = TRUE
  /\ UNCHANGED <<job, step, exit, hostVars, report, verdict, evidence, registryVars>>

RunnerStep ==
  \/ Fetch \/ Check \/ Prepare \/ Launch \/ Await \/ PingComponent \/ Load \/ Compile
  \/ RunCase \/ GiveVerdict \/ Teardown \/ WriteReport \/ DryRun \/ ReportSent \/ RecordAdmission

AdmissionNext ==
  RunnerStep \/ RetireReads \/ RetireCommits \/ ComponentExits \/ Interrupt

AdmissionSpec == AdmissionInit /\ [][AdmissionNext]_admissionVars

-----------------------------------------------------------------------------
(* Properties *)

\* The component behaves as the suite demands, judged from its own answers.
Conforming ==
  /\ job.component.benign.verdict = "allow" /\ job.component.benign.payload = "nil"
  /\ ~job.component.hangs /\ ~job.component.emptyFails
  /\ job.trigger => \/ /\ job.component.trigger.verdict = "deny"
                       /\ job.component.trigger.reason /\ job.component.trigger.payload = "nil"
                    \/ /\ job.component.trigger.verdict = "mutate"
                       /\ job.component.trigger.payload = "rewritten"

\* A verdict is earned: whatever stops or is interrupted on the way, a passing
\* verdict on record means the component itself behaves as the suite demands and
\* ran from content its manifest pins; a failing one means that the component
\* misbehaved, does not compile, has no name or stopped during the run, never
\* that the runner could not start or reach it; the evidence is on disk before a
\* verdict is on record; and only a recorded pass makes the component bindable
\* (Runner.Run, RunGuardrailSuite, Client.Report, RegistryService._record).
VerdictEarned ==
  /\ "pass" \in {admissions[n] : n \in DOMAIN admissions} =>
       /\ Conforming
       /\ IF Sidecar THEN job.pinned ELSE job.store = "has" /\ Compiles(job.module)
  /\ "fail" \in {admissions[n] : n \in DOMAIN admissions} =>
       \/ ~Conforming \/ job.component.flaky
       \/ IF Sidecar THEN container = "exited" ELSE ~Compiles(job.module) \/ ~job.name
  /\ admissions # <<>> => evidence
  /\ componentStatus = "active" => "pass" \in {admissions[n] : n \in DOMAIN admissions}
  /\ exit = 0 => verdict = "pass" /\ (job.dryRun \/ admissions = <<"pass">>)
  /\ exit = exitFailedSuite => verdict = "fail" /\ (job.dryRun \/ admissions = <<"fail">>)

\* Whichever step a run ends at, with an error, a verdict or an interrupt, it
\* leaves nothing behind: its container is removed (unless the container runtime
\* itself failed to), its socket directory deleted and its WASM runtime closed
\* (the deferred calls of Runner.Run and Start's own Close).
CleansUp ==
  step = "exited" => /\ ~socketDir /\ ~runtime
                     /\ container = "running" => rmFailed

\* "Retirement is an operator's decision and outranks both": once a component is
\* retired, no report makes it bindable again (RegistryService._record).
RetirementOutranks ==
  [][componentStatus = "retired" => componentStatus' = "retired"]_admissionVars
=============================================================================
