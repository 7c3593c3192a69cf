------------------------------- MODULE MCWorker -------------------------------
(***************************************************************************)
(* What one worker does with a request from its arrival to its exit        *)
(* (Pipeline), the snapshot it borrows for it and the components that      *)
(* snapshot binds (SnapshotHolder, ComponentBinding), and how the          *)
(* goroutines behind it end with the process: those of the shadow mirror   *)
(* and the telemetry emitter (Shutdown) and those of the guardrail chain.  *)
(* The four share no state, so one run explores the sum of their state     *)
(* spaces: part says which of them moves.                                  *)
(***************************************************************************)
EXTENDS MCPipeline, MCComponentBinding, Shutdown, GuardrailChain

CONSTANTS h1, h2, m1, q1, q2

VARIABLE part

\* Two handlers and one mirror worker.
MCHandlers == {h1, h2}
MCMirrorWorkers == {m1}
MCProducers == MCHandlers \cup MCMirrorWorkers

\* Two chains of a built-in guardrail and two WASM modules.
BindingOf(component, blocking, mode) ==
  [component |-> component, blocking |-> blocking, mode |-> mode]
MCChains ==
  {<<BindingOf("w1", TRUE, "open"), BindingOf("sec", FALSE, "open"),
     BindingOf("w2", TRUE, "closed")>>,
   <<BindingOf("sec", TRUE, "closed"), BindingOf("w2", FALSE, "open"),
     BindingOf("w1", TRUE, "closed")>>}

MCInit ==
  /\ part \in {"pipeline", "holder", "process", "chain"}
  /\ PipelineInit /\ CInit /\ Init /\ ChainInit
  /\ part # "chain" => bound = {}
  /\ part # "holder" => missed = {}

MCNext ==
  /\ part' = part
  /\ \/ part = "pipeline" /\ PipelineNext
     \/ part = "holder" /\ CNext
     \/ part = "process" /\ Next
     \/ part = "chain" /\ ChainNext
  /\ part # "pipeline" => UNCHANGED pipelineVars
  /\ part # "holder" => UNCHANGED cvars
  /\ part # "process" => UNCHANGED vars
  /\ part # "chain" => UNCHANGED chainVars

\* The fairness of each part, for the part that moves.  In the Holder a request
\* completes and releases its lease (`defer lease.Release()'), and a goroutine
\* inside unref or Swap, Sync included, keeps running; nothing is assumed about new
\* requests or new snapshots.  In the chain goroutines run, and Inspect returns by
\* the timeout evaluate gives it.
MCFairness ==
  /\ WF_cvars(part = "holder" /\ CSwapperStep)
  /\ \A p \in Workers :
       /\ WF_cvars(part = "holder" /\ Release(p) /\ UNCHANGED rvars)
       /\ WF_cvars(part = "holder" /\ RetireLast(p) /\ UNCHANGED rvars)
  /\ WF_vars(part = "process" /\ MainStep)
  /\ WF_vars(part = "process" /\ EmitterStep(RunStep))
  /\ \A m \in MirrorWorkers : WF_vars(part = "process" /\ WorkerStep(m))
  /\ \A r \in Guarded : WF_chainVars(part = "chain" /\ ChainStep(r))
  /\ WF_chainVars(part = "chain" /\ \E t \in tasks : TaskStep(t))
  /\ WF_chainVars(part = "chain" /\ WaitReturns)

MCSpec ==
  /\ MCInit /\ [][MCNext]_<<part, pipelineVars, cvars, vars, chainVars>>
  /\ MCFairness
=============================================================================
