--------------------------- MODULE GuardrailChain ---------------------------
(***************************************************************************)
(* The guardrail chain of one worker (dataplane/internal/guardrails/       *)
(* chain.go, composite.go, registry.go): blocking guardrails in order on   *)
(* the request path, the others in goroutines off it, bounded by a channel *)
(* and awaited at shutdown before the WASM runtime is closed               *)
(* (cmd/gateway/main.go).                                                  *)
(*                                                                         *)
(* A payload is the sequence of the bindings that rewrote it.              *)
(***************************************************************************)
EXTENDS GuardrailPort, Naturals, FiniteSets, Sequences, Functions

CONSTANTS Guarded,        \* each runs the chain at most once
          Chains,         \* the binding sequences snap.Guardrails may return
          Builtins,       \* names in the StaticRegistry
          Modules,        \* names the WASM registry may come to have
          OffPathLimit    \* capacity of Chain.offPath

Binding == [component: Builtins \cup Modules, blocking: BOOLEAN,
            mode: {"open", "closed"}]

ASSUME ChainAssumption ==
  /\ Builtins \cap Modules = {}
  /\ Chains \subseteq Seq(Binding)
  /\ OffPathLimit \in Nat \ {0}

VARIABLES run,        \* run[r]: the locals of Chain.Run
          tasks,      \* off-path goroutines, [req, i, stage]
          offPath,    \* number of tokens in the channel
          wg,         \* Chain.wg
          bound,      \* names in the WASM registry
          stats,      \* Chain's counters
          stage,      \* where main is
          orderly    \* history: main went on only when the handlers were done

chainVars == <<run, tasks, offPath, wg, bound, stats, stage, orderly>>

(***************************************************************************)
(* `said' is a history: what the component of binding i itself answered,   *)
(* "nothing" when it gave no answer the protocol allows.                   *)
(***************************************************************************)
ChainInit ==
  /\ run = [r \in Guarded |-> [pc |-> "idle", bindings |-> <<>>, i |-> 1, payload |-> <<>>,
                                denied |-> FALSE, reason |-> 0, said |-> <<>>]]
  /\ tasks = {}
  /\ offPath = 0
  /\ wg = 0
  /\ bound \in SUBSET Modules
  /\ stats = [evaluated |-> 0, denied |-> 0, mutated |-> 0, failedOpen |-> 0,
              failedShut |-> 0, skipped |-> 0]
  /\ stage = "serving"
  /\ orderly = TRUE

B(r) == run[r].bindings[run[r].i]
Count(field) == [stats EXCEPT ![field] = @ + 1]

\* CompositeRegistry.Guardrail over the built-ins and the WASM registry: the
\* first that has the name.
Guardrail(name) ==
  IF name \in Builtins THEN "builtin" ELSE IF name \in bound THEN "wasm" ELSE "none"

\* Chain.evaluate: an error or a mutation with no payload is an error.
evaluate(result) ==
  IF Failed(result) \/ (result.verdict = "mutate" /\ result.payload = "nil")
  THEN "error" ELSE result.verdict

\* What evaluate can come to for each kind of component, with what it said.
BuiltinOutcomes ==
  {[got |-> evaluate(BuiltinInspect(e, m)),
    said |-> IF e THEN "nothing" ELSE IF m THEN "deny" ELSE "allow"] : e, m \in BOOLEAN}
WasmOutcomes ==
  {[got |-> evaluate(WasmInspect(g, e, FALSE)), said |-> WasmSaid(g)] :
     g \in Guest, e \in BOOLEAN}
Outcomes(kind) == IF kind = "builtin" THEN BuiltinOutcomes ELSE WasmOutcomes

-----------------------------------------------------------------------------
(* Chain.Run *)

RunChain(r, bindings) ==
  /\ stage = "serving"
  /\ run[r].pc = "idle"
  /\ run' = [run EXCEPT ![r].pc = "next", ![r].bindings = bindings,
                        ![r].said = [i \in DOMAIN bindings |-> "nothing"]]
  /\ UNCHANGED <<tasks, offPath, wg, bound, stats, stage, orderly>>

AtBinding(r) == run[r].pc = "next" /\ run[r].i <= Len(run[r].bindings)

Pass(r) == run' = [run EXCEPT ![r].i = @ + 1, ![r].pc = "next"]

Deny(r, said) ==
  run' = [run EXCEPT ![r].pc = "done", ![r].denied = TRUE, ![r].reason = run[r].i,
                     ![r].said = [@ EXCEPT ![run[r].i] = said]]

\* Mutant of Missing: a component this worker does not have is passed over.
MissingPassed(r) ==
  /\ AtBinding(r)
  /\ Guardrail(B(r).component) = "none"
  /\ stats' = Count("skipped")
  /\ Pass(r)
  /\ UNCHANGED <<tasks, offPath, wg, bound, stage, orderly>>

Missing(r) ==
  /\ AtBinding(r)
  /\ Guardrail(B(r).component) = "none"
  /\ IF B(r).mode = "closed" /\ B(r).blocking
     THEN stats' = [Count("skipped") EXCEPT !.failedShut = @ + 1] /\ Deny(r, "nothing")
     ELSE stats' = Count("skipped") /\ Pass(r)
  /\ UNCHANGED <<tasks, offPath, wg, bound, stage, orderly>>

\* Mutant of Saturated: the alert is dropped after the goroutine was counted.
SaturatedCounted(r) ==
  /\ AtBinding(r)
  /\ Guardrail(B(r).component) # "none" /\ ~B(r).blocking
  /\ offPath = OffPathLimit
  /\ stats' = Count("skipped")
  /\ wg' = wg + 1
  /\ Pass(r)
  /\ UNCHANGED <<tasks, offPath, bound, stage, orderly>>

\* dispatch finds the channel full.
Saturated(r) ==
  /\ AtBinding(r)
  /\ Guardrail(B(r).component) # "none" /\ ~B(r).blocking
  /\ offPath = OffPathLimit
  /\ stats' = Count("skipped")
  /\ Pass(r)
  /\ UNCHANGED <<tasks, offPath, wg, bound, stage, orderly>>

\* dispatch takes a token, copies the payload and starts the goroutine.
dispatch(r) ==
  /\ AtBinding(r)
  /\ Guardrail(B(r).component) # "none" /\ ~B(r).blocking
  /\ offPath < OffPathLimit
  /\ offPath' = offPath + 1
  /\ wg' = wg + 1
  /\ tasks' = tasks \cup {[req |-> r, i |-> run[r].i, stage |-> "spawned"]}
  /\ Pass(r)
  /\ UNCHANGED <<bound, stats, stage, orderly>>

Inspect(r) ==
  /\ AtBinding(r)
  /\ Guardrail(B(r).component) # "none" /\ B(r).blocking
  /\ stats' = Count("evaluated")
  /\ run' = [run EXCEPT ![r].pc = "inspect"]
  /\ UNCHANGED <<tasks, offPath, wg, bound, stage, orderly>>

\* The blocking guardrail's result comes back within its timeout.
Inspected(r, o) ==
  /\ run[r].pc = "inspect"
  /\ CASE o.got = "deny" -> stats' = Count("denied") /\ Deny(r, o.said)
       [] o.got = "error" /\ B(r).mode = "closed" ->
            stats' = Count("failedShut") /\ Deny(r, o.said)
       [] OTHER ->
            /\ stats' = CASE o.got = "error" -> Count("failedOpen")
                          [] o.got = "mutate" -> Count("mutated")
                          [] OTHER -> stats
            /\ run' = [run EXCEPT ![r].i = @ + 1, ![r].pc = "next",
                                  ![r].said = [@ EXCEPT ![run[r].i] = o.said],
                                  ![r].payload = IF o.got = "mutate"
                                                 THEN Append(@, run[r].i) ELSE @]
  /\ UNCHANGED <<tasks, offPath, wg, bound, stage, orderly>>

ChainReturns(r) ==
  /\ run[r].pc = "next" /\ run[r].i > Len(run[r].bindings)
  /\ run' = [run EXCEPT ![r].pc = "done"]
  /\ UNCHANGED <<tasks, offPath, wg, bound, stats, stage, orderly>>

-----------------------------------------------------------------------------
(* The goroutine of dispatch *)

Move(t, to) == tasks' = (tasks \ {t}) \cup {[t EXCEPT !.stage = to]}

TaskEvaluates(t) ==
  /\ t.stage = "spawned"
  /\ stats' = Count("evaluated")
  /\ Move(t, "inspecting")
  /\ UNCHANGED <<run, offPath, wg, bound, stage, orderly>>

\* Its verdict is logged; only an error is counted.
TaskInspected(t, o) ==
  /\ t.stage = "inspecting"
  /\ stats' = IF o.got = "error" THEN Count("failedOpen") ELSE stats
  /\ Move(t, "releasing")
  /\ UNCHANGED <<run, offPath, wg, bound, stage, orderly>>

\* The deferred calls, last one first.
TaskReleases(t) ==
  /\ t.stage = "releasing"
  /\ offPath' = offPath - 1
  /\ Move(t, "finishing")
  /\ UNCHANGED <<run, wg, bound, stats, stage, orderly>>

TaskDone(t) ==
  /\ t.stage = "finishing"
  /\ wg' = wg - 1
  /\ tasks' = tasks \ {t}
  /\ UNCHANGED <<run, offPath, bound, stats, stage, orderly>>

-----------------------------------------------------------------------------
(* Around the chain *)

\* Registry.Sync of a newer snapshot has loaded a module.
ModuleBound(name) ==
  /\ stage = "serving"
  /\ name \notin bound
  /\ bound' = bound \cup {name}
  /\ UNCHANGED <<run, tasks, offPath, wg, stats, stage, orderly>>

InFlight == {r \in Guarded : run[r].pc \notin {"idle", "done"}}

\* server.Shutdown returns: the handlers are done, or the grace is over.
ServerStops ==
  /\ stage = "serving"
  /\ stage' = "waiting"
  /\ orderly' = (InFlight = {})
  /\ UNCHANGED <<run, tasks, offPath, wg, bound, stats>>

\* Mutant of WaitReturns: the deferred calls in the order they were written.
WaitSkipped ==
  /\ stage = "waiting"
  /\ stage' = "closed"
  /\ UNCHANGED <<run, tasks, offPath, wg, bound, stats, orderly>>

\* guardrailChain.Wait returns; the deferred registry.Close and runtime.Close
\* follow.
WaitReturns ==
  /\ stage = "waiting"
  /\ wg = 0
  /\ stage' = "closed"
  /\ UNCHANGED <<run, tasks, offPath, wg, bound, stats, orderly>>

Kind(r, i) == Guardrail(run[r].bindings[i].component)

TaskStep(t) ==
  \/ TaskEvaluates(t)
  \/ \E o \in Outcomes(Kind(t.req, t.i)) : TaskInspected(t, o)
  \/ TaskReleases(t)
  \/ TaskDone(t)

\* A handler that outlives the grace goes on beside main's deferred calls.
ChainStep(r) ==
  \/ Missing(r) \/ Saturated(r) \/ dispatch(r) \/ Inspect(r)
  \/ run[r].pc = "inspect" /\ \E o \in Outcomes(Kind(r, run[r].i)) : Inspected(r, o)
  \/ ChainReturns(r)

ChainNext ==
  \/ \E r \in Guarded : ChainStep(r) \/ \E bindings \in Chains : RunChain(r, bindings)
  \/ \E t \in tasks : TaskStep(t)
  \/ \E name \in Modules : ModuleBound(name)
  \/ ServerStops
  \/ WaitReturns

\* What the chain may do, for proofs of safety.
ChainSafety == ChainInit /\ [][ChainNext]_chainVars

-----------------------------------------------------------------------------
(* Properties *)

Served(r) == run[r].pc = "done" /\ ~run[r].denied
Blocking(r) == {i \in DOMAIN run[r].bindings : run[r].bindings[i].blocking}

\* Whatever components answer, fail or are missing, whichever registry finds
\* them and whatever runs beside the request: a request the chain lets through
\* (Chain.Run) got from each of its blocking guardrails a well-formed allow or
\* mutate, and goes on with exactly the rewrites of those that said mutate, in
\* the order they were bound; the only blocking guardrails it went past without
\* an answer are fail-open ones, and then a counter an operator watches has
\* moved.
ServedMeansInspected ==
  \A r \in Guarded : Served(r) =>
    /\ \A i \in Blocking(r) :
         \/ run[r].said[i] \in {"allow", "mutate"}
         \/ /\ run[r].said[i] = "nothing"
            /\ run[r].bindings[i].mode = "open"
            /\ stats.failedOpen + stats.skipped > 0
    /\ \A a, b \in DOMAIN run[r].payload : a < b => run[r].payload[a] < run[r].payload[b]
    /\ Range(run[r].payload) = {i \in Blocking(r) : run[r].said[i] = "mutate"}

\* The channel holds a token for exactly the off-path goroutines that have not
\* given theirs back and never more than its capacity, and the wait group counts
\* every one of them (dispatch); so when main has waited for the chain after a
\* server that drained, no goroutine is left to call a module of the runtime it
\* then closes (cmd/gateway/main.go, the deferred Wait and Close).
OffPathAccounted ==
  /\ offPath = Cardinality({t \in tasks : t.stage # "finishing"})
  /\ offPath <= OffPathLimit
  /\ wg = Cardinality(tasks)
  /\ stage = "closed" /\ orderly => tasks = {}

\* A worker that is told to stop gets past guardrailChain.Wait: a slow or hung
\* guardrail off the request path cannot hold the process (dispatch's own
\* timeout).
ChainDrains == []<>(stage # "waiting")
=============================================================================
