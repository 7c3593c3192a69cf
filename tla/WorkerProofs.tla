---------------------------- MODULE WorkerProofs ----------------------------
(***************************************************************************)
(* Proofs about one worker: the emitter that reports its usage, the process*)
(* that shuts it down, and the path of a request.  The parts share no      *)
(* state, and each has an inductive invariant of its own.                  *)
(***************************************************************************)
EXTENDS Shutdown, Pipeline, FiniteSetTheorems, TLAPS

(***************************************************************************)
(* The emitter.  ExactLoss, for any number of producers and any buffer and *)
(* batch size.  It is inductive together with the type invariant: what each*)
(* step does to the counters is matched by what it does to the two sets of *)
(* producers, whose sizes the first two lemmas compute.                    *)
(***************************************************************************)

\* The two sets of producers the count is about are finite.
LEMMA HandsFinite ==
  /\ InHands \in Nat
  /\ IsFiniteSet(Emitting) /\ Cardinality(Emitting) \in Nat
  /\ IsFiniteSet(Evicting) /\ Cardinality(Evicting) \in Nat
<1>1. Emitting \in SUBSET Producers /\ Evicting \in SUBSET Producers
  BY Zenon DEF Emitting, Evicting
<1> QED BY <1>1, FS_Subset, FS_CardinalityType, EmitterAssumption DEF InHands

\* The events a producer has in hand at a point of Emit.
InHand(point) == CASE point = "idle" -> 0 [] point = "evicted" -> 2 [] OTHER -> 1

\* A producer moving from one point of Emit to another enters or leaves each of
\* the two sets by itself.
LEMMA HandsMove ==
  ASSUME ETypeOK, NEW p \in Producers, pc' = [pc EXCEPT ![p] = pc'[p]]
  PROVE  InHands' = InHands + InHand(pc'[p]) - InHand(pc[p])
<1>1. \A q \in Producers : q # p => pc'[q] = pc[q]
  BY Zenon DEF ETypeOK
<1>2. Emitting' = IF pc'[p] # "idle" THEN Emitting \cup {p} ELSE Emitting \ {p}
  BY <1>1, Zenon DEF Emitting
<1>3. Evicting' = IF pc'[p] = "evicted" THEN Evicting \cup {p} ELSE Evicting \ {p}
  BY <1>1, Zenon DEF Evicting
<1>4. /\ p \in Emitting <=> pc[p] # "idle"
      /\ p \in Evicting <=> pc[p] = "evicted"
  BY Zenon DEF Emitting, Evicting
<1>5. /\ Cardinality(Emitting \cup {p}) =
           IF p \in Emitting THEN Cardinality(Emitting) ELSE Cardinality(Emitting) + 1
      /\ Cardinality(Emitting \ {p}) =
           IF p \in Emitting THEN Cardinality(Emitting) - 1 ELSE Cardinality(Emitting)
      /\ Cardinality(Evicting \cup {p}) =
           IF p \in Evicting THEN Cardinality(Evicting) ELSE Cardinality(Evicting) + 1
      /\ Cardinality(Evicting \ {p}) =
           IF p \in Evicting THEN Cardinality(Evicting) - 1 ELSE Cardinality(Evicting)
  BY HandsFinite, FS_AddElement, FS_RemoveElement, Zenon
<1> QED BY <1>2, <1>3, <1>4, <1>5, HandsFinite DEF InHands, InHand

\* A step that moves no producer leaves the two sets as they are.
LEMMA HandsStay ==
  ASSUME UNCHANGED pc
  PROVE  InHands' = InHands
BY Zenon DEF InHands, Emitting, Evicting

\* Initially nothing is received and nothing lost.
LEMMA Start == EInit => ETypeOK /\ ExactLoss
<1> SUFFICES ASSUME EInit PROVE ETypeOK /\ ExactLoss BY Zenon
<1>1. BufferSize \in Nat /\ BatchSize \in Nat BY EmitterAssumption, Zenon
<1>2. ETypeOK
  <2>1. stopping \in BOOLEAN BY Zenon DEF EInit
  <2>2. pc \in [Producers -> {"idle", "send", "evict", "evicted", "resend", "refused"}]
    BY Zenon DEF EInit
  <2> QED BY <1>1, <2>1, <2>2 DEF EInit, ETypeOK
<1>3. Emitting = {} /\ Evicting = {} BY Zenon DEF EInit, Emitting, Evicting
<1>4. ExactLoss BY <1>3, FS_EmptySet DEF EInit, ExactLoss, InHands
<1> QED BY <1>2, <1>4, Zenon

\* Every step of the emitter keeps the count.
LEMMA Step == ETypeOK /\ ExactLoss /\ [ENext]_evars => ETypeOK' /\ ExactLoss'
<1> SUFFICES ASSUME ETypeOK, ExactLoss, [ENext]_evars PROVE ETypeOK' /\ ExactLoss'
  BY Zenon
<1> USE EmitterAssumption, HandsFinite
<1>1. ASSUME NEW p \in Producers, Emit(p) PROVE ETypeOK' /\ ExactLoss'
  <2>1. pc' = [pc EXCEPT ![p] = pc'[p]] /\ pc'[p] = "send"
    BY <1>1, Zenon DEF Emit, ETypeOK
  <2>2. ETypeOK' BY <1>1, <2>1 DEF Emit, counters, ETypeOK
  <2>3. InHands' = InHands + InHand(pc'[p]) - InHand(pc[p])
    BY <2>1, HandsMove, Zenon
  <2>4. ExactLoss'
    BY <1>1, <2>1, <2>3 DEF Emit, counters, ETypeOK, ExactLoss, InHand
  <2> QED BY <2>2, <2>4, Zenon
<1>2. ASSUME NEW p \in Producers, Send(p) PROVE ETypeOK' /\ ExactLoss'
  <2>1. pc' = [pc EXCEPT ![p] = pc'[p]] /\ pc'[p] \in {"idle", "evict", "refused"}
    BY <1>2, Zenon DEF Send, ETypeOK
  <2>2. ETypeOK' BY <1>2, <2>1 DEF Send, counters, ETypeOK
  <2>3. InHands' = InHands + InHand(pc'[p]) - InHand(pc[p])
    BY <2>1, HandsMove, Zenon
  <2>4. ExactLoss'
    BY <1>2, <2>1, <2>3 DEF Send, counters, ETypeOK, ExactLoss, InHand
  <2> QED BY <2>2, <2>4, Zenon
<1>3. ASSUME NEW p \in Producers, Evict(p) PROVE ETypeOK' /\ ExactLoss'
  <2>1. pc' = [pc EXCEPT ![p] = pc'[p]] /\ pc'[p] \in {"evicted", "resend"}
    BY <1>3, Zenon DEF Evict, ETypeOK
  <2>2. ETypeOK' BY <1>3, <2>1 DEF Evict, counters, ETypeOK
  <2>3. InHands' = InHands + InHand(pc'[p]) - InHand(pc[p])
    BY <2>1, HandsMove, Zenon
  <2>4. ExactLoss'
    BY <1>3, <2>1, <2>3, SMTT(30) DEF Evict, counters, ETypeOK, ExactLoss, InHand
  <2> QED BY <2>2, <2>4, Zenon
<1>4. ASSUME NEW p \in Producers, CountDropped(p) PROVE ETypeOK' /\ ExactLoss'
  <2>1. pc' = [pc EXCEPT ![p] = pc'[p]] /\ pc'[p] \in {"idle", "resend"}
    BY <1>4, Zenon DEF CountDropped, ETypeOK
  <2>2. ETypeOK' BY <1>4, <2>1 DEF CountDropped, counters, ETypeOK
  <2>3. InHands' = InHands + InHand(pc'[p]) - InHand(pc[p])
    BY <2>1, HandsMove, Zenon
  <2>4. ExactLoss'
    BY <1>4, <2>1, <2>3 DEF CountDropped, counters, ETypeOK, ExactLoss, InHand
  <2> QED BY <2>2, <2>4, Zenon
<1>5. CASE RunStep
  <2>1. CASE Collect
    BY <2>1, HandsStay DEF Collect, counters, ETypeOK, ExactLoss
  <2>2. ASSUME NEW n \in 0 .. Sinks, Flush(n) PROVE ETypeOK' /\ ExactLoss'
    <3>1. n * batch \in Nat BY DEF ETypeOK
    <3>2. ETypeOK' BY <2>2, <3>1 DEF Flush, ETypeOK
    <3>3. ExactLoss' BY <2>2, HandsStay DEF Flush, ETypeOK, ExactLoss
    <3> QED BY <3>2, <3>3, Zenon
  <2>3. CASE BeginDrain \/ DrainEmpty \/ RunReturns
    BY <2>3, HandsStay, Zenon DEF BeginDrain, DrainEmpty, RunReturns, counters, ETypeOK, ExactLoss
  <2> QED BY <1>5, <2>1, <2>2, <2>3, Zenon DEF RunStep
<1>6. CASE Close
  BY <1>6, HandsStay, Zenon DEF Close, counters, ETypeOK, ExactLoss
<1>7. CASE UNCHANGED evars
  BY <1>7, HandsStay, Zenon DEF evars, ETypeOK, ExactLoss
<1> QED BY <1>1, <1>2, <1>3, <1>4, <1>5, <1>6, <1>7, Zenon DEF ENext, EmitStep

\* The emitter's loss is exact: Stats.Received less Stats.Dropped is what was
\* written or is on its way, at every point of every interleaving of Emit, of
\* run's batches and of Close.
THEOREM LossIsExact == ESpec => []ExactLoss
<1>1. ESpec => [](ETypeOK /\ ExactLoss) BY Start, Step, PTL DEF ESpec
<1> QED BY <1>1, PTL

(***************************************************************************)
(* The process is an environment of the emitter: every step of Shutdown is *)
(* a step of Emitter or leaves it alone, so what is proved of the emitter  *)
(* holds in the process.  With that, a graceful shutdown loses nothing, for*)
(* any number of handlers, mirror workers and buffers.                     *)
(***************************************************************************)

\* A step of the process is a step of the emitter or leaves it alone.
LEMMA RunsEmitter == [Next]_vars => [ENext]_evars
<1> SUFFICES ASSUME [Next]_vars PROVE [ENext]_evars BY Zenon
<1> USE ShutdownAssumption
<1>1. ASSUME NEW h \in Handlers, HandlerStep(h) PROVE [ENext]_evars
  <2>1. h \in Producers BY Zenon
  <2> QED BY <1>1, <2>1, Zenon
      DEF HandlerStep, Accept, EmitUsage, EmitterStep, UsageEmitted, MirrorSend, ENext
<1>2. ASSUME NEW m \in MirrorWorkers, WorkerStep(m) PROVE [ENext]_evars
  <2>1. m \in Producers BY Zenon
  <2> QED BY <1>2, <2>1, Zenon
      DEF WorkerStep, TakeJob, CallNotMade, ShadowUsage, EmitterStep, ShadowEmitted,
          WorkerReturns, Counted, ENext
<1>3. CASE EmitterStep(RunStep) BY <1>3, Zenon DEF EmitterStep, ENext
<1>4. CASE Signal \/ ServeFails BY <1>4, Zenon DEF Signal, ServeFails
<1>5. CASE MainStep
  BY <1>5, Zenon DEF MainStep, Drained, GraceExpires, WaitBegins, WaitEnds, CloseEmitter, Exit,
              ENext
<1>6. CASE Exited \/ UNCHANGED vars BY <1>6, Zenon DEF Exited, vars
<1> QED BY <1>1, <1>2, <1>3, <1>4, <1>5, <1>6, Zenon DEF Next, Running

\* The process uses the emitter as the emitter's specification allows.
THEOREM ProcessRunsEmitter == Spec => ESpec
<1>1. Init => EInit BY Zenon DEF Init
<1> QED BY <1>1, RunsEmitter, PTL DEF Spec, ESpec

\* The emitter's counters are exact in the process, whichever goroutines emit and
\* wherever shutdown finds them.
THEOREM ProcessLossIsExact == Spec => []ExactLoss
BY ProcessRunsEmitter, LossIsExact, PTL

-----------------------------------------------------------------------------
(* The mirror's account *)

\* The mirror workers that hold a job can be counted.
LEMMA BusyFinite == IsFiniteSet(Busy) /\ Cardinality(Busy) \in Nat
<1>1. Busy \in SUBSET Producers BY ShutdownAssumption, Zenon DEF Busy
<1> QED BY <1>1, FS_Subset, FS_CardinalityType, EmitterAssumption, Zenon

Working(point) == IF point \in {"calling", "emitting"} THEN 1 ELSE 0

\* A mirror worker starts or ends a job by itself.
LEMMA BusyMoves ==
  ASSUME TypeOK, NEW m \in MirrorWorkers, mirror' = [mirror EXCEPT ![m] = mirror'[m]]
  PROVE  Cardinality(Busy') = Cardinality(Busy) + Working(mirror'[m]) - Working(mirror[m])
<1>1. \A q \in MirrorWorkers : q # m => mirror'[q] = mirror[q]
  BY Zenon DEF TypeOK
<1>2. Busy' = IF mirror'[m] \in {"calling", "emitting"} THEN Busy \cup {m} ELSE Busy \ {m}
  BY <1>1, Zenon DEF Busy
<1>3. m \in Busy <=> mirror[m] \in {"calling", "emitting"}
  BY Zenon DEF Busy
<1>4. /\ Cardinality(Busy \cup {m}) =
           IF m \in Busy THEN Cardinality(Busy) ELSE Cardinality(Busy) + 1
      /\ Cardinality(Busy \ {m}) =
           IF m \in Busy THEN Cardinality(Busy) - 1 ELSE Cardinality(Busy)
  BY BusyFinite, FS_AddElement, FS_RemoveElement, Zenon
<1> QED BY <1>2, <1>3, <1>4, BusyFinite DEF Working

-----------------------------------------------------------------------------
(* Each conjunct of the invariant, step by step *)

\* The actions, one by one: the case split of the lemmas below.
Actions ==
  \/ \E h \in Handlers : \/ Accept(h)
                         \/ EmitUsage(h)
                         \/ EmitterStep(EmitStep(h))
                         \/ \E served \in BOOLEAN : UsageEmitted(h, served)
                         \/ MirrorSend(h)
  \/ \E m \in MirrorWorkers : \/ TakeJob(m)
                              \/ CallNotMade(m)
                              \/ ShadowUsage(m)
                              \/ EmitterStep(EmitStep(m))
                              \/ \E ok \in BOOLEAN : ShadowEmitted(m, ok)
                              \/ WorkerReturns(m)
  \/ EmitterStep(RunStep)
  \/ Signal \/ ServeFails \/ Drained \/ GraceExpires
  \/ WaitBegins \/ WaitEnds \/ CloseEmitter \/ Exit
  \/ UNCHANGED vars

\* A step of the process is one of its actions.
LEMMA NextIsAction == [Next]_vars => Actions
BY Zenon DEF Next, Running, HandlerStep, WorkerStep, MainStep, Exited, Actions

\* Every step keeps the types.
LEMMA TypeStep == TypeOK /\ ExactLoss /\ [Next]_vars => TypeOK'
<1> SUFFICES ASSUME TypeOK, ExactLoss, [Next]_vars PROVE TypeOK' BY Zenon
<1> USE ShutdownAssumption
<1>0. ETypeOK' BY RunsEmitter, Step, Zenon DEF TypeOK
<1>1. ASSUME NEW h \in Handlers,
             \/ Accept(h) \/ EmitUsage(h) \/ EmitterStep(EmitStep(h))
             \/ \E served \in BOOLEAN : UsageEmitted(h, served)
      PROVE  TypeOK'
  BY <1>0, <1>1 DEF Accept, EmitUsage, EmitterStep, UsageEmitted, mirrorVars, TypeOK
<1>2. ASSUME NEW h \in Handlers, MirrorSend(h) PROVE TypeOK'
  BY <1>0, <1>2 DEF MirrorSend, TypeOK
<1>3. ASSUME NEW m \in MirrorWorkers,
             TakeJob(m) \/ ShadowUsage(m) \/ EmitterStep(EmitStep(m)) \/ WorkerReturns(m)
      PROVE  TypeOK'
  BY <1>0, <1>3 DEF TakeJob, ShadowUsage, EmitterStep, WorkerReturns, mirrorVars, TypeOK
<1>4. ASSUME NEW m \in MirrorWorkers,
             CallNotMade(m) \/ \E ok \in BOOLEAN : ShadowEmitted(m, ok)
      PROVE  TypeOK'
  BY <1>0, <1>4 DEF CallNotMade, ShadowEmitted, Counted, TypeOK
<1>5. CASE EmitterStep(RunStep) BY <1>0, <1>5, Zenon DEF EmitterStep, mirrorVars, TypeOK
<1>6. CASE Signal \/ ServeFails \/ Drained \/ GraceExpires
  BY <1>0, <1>6, Zenon DEF Signal, ServeFails, Drained, GraceExpires, mainUnchanged, TypeOK
<1>7. CASE WaitBegins \/ WaitEnds \/ CloseEmitter \/ Exit
  BY <1>0, <1>7, Zenon DEF WaitBegins, WaitEnds, CloseEmitter, Exit, mainUnchanged, TypeOK
<1>8. CASE UNCHANGED vars BY <1>0, <1>8, Zenon DEF vars, mirrorVars, TypeOK
<1> QED BY <1>1, <1>2, <1>3, <1>4, <1>5, <1>6, <1>7, <1>8, NextIsAction, Zenon DEF Actions

\* Every step keeps the count of mirrored requests.
LEMMA MirrorStep == TypeOK /\ MirrorExact /\ [Next]_vars => MirrorExact'
<1> SUFFICES ASSUME TypeOK, MirrorExact, [Next]_vars PROVE MirrorExact' BY Zenon
<1> USE BusyFinite
<1>0. mirror' = mirror => Cardinality(Busy') = Cardinality(Busy) BY Zenon DEF Busy
<1>1. ASSUME NEW h \in Handlers,
             \/ Accept(h) \/ EmitUsage(h) \/ EmitterStep(EmitStep(h))
             \/ \E served \in BOOLEAN : UsageEmitted(h, served)
      PROVE  MirrorExact'
  BY <1>0, <1>1, Zenon DEF Accept, EmitUsage, EmitterStep, UsageEmitted, mirrorVars, MirrorExact
<1>2. ASSUME NEW h \in Handlers, MirrorSend(h) PROVE MirrorExact'
  BY <1>0, <1>2 DEF MirrorSend, TypeOK, MirrorExact
<1>3. ASSUME NEW m \in MirrorWorkers, EmitterStep(EmitStep(m)) PROVE MirrorExact'
  BY <1>0, <1>3, Zenon DEF EmitterStep, mirrorVars, MirrorExact
<1>4. ASSUME NEW m \in MirrorWorkers,
             TakeJob(m) \/ ShadowUsage(m) \/ WorkerReturns(m) \/ CallNotMade(m)
               \/ \E ok \in BOOLEAN : ShadowEmitted(m, ok)
      PROVE  MirrorExact'
  <2>1. mirror' = [mirror EXCEPT ![m] = mirror'[m]]
    BY <1>4, Zenon DEF TakeJob, ShadowUsage, WorkerReturns, CallNotMade, ShadowEmitted, Counted,
                TypeOK
  <2>2. Cardinality(Busy') = Cardinality(Busy) + Working(mirror'[m]) - Working(mirror[m])
    BY <2>1, BusyMoves, Zenon
  <2>3. CASE TakeJob(m) BY <2>2, <2>3 DEF TakeJob, Working, TypeOK, MirrorExact
  <2>4. CASE ShadowUsage(m) BY <2>2, <2>4 DEF ShadowUsage, Working, TypeOK, MirrorExact
  <2>5. CASE WorkerReturns(m) BY <2>2, <2>5 DEF WorkerReturns, Working, TypeOK, MirrorExact
  <2>6. ASSUME NEW ok \in BOOLEAN, mirror[m] \in {"calling", "emitting"}, Counted(m, ok)
        PROVE  MirrorExact'
    BY <2>2, <2>6 DEF Counted, Working, TypeOK, MirrorExact
  <2> QED BY <1>4, <2>3, <2>4, <2>5, <2>6, Zenon DEF CallNotMade, ShadowEmitted
<1>5. CASE EmitterStep(RunStep) BY <1>0, <1>5, Zenon DEF EmitterStep, mirrorVars, MirrorExact
<1>6. CASE Signal \/ ServeFails \/ Drained \/ GraceExpires
  BY <1>0, <1>6, Zenon DEF Signal, ServeFails, Drained, GraceExpires, mainUnchanged, MirrorExact
<1>7. CASE WaitBegins \/ WaitEnds \/ CloseEmitter \/ Exit
  BY <1>0, <1>7, Zenon DEF WaitBegins, WaitEnds, CloseEmitter, Exit, mainUnchanged, MirrorExact
<1>8. CASE UNCHANGED vars BY <1>0, <1>8, Zenon DEF vars, mirrorVars, MirrorExact
<1> QED BY <1>1, <1>2, <1>3, <1>4, <1>5, <1>6, <1>7, <1>8, NextIsAction, Zenon DEF Actions

\* What the emitter's steps leave alone: a producer moves only itself, and only
\* from inside Emit; run and Close move no producer.
LEMMA EmitFrame ==
  ASSUME TypeOK, NEW p \in Producers, EmitStep(p)
  PROVE  /\ pc[p] # "idle"
         /\ \A q \in Producers : q # p => pc'[q] = pc[q]
         /\ worker' = worker /\ batch' = batch /\ stopping' = stopping
BY Zenon DEF TypeOK, ETypeOK, EmitStep, Send, Evict, CountDropped

\* A producer entering Emit leaves the other producers and Run alone.
LEMMA EmitBegins ==
  ASSUME TypeOK, NEW p \in Producers, Emit(p)
  PROVE  /\ \A q \in Producers : q # p => pc'[q] = pc[q]
         /\ worker' = worker /\ batch' = batch /\ stopping' = stopping /\ buffer' = buffer
BY Zenon DEF TypeOK, ETypeOK, Emit

\* A step of Run leaves the producers alone.
LEMMA RunFrame ==
  ASSUME RunStep
  PROVE  pc' = pc /\ stopping' = stopping
BY Zenon DEF RunStep, Collect, Flush, BeginDrain, DrainEmpty, RunReturns

\* Only a handler or a mirror worker that is emitting is inside Emit.
LEMMA InsideStep == TypeOK /\ InsideEmit /\ [Next]_vars => InsideEmit'
<1> SUFFICES ASSUME TypeOK, InsideEmit, [Next]_vars PROVE InsideEmit' BY Zenon
<1> USE ShutdownAssumption
<1>1. ASSUME NEW h \in Handlers, Accept(h) \/ MirrorSend(h)
                                   \/ \E served \in BOOLEAN : UsageEmitted(h, served)
      PROVE  InsideEmit'
  BY <1>1, SMTT(30) DEF Accept, MirrorSend, UsageEmitted, mirrorVars, evars, TypeOK, InsideEmit
<1>2. ASSUME NEW h \in Handlers, EmitUsage(h) PROVE InsideEmit'
  BY <1>2, EmitBegins, SMTT(30) DEF EmitUsage, mirrorVars, TypeOK, InsideEmit
<1>3. ASSUME NEW p \in Producers, EmitterStep(EmitStep(p)) PROVE InsideEmit'
  BY <1>3, EmitFrame, SMTT(30) DEF EmitterStep, mirrorVars, InsideEmit
<1>4. ASSUME NEW m \in MirrorWorkers, TakeJob(m) \/ WorkerReturns(m) PROVE InsideEmit'
  BY <1>4, Zenon DEF TakeJob, WorkerReturns, evars, TypeOK, InsideEmit
<1>5. ASSUME NEW m \in MirrorWorkers,
             CallNotMade(m) \/ \E ok \in BOOLEAN : ShadowEmitted(m, ok)
      PROVE  InsideEmit'
  BY <1>5, Zenon DEF CallNotMade, ShadowEmitted, Counted, evars, TypeOK, InsideEmit
<1>6. ASSUME NEW m \in MirrorWorkers, ShadowUsage(m) PROVE InsideEmit'
  BY <1>6, EmitBegins, SMTT(30) DEF ShadowUsage, TypeOK, InsideEmit
<1>7. CASE EmitterStep(RunStep)
  BY <1>7, RunFrame, Zenon DEF EmitterStep, mirrorVars, InsideEmit
<1>8. CASE Signal \/ ServeFails \/ Drained \/ GraceExpires
  BY <1>8, Zenon DEF Signal, ServeFails, Drained, GraceExpires, mainUnchanged, evars, InsideEmit
<1>9. CASE WaitBegins \/ WaitEnds \/ CloseEmitter \/ Exit
  BY <1>9, Zenon
  DEF WaitBegins, WaitEnds, CloseEmitter, Close, Exit, mainUnchanged, evars, InsideEmit
<1>10. CASE UNCHANGED vars BY <1>10, Zenon DEF vars, evars, mirrorVars, InsideEmit
<1> QED
  BY <1>1, <1>2, <1>3, <1>4, <1>5, <1>6, <1>7, <1>8, <1>9, <1>10, NextIsAction,
     SMTT(30)
  DEF Actions

\* Every step keeps the order of the stages of the exit.
LEMMA StagesStep == TypeOK /\ Stages /\ [Next]_vars => Stages'
<1> SUFFICES ASSUME TypeOK, Stages, [Next]_vars PROVE Stages' BY Zenon
<1> USE ShutdownAssumption
<1>1. ASSUME NEW h \in Handlers, Accept(h) \/ \E served \in BOOLEAN : UsageEmitted(h, served)
      PROVE  Stages'
  BY <1>1, SMTT(30) DEF Accept, UsageEmitted, mirrorVars, evars, TypeOK, Serving, Stages
<1>2. ASSUME NEW h \in Handlers, MirrorSend(h) PROVE Stages'
  BY <1>2, Zenon DEF MirrorSend, evars, TypeOK, Serving, Stages
<1>3. ASSUME NEW h \in Handlers, EmitUsage(h) PROVE Stages'
  BY <1>3, EmitBegins, Zenon DEF EmitUsage, mirrorVars, TypeOK, Serving, Stages
<1>4. ASSUME NEW p \in Producers, EmitterStep(EmitStep(p)) PROVE Stages'
  BY <1>4, EmitFrame, Zenon DEF EmitterStep, mirrorVars, Serving, Stages
<1>5. ASSUME NEW m \in MirrorWorkers, TakeJob(m) \/ WorkerReturns(m) PROVE Stages'
  BY <1>5, SMTT(30) DEF TakeJob, WorkerReturns, evars, TypeOK, Serving, Stages
<1>6. ASSUME NEW m \in MirrorWorkers,
             CallNotMade(m) \/ \E ok \in BOOLEAN : ShadowEmitted(m, ok)
      PROVE  Stages'
  BY <1>6, SMTT(30) DEF CallNotMade, ShadowEmitted, Counted, evars, TypeOK, Serving, Stages
<1>7. ASSUME NEW m \in MirrorWorkers, ShadowUsage(m) PROVE Stages'
  BY <1>7, EmitBegins, SMTT(30) DEF ShadowUsage, TypeOK, Serving, Stages
<1>8. CASE EmitterStep(RunStep)
  BY <1>8, SMTT(30)
  DEF EmitterStep, RunStep, Collect, Flush, BeginDrain, DrainEmpty, RunReturns, mirrorVars,
      Serving, Stages
<1>9. CASE Signal \/ ServeFails \/ Drained \/ GraceExpires
  BY <1>9 DEF Signal, ServeFails, Drained, GraceExpires, mainUnchanged, evars, Serving, Stages
<1>10. CASE WaitBegins \/ WaitEnds
  <2>1. CASE WaitBegins
    BY <2>1, ZenonT(30) DEF WaitBegins, mainUnchanged, evars, Serving, Stages
  <2>2. CASE WaitEnds
    <3>1. /\ UNCHANGED <<handler, mirror, queue, graceful, queueOpen, stopping, worker>>
          /\ main = "waiting" /\ main' = "closing" /\ ~queueOpen
          /\ \A m \in MirrorWorkers : mirror[m] = "returned"
      BY <2>2, Zenon DEF WaitEnds, mainUnchanged, evars
    <3> QED BY <3>1, ZenonT(30) DEF Serving, Stages
  <2> QED BY <1>10, <2>1, <2>2, Zenon
<1>11. CASE CloseEmitter \/ Exit
  <2>1. CASE CloseEmitter
    BY <2>1, Zenon DEF CloseEmitter, Close, mainUnchanged, evars, Serving, Stages
  <2>2. CASE Exit
    BY <2>2, Zenon DEF Exit, mainUnchanged, evars, Serving, Stages
  <2> QED BY <1>11, <2>1, <2>2, Zenon
<1>12. CASE UNCHANGED vars BY <1>12, Zenon DEF vars, evars, mirrorVars, Serving, Stages
<1> QED
  BY <1>1, <1>2, <1>3, <1>4, <1>5, <1>6, <1>7, <1>8, <1>9, <1>10, <1>11, <1>12,
     NextIsAction, Zenon
  DEF Actions

\* Once run has seen its last empty buffer after a graceful drain, nobody is left
\* inside Emit.
LEMMA NobodyEmits ==
  ASSUME InsideEmit, Stages, graceful, main \in {"closing", "exited"}
  PROVE  /\ \A p \in Producers : pc[p] = "idle"
         /\ \A h \in Handlers : handler[h] = "idle"
         /\ \A m \in MirrorWorkers : mirror[m] = "returned"
BY ShutdownAssumption, Zenon DEF InsideEmit, Stages, Serving

\* Once a graceful exit has emptied the buffer it stays empty.
LEMMA EmptiedStep ==
  TypeOK /\ InsideEmit /\ Stages /\ Emptied /\ [Next]_vars => Emptied'
<1> SUFFICES ASSUME TypeOK, InsideEmit, Stages, Emptied, [Next]_vars PROVE Emptied'
  BY Zenon
<1> USE ShutdownAssumption
<1>0. worker \in {"flushing", "stopped"} => main \in {"closing", "exited"}
  BY Zenon DEF Stages
<1>1. ASSUME NEW h \in Handlers, Accept(h) \/ \E served \in BOOLEAN : UsageEmitted(h, served)
      PROVE  Emptied'
  BY <1>1 DEF Accept, UsageEmitted, mirrorVars, evars, Emptied
<1>2. ASSUME NEW h \in Handlers, MirrorSend(h) PROVE Emptied'
  <2>1. graceful => panics' = panics
    BY <1>2, Zenon DEF MirrorSend, Stages, Serving
  <2> QED BY <1>2, <2>1, Zenon DEF MirrorSend, evars, Emptied
<1>3. ASSUME NEW h \in Handlers, EmitUsage(h) PROVE Emptied'
  BY <1>3, EmitBegins, Zenon DEF EmitUsage, mirrorVars, Emptied
<1>4. ASSUME NEW p \in Producers, EmitterStep(EmitStep(p)) PROVE Emptied'
  <2>1. ~(graceful /\ worker \in {"flushing", "stopped"})
    BY <1>0, <1>4, EmitFrame, NobodyEmits, ZenonT(30) DEF EmitterStep
  <2> QED BY <1>4, <2>1, EmitFrame, Zenon DEF EmitterStep, Emptied
<1>5. ASSUME NEW m \in MirrorWorkers,
             TakeJob(m) \/ WorkerReturns(m) \/ CallNotMade(m)
               \/ \E ok \in BOOLEAN : ShadowEmitted(m, ok)
      PROVE  Emptied'
  BY <1>5, SMTT(30) DEF TakeJob, WorkerReturns, CallNotMade, ShadowEmitted, Counted, evars, Emptied
<1>6. ASSUME NEW m \in MirrorWorkers, ShadowUsage(m) PROVE Emptied'
  BY <1>6, EmitBegins, Zenon DEF ShadowUsage, Emptied
<1>7. CASE EmitterStep(RunStep)
  BY <1>7, Zenon DEF EmitterStep, RunStep, Collect, Flush, BeginDrain, DrainEmpty, RunReturns,
              TypeOK, ETypeOK, Emptied
<1>8. CASE Signal \/ ServeFails \/ Drained \/ GraceExpires
  BY <1>8, SMTT(30) DEF Signal, ServeFails, Drained, GraceExpires, mainUnchanged, evars, Emptied
<1>9. CASE WaitBegins \/ WaitEnds \/ CloseEmitter \/ Exit
  BY <1>9, SMTT(30)
  DEF WaitBegins, WaitEnds, CloseEmitter, Close, Exit, mainUnchanged, evars, Emptied
<1>10. CASE UNCHANGED vars BY <1>10, Zenon DEF vars, evars, mirrorVars, Emptied
<1> QED
  BY <1>1, <1>2, <1>3, <1>4, <1>5, <1>6, <1>7, <1>8, <1>9, <1>10, NextIsAction,
     SMTT(30)
  DEF Actions

-----------------------------------------------------------------------------

IInv == TypeOK /\ ExactLoss /\ MirrorExact /\ InsideEmit /\ Stages /\ Emptied

\* The invariant holds initially.
LEMMA InitIInv == Init => IInv
<1> SUFFICES ASSUME Init PROVE IInv BY Zenon
<1> USE ShutdownAssumption
<1>1. ETypeOK /\ ExactLoss BY Start, Zenon DEF Init
<1>2. Busy = {} BY Zenon DEF Init, Busy
<1>3. MirrorExact BY <1>2, FS_EmptySet DEF Init, MirrorExact
<1>4. graceful \in BOOLEAN /\ queueOpen \in BOOLEAN BY Zenon DEF Init
<1>5. TypeOK
  <2>1. QueueSize \in Nat /\ MaxRequests \in Nat BY Zenon
  <2> QED BY <1>1, <1>4, <2>1 DEF Init, TypeOK
<1>6. InsideEmit BY Zenon DEF Init, EInit, InsideEmit
<1>7. Stages BY Zenon DEF Init, EInit, Serving, Stages
<1>8. Emptied BY Zenon DEF Init, EInit, Emptied
<1> QED BY <1>1, <1>3, <1>5, <1>6, <1>7, <1>8, Zenon DEF IInv

\* Every step keeps the invariant.
LEMMA NextIInv == IInv /\ [Next]_vars => IInv'
<1> SUFFICES ASSUME IInv, [Next]_vars PROVE IInv' BY Zenon
<1>1. ExactLoss' BY RunsEmitter, Step, Zenon DEF IInv, TypeOK
<1> QED BY <1>1, TypeStep, MirrorStep, InsideStep, StagesStep, EmptiedStep, Zenon DEF IInv

\* The invariant holds throughout.
LEMMA Invariance == Spec => []IInv
BY InitIInv, NextIInv, PTL DEF Spec

\* The invariant says what a graceful exit promises.
LEMMA IInvLosesNothing == IInv => GracefulExitLosesNothing
<1> SUFFICES ASSUME IInv, main = "exited", graceful
             PROVE  /\ received = dropped + written
                    /\ accepted = mirrored + mirrorFailed
                    /\ panics = 0
  BY Zenon DEF GracefulExitLosesNothing
<1> USE DEF IInv
<1>1. worker = "stopped" BY Zenon DEF Stages
<1>2. buffer = 0 /\ batch = 0 /\ panics = 0 BY <1>1, Zenon DEF Emptied
<1>3. Emitting = {} /\ Evicting = {} BY NobodyEmits, Zenon DEF Emitting, Evicting
<1>4. InHands = 0 BY <1>3, FS_EmptySet, SMTT(30) DEF InHands
<1>5. queue = 0 BY NobodyEmits, ShutdownAssumption, Zenon DEF Stages
<1>6. Busy = {} BY NobodyEmits, Zenon DEF Busy
<1>7. received = dropped + written BY <1>2, <1>4 DEF ExactLoss, TypeOK, ETypeOK
<1>8. accepted = mirrored + mirrorFailed BY <1>5, <1>6, FS_EmptySet DEF MirrorExact, TypeOK
<1> QED BY <1>2, <1>7, <1>8, Zenon

\* main's deferred calls, in their order, lose nothing when the requests finish
\* within the grace, for any number of handlers, mirror workers and buffers.
THEOREM GracefulExit == Spec => []GracefulExitLosesNothing
BY Invariance, IInvLosesNothing, PTL

\* The variables of the process keep their types; the queue and the buffer stay
\* within their capacities.
THEOREM ProcessTypeCorrect == Spec => []TypeOK
<1>1. IInv => TypeOK BY Zenon DEF IInv
<1> QED BY Invariance, <1>1, PTL

-----------------------------------------------------------------------------
(***************************************************************************)
(* The request path of one worker, for any requests, streams, deployments  *)
(* and limits: one usage event on every exit path, no slot given back      *)
(* twice, and what a payload looks like wherever it was sent.              *)
(*                                                                         *)
(* None of the four is inductive.  A slot is safe because a handler's own  *)
(* place in the code says whether it has one; the event of a success names *)
(* a deployment the payload was sent to because the attempt that is running*)
(* sent it there; and the replacements of the attempt that served say how  *)
(* its payload was sent because every payload sent to a deployment before  *)
(* it had the form its class still requires.                               *)
(***************************************************************************)

PipelineLabels == {"new", "authenticate", "admit", "guard", "route", "attempt",
                   "calling", "served", "relay", "done"}

Handler == [pc: PipelineLabels, class: Classes, pii: BOOLEAN,
            candidates: Seq(Deployments), n: Nat \ {0}, out: BOOLEAN,
            slotted: BOOLEAN, sent: SUBSET (Deployments \X Forms)]

\* What the variables hold.  A usage log is any function of the request: its
\* contents are what the invariant below is about.
PipelineTypeOK ==
  /\ req \in [Requests -> Handler]
  /\ slots \in Int
  /\ usage = [r \in Requests |-> usage[r]]

\* A handler past admit holds a slot, and no other does.
PastAdmit == {"guard", "route", "attempt", "calling", "served", "relay"}

\* What holds of one handler.  It has emitted nothing before it returns and
\* one event then, which names a deployment it sent to when it reports a
\* success.  Nothing is sent before the class is settled; afterwards every
\* payload has the form FormFor gives; and from the call on, *out says whether
\* the payload of this attempt was tokenised.
HandlerOK(r) ==
  /\ req[r].slotted <=> req[r].pc \in PastAdmit
  /\ req[r].pc # "done" => usage[r] = <<>>
  /\ req[r].pc = "done" =>
       /\ Len(usage[r]) = 1
       /\ usage[r] = <<usage[r][1]>>
       /\ usage[r][1].outcome = "ok" =>
            \E form \in Forms : <<usage[r][1].deployment, form>> \in req[r].sent
  /\ req[r].pc \in {"new", "authenticate", "admit"} => req[r].sent = {}
  /\ \A s \in req[r].sent : s[2] = FormFor(r, s[1])
  /\ req[r].pc \in {"calling", "served", "relay"} =>
       /\ req[r].n <= Len(req[r].candidates)
       /\ <<Candidate(r), FormFor(r, Candidate(r))>> \in req[r].sent
       /\ req[r].out <=> FormFor(r, Candidate(r)) = "tokenized"

\* The counter covers the handlers that hold a slot.
SlotsInv == IsFiniteSet(Holding) /\ slots >= Cardinality(Holding)

PipelineInv ==
  /\ PipelineTypeOK
  /\ \A r \in Requests : HandlerOK(r)
  /\ SlotsInv

-----------------------------------------------------------------------------
(* Lemmas *)

\* An order of candidates is a sequence of deployments.
LEMMA OrdersAreSequences == \A order \in Orders : order \in Seq(Deployments)
<1>1. SUFFICES ASSUME NEW D \in SUBSET Deployments,
                      NEW order \in Bijection(1..Cardinality(D), D)
               PROVE  order \in Seq(Deployments)
  BY Zenon DEF Orders
<1>2. IsFiniteSet(D)
  BY FS_Subset, PipelineAssumption, Zenon
<1>3. Cardinality(D) \in Nat
  BY <1>2, FS_CardinalityType, Zenon
<1>4. order \in [1..Cardinality(D) -> Deployments]
  BY <1>1, Zenon DEF Bijection, Injection
<1> QED
  BY <1>3, <1>4

\* protect gives one of the known forms.
LEMMA FormsTyped ==
  ASSUME NEW r, NEW d
  PROVE  FormFor(r, d) \in Forms
BY Zenon DEF FormFor, strategyFor, Forms

\* Setting one local of one handler.
LEMMA HandlerSet ==
  ASSUME NEW f \in [Requests -> Handler], NEW r \in Requests
  PROVE  /\ \A x \in PipelineLabels : [f EXCEPT ![r].pc = x] \in [Requests -> Handler]
         /\ \A x \in Classes : [f EXCEPT ![r].class = x] \in [Requests -> Handler]
         /\ \A x \in Seq(Deployments) :
              [f EXCEPT ![r].candidates = x] \in [Requests -> Handler]
         /\ \A x \in Nat \ {0} : [f EXCEPT ![r].n = x] \in [Requests -> Handler]
         /\ \A x \in BOOLEAN : [f EXCEPT ![r].out = x] \in [Requests -> Handler]
         /\ \A x \in BOOLEAN : [f EXCEPT ![r].slotted = x] \in [Requests -> Handler]
         /\ \A x \in SUBSET (Deployments \X Forms) :
              [f EXCEPT ![r].sent = x] \in [Requests -> Handler]
<1>1. \A x \in PipelineLabels : [f EXCEPT ![r].pc = x] \in [Requests -> Handler]
  BY ZenonT(60) DEF Handler
<1>2. \A x \in Classes : [f EXCEPT ![r].class = x] \in [Requests -> Handler]
  BY ZenonT(60) DEF Handler
<1>3. \A x \in Seq(Deployments) : [f EXCEPT ![r].candidates = x] \in [Requests -> Handler]
  BY ZenonT(60) DEF Handler
<1>4. \A x \in Nat \ {0} : [f EXCEPT ![r].n = x] \in [Requests -> Handler]
  BY ZenonT(60) DEF Handler
<1>5. \A x \in BOOLEAN : [f EXCEPT ![r].out = x] \in [Requests -> Handler]
  BY ZenonT(60) DEF Handler
<1>6. \A x \in BOOLEAN : [f EXCEPT ![r].slotted = x] \in [Requests -> Handler]
  BY ZenonT(60) DEF Handler
<1>7. \A x \in SUBSET (Deployments \X Forms) :
        [f EXCEPT ![r].sent = x] \in [Requests -> Handler]
  <2> DEFINE S == SUBSET (Deployments \X Forms)
  <2>1. Handler = [pc: PipelineLabels, class: Classes, pii: BOOLEAN,
                   candidates: Seq(Deployments), n: Nat \ {0}, out: BOOLEAN,
                   slotted: BOOLEAN, sent: S]
    BY Zenon DEF Handler
  <2> HIDE DEF S
  <2>2. \A x \in S : [f EXCEPT ![r].sent = x] \in [Requests -> Handler]
    BY <2>1, ZenonT(60)
  <2> QED
    BY <2>2, Zenon DEF S
<1> QED
  BY <1>1, <1>2, <1>3, <1>4, <1>5, <1>6, <1>7, Zenon

\* The locals of a handler that has just arrived.
LEMMA FreshTyped ==
  ASSUME NEW pii \in BOOLEAN
  PROVE  /\ Fresh \in Handler
         /\ [Fresh EXCEPT !.pc = "authenticate", !.pii = pii] \in Handler
<1>1. Fresh \in Handler
  BY PipelineAssumption DEF Fresh, Handler, PipelineLabels
<1>2. [Fresh EXCEPT !.pc = "authenticate"] \in Handler
  BY <1>1, Zenon DEF Handler, PipelineLabels
<1> DEFINE a == [Fresh EXCEPT !.pc = "authenticate"]
<1>3. [a EXCEPT !.pii = pii] \in Handler
  BY <1>2, Zenon DEF Handler
<1>4. [a EXCEPT !.pii = pii] = [Fresh EXCEPT !.pc = "authenticate", !.pii = pii]
  BY Zenon
<1> QED
  BY <1>1, <1>3, <1>4, Zenon

\* A step of r leaves the other handlers and their events alone.
StepOf(r) ==
  /\ req' \in [Requests -> Handler]
  /\ usage' = [q \in Requests |-> usage'[q]]
  /\ \A q \in Requests \ {r} : req'[q] = req[q] /\ usage'[q] = usage[q]

\* The locals of r a step leaves alone, when it emits nothing.
Quiet(r) == StepOf(r) /\ usage'[r] = usage[r]

\* What is known of a handler survives a step of another.
LEMMA ElsewhereKept ==
  ASSUME NEW r \in Requests, StepOf(r), NEW q \in Requests \ {r}, HandlerOK(q)
  PROVE  HandlerOK(q)'
<1>1. req'[q] = req[q] /\ usage'[q] = usage[q]
  BY Zenon DEF StepOf
<1>2. Candidate(q)' = Candidate(q) /\ \A d : FormFor(q, d)' = FormFor(q, d)
  BY <1>1, Zenon DEF Candidate, FormFor
<1> QED
  BY <1>1, <1>2, Zenon DEF HandlerOK

\* A slot is taken with the counter, and given back at most once.
LEMMA SlotsKept ==
  ASSUME NEW r \in Requests, StepOf(r), SlotsInv, slots \in Int,
         \/ req'[r].slotted = req[r].slotted /\ slots' = slots
         \/ ~req[r].slotted /\ req'[r].slotted /\ slots' = slots + 1
         \/ ~req'[r].slotted /\ slots' = IF req[r].slotted THEN slots - 1 ELSE slots
         \/ ~req'[r].slotted /\ slots' = slots
  PROVE  SlotsInv' /\ slots' \in Int
<1> USE DEF SlotsInv
<1> DEFINE H == Holding
           G == Holding'
<1>0. IsFiniteSet(H) /\ Cardinality(H) \in Nat /\ slots >= Cardinality(H)
  BY FS_CardinalityType, Zenon
<1>1. /\ r \in H <=> req[r].slotted
      /\ r \in G <=> req'[r].slotted
      /\ \A q : q # r => (q \in G <=> q \in H)
  BY Zenon DEF Holding, StepOf
<1> HIDE DEF H, G
<1>2. CASE r \in G <=> r \in H
  <2>1. G = H
    <3>1. \A q : q \in G <=> q \in H
      BY <1>1, <1>2, ZenonT(30)
    <3> QED BY <3>1, Zenon
  <2>2. slots' >= slots
    BY <1>1, <1>2, SMTT(30)
  <2> QED
    BY <1>0, <2>1, <2>2, SMTT(30) DEF H, G
<1>3. CASE r \in G /\ r \notin H
  <2>1. G = H \cup {r}
    BY <1>1, <1>3, Zenon
  <2>2. IsFiniteSet(G) /\ Cardinality(G) = Cardinality(H) + 1
    BY <1>0, <1>3, <2>1, FS_AddElement, Zenon
  <2>3. slots' = slots + 1
    BY <1>1, <1>3, Zenon
  <2> QED
    BY <1>0, <2>2, <2>3, SMTT(30) DEF G
<1>4. CASE r \notin G /\ r \in H
  <2>1. G = H \ {r}
    BY <1>1, <1>4, Zenon
  <2>2. IsFiniteSet(G) /\ Cardinality(G) = Cardinality(H) - 1
    BY <1>0, <1>4, <2>1, FS_RemoveElement, Zenon
  <2>3. slots' \in {slots, slots - 1}
    BY <1>1, <1>4, Zenon
  <2> QED
    BY <1>0, <2>2, <2>3, SMTT(30) DEF G
<1> QED
  BY <1>2, <1>3, <1>4, Zenon

-----------------------------------------------------------------------------
(* What each kind of step does to the locals *)

\* A local assignment keeps the type and the other handlers.
LEMMA ReturnShape ==
  ASSUME PipelineTypeOK, NEW r \in Requests, Return(r)
  PROVE  /\ req' \in [Requests -> Handler]
         /\ \A q \in Requests \ {r} : req'[q] = req[q]
         /\ req'[r].pc = "done" /\ req'[r].slotted = FALSE
         /\ req'[r].sent = req[r].sent
         /\ req'[r].class = req[r].class /\ req'[r].pii = req[r].pii
<1> USE DEF PipelineTypeOK
<1> DEFINE a == [req EXCEPT ![r].pc = "done"]
           b == [a EXCEPT ![r].slotted = FALSE]
           c == [b EXCEPT ![r].candidates = <<>>]
           d == [c EXCEPT ![r].n = 1]
<1>1. a \in [Requests -> Handler]
  BY HandlerSet, Zenon DEF PipelineLabels
<1>2. b \in [Requests -> Handler]
  BY <1>1, HandlerSet, Zenon
<1>3. c \in [Requests -> Handler]
  <2>1. <<>> \in Seq(Deployments)
    OBVIOUS
  <2> QED
    BY <1>2, <2>1, HandlerSet, Zenon
<1>4. d \in [Requests -> Handler]
  <2>1. 1 \in Nat \ {0}
    OBVIOUS
  <2> QED
    BY <1>3, <2>1, HandlerSet, Zenon
<1>5. req' = d
  BY Zenon DEF Return
<1>6. /\ \A q \in Requests \ {r} : req'[q] = req[q]
      /\ req'[r].pc = "done" /\ req'[r].slotted = FALSE
      /\ req'[r].sent = req[r].sent
      /\ req'[r].class = req[r].class /\ req'[r].pii = req[r].pii
  BY DEF Return, Handler
<1> QED
  BY <1>4, <1>5, <1>6, Zenon

\* What emitUsage appends when the handler has emitted nothing.
LEMMA EmitShape ==
  ASSUME PipelineTypeOK, NEW r \in Requests, NEW outcome, NEW d,
         usage[r] = <<>>, emitUsage(r, outcome, d)
  PROVE  /\ usage' = [q \in Requests |-> usage'[q]]
         /\ \A q \in Requests \ {r} : usage'[q] = usage[q]
         /\ Len(usage'[r]) = 1
         /\ usage'[r] = <<usage'[r][1]>>
         /\ usage'[r][1].outcome = outcome /\ usage'[r][1].deployment = d
<1> USE DEF PipelineTypeOK
<1> DEFINE e == [outcome |-> outcome, deployment |-> d]
<1>1. Append(<<>>, e) = <<e>>
  <2>1. <<>> \in Seq({e}) /\ e \in {e}
    OBVIOUS
  <2> HIDE DEF e
  <2> QED
    BY <2>1
<1>2. e.outcome = outcome /\ e.deployment = d
  BY Zenon
<1> HIDE DEF e
<1>3. usage' = [usage EXCEPT ![r] = Append(@, e)]
  BY Zenon DEF emitUsage, e
<1>4. usage' = [q \in Requests |-> IF q = r THEN <<e>> ELSE usage[q]]
  BY <1>1, <1>3, Zenon
<1>5. usage'[r] = <<e>> /\ \A q \in Requests \ {r} : usage'[q] = usage[q]
  BY <1>4, Zenon
<1>6. usage' = [q \in Requests |-> usage'[q]]
  BY <1>4, Zenon
<1> QED
  BY <1>2, <1>5, <1>6

\* A handler that returns with an event has what HandlerOK asks of it.
LEMMA ReturnKept ==
  ASSUME PipelineInv, NEW r \in Requests, req[r].pc # "done", Return(r),
         NEW outcome, NEW d, emitUsage(r, outcome, d),
         outcome = "ok" => \E form \in Forms : <<d, form>> \in req[r].sent,
         slots' = slots \/ slots' = IF req[r].slotted THEN slots - 1 ELSE slots
  PROVE  PipelineInv'
<1>1. HandlerOK(r) /\ PipelineTypeOK /\ SlotsInv
  BY Zenon DEF PipelineInv
<1>2. usage[r] = <<>> /\ \A s \in req[r].sent : s[2] = FormFor(r, s[1])
  BY <1>1, Zenon DEF HandlerOK
<1>3. /\ usage' = [q \in Requests |-> usage'[q]]
      /\ \A q \in Requests \ {r} : usage'[q] = usage[q]
      /\ Len(usage'[r]) = 1
      /\ usage'[r] = <<usage'[r][1]>>
      /\ usage'[r][1].outcome = outcome /\ usage'[r][1].deployment = d
  BY <1>1, <1>2, EmitShape
<1>4. /\ req' \in [Requests -> Handler]
      /\ \A q \in Requests \ {r} : req'[q] = req[q]
      /\ req'[r].pc = "done" /\ req'[r].slotted = FALSE
      /\ req'[r].sent = req[r].sent
      /\ req'[r].class = req[r].class /\ req'[r].pii = req[r].pii
  BY <1>1, ReturnShape, Zenon
<1>5. StepOf(r)
  BY <1>3, <1>4, Zenon DEF StepOf
<1>6. \A x : FormFor(r, x)' = FormFor(r, x)
  BY <1>4, Zenon DEF FormFor
<1>7. HandlerOK(r)'
  BY <1>2, <1>3, <1>4, <1>6, SMTT(30) DEF HandlerOK, PastAdmit
<1>8. SlotsInv' /\ slots' \in Int
  BY <1>1, <1>4, <1>5, SlotsKept, Zenon DEF PipelineTypeOK
<1>9. \A q \in Requests : HandlerOK(q)'
  BY <1>5, <1>7, ElsewhereKept, Zenon DEF PipelineInv
<1> QED
  BY <1>3, <1>4, <1>8, <1>9, Zenon DEF PipelineInv, PipelineTypeOK

\* A step that emits nothing keeps the invariant when it keeps that of its
\* handler.
LEMMA QuietKept ==
  ASSUME PipelineInv, NEW r \in Requests, Quiet(r), HandlerOK(r)',
         \/ req'[r].slotted = req[r].slotted /\ slots' = slots
         \/ ~req[r].slotted /\ req'[r].slotted /\ slots' = slots + 1
  PROVE  PipelineInv'
<1>1. PipelineTypeOK /\ SlotsInv /\ StepOf(r)
  BY Zenon DEF PipelineInv, Quiet
<1>2. SlotsInv' /\ slots' \in Int
  BY <1>1, SlotsKept, Zenon DEF PipelineTypeOK
<1>3. \A q \in Requests : HandlerOK(q)'
  BY <1>1, ElsewhereKept, Zenon DEF PipelineInv
<1> QED
  BY <1>1, <1>2, <1>3, Zenon DEF PipelineInv, PipelineTypeOK, StepOf

-----------------------------------------------------------------------------
(* The stages before the provider *)

\* A request arrives with nothing sent.
LEMMA ArriveKept ==
  ASSUME PipelineInv, NEW r \in Requests, NEW pii \in BOOLEAN, Arrive(r, pii)
  PROVE  PipelineInv'
<1> DEFINE v == [Fresh EXCEPT !.pc = "authenticate", !.pii = pii]
<1>1. PipelineTypeOK /\ SlotsInv /\ HandlerOK(r)
  BY Zenon DEF PipelineInv
<1>2. v \in Handler /\ v.pc = "authenticate" /\ v.slotted = FALSE /\ v.sent = {}
  BY FreshTyped, Zenon DEF Fresh
<1> HIDE DEF v
<1>3. req' = [req EXCEPT ![r] = v]
  BY Zenon DEF Arrive, v
<1>4. req' \in [Requests -> Handler] /\ req'[r] = v
      /\ \A q \in Requests \ {r} : req'[q] = req[q]
  BY <1>1, <1>2, <1>3, Zenon DEF PipelineTypeOK
<1>5. /\ usage' = [q \in Requests |-> usage'[q]]
      /\ \A q \in Requests \ {r} : usage'[q] = usage[q]
      /\ usage'[r] = <<>>
  <2>1. usage' = [q \in Requests |-> IF q = r THEN <<>> ELSE usage[q]]
    BY <1>1, Zenon DEF Arrive, PipelineTypeOK
  <2> QED
    BY <2>1, Zenon
<1>6. StepOf(r)
  BY <1>4, <1>5, Zenon DEF StepOf
<1>7. HandlerOK(r)'
  BY <1>2, <1>4, <1>5, Zenon DEF HandlerOK, PastAdmit
<1>8. ~req[r].slotted
  BY <1>1, Zenon DEF HandlerOK, PastAdmit, Arrive
<1>9. SlotsInv' /\ slots' \in Int
  BY <1>1, <1>2, <1>4, <1>6, SlotsKept, Zenon DEF PipelineTypeOK, Arrive
<1>10. \A q \in Requests : HandlerOK(q)'
  BY <1>6, <1>7, ElsewhereKept, Zenon DEF PipelineInv
<1> QED
  BY <1>4, <1>5, <1>9, <1>10, Zenon DEF PipelineInv, PipelineTypeOK

\* authenticate, guard and the provider's answer only move the handler on.
LEMMA MovedOn ==
  ASSUME PipelineTypeOK, NEW r \in Requests, NEW to \in PipelineLabels,
         req' = [req EXCEPT ![r].pc = to], usage' = usage
  PROVE  /\ Quiet(r)
         /\ req'[r].pc = to /\ req'[r].class = req[r].class
         /\ req'[r].pii = req[r].pii /\ req'[r].candidates = req[r].candidates
         /\ req'[r].n = req[r].n /\ req'[r].out = req[r].out
         /\ req'[r].slotted = req[r].slotted /\ req'[r].sent = req[r].sent
<1>1. req' \in [Requests -> Handler]
  BY HandlerSet, Zenon DEF PipelineTypeOK
<1>2. \A q \in Requests \ {r} : req'[q] = req[q]
  BY Zenon DEF PipelineTypeOK
<1>3. Quiet(r)
  BY <1>1, <1>2, Zenon DEF Quiet, StepOf, PipelineTypeOK
<1> QED
  BY <1>3 DEF PipelineTypeOK, Handler

\* Steps that only move on.
LEMMA MoveKept ==
  ASSUME PipelineInv, NEW r \in Requests,
         authenticate(r) \/ guard(r) \/ CallSucceeds(r)
  PROVE  PipelineInv'
<1>1. PipelineTypeOK /\ HandlerOK(r)
  BY Zenon DEF PipelineInv
<1>2. PICK to \in PipelineLabels :
        /\ req' = [req EXCEPT ![r].pc = to]
        /\ \/ req[r].pc = "authenticate" /\ to = "admit"
           \/ req[r].pc = "guard" /\ to = "route"
           \/ req[r].pc = "calling" /\ to \in {"served", "relay"}
  BY Zenon DEF authenticate, guard, CallSucceeds, PipelineLabels
<1>3. slots' = slots /\ usage' = usage
  BY Zenon DEF authenticate, guard, CallSucceeds
<1>4. /\ Quiet(r)
      /\ req'[r].pc = to /\ req'[r].class = req[r].class
      /\ req'[r].pii = req[r].pii /\ req'[r].candidates = req[r].candidates
      /\ req'[r].n = req[r].n /\ req'[r].out = req[r].out
      /\ req'[r].slotted = req[r].slotted /\ req'[r].sent = req[r].sent
  BY <1>1, <1>2, <1>3, MovedOn, ZenonT(30)
<1>5. Candidate(r)' = Candidate(r) /\ \A d : FormFor(r, d)' = FormFor(r, d)
  BY <1>4, Zenon DEF Candidate, FormFor
<1>6. HandlerOK(r)'
  BY <1>1, <1>2, <1>3, <1>4, <1>5, SMTT(30) DEF HandlerOK, PastAdmit
<1> QED
  BY <1>3, <1>4, <1>6, QuietKept, Zenon

\* admit takes the slot and settles the class.
LEMMA AdmitKept ==
  ASSUME PipelineInv, NEW r \in Requests, NEW class \in Classes, admit(r, class)
  PROVE  PipelineInv'
<1> DEFINE a == [req EXCEPT ![r].pc = "guard"]
           b == [a EXCEPT ![r].class = class]
           c == [b EXCEPT ![r].slotted = TRUE]
<1>1. PipelineTypeOK /\ HandlerOK(r)
  BY Zenon DEF PipelineInv
<1>2. a \in [Requests -> Handler]
  BY <1>1, HandlerSet, Zenon DEF PipelineLabels, PipelineTypeOK
<1>3. b \in [Requests -> Handler]
  BY <1>2, HandlerSet, Zenon
<1>4. c \in [Requests -> Handler]
  BY <1>3, HandlerSet, Zenon
<1>5. req' = c
  BY Zenon DEF admit
<1>6. /\ \A q \in Requests \ {r} : req'[q] = req[q]
      /\ req'[r].pc = "guard" /\ req'[r].slotted = TRUE
      /\ req'[r].sent = req[r].sent
  BY <1>1 DEF admit, PipelineTypeOK, Handler
<1>7. Quiet(r)
  BY <1>1, <1>4, <1>5, <1>6, Zenon DEF Quiet, StepOf, admit, PipelineTypeOK
<1>8. HandlerOK(r)'
  BY <1>1, <1>6, <1>7, Zenon DEF HandlerOK, PastAdmit, admit, Quiet
<1>9. ~req[r].slotted /\ slots' = slots + 1
  BY <1>1, Zenon DEF HandlerOK, PastAdmit, admit
<1> QED
  BY <1>6, <1>7, <1>8, <1>9, QuietKept, Zenon

\* route orders the candidates.
LEMMA RouteKept ==
  ASSUME PipelineInv, NEW r \in Requests, NEW order \in Orders, route(r, order)
  PROVE  PipelineInv'
<1> DEFINE a == [req EXCEPT ![r].pc = "attempt"]
           b == [a EXCEPT ![r].candidates = order]
<1>1. PipelineTypeOK /\ HandlerOK(r)
  BY Zenon DEF PipelineInv
<1>2. a \in [Requests -> Handler]
  BY <1>1, HandlerSet, Zenon DEF PipelineLabels, PipelineTypeOK
<1>3. b \in [Requests -> Handler]
  BY <1>2, HandlerSet, OrdersAreSequences, Zenon
<1>4. req' = b
  BY Zenon DEF route
<1>5. /\ \A q \in Requests \ {r} : req'[q] = req[q]
      /\ req'[r].pc = "attempt" /\ req'[r].slotted = req[r].slotted
      /\ req'[r].sent = req[r].sent /\ req'[r].n = req[r].n
      /\ req'[r].class = req[r].class /\ req'[r].pii = req[r].pii
  BY <1>1 DEF route, PipelineTypeOK, Handler
<1>6. Quiet(r)
  BY <1>1, <1>3, <1>4, <1>5, Zenon DEF Quiet, StepOf, route, PipelineTypeOK
<1>7. \A d : FormFor(r, d)' = FormFor(r, d)
  BY <1>5, Zenon DEF FormFor
<1>8. HandlerOK(r)'
  <2>1. /\ req[r].slotted /\ usage'[r] = <<>>
        /\ \A s \in req[r].sent : s[2] = FormFor(r, s[1])
    BY <1>1, <1>6, Zenon DEF HandlerOK, PastAdmit, route, Quiet
  <2> QED
    BY <1>5, <1>7, <2>1, Zenon DEF HandlerOK, PastAdmit
<1> QED
  BY <1>5, <1>6, <1>8, QuietKept, ZenonT(30) DEF route

-----------------------------------------------------------------------------
(* The attempts *)

\* The candidate of an attempt is a deployment.
LEMMA CandidateTyped ==
  ASSUME PipelineTypeOK, NEW r \in Requests, req[r].n <= Len(req[r].candidates)
  PROVE  Candidate(r) \in Deployments
<1>1. req[r] \in Handler
  BY Zenon DEF PipelineTypeOK
<1>2. req[r].candidates \in Seq(Deployments) /\ req[r].n \in Nat \ {0}
  BY <1>1, Zenon DEF Handler
<1> QED
  BY <1>2 DEF Candidate

\* A refused candidate and a failed call move on to the next.
LEMMA NextCandidateKept ==
  ASSUME PipelineInv, NEW r \in Requests, Skip(r) \/ CallFails(r)
  PROVE  PipelineInv'
<1> DEFINE a == [req EXCEPT ![r].pc = "attempt"]
           b == [a EXCEPT ![r].n = req[r].n + 1]
<1>1. PipelineTypeOK /\ HandlerOK(r) /\ req[r] \in Handler
  BY Zenon DEF PipelineInv, PipelineTypeOK
<1>2. a \in [Requests -> Handler]
  BY <1>1, HandlerSet, Zenon DEF PipelineLabels, PipelineTypeOK
<1>3. req[r].n + 1 \in Nat \ {0}
  BY <1>1 DEF Handler
<1>4. b \in [Requests -> Handler]
  BY <1>2, <1>3, HandlerSet, Zenon
<1>5. req' = b
  <2>1. CASE Skip(r)
    <3>1. req[r].pc = "attempt" /\ req' = [req EXCEPT ![r].n = req[r].n + 1]
      BY <1>1, <2>1, Zenon DEF Skip, HasAttempt, PipelineTypeOK
    <3>2. a = req
      BY <1>1, <3>1 DEF PipelineTypeOK, Handler
    <3> QED
      BY <3>1, <3>2, Zenon
  <2>2. CASE CallFails(r)
    BY <1>1, <2>2, Zenon DEF CallFails, PipelineTypeOK
  <2> QED
    BY <2>1, <2>2, Zenon
<1>6. /\ \A q \in Requests \ {r} : req'[q] = req[q]
      /\ req'[r].pc = "attempt" /\ req'[r].slotted = req[r].slotted
      /\ req'[r].sent = req[r].sent
      /\ req'[r].class = req[r].class /\ req'[r].pii = req[r].pii
  BY <1>1, <1>5, Zenon DEF PipelineTypeOK, Handler
<1>7. slots' = slots /\ usage' = usage /\ req[r].pc \in {"attempt", "calling"}
  BY Zenon DEF Skip, CallFails, HasAttempt
<1>8. Quiet(r)
  BY <1>1, <1>4, <1>5, <1>6, <1>7, Zenon DEF Quiet, StepOf, PipelineTypeOK
<1>9. \A d : FormFor(r, d)' = FormFor(r, d)
  BY <1>6, Zenon DEF FormFor
<1>10. HandlerOK(r)'
  <2>1. req[r].slotted /\ usage'[r] = <<>>
        /\ \A s \in req[r].sent : s[2] = FormFor(r, s[1])
    BY <1>1, <1>7, ZenonT(30) DEF HandlerOK, PastAdmit
  <2>2. \A s \in req'[r].sent : s[2] = FormFor(r, s[1])'
    BY <1>6, <1>9, <2>1, Zenon
  <2> QED
    BY <1>6, <2>1, <2>2, ZenonT(30) DEF HandlerOK, PastAdmit
<1> QED
  BY <1>6, <1>7, <1>8, <1>10, QuietKept, Zenon

\* protect adds the payload of this attempt, in the form its destination
\* requires, and *out says whether that form has replacements.
LEMMA ProtectKept ==
  ASSUME PipelineInv, NEW r \in Requests, Protect(r)
  PROVE  PipelineInv'
<1> DEFINE dest == Candidate(r)
           form == FormFor(r, dest)
           tok == (form = "tokenized")
           to == req[r].sent \cup {<<dest, form>>}
           a == [req EXCEPT ![r].pc = "calling"]
           b == [a EXCEPT ![r].out = tok]
           c == [b EXCEPT ![r].sent = to]
<1>1. PipelineTypeOK /\ HandlerOK(r) /\ req[r] \in Handler
  BY Zenon DEF PipelineInv, PipelineTypeOK
<1>2. /\ req[r].pc = "attempt" /\ req[r].n <= Len(req[r].candidates)
      /\ slots' = slots /\ usage' = usage
  BY Zenon DEF Protect, HasAttempt
<1>3. dest \in Deployments /\ form \in Forms /\ tok \in BOOLEAN
  BY <1>1, <1>2, CandidateTyped, FormsTyped, ZenonT(30)
<1>4. to \in SUBSET (Deployments \X Forms)
  BY <1>1, <1>3 DEF Handler
<1>5. req' = [req EXCEPT ![r].pc = "calling", ![r].out = tok, ![r].sent = to]
  BY <1>1, Zenon DEF Protect, PipelineTypeOK
<1> HIDE DEF tok, to
<1>6. a \in [Requests -> Handler]
  BY <1>1, HandlerSet, Zenon DEF PipelineLabels, PipelineTypeOK
<1>7. b \in [Requests -> Handler]
  BY <1>3, <1>6, HandlerSet, Zenon
<1>8. c \in [Requests -> Handler]
  BY <1>4, <1>7, HandlerSet, Zenon
<1>9. req' = c
  BY <1>5, Zenon
<1>10. /\ \A q \in Requests \ {r} : req'[q] = req[q]
       /\ req'[r].pc = "calling" /\ req'[r].slotted = req[r].slotted
       /\ req'[r].sent = to /\ req'[r].out = tok
       /\ req'[r].class = req[r].class /\ req'[r].pii = req[r].pii
       /\ req'[r].candidates = req[r].candidates /\ req'[r].n = req[r].n
  BY <1>1, <1>5, Zenon DEF PipelineTypeOK, Handler
<1>11. Quiet(r)
  BY <1>1, <1>2, <1>8, <1>9, <1>10, Zenon DEF Quiet, StepOf, PipelineTypeOK
<1>12. /\ \A d : FormFor(r, d)' = FormFor(r, d)
       /\ Candidate(r)' = dest
  BY <1>10, Zenon DEF FormFor, Candidate
<1>13. HandlerOK(r)'
  <2>1. req[r].slotted /\ usage'[r] = <<>>
        /\ \A s \in req[r].sent : s[2] = FormFor(r, s[1])
    BY <1>1, <1>2, ZenonT(30) DEF HandlerOK, PastAdmit
  <2>2. \A s \in to : s[2] = FormFor(r, s[1])
    BY <2>1, SMTT(30) DEF to
  <2>3. <<dest, form>> \in to /\ (tok <=> form = "tokenized")
    BY Zenon DEF to, tok
  <2> HIDE DEF dest, form
  <2>4. FormFor(r, dest) = form
    BY Zenon DEF form
  <2>5. \A s \in req'[r].sent : s[2] = FormFor(r, s[1])'
    BY <1>10, <1>12, <2>2, Zenon
  <2>6. /\ req'[r].n <= Len(req'[r].candidates)
        /\ <<Candidate(r), FormFor(r, Candidate(r))>>' \in req'[r].sent
        /\ req'[r].out <=> FormFor(r, Candidate(r))' = "tokenized"
    BY <1>2, <1>10, <1>12, <2>3, <2>4, Zenon
  <2> QED
    BY <1>10, <2>1, <2>5, <2>6, ZenonT(30) DEF HandlerOK, PastAdmit
<1> QED
  BY <1>2, <1>10, <1>11, <1>13, QuietKept, Zenon

-----------------------------------------------------------------------------
(* The exits *)

\* A stage fails.
LEMMA StageFailsKept ==
  ASSUME PipelineInv, NEW r \in Requests, req[r].pc # "done",
         NEW d, StageFails(r, d)
  PROVE  PipelineInv'
<1>1. slots' = slots \/ slots' = IF req[r].slotted THEN slots - 1 ELSE slots
  BY Zenon DEF StageFails, ReleaseOnError
<1>2. Return(r) /\ emitUsage(r, "error", d)
  BY Zenon DEF StageFails
<1>3. "error" # "ok"
  BY Zenon
<1> QED
  BY <1>1, <1>2, <1>3, ReturnKept, Zenon

\* A response or a stream that ended returns through its slot.
LEMMA AnswerKept ==
  ASSUME PipelineInv, NEW r \in Requests, NEW outcome,
         (Complete(r) /\ outcome = "ok") \/ Finish(r, outcome)
  PROVE  PipelineInv'
<1>1. /\ req[r].pc \in {"served", "relay"} /\ slots' = slots - 1 /\ Return(r)
      /\ emitUsage(r, outcome, Candidate(r))
  BY Zenon DEF Complete, Finish
<1>2. HandlerOK(r)
  BY Zenon DEF PipelineInv
<1>3. req[r].slotted /\ <<Candidate(r), FormFor(r, Candidate(r))>> \in req[r].sent
  BY <1>1, <1>2, ZenonT(30) DEF HandlerOK, PastAdmit
<1>4. \E form \in Forms : <<Candidate(r), form>> \in req[r].sent
  BY <1>3, FormsTyped, Zenon
<1> QED
  BY <1>1, <1>3, <1>4, ReturnKept, Zenon

\* The invariant holds initially.
LEMMA PipelineInvInit == PipelineInit => PipelineInv
<1> SUFFICES ASSUME PipelineInit PROVE PipelineInv
  BY Zenon
<1>1. Fresh \in Handler
  BY FreshTyped, Zenon
<1>2. \A r \in Requests : req[r] = Fresh /\ usage[r] = <<>>
  BY Zenon DEF PipelineInit
<1>3. PipelineTypeOK
  BY <1>1, SMTT(30) DEF PipelineInit, PipelineTypeOK
<1>4. Fresh.slotted = FALSE /\ Fresh.pc = "new" /\ Fresh.sent = {}
  BY Zenon DEF Fresh
<1>5. \A r \in Requests : HandlerOK(r)
  BY <1>2, <1>4, Zenon DEF HandlerOK, PastAdmit
<1>6. Holding = {}
  BY <1>2, <1>4, Zenon DEF Holding
<1>7. SlotsInv
  BY <1>6, FS_EmptySet DEF SlotsInv, PipelineInit
<1> QED
  BY <1>3, <1>5, <1>7, Zenon DEF PipelineInv

\* Every step keeps the invariant.
LEMMA PipelineInvNext == PipelineInv /\ [PipelineNext]_pipelineVars => PipelineInv'
<1> SUFFICES ASSUME PipelineInv, [PipelineNext]_pipelineVars PROVE PipelineInv'
  BY Zenon
<1>1. CASE UNCHANGED pipelineVars
  <2>1. req' = req /\ slots' = slots /\ usage' = usage
    BY <1>1, Zenon DEF pipelineVars
  <2>2. PipelineTypeOK' /\ SlotsInv'
    BY <2>1, Zenon DEF PipelineInv, PipelineTypeOK, SlotsInv, Holding
  <2>3. ASSUME NEW r \in Requests PROVE HandlerOK(r)'
    <3>1. \A d : FormFor(r, d)' = FormFor(r, d)
      BY <2>1, ZenonT(30) DEF FormFor
    <3>2. Candidate(r)' = Candidate(r)
      BY <2>1, Zenon DEF Candidate
    <3>3. HandlerOK(r)
      BY Zenon DEF PipelineInv
    <3> QED
      BY <2>1, <3>1, <3>2, <3>3, ZenonT(30) DEF HandlerOK
  <2> QED
    BY <2>2, <2>3, Zenon DEF PipelineInv
<1>2. CASE PipelineNext
  <2>0. PICK r \in Requests :
          \/ \E pii \in BOOLEAN : Arrive(r, pii)
          \/ authenticate(r) \/ guard(r) \/ CallSucceeds(r)
          \/ \E class \in Classes : admit(r, class)
          \/ \E order \in Orders : route(r, order)
          \/ Skip(r) \/ CallFails(r)
          \/ Refuse(r) \/ AdaptGivesUp(r) \/ ProtectFails(r) \/ CallRejected(r)
          \/ Protect(r)
          \/ Complete(r)
          \/ \E outcome \in {"ok", "error"} : Finish(r, outcome)
    BY <1>2, Zenon DEF PipelineNext
  <2>1. CASE \E pii \in BOOLEAN : Arrive(r, pii)
    BY <2>1, ArriveKept, Zenon
  <2>2. CASE authenticate(r) \/ guard(r) \/ CallSucceeds(r)
    BY <2>2, MoveKept, Zenon
  <2>3. CASE \E class \in Classes : admit(r, class)
    BY <2>3, AdmitKept, Zenon
  <2>4. CASE \E order \in Orders : route(r, order)
    BY <2>4, RouteKept, Zenon
  <2>5. CASE Skip(r) \/ CallFails(r)
    BY <2>5, NextCandidateKept, Zenon
  <2>6. CASE Refuse(r) \/ AdaptGivesUp(r) \/ ProtectFails(r) \/ CallRejected(r)
    <3>1. req[r].pc # "done" /\ \E d : StageFails(r, d)
      BY <2>6, Zenon DEF Refuse, AdaptGivesUp, ProtectFails, CallRejected, HasAttempt
    <3> QED
      BY <3>1, StageFailsKept, Zenon
  <2>7. CASE Protect(r)
    BY <2>7, ProtectKept, Zenon
  <2>8. CASE Complete(r)
    BY <2>8, AnswerKept, Zenon
  <2>9. CASE \E outcome \in {"ok", "error"} : Finish(r, outcome)
    BY <2>9, AnswerKept, Zenon
  <2> QED
    BY <2>0, <2>1, <2>2, <2>3, <2>4, <2>5, <2>6, <2>7, <2>8, <2>9, ZenonT(30)
<1> QED
  BY <1>1, <1>2, Zenon

\* The invariant holds throughout.
LEMMA PipelineInvariant == PipelineSpec => []PipelineInv
BY PipelineInvInit, PipelineInvNext, PTL DEF PipelineSpec

-----------------------------------------------------------------------------
(* The theorems *)

\* Whichever stage, attempt or end of stream a request returns from, it has
\* emitted nothing before and exactly one usage event then, and an event that
\* reports a success names a deployment the payload was sent to (the emit
\* closures of Handle and HandleStream, and Finish).
THEOREM OneUsageEventHolds == PipelineSpec => []OneUsageEvent
<1>1. PipelineInv => OneUsageEvent
  <2> SUFFICES ASSUME PipelineInv, NEW r \in Requests
               PROVE  /\ Len(usage[r]) = IF req[r].pc = "done" THEN 1 ELSE 0
                      /\ \A e \in Range(usage[r]) : e.outcome = "ok" =>
                           \E form \in Forms : <<e.deployment, form>> \in req[r].sent
    BY Zenon DEF OneUsageEvent
  <2>1. HandlerOK(r)
    BY Zenon DEF PipelineInv
  <2>2. CASE req[r].pc = "done"
    <3> DEFINE e == usage[r][1]
    <3>1. /\ Len(usage[r]) = 1 /\ usage[r] = <<e>>
          /\ e.outcome = "ok" =>
               \E form \in Forms : <<e.deployment, form>> \in req[r].sent
      BY <2>1, <2>2, Zenon DEF HandlerOK
    <3> HIDE DEF e
    <3>2. Range(<<e>>) = {e}
      BY DEF Range
    <3> QED
      BY <2>2, <3>1, <3>2, Zenon
  <2>3. CASE req[r].pc # "done"
    <3>1. usage[r] = <<>>
      BY <2>1, <2>3, Zenon DEF HandlerOK
    <3> QED
      BY <2>3, <3>1 DEF Range
  <2> QED
    BY <2>2, <2>3, Zenon
<1> QED
  BY <1>1, PipelineInvariant, PTL

\* The in-flight counter of the principal is never below the number of handlers
\* that hold a slot: no exit, of a buffered request or of a stream, gives back
\* a slot twice or one it does not have (the deferred Release and Finish).
THEOREM SlotsCoverHoldersHolds == PipelineSpec => []SlotsCoverHolders
<1>1. PipelineInv => SlotsCoverHolders
  BY Zenon DEF PipelineInv, SlotsInv, SlotsCoverHolders
<1> QED
  BY <1>1, PipelineInvariant, PTL

\* Every payload with personal data left in a form that its class and the
\* destination's tier allow, on every fallback (protect, called per attempt): the
\* form they require where the worker has a vault, never unprotected where it has
\* none.
THEOREM SentAsRequiredHolds == PipelineSpec => []SentAsRequired
<1>1. PipelineInv => SentAsRequired
  <2> SUFFICES ASSUME PipelineInv, NEW r \in Requests, NEW s \in req[r].sent,
                      req[r].pii
               PROVE  s[2] \in MaySend(req[r].class, s[1])
    BY Zenon DEF SentAsRequired
  <2>1. s[2] = FormFor(r, s[1])
    BY ZenonT(30) DEF PipelineInv, HandlerOK
  <2>2. s[2] = strategyFor(req[r].class, s[1])
    BY <2>1, Zenon DEF FormFor
  <2>3. s[2] \in {"plain", "redacted", "tokenized"}
    BY <2>2, Zenon DEF strategyFor
  <2> QED
    BY <2>2, <2>3, Zenon DEF MaySend
<1> QED
  BY <1>1, PipelineInvariant, PTL

\* A response is restored exactly when the attempt that served it sent a
\* tokenised payload, whatever earlier attempts sent (the `replacements' of
\* Handle and HandleStream).
THEOREM RestoredFromServingHolds == PipelineSpec => []RestoredFromServing
<1>1. PipelineInv => RestoredFromServing
  <2> SUFFICES ASSUME PipelineInv, NEW r \in Requests,
                      req[r].pc \in {"served", "relay"}
               PROVE  req[r].out <=> <<Candidate(r), "tokenized">> \in req[r].sent
    BY Zenon DEF RestoredFromServing
  <2>1. HandlerOK(r)
    BY Zenon DEF PipelineInv
  <2>2. /\ \A s \in req[r].sent : s[2] = FormFor(r, s[1])
        /\ <<Candidate(r), FormFor(r, Candidate(r))>> \in req[r].sent
        /\ req[r].out <=> FormFor(r, Candidate(r)) = "tokenized"
    BY <2>1, Zenon DEF HandlerOK
  <2>3. ASSUME <<Candidate(r), "tokenized">> \in req[r].sent
        PROVE  FormFor(r, Candidate(r)) = "tokenized"
    BY <2>2, <2>3, Zenon
  <2> QED
    BY <2>2, <2>3, Zenon
<1> QED
  BY <1>1, PipelineInvariant, PTL
=============================================================================
