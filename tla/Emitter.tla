------------------------------ MODULE Emitter ------------------------------
(***************************************************************************)
(* The telemetry emitter (dataplane/internal/telemetry/emitter.go): a      *)
(* bounded buffer that producers never wait for, and one goroutine that    *)
(* batches events to the sinks.                                            *)
(*                                                                         *)
(* An event is one unit of `buffer', of `batch' or of a producer's hand:   *)
(* the counters do not tell events apart, and a Go channel delivers each   *)
(* one once.  Emit is cut at every channel operation and at every update   *)
(* of a counter.                                                           *)
(***************************************************************************)
EXTENDS Integers, FiniteSets

CONSTANTS Producers,    \* goroutines that call Emit
          BufferSize,   \* capacity of the channel
          BatchSize,    \* WithBatchSize
          Sinks,        \* number of sinks
          MaxEvents     \* bound: events received in a run

ASSUME EmitterAssumption ==
  /\ IsFiniteSet(Producers)
  /\ {BufferSize, BatchSize, Sinks} \subseteq Nat \ {0}
  /\ MaxEvents \in Nat

VARIABLES pc,         \* pc[p]: where in Emit producer p is
          buffer,     \* number of events in the channel
          received, dropped, failed,   \* the three counters
          worker,     \* the control point of run
          batch,      \* number of events in run's batch
          stopping,   \* whether e.stop is closed
          written     \* history: events handed to the sinks

counters == <<received, dropped, failed>>
evars == <<pc, buffer, received, dropped, failed, worker, batch, stopping, written>>

(***************************************************************************)
(* "send", "evict" and "resend" are the three selects of Emit; "evicted"   *)
(* and "refused" are about to count the loss of an older event and of the  *)
(* producer's own.                                                         *)
(***************************************************************************)
EInit ==
  /\ pc = [p \in Producers |-> "idle"]
  /\ buffer = 0
  /\ received = 0 /\ dropped = 0 /\ failed = 0
  /\ worker = "collecting"
  /\ batch = 0
  /\ stopping = FALSE
  /\ written = 0

-----------------------------------------------------------------------------
(* Emit *)

Emit(p) ==
  /\ pc[p] = "idle"
  /\ received < MaxEvents
  /\ received' = received + 1
  /\ pc' = [pc EXCEPT ![p] = "send"]
  /\ UNCHANGED <<buffer, dropped, failed, worker, batch, stopping, written>>

\* The first and the third select: the event goes in if there is room.
Send(p) ==
  /\ pc[p] \in {"send", "resend"}
  /\ IF buffer < BufferSize
     THEN buffer' = buffer + 1 /\ pc' = [pc EXCEPT ![p] = "idle"]
     ELSE /\ pc' = [pc EXCEPT ![p] = IF pc[p] = "send" THEN "evict" ELSE "refused"]
          /\ UNCHANGED buffer
  /\ UNCHANGED <<counters, worker, batch, stopping, written>>

\* Mutant of Evict: the evicted event is not counted.
EvictUncounted(p) ==
  /\ pc[p] = "evict"
  /\ buffer' = IF buffer > 0 THEN buffer - 1 ELSE buffer
  /\ pc' = [pc EXCEPT ![p] = "resend"]
  /\ UNCHANGED <<counters, worker, batch, stopping, written>>

\* The second select: the oldest event is taken out, unless run was faster.
Evict(p) ==
  /\ pc[p] = "evict"
  /\ IF buffer > 0
     THEN buffer' = buffer - 1 /\ pc' = [pc EXCEPT ![p] = "evicted"]
     ELSE pc' = [pc EXCEPT ![p] = "resend"] /\ UNCHANGED buffer
  /\ UNCHANGED <<counters, worker, batch, stopping, written>>

CountDropped(p) ==
  /\ pc[p] \in {"evicted", "refused"}
  /\ dropped' = dropped + 1
  /\ pc' = [pc EXCEPT ![p] = IF pc[p] = "evicted" THEN "resend" ELSE "idle"]
  /\ UNCHANGED <<buffer, received, failed, worker, batch, stopping, written>>

-----------------------------------------------------------------------------
(* run *)

\* An event is taken into the batch, in the loop or in the drain after it.
Collect ==
  /\ worker \in {"collecting", "draining"}
  /\ batch < BatchSize
  /\ buffer > 0
  /\ buffer' = buffer - 1
  /\ batch' = batch + 1
  /\ UNCHANGED <<pc, counters, worker, stopping, written>>

\* flush, on a full batch, on the ticker, and at the end of the drain.  Each
\* sink that returns an error counts the whole batch.
Flush(sinksFailing) ==
  /\ \/ worker \in {"collecting", "flushing"}
     \/ worker = "draining" /\ batch = BatchSize
  /\ batch > 0
  /\ batch' = 0
  /\ written' = written + batch
  /\ failed' = failed + sinksFailing * batch
  /\ UNCHANGED <<pc, buffer, received, dropped, worker, stopping>>

BeginDrain ==
  /\ worker = "collecting"
  /\ batch < BatchSize
  /\ stopping
  /\ worker' = "draining"
  /\ UNCHANGED <<pc, buffer, counters, batch, stopping, written>>

\* The drain finds the buffer empty.  It does not look again: what arrives
\* during the last flush stays in the channel.
DrainEmpty ==
  /\ worker = "draining"
  /\ batch < BatchSize
  /\ buffer = 0
  /\ worker' = "flushing"
  /\ UNCHANGED <<pc, buffer, counters, batch, stopping, written>>

RunReturns ==
  /\ worker = "flushing"
  /\ batch = 0
  /\ worker' = "stopped"
  /\ UNCHANGED <<pc, buffer, counters, batch, stopping, written>>

\* Close closes e.stop, then waits for run to return.
Close ==
  /\ ~stopping
  /\ stopping' = TRUE
  /\ UNCHANGED <<pc, buffer, counters, worker, batch, written>>

EmitStep(p) == Send(p) \/ Evict(p) \/ CountDropped(p)

RunStep ==
  \/ Collect
  \/ \E n \in 0 .. Sinks : Flush(n)
  \/ BeginDrain
  \/ DrainEmpty
  \/ RunReturns

ENext ==
  \/ \E p \in Producers : Emit(p) \/ EmitStep(p)
  \/ RunStep
  \/ Close

ESpec == EInit /\ [][ENext]_evars

-----------------------------------------------------------------------------
(* Properties *)

ETypeOK ==
  /\ pc \in [Producers -> {"idle", "send", "evict", "evicted", "resend", "refused"}]
  /\ buffer \in 0 .. BufferSize
  /\ received \in Nat /\ dropped \in Nat /\ failed \in Nat
  /\ worker \in {"collecting", "draining", "flushing", "stopped"}
  /\ batch \in 0 .. BatchSize
  /\ stopping \in BOOLEAN
  /\ written \in Nat

\* Producers with their own event in hand, and those that have also taken one
\* out of the buffer and not yet counted it.
Emitting == {p \in Producers : pc[p] # "idle"}
Evicting == {p \in Producers : pc[p] = "evicted"}
InHands == Cardinality(Emitting) + Cardinality(Evicting)

\* "Received - Dropped = events that reached, or will reach, a sink": however
\* producers, evictions and batches interleave, every event received is counted
\* dropped, or written, or is in the buffer, in the batch or in the hand of the
\* producer that is dealing with it (the comment on Stats).
ExactLoss == received = dropped + written + buffer + batch + InHands

=============================================================================
