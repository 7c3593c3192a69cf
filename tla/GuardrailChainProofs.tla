------------------------ MODULE GuardrailChainProofs ------------------------
(***************************************************************************)
(* Proofs about the guardrail chain a worker runs, for any requests, any   *)
(* chains of bindings and any limit on the goroutines off the path: what a *)
(* served request was shown to, and what becomes of an inspection that does*)
(* not block it.                                                           *)
(*                                                                         *)
(* Both are about a request whose chain has ended.  The invariant says of a*)
(* chain that still runs what each binding it is past has answered, and    *)
(* ties each goroutine to a binding the request is past.  That none is left*)
(* when Wait has returned needs that the handlers were done by then.       *)
(***************************************************************************)
EXTENDS GuardrailChain, FiniteSetTheorems, TLAPS

ChainCounters == {"evaluated", "denied", "mutated", "failedOpen", "failedShut",
                  "skipped"}

Said == {"nothing", "allow", "deny", "mutate"}

ChainRun == [pc: {"idle", "next", "inspect", "done"}, bindings: Seq(Binding),
             i: Nat \ {0}, payload: Seq(Nat), denied: BOOLEAN, reason: Nat,
             said: Seq(Said)]

Task == [req: Guarded, i: Nat \ {0},
         stage: {"spawned", "inspecting", "releasing", "finishing"}]

ChainTypeOK ==
  /\ run \in [Guarded -> ChainRun]
  /\ tasks \subseteq Task
  /\ stats \in [ChainCounters -> Nat]
  /\ offPath \in Int /\ wg \in Int

\* The goroutines: at most one per binding of a request, for a binding the
\* request is past; and the channel and the wait group count them.
Holders == {t \in tasks : t.stage # "finishing"}

TasksInv ==
  /\ IsFiniteSet(tasks)
  /\ \A t \in tasks : t.i < run[t.req].i
  /\ \A t, u \in tasks : t.req = u.req /\ t.i = u.i => t = u
  /\ wg = Cardinality(tasks)
  /\ offPath = Cardinality(Holders)
  /\ offPath <= OffPathLimit

\* A counter an operator watches has moved.
Noticed(s) == s["failedOpen"] + s["skipped"] > 0

\* What the locals q of Chain.Run, and the counters s, say of the bindings it is
\* past: each blocking one allowed or rewrote the payload, or is fail-open and
\* gave no answer, and the payload is the sequence of those that rewrote it.
Rewrote(q, j) == q.bindings[j].blocking /\ q.said[j] = "mutate"

PassedOK(q, s) ==
  /\ \A j \in 1..Len(q.bindings) : j < q.i /\ q.bindings[j].blocking =>
       \/ q.said[j] \in {"allow", "mutate"}
       \/ q.said[j] = "nothing" /\ q.bindings[j].mode = "open" /\ Noticed(s)
  /\ \A a \in 1..Len(q.payload) :
       /\ q.payload[a] \in 1..Len(q.bindings) /\ q.payload[a] < q.i
       /\ Rewrote(q, q.payload[a])
  /\ \A a, b \in 1..Len(q.payload) : a < b => q.payload[a] < q.payload[b]
  /\ \A j \in 1..Len(q.bindings) : j < q.i /\ Rewrote(q, j) =>
       \E a \in 1..Len(q.payload) : q.payload[a] = j

RunOK(q, s) ==
  /\ Len(q.said) = Len(q.bindings)
  /\ q.pc # "done" =>
       /\ ~q.denied
       /\ \A j \in 1..Len(q.said) : j >= q.i => q.said[j] = "nothing"
  /\ q.pc = "idle" => q.i = 1 /\ q.payload = <<>>
  /\ q.pc = "inspect" => q.i <= Len(q.bindings) /\ q.bindings[q.i].blocking
  /\ q.pc = "done" /\ ~q.denied => q.i > Len(q.bindings)
  /\ ~q.denied => PassedOK(q, s)

ChainInv ==
  /\ ChainTypeOK
  /\ TasksInv
  /\ \A r \in Guarded : RunOK(run[r], stats)

-----------------------------------------------------------------------------
(* What evaluate returns agrees with what the component said *)

Agrees(o) ==
  /\ o.said \in Said
  /\ o.got \in {"allow", "deny", "mutate", "error"}
  /\ o.got = "mutate" <=> o.said = "mutate"
  /\ o.got = "allow" => o.said = "allow"
  /\ o.got = "error" => o.said = "nothing"

\* What evaluate returns for a built-in agrees with what the built-in said.
LEMMA BuiltinAgrees == \A o \in BuiltinOutcomes : Agrees(o)
<1> SUFFICES ASSUME NEW e \in BOOLEAN, NEW m \in BOOLEAN
             PROVE  Agrees([got |-> evaluate(BuiltinInspect(e, m)),
                            said |-> IF e THEN "nothing"
                                     ELSE IF m THEN "deny" ELSE "allow"])
  BY DEF BuiltinOutcomes
<1>1. evaluate(BuiltinInspect(e, m)) =
        IF e THEN "error" ELSE IF m THEN "deny" ELSE "allow"
  BY Zenon DEF evaluate, BuiltinInspect, Failed, Failure, Result
<1> QED
  BY <1>1, Zenon DEF Agrees, Said

\* A call of a guest fails unless every part of it went through.
LEMMA CallSuccess ==
  ASSUME NEW g \in Guest, NEW e \in BOOLEAN
  PROVE  Failed(Call(g, e, FALSE)) <=>
           ~(/\ g.starts /\ g.alloc = "inside" /\ g.handle = "returns"
             /\ g.packed = "inside")
<1>0. /\ g.starts \in BOOLEAN
      /\ g.alloc \in {"inside", "outside", "traps", "values"}
      /\ g.handle \in {"returns", "traps", "values"}
      /\ g.packed \in {"inside", "outside", "over"}
  BY Zenon DEF Guest, Places
<1>1. Failed(writeInput(g, e, FALSE)) <=> g.alloc # "inside"
  BY <1>0, Zenon DEF writeInput, Failed, Failure, wrapGuestError
<1>2. Failed(readOutput(g)) <=> g.packed # "inside"
  BY Zenon DEF readOutput, Failed, Failure
<1>3. /\ Failed(Failure("unavailable", FALSE)) /\ Failed(Failure("internal", FALSE))
      /\ Failed(wrapGuestError(e, FALSE))
  BY Zenon DEF Failed, Failure, wrapGuestError
<1>4. CASE ~g.starts
  BY <1>3, <1>4, Zenon DEF Call
<1>5. CASE g.starts /\ Failed(writeInput(g, e, FALSE))
  BY <1>1, <1>5, Zenon DEF Call
<1>6. CASE g.starts /\ ~Failed(writeInput(g, e, FALSE)) /\ g.handle = "traps"
  BY <1>3, <1>6, Zenon DEF Call
<1>7. CASE g.starts /\ ~Failed(writeInput(g, e, FALSE)) /\ g.handle = "values"
  BY <1>3, <1>7, Zenon DEF Call
<1>8. CASE g.starts /\ ~Failed(writeInput(g, e, FALSE)) /\ g.handle = "returns"
  <2>1. Call(g, e, FALSE) = readOutput(g)
    BY <1>8, Zenon DEF Call
  <2> QED
    BY <1>1, <1>2, <1>8, <2>1, Zenon
<1> QED
  BY <1>0, <1>4, <1>5, <1>6, <1>7, <1>8, Zenon

\* What evaluate returns for a WASM module agrees with what the module said.
LEMMA WasmAgrees == \A o \in WasmOutcomes : Agrees(o)
<1> TAKE o \in WasmOutcomes
<1>a. PICK g \in Guest, e \in BOOLEAN :
        o = [got |-> evaluate(WasmInspect(g, e, FALSE)), said |-> WasmSaid(g)]
  <2> DEFINE F(g, e) == [got |-> evaluate(WasmInspect(g, e, FALSE)),
                         said |-> WasmSaid(g)]
  <2>1. WasmOutcomes = {F(g, e) : g \in Guest, e \in BOOLEAN}
    BY DEF WasmOutcomes
  <2> HIDE DEF F
  <2>2. \E g \in Guest, e \in BOOLEAN : o = F(g, e)
    BY <2>1
  <2> QED
    BY <2>2, Zenon DEF F
<1>b. o.got = evaluate(WasmInspect(g, e, FALSE)) /\ o.said = WasmSaid(g)
  BY <1>a, Zenon
<1> DEFINE through == /\ g.starts /\ g.alloc = "inside" /\ g.handle = "returns"
                      /\ g.packed = "inside"
           answer == /\ g.body.verdict # "other"
                     /\ g.body.verdict = "mutate" <=> g.body.payload # "nil"
<1>0. g.parses \in BOOLEAN /\ g.body.verdict \in {"allow", "deny", "mutate", "other"}
  BY Zenon DEF Guest, Response
<1>1. Failed(Call(g, e, FALSE)) <=> ~through
  BY CallSuccess, Zenon
<1>2. WasmSaid(g) = IF through /\ g.parses /\ answer THEN g.body.verdict ELSE "nothing"
  BY <1>0, Zenon DEF WasmSaid
<1>3. evaluate(toResult(g.body)) = IF answer THEN g.body.verdict ELSE "error"
  BY <1>0, Zenon DEF evaluate, toResult, Failed, Failure, Result
<1> HIDE DEF through, answer
<1>4. evaluate(WasmInspect(g, e, FALSE)) =
        IF through /\ g.parses /\ answer THEN g.body.verdict ELSE "error"
  <2>0. ASSUME NEW c, Failed(c) PROVE evaluate(c) = "error"
    BY <2>0, Zenon DEF evaluate
  <2>1. CASE ~through
    <3>1. WasmInspect(g, e, FALSE) = Call(g, e, FALSE)
      BY <1>1, <2>1, Zenon DEF WasmInspect
    <3> QED
      BY <1>1, <2>0, <2>1, <3>1, Zenon
  <2>2. CASE through /\ ~g.parses
    <3>1. WasmInspect(g, e, FALSE) = Failure("unavailable", FALSE)
      BY <1>1, <2>2, Zenon DEF WasmInspect
    <3>2. Failed(Failure("unavailable", FALSE))
      BY Zenon DEF Failed, Failure
    <3> QED
      BY <2>0, <2>2, <3>1, <3>2, Zenon
  <2>3. CASE through /\ g.parses
    <3>1. WasmInspect(g, e, FALSE) = toResult(g.body)
      BY <1>1, <2>3, Zenon DEF WasmInspect
    <3> QED
      BY <1>3, <2>3, <3>1, Zenon
  <2> QED
    BY <1>0, <2>1, <2>2, <2>3, Zenon
<1>5. g.body.verdict = "other" => ~answer
  BY Zenon DEF answer
<1> QED
  BY <1>b, <1>0, <1>2, <1>4, <1>5, Zenon DEF Agrees, Said

\* So it does for a component of either kind.
LEMMA OutcomesAgree ==
  ASSUME NEW kind, NEW o \in Outcomes(kind)
  PROVE  Agrees(o)
BY BuiltinAgrees, WasmAgrees, Zenon DEF Outcomes

-----------------------------------------------------------------------------
(* The locals of Chain.Run *)

ChainLabels == {"idle", "next", "inspect", "done"}

\* Setting one local.
LEMMA ChainRunSet ==
  ASSUME NEW q \in ChainRun
  PROVE  /\ \A x \in ChainLabels : [q EXCEPT !.pc = x] \in ChainRun
         /\ \A x \in Seq(Binding) : [q EXCEPT !.bindings = x] \in ChainRun
         /\ \A x \in Nat \ {0} : [q EXCEPT !.i = x] \in ChainRun
         /\ \A x \in Seq(Nat) : [q EXCEPT !.payload = x] \in ChainRun
         /\ \A x \in BOOLEAN : [q EXCEPT !.denied = x] \in ChainRun
         /\ \A x \in Nat : [q EXCEPT !.reason = x] \in ChainRun
         /\ \A x \in Seq(Said) : [q EXCEPT !.said = x] \in ChainRun
<1>1. \A x \in ChainLabels : [q EXCEPT !.pc = x] \in ChainRun
  BY Zenon DEF ChainRun, ChainLabels
<1>2. \A x \in Seq(Binding) : [q EXCEPT !.bindings = x] \in ChainRun
  BY Zenon DEF ChainRun
<1>3. \A x \in Nat \ {0} : [q EXCEPT !.i = x] \in ChainRun
  BY Zenon DEF ChainRun
<1>4. \A x \in Seq(Nat) : [q EXCEPT !.payload = x] \in ChainRun
  BY Zenon DEF ChainRun
<1>5. \A x \in BOOLEAN : [q EXCEPT !.denied = x] \in ChainRun
  BY Zenon DEF ChainRun
<1>6. \A x \in Nat : [q EXCEPT !.reason = x] \in ChainRun
  BY Zenon DEF ChainRun
<1>7. \A x \in Seq(Said) : [q EXCEPT !.said = x] \in ChainRun
  BY Zenon DEF ChainRun
<1> QED
  BY <1>1, <1>2, <1>3, <1>4, <1>5, <1>6, <1>7, Zenon

\* Setting one element of a sequence.
LEMMA SeqSet ==
  ASSUME NEW S, NEW s \in Seq(S), NEW i \in 1..Len(s), NEW w \in S,
         NEW u, u = [s EXCEPT ![i] = w]
  PROVE  /\ u \in Seq(S) /\ Len(u) = Len(s) /\ u[i] = w
         /\ \A j \in 1..Len(s) : j # i => u[j] = s[j]
<1>1. s \in [1..Len(s) -> S] /\ Len(s) \in Nat
  OBVIOUS
<1>2. u \in [1..Len(s) -> S] /\ u[i] = w /\ \A j \in 1..Len(s) : j # i => u[j] = s[j]
  BY <1>1, Zenon
<1> QED
  BY <1>1, <1>2

\* The locals after each kind of step: v comes after q.
StartedOn(q, v, bindings) ==
  v = [q EXCEPT !.pc = "next", !.bindings = bindings,
                !.said = [i \in DOMAIN bindings |-> "nothing"]]

PassedOver(q, v) == v = [q EXCEPT !.i = q.i + 1, !.pc = "next"]

Refused(q, v, w) ==
  v = [q EXCEPT !.pc = "done", !.denied = TRUE, !.reason = q.i,
                !.said = [q.said EXCEPT ![q.i] = w]]

MovedTo(q, v, to) == v = [q EXCEPT !.pc = to]

WentOn(q, v, o) ==
  v = [q EXCEPT !.i = q.i + 1, !.pc = "next",
                !.said = [q.said EXCEPT ![q.i] = o.said],
                !.payload = IF o.got = "mutate" THEN Append(q.payload, q.i)
                                                ELSE q.payload]

\* The counters only grow.
LEMMA RunOKMonotone ==
  ASSUME NEW q, NEW s, NEW u, RunOK(q, s), Noticed(s) => Noticed(u)
  PROVE  RunOK(q, u)
<1>1. PassedOK(q, s) => PassedOK(q, u)
  BY Zenon DEF PassedOK
<1> QED
  BY <1>1, Zenon DEF RunOK

\* The chain starts.
LEMMA RunChainKeeps ==
  ASSUME NEW q \in ChainRun, NEW s, RunOK(q, s), q.pc = "idle",
         NEW bindings \in Seq(Binding), NEW v, StartedOn(q, v, bindings)
  PROVE  v \in ChainRun /\ RunOK(v, s) /\ v.i = q.i
<1> DEFINE said == [i \in DOMAIN bindings |-> "nothing"]
           a == [q EXCEPT !.pc = "next"]
           b == [a EXCEPT !.bindings = bindings]
           c == [b EXCEPT !.said = said]
<1>1. said \in Seq(Said) /\ Len(said) = Len(bindings)
      /\ \A j \in 1..Len(said) : said[j] = "nothing"
  <2>1. DOMAIN bindings = 1..Len(bindings) /\ Len(bindings) \in Nat
    OBVIOUS
  <2>2. said \in [1..Len(bindings) -> Said]
    BY <2>1, Zenon DEF Said
  <2> QED
    BY <2>1, <2>2
<1>2. a \in ChainRun
  BY ChainRunSet, Zenon DEF ChainLabels
<1>3. b \in ChainRun
  BY <1>2, ChainRunSet, Zenon
<1>4. c \in ChainRun
  BY <1>1, <1>3, ChainRunSet, Zenon
<1>5. v = c
  BY Zenon DEF StartedOn
<1>6. /\ v.pc = "next" /\ v.bindings = bindings /\ v.said = said
      /\ v.i = q.i /\ v.payload = q.payload /\ v.denied = q.denied
  BY <1>5, Zenon DEF ChainRun
<1>7. q.i = 1 /\ q.payload = <<>> /\ ~q.denied
  BY Zenon DEF RunOK
<1>8. PassedOK(v, s)
  BY <1>6, <1>7 DEF PassedOK
<1>9. RunOK(v, s)
  BY <1>1, <1>6, <1>7, <1>8 DEF RunOK
<1> QED
  BY <1>4, <1>5, <1>6, <1>9, Zenon

\* A binding is passed over: it does not block, or it is fail-open, missing and
\* counted.
LEMMA PassKeeps ==
  ASSUME NEW q \in ChainRun, NEW s, RunOK(q, s), q.pc = "next",
         q.i <= Len(q.bindings),
         q.bindings[q.i].blocking => q.bindings[q.i].mode = "open" /\ Noticed(s),
         NEW v, PassedOver(q, v)
  PROVE  v \in ChainRun /\ RunOK(v, s) /\ v.i = q.i + 1
<1> DEFINE a == [q EXCEPT !.i = q.i + 1]
           b == [a EXCEPT !.pc = "next"]
<1>0. q.i \in Nat \ {0} /\ q.i + 1 \in Nat \ {0}
  BY DEF ChainRun
<1>1. a \in ChainRun
  BY <1>0, ChainRunSet, Zenon
<1>2. b \in ChainRun
  BY <1>1, ChainRunSet, Zenon DEF ChainLabels
<1>3. v = b
  BY Zenon DEF PassedOver
<1>4. /\ v.pc = "next" /\ v.bindings = q.bindings /\ v.said = q.said
      /\ v.i = q.i + 1 /\ v.payload = q.payload /\ v.denied = q.denied
  BY <1>3, Zenon DEF ChainRun
<1>5. /\ ~q.denied /\ PassedOK(q, s) /\ Len(q.said) = Len(q.bindings)
      /\ \A j \in 1..Len(q.said) : j >= q.i => q.said[j] = "nothing"
  BY Zenon DEF RunOK
<1>6. Len(q.bindings) \in Nat /\ q.said[q.i] = "nothing"
  BY <1>0, <1>5 DEF ChainRun
<1> HIDE DEF a, b
<1>7. PassedOK(v, s)
  <2>1. ASSUME NEW j \in 1..Len(v.bindings), j < v.i, v.bindings[j].blocking
        PROVE  \/ v.said[j] \in {"allow", "mutate"}
               \/ v.said[j] = "nothing" /\ v.bindings[j].mode = "open" /\ Noticed(s)
    <3>1. CASE j = q.i
      BY <1>4, <1>6, <2>1, <3>1, Zenon
    <3>2. CASE j < q.i
      BY <1>4, <1>5, <2>1, <3>2 DEF PassedOK
    <3> QED
      BY <1>0, <1>4, <2>1, <3>1, <3>2
  <2>2. ASSUME NEW x \in 1..Len(v.payload)
        PROVE  /\ v.payload[x] \in 1..Len(v.bindings) /\ v.payload[x] < v.i
               /\ Rewrote(v, v.payload[x])
    <3>1. /\ q.payload[x] \in 1..Len(q.bindings) /\ q.payload[x] < q.i
          /\ Rewrote(q, q.payload[x])
      BY <1>4, <1>5, Zenon DEF PassedOK
    <3> QED
      BY <1>0, <1>4, <3>1 DEF Rewrote
  <2>3. \A x, y \in 1..Len(v.payload) : x < y => v.payload[x] < v.payload[y]
    BY <1>4, <1>5, Zenon DEF PassedOK
  <2>4. ASSUME NEW j \in 1..Len(v.bindings), j < v.i, Rewrote(v, j)
        PROVE  \E x \in 1..Len(v.payload) : v.payload[x] = j
    <3>1. Rewrote(q, j) /\ j # q.i
      BY <1>4, <1>6, <2>4, Zenon DEF Rewrote
    <3>2. j < q.i
      BY <1>0, <1>4, <2>4, <3>1
    <3> QED
      BY <1>4, <1>5, <3>1, <3>2 DEF PassedOK
  <2> QED
    BY <2>1, <2>2, <2>3, <2>4, Zenon DEF PassedOK
<1>8. RunOK(v, s)
  <2>1. \A j \in 1..Len(v.said) : j >= v.i => v.said[j] = "nothing"
    BY <1>0, <1>4, <1>5
  <2> QED
    BY <1>4, <1>5, <1>7, <2>1, Zenon DEF RunOK
<1> QED
  BY <1>2, <1>3, <1>4, <1>8, Zenon

\* The chain refuses the request.
LEMMA DenyKeeps ==
  ASSUME NEW q \in ChainRun, NEW s, RunOK(q, s), q.i <= Len(q.bindings),
         NEW w \in Said, NEW v, Refused(q, v, w)
  PROVE  v \in ChainRun /\ RunOK(v, s) /\ v.i = q.i
<1> DEFINE said == [q.said EXCEPT ![q.i] = w]
           a == [q EXCEPT !.pc = "done"]
           b == [a EXCEPT !.denied = TRUE]
           c == [b EXCEPT !.reason = q.i]
           d == [c EXCEPT !.said = said]
<1>0. q.i \in Nat /\ q.said \in Seq(Said) /\ q.i \in 1..Len(q.said)
  BY DEF ChainRun, RunOK
<1>1. said \in Seq(Said) /\ Len(said) = Len(q.said)
  BY <1>0, SeqSet
<1>2. a \in ChainRun
  BY ChainRunSet, Zenon DEF ChainLabels
<1>3. b \in ChainRun
  BY <1>2, ChainRunSet, Zenon
<1>4. c \in ChainRun
  BY <1>0, <1>3, ChainRunSet, Zenon
<1>5. d \in ChainRun
  BY <1>1, <1>4, ChainRunSet, Zenon
<1>6. v = d
  BY Zenon DEF Refused
<1>7. /\ v.pc = "done" /\ v.denied = TRUE /\ v.said = said /\ v.i = q.i
      /\ v.bindings = q.bindings
  BY <1>6, Zenon DEF ChainRun
<1>8. RunOK(v, s)
  BY <1>1, <1>7, Zenon DEF RunOK
<1> QED
  BY <1>5, <1>6, <1>7, <1>8, Zenon

\* A blocking guardrail is called, and the chain comes to its end.
LEMMA LabelKeeps ==
  ASSUME NEW q \in ChainRun, NEW s, RunOK(q, s), q.pc = "next",
         NEW to, NEW v, MovedTo(q, v, to),
         \/ to = "inspect" /\ q.i <= Len(q.bindings) /\ q.bindings[q.i].blocking
         \/ to = "done" /\ q.i > Len(q.bindings)
  PROVE  v \in ChainRun /\ RunOK(v, s) /\ v.i = q.i
<1>1. v \in ChainRun
  BY ChainRunSet, Zenon DEF ChainLabels, MovedTo
<1>2. /\ v.pc = to /\ v.bindings = q.bindings /\ v.said = q.said /\ v.i = q.i
      /\ v.payload = q.payload /\ v.denied = q.denied
  BY Zenon DEF ChainRun, MovedTo
<1>3. PassedOK(q, s) => PassedOK(v, s)
  BY <1>2 DEF PassedOK, Rewrote
<1>4. RunOK(v, s)
  BY <1>2, <1>3, Zenon DEF RunOK
<1> QED
  BY <1>1, <1>2, <1>4, Zenon

\* A blocking guardrail has answered and the chain goes on.
LEMMA InspectedKeeps ==
  ASSUME NEW q \in ChainRun, NEW s, RunOK(q, s), q.pc = "inspect",
         NEW o, Agrees(o), o.got # "deny",
         o.got = "error" => q.bindings[q.i].mode # "closed" /\ Noticed(s),
         q.bindings[q.i].mode \in {"open", "closed"},
         NEW v, WentOn(q, v, o)
  PROVE  v \in ChainRun /\ RunOK(v, s) /\ v.i = q.i + 1
<1> DEFINE said == [q.said EXCEPT ![q.i] = o.said]
           payload == IF o.got = "mutate" THEN Append(q.payload, q.i) ELSE q.payload
           a == [q EXCEPT !.i = q.i + 1]
           b == [a EXCEPT !.pc = "next"]
           c == [b EXCEPT !.said = said]
           d == [c EXCEPT !.payload = payload]
           L == Len(q.bindings)
<1>0. /\ q.i \in Nat \ {0} /\ q.i + 1 \in Nat \ {0} /\ L \in Nat
      /\ q.said \in Seq(Said) /\ q.payload \in Seq(Nat)
      /\ q.i \in 1..L /\ Len(q.said) = L
  BY DEF ChainRun, RunOK
<1>1. /\ said \in Seq(Said) /\ Len(said) = L /\ said[q.i] = o.said
      /\ \A j \in 1..L : j # q.i => said[j] = q.said[j]
  <2>1. o.said \in Said
    BY Zenon DEF Agrees
  <2> QED
    BY <1>0, <2>1, SeqSet
<1>2. payload \in Seq(Nat)
  BY <1>0
<1>3. a \in ChainRun
  BY <1>0, ChainRunSet, Zenon
<1>4. b \in ChainRun
  BY <1>3, ChainRunSet, Zenon DEF ChainLabels
<1>5. c \in ChainRun
  BY <1>1, <1>4, ChainRunSet, Zenon
<1>6. d \in ChainRun
  BY <1>2, <1>5, ChainRunSet, Zenon
<1>7. v = d
  BY Zenon DEF WentOn
<1>8. /\ v.pc = "next" /\ v.bindings = q.bindings /\ v.said = said
      /\ v.i = q.i + 1 /\ v.payload = payload /\ v.denied = q.denied
  BY <1>7, Zenon DEF ChainRun
<1> HIDE DEF a, b, c, d, said, payload
<1>p. payload = IF o.got = "mutate" THEN Append(q.payload, q.i) ELSE q.payload
  BY Zenon DEF payload
<1>9. /\ ~q.denied /\ PassedOK(q, s) /\ q.bindings[q.i].blocking
      /\ \A j \in 1..L : j >= q.i => q.said[j] = "nothing"
  BY <1>0, Zenon DEF RunOK
<1>10. PassedOK(v, s)
  <2>1. ASSUME NEW j \in 1..Len(v.bindings), j < v.i, v.bindings[j].blocking
        PROVE  \/ v.said[j] \in {"allow", "mutate"}
               \/ v.said[j] = "nothing" /\ v.bindings[j].mode = "open" /\ Noticed(s)
    <3>1. CASE j = q.i
      <4>1. said[j] = o.said
        BY <1>1, <3>1, Zenon
      <4>2. \/ o.said \in {"allow", "mutate"}
            \/ o.said = "nothing" /\ q.bindings[q.i].mode = "open" /\ Noticed(s)
        BY Zenon DEF Agrees
      <4> QED
        BY <1>8, <3>1, <4>1, <4>2, Zenon
    <3>2. CASE j < q.i
      <4>1. said[j] = q.said[j]
        BY <1>0, <1>1, <1>8, <2>1, <3>2, SMTT(30)
      <4> QED
        BY <1>8, <1>9, <2>1, <3>2, <4>1, SMTT(30) DEF PassedOK
    <3> QED
      BY <1>0, <1>8, <2>1, <3>1, <3>2
  <2>2. \A x \in 1..Len(q.payload) :
          /\ q.payload[x] \in 1..L /\ q.payload[x] < q.i /\ q.payload[x] < q.i + 1
          /\ Rewrote(v, q.payload[x])
    <3> TAKE x \in 1..Len(q.payload)
    <3>1. /\ q.payload[x] \in 1..L /\ q.payload[x] < q.i
          /\ Rewrote(q, q.payload[x])
      BY <1>9, Zenon DEF PassedOK
    <3>2. q.payload[x] < q.i + 1 /\ q.payload[x] # q.i
      <4>1. \A p \in Nat, n \in Nat : p < n => p < n + 1 /\ p # n
        OBVIOUS
      <4>2. q.payload[x] \in Nat
        BY <1>0, SMTT(30)
      <4> QED
        BY <1>0, <3>1, <4>1, <4>2, Zenon
    <3> QED
      BY <1>1, <1>8, <3>1, <3>2, Zenon DEF Rewrote
  <2>3. \A x, y \in 1..Len(q.payload) : x < y => q.payload[x] < q.payload[y]
    BY <1>9, Zenon DEF PassedOK
  <2>4. \A j \in 1..L : j < q.i /\ Rewrote(v, j) =>
          \E x \in 1..Len(q.payload) : q.payload[x] = j
    <3> TAKE j \in 1..L
    <3> HAVE j < q.i /\ Rewrote(v, j)
    <3>1. j # q.i
      BY <1>0
    <3>2. Rewrote(q, j)
      BY <1>1, <1>8, <3>1, Zenon DEF Rewrote
    <3> QED
      BY <1>9, <3>2, Zenon DEF PassedOK
  <2>5. CASE o.got = "mutate"
    <3>1. /\ payload = Append(q.payload, q.i)
          /\ Len(payload) = Len(q.payload) + 1 /\ Len(q.payload) \in Nat
          /\ payload[Len(q.payload) + 1] = q.i
          /\ \A x \in 1..Len(q.payload) : payload[x] = q.payload[x]
      BY <1>0, <1>p, <2>5
    <3>2. Rewrote(v, q.i)
      BY <1>1, <1>8, <1>9, <2>5, Zenon DEF Rewrote, Agrees
    <3>3. \A x \in 1..Len(payload) :
            /\ payload[x] \in 1..L /\ payload[x] < q.i + 1 /\ Rewrote(v, payload[x])
      BY <1>0, <2>2, <3>1, <3>2
    <3>4. \A x, y \in 1..Len(payload) : x < y => payload[x] < payload[y]
      <4> TAKE x, y \in 1..Len(payload)
      <4> HAVE x < y
      <4>1. x \in 1..Len(q.payload) /\ y \in 1..(Len(q.payload) + 1)
        BY <3>1
      <4>2. payload[x] = q.payload[x]
        BY <3>1, <4>1, Zenon
      <4>3. CASE y = Len(q.payload) + 1
        BY <2>2, <3>1, <4>1, <4>2, <4>3, Zenon
      <4>4. CASE y # Len(q.payload) + 1
        <5>1. y \in 1..Len(q.payload)
          BY <3>1, <4>1, <4>4
        <5> QED
          BY <2>3, <3>1, <4>1, <4>2, <5>1, Zenon
      <4> QED
        BY <4>3, <4>4, Zenon
    <3>5. \A j \in 1..L : j < q.i + 1 /\ Rewrote(v, j) =>
            \E x \in 1..Len(payload) : payload[x] = j
      <4> TAKE j \in 1..L
      <4> HAVE j < q.i + 1 /\ Rewrote(v, j)
      <4>1. CASE j = q.i
        <5>1. Len(q.payload) + 1 \in 1..Len(payload)
          BY <3>1
        <5> QED
          BY <3>1, <4>1, <5>1, Zenon
      <4>2. CASE j < q.i
        <5>1. PICK x \in 1..Len(q.payload) : q.payload[x] = j
          BY <2>4, <4>2, Zenon
        <5>2. x \in 1..Len(payload)
          BY <3>1, SMTT(30)
        <5> QED
          BY <3>1, <5>1, <5>2, Zenon
      <4> QED
        BY <1>0, <4>1, <4>2
    <3> QED
      BY <1>8, <2>1, <3>3, <3>4, <3>5 DEF PassedOK
  <2>6. CASE o.got # "mutate"
    <3>1. payload = q.payload
      BY <1>p, <2>6, Zenon
    <3>2. ~Rewrote(v, q.i)
      BY <1>1, <1>8, <2>6, Zenon DEF Rewrote, Agrees
    <3>3. \A j \in 1..L : j < q.i + 1 /\ Rewrote(v, j) =>
            \E x \in 1..Len(payload) : payload[x] = j
      <4> TAKE j \in 1..L
      <4> HAVE j < q.i + 1 /\ Rewrote(v, j)
      <4>1. j < q.i
        BY <1>0, <3>2, SMTT(30)
      <4> QED
        BY <2>4, <3>1, <4>1, Zenon
    <3> QED
      BY <1>8, <2>1, <2>2, <2>3, <3>1, <3>3 DEF PassedOK
  <2> QED
    BY <2>5, <2>6, Zenon
<1>11. \A j \in 1..Len(v.said) : j >= v.i => v.said[j] = "nothing"
  <2>1. \A j \in 1..L : j >= q.i + 1 => j >= q.i /\ j # q.i
    BY <1>0
  <2>2. \A j \in 1..L : j >= q.i + 1 => said[j] = "nothing"
    BY <1>1, <1>9, <2>1, Zenon
  <2> QED
    BY <1>1, <1>8, <2>2, Zenon
<1>12. RunOK(v, s)
  BY <1>1, <1>8, <1>9, <1>10, <1>11, Zenon DEF RunOK
<1> QED
  BY <1>6, <1>7, <1>8, <1>12, Zenon

-----------------------------------------------------------------------------
(* The goroutines and the steps *)

\* Counting moves one counter, and never back.
LEMMA CountGrows ==
  ASSUME stats \in [ChainCounters -> Nat], NEW field \in ChainCounters
  PROVE  /\ Count(field) \in [ChainCounters -> Nat]
         /\ Noticed(stats) => Noticed(Count(field))
         /\ field \in {"failedOpen", "skipped"} => Noticed(Count(field))
BY DEF Count, ChainCounters, Noticed

\* The goroutines when a step starts or ends none and moves no index back.
LEMMA TasksUntouched ==
  ASSUME TasksInv, ChainTypeOK, tasks' = tasks, offPath' = offPath, wg' = wg,
         \A r \in Guarded : run[r].i <= run'[r].i,
         run' \in [Guarded -> ChainRun]
  PROVE  TasksInv'
<1>1. \A t \in tasks : t.i < run'[t.req].i
  <2> TAKE t \in tasks
  <2>1. t.req \in Guarded /\ t.i \in Nat
    BY Zenon DEF ChainTypeOK, Task
  <2>2. run[t.req].i \in Nat /\ run'[t.req].i \in Nat
    BY <2>1, Zenon DEF ChainTypeOK, ChainRun
  <2>3. t.i < run[t.req].i /\ run[t.req].i <= run'[t.req].i
    BY <2>1, Zenon DEF TasksInv
  <2> QED
    BY <2>1, <2>2, <2>3
<1>2. Holders' = Holders
  BY Zenon DEF Holders
<1> QED
  BY <1>1, <1>2, Zenon DEF TasksInv

\* A step of Chain.Run that starts no goroutine.
LEMMA RunStepKept ==
  ASSUME ChainInv, NEW r \in Guarded, NEW v \in ChainRun, RunOK(v, stats'),
         run' = [run EXCEPT ![r] = v], run[r].i <= v.i,
         stats' \in [ChainCounters -> Nat], Noticed(stats) => Noticed(stats'),
         UNCHANGED <<tasks, offPath, wg, stage>>
  PROVE  ChainInv'
<1>1. run' \in [Guarded -> ChainRun] /\ run'[r] = v
      /\ \A q \in Guarded \ {r} : run'[q] = run[q]
  BY Zenon DEF ChainInv, ChainTypeOK
<1>2. \A q \in Guarded : RunOK(run'[q], stats')
  BY <1>1, RunOKMonotone, Zenon DEF ChainInv
<1>3. \A q \in Guarded : run[q].i <= run'[q].i
  <2> TAKE q \in Guarded
  <2>1. run[q].i \in Nat
    BY Zenon DEF ChainInv, ChainTypeOK, ChainRun
  <2> QED
    BY <1>1, <2>1
<1>4. TasksInv'
  BY <1>1, <1>3, TasksUntouched, Zenon DEF ChainInv
<1> QED
  BY <1>1, <1>2, <1>4, Zenon DEF ChainInv, ChainTypeOK

\* Every step of Chain.Run keeps the invariant.
LEMMA ChainStepKept ==
  ASSUME ChainInv, NEW r \in Guarded,
         \/ \E bindings \in Chains : RunChain(r, bindings)
         \/ Missing(r) \/ Saturated(r) \/ Inspect(r) \/ ChainReturns(r)
         \/ \E o \in Outcomes(Kind(r, run[r].i)) : Inspected(r, o)
  PROVE  ChainInv'
<1> DEFINE q == run[r]
<1>0. /\ q \in ChainRun /\ RunOK(q, stats) /\ run \in [Guarded -> ChainRun]
      /\ stats \in [ChainCounters -> Nat]
      /\ q.i \in Nat /\ q.bindings \in Seq(Binding)
  BY Zenon DEF ChainInv, ChainTypeOK, ChainRun
<1>m. ASSUME q.i <= Len(q.bindings)
      PROVE  B(r) \in Binding /\ B(r).mode \in {"open", "closed"}
             /\ B(r).blocking \in BOOLEAN
  <2>1. q.i \in 1..Len(q.bindings)
    BY <1>0, <1>m DEF ChainRun
  <2>2. B(r) \in Binding
    BY <1>0, <2>1, SMTT(30) DEF B
  <2> QED
    BY <2>2, Zenon DEF Binding
<1>1. ASSUME NEW bindings \in Chains, RunChain(r, bindings) PROVE ChainInv'
  <2> DEFINE said == [i \in DOMAIN bindings |-> "nothing"]
             v == [q EXCEPT !.pc = "next", !.bindings = bindings, !.said = said]
  <2>1. bindings \in Seq(Binding)
    BY ChainAssumption, Zenon
  <2>2. q.pc = "idle" /\ run' = [run EXCEPT ![r] = v]
        /\ stats' = stats /\ UNCHANGED <<tasks, offPath, wg, stage>>
    BY <1>0, <1>1, Zenon DEF RunChain
  <2> HIDE DEF q
  <2>s. StartedOn(q, v, bindings)
    BY Zenon DEF StartedOn
  <2> HIDE DEF v
  <2>3. v \in ChainRun /\ RunOK(v, stats) /\ v.i = q.i
    BY <1>0, <2>1, <2>2, <2>s, RunChainKeeps, Zenon
  <2>4. run[r].i <= v.i
    BY <1>0, <2>3 DEF q
  <2> QED
    BY <1>0, <2>2, <2>3, <2>4, RunStepKept, Zenon
<1>2. ASSUME Missing(r) \/ Saturated(r), run' = [run EXCEPT ![r].i = @ + 1, ![r].pc = "next"],
             stats' = Count("skipped"), ~(B(r).mode = "closed" /\ B(r).blocking) \/ ~B(r).blocking
      PROVE  ChainInv'
  <2> DEFINE v == [q EXCEPT !.i = q.i + 1, !.pc = "next"]
  <2>1. q.pc = "next" /\ q.i <= Len(q.bindings) /\ UNCHANGED <<tasks, offPath, wg, stage>>
    BY <1>2, Zenon DEF Missing, Saturated, AtBinding
  <2>2. run' = [run EXCEPT ![r] = v]
    BY <1>0, <1>2, ZenonT(30)
  <2>3. stats' \in [ChainCounters -> Nat] /\ Noticed(stats') /\ "skipped" \in ChainCounters
    BY <1>0, <1>2, CountGrows, Zenon DEF ChainCounters
  <2>4. RunOK(q, stats')
    BY <1>0, <2>3, RunOKMonotone, Zenon
  <2>5. q.bindings[q.i].blocking => q.bindings[q.i].mode = "open" /\ Noticed(stats')
    BY <1>2, <1>m, <2>1, <2>3, Zenon DEF B
  <2> HIDE DEF q
  <2>6. v \in ChainRun /\ RunOK(v, stats') /\ v.i = q.i + 1
    <3> DEFINE s == stats'
    <3> HIDE DEF s
    <3>1. RunOK(q, s) /\ (q.bindings[q.i].blocking =>
                            q.bindings[q.i].mode = "open" /\ Noticed(s))
      BY <2>4, <2>5, Zenon DEF s
    <3>2. PassedOver(q, v)
      BY Zenon DEF PassedOver
    <3> HIDE DEF v
    <3>3. v \in ChainRun /\ RunOK(v, s) /\ v.i = q.i + 1
      BY <1>0, <2>1, <3>1, <3>2, PassKeeps, Zenon
    <3> QED
      BY <3>3, Zenon DEF s
  <2> HIDE DEF v
  <2>7. run[r].i <= v.i
    BY <1>0, <2>6 DEF q
  <2> QED
    BY <2>1, <2>2, <2>3, <2>6, <2>7, RunStepKept, Zenon
<1>3. ASSUME NEW w \in Said, Deny(r, w), q.i <= Len(q.bindings),
             stats' \in [ChainCounters -> Nat], Noticed(stats) => Noticed(stats'),
             UNCHANGED <<tasks, offPath, wg, stage>>
      PROVE  ChainInv'
  <2> DEFINE said == [q.said EXCEPT ![q.i] = w]
             v == [q EXCEPT !.pc = "done", !.denied = TRUE, !.reason = q.i,
                            !.said = said]
  <2>1. run' = [run EXCEPT ![r] = v]
    BY <1>0, <1>3, Zenon DEF Deny
  <2> HIDE DEF q
  <2>2. v \in ChainRun /\ RunOK(v, stats) /\ v.i = q.i
    <3>1. Refused(q, v, w)
      BY Zenon DEF Refused
    <3> HIDE DEF v
    <3> QED
      BY <1>0, <1>3, <3>1, DenyKeeps, Zenon
  <2> HIDE DEF v
  <2>3. RunOK(v, stats')
    BY <1>3, <2>2, RunOKMonotone, Zenon
  <2>4. run[r].i <= v.i
    BY <1>0, <2>2 DEF q
  <2> QED
    BY <1>3, <2>1, <2>2, <2>3, <2>4, RunStepKept, Zenon
<1>4. CASE Missing(r)
  <2>1. CASE B(r).mode = "closed" /\ B(r).blocking
    <3>1. /\ Deny(r, "nothing") /\ q.i <= Len(q.bindings)
          /\ UNCHANGED <<tasks, offPath, wg, stage>>
          /\ stats' = [Count("skipped") EXCEPT !.failedShut = @ + 1]
      BY <1>4, <2>1, Zenon DEF Missing, AtBinding
    <3>2. PICK c : c = Count("skipped")
      BY Zenon
    <3>3. "skipped" \in ChainCounters /\ c \in [ChainCounters -> Nat] /\ Noticed(c)
      BY <1>0, <3>2, CountGrows, Zenon DEF ChainCounters
    <3>4. stats' = [c EXCEPT !["failedShut"] = @ + 1]
      BY <3>1, <3>2, Zenon
    <3>5. stats' \in [ChainCounters -> Nat] /\ Noticed(stats')
      BY <3>3, <3>4 DEF ChainCounters, Noticed
    <3> QED
      BY <1>3, <3>1, <3>5, Zenon DEF Said
  <2>2. CASE ~(B(r).mode = "closed" /\ B(r).blocking)
    BY <1>2, <1>4, <2>2, Zenon DEF Missing, Pass
  <2> QED
    BY <2>1, <2>2, Zenon
<1>5. CASE Saturated(r)
  BY <1>2, <1>5, Zenon DEF Saturated, Pass
<1>6. CASE Inspect(r) \/ ChainReturns(r)
  <2>1. PICK to \in {"inspect", "done"} :
          /\ run' = [run EXCEPT ![r].pc = to] /\ q.pc = "next"
          /\ \/ to = "inspect" /\ q.i <= Len(q.bindings) /\ q.bindings[q.i].blocking
             \/ to = "done" /\ q.i > Len(q.bindings)
    BY <1>6, Zenon DEF Inspect, ChainReturns, AtBinding, B
  <2>2. stats' = stats \/ stats' = Count("evaluated")
    BY <1>6, Zenon DEF Inspect, ChainReturns
  <2>3. UNCHANGED <<tasks, offPath, wg, stage>>
    BY <1>6, Zenon DEF Inspect, ChainReturns
  <2>4. stats' \in [ChainCounters -> Nat] /\ (Noticed(stats) => Noticed(stats'))
    <3>1. "evaluated" \in ChainCounters
      BY Zenon DEF ChainCounters
    <3> QED
      BY <1>0, <2>2, <3>1, CountGrows, Zenon
  <2> DEFINE v == [q EXCEPT !.pc = to]
  <2>5. run' = [run EXCEPT ![r] = v]
    BY <1>0, <2>1, Zenon
  <2> HIDE DEF q
  <2>6. v \in ChainRun /\ RunOK(v, stats) /\ v.i = q.i
    <3>1. MovedTo(q, v, to)
      BY Zenon DEF MovedTo
    <3> HIDE DEF v
    <3> QED
      BY <1>0, <2>1, <3>1, LabelKeeps, Zenon
  <2> HIDE DEF v
  <2>7. RunOK(v, stats')
    BY <2>4, <2>6, RunOKMonotone, Zenon
  <2>8. run[r].i <= v.i
    BY <1>0, <2>6 DEF q
  <2> QED
    BY <2>3, <2>4, <2>5, <2>6, <2>7, <2>8, RunStepKept, Zenon
<1>7. ASSUME NEW o \in Outcomes(Kind(r, q.i)), Inspected(r, o) PROVE ChainInv'
  <2> DEFINE said == [q.said EXCEPT ![q.i] = o.said]
             payload == IF o.got = "mutate" THEN Append(q.payload, q.i) ELSE q.payload
             v == [q EXCEPT !.i = q.i + 1, !.pc = "next", !.said = said,
                            !.payload = payload]
  <2>1. q.pc = "inspect" /\ Agrees(o) /\ UNCHANGED <<tasks, offPath, wg, stage>>
    BY <1>7, OutcomesAgree, ZenonT(30) DEF Inspected
  <2>2. q.i <= Len(q.bindings) /\ q.bindings[q.i].blocking
    BY <1>0, <2>1, Zenon DEF RunOK
  <2>3. /\ Count("denied") \in [ChainCounters -> Nat]
        /\ Count("failedShut") \in [ChainCounters -> Nat]
        /\ Count("failedOpen") \in [ChainCounters -> Nat]
        /\ Count("mutated") \in [ChainCounters -> Nat]
        /\ Noticed(stats) => /\ Noticed(Count("denied")) /\ Noticed(Count("failedShut"))
                             /\ Noticed(Count("mutated"))
        /\ Noticed(Count("failedOpen"))
    <3>1. {"denied", "failedShut", "failedOpen", "mutated"} \subseteq ChainCounters
      BY Zenon DEF ChainCounters
    <3> QED
      BY <1>0, <3>1, CountGrows, ZenonT(30)
  <2>4. CASE o.got = "deny"
    <3>1. stats' = Count("denied") /\ Deny(r, o.said)
      BY <1>7, <2>4, Zenon DEF Inspected
    <3> QED
      BY <1>3, <2>1, <2>2, <2>3, <3>1, Zenon DEF Agrees
  <2>5. CASE o.got = "error" /\ B(r).mode = "closed"
    <3>1. stats' = Count("failedShut") /\ Deny(r, o.said)
      BY <1>7, <2>5, Zenon DEF Inspected
    <3> QED
      BY <1>3, <2>1, <2>2, <2>3, <3>1, Zenon DEF Agrees
  <2>6. CASE o.got # "deny" /\ ~(o.got = "error" /\ B(r).mode = "closed")
    <3>1. /\ stats' = CASE o.got = "error" -> Count("failedOpen")
                         [] o.got = "mutate" -> Count("mutated")
                         [] OTHER -> stats
          /\ run' = [run EXCEPT ![r].i = @ + 1, ![r].pc = "next",
                                ![r].said = [@ EXCEPT ![run[r].i] = o.said],
                                ![r].payload = IF o.got = "mutate"
                                               THEN Append(@, run[r].i) ELSE @]
      BY <1>7, <2>6, Zenon DEF Inspected
    <3>2. stats' \in [ChainCounters -> Nat] /\ (Noticed(stats) => Noticed(stats'))
          /\ (o.got = "error" => Noticed(stats'))
      <4>1. CASE o.got = "error"
        BY <2>3, <3>1, <4>1, Zenon
      <4>2. CASE o.got = "mutate"
        BY <2>3, <3>1, <4>2, Zenon
      <4>3. CASE o.got \notin {"error", "mutate"}
        BY <1>0, <3>1, <4>3, Zenon
      <4> QED
        BY <4>1, <4>2, <4>3, Zenon
    <3>3. run' = [run EXCEPT ![r] = v]
      BY <1>0, <3>1, Zenon
    <3>4. PICK s : s = stats'
      BY Zenon
    <3>5. /\ RunOK(q, s) /\ q.bindings[q.i].mode \in {"open", "closed"}
          /\ o.got = "error" => q.bindings[q.i].mode # "closed" /\ Noticed(s)
      <4>1. RunOK(q, s)
        BY <1>0, <3>2, <3>4, RunOKMonotone, Zenon
      <4> QED
        BY <1>m, <2>2, <2>6, <3>2, <3>4, <4>1, Zenon DEF B
    <3>6. WentOn(q, v, o)
      BY Zenon DEF WentOn
    <3> HIDE DEF q, v
    <3>7. v \in ChainRun /\ RunOK(v, s) /\ v.i = q.i + 1
      BY <1>0, <2>1, <2>6, <3>5, <3>6, InspectedKeeps, Zenon
    <3>8. run[r].i <= v.i
      BY <1>0, <3>7, SMTT(30) DEF q
    <3> QED
      BY <2>1, <3>2, <3>3, <3>4, <3>7, <3>8, RunStepKept, Zenon
  <2> QED
    BY <2>4, <2>5, <2>6, Zenon
<1> QED
  BY <1>1, <1>4, <1>5, <1>6, <1>7, Zenon

\* Starting a goroutine: its task is new, because the request is past no binding
\* from this one on.
LEMMA DispatchKept ==
  ASSUME ChainInv, NEW r \in Guarded, dispatch(r)
  PROVE  ChainInv'
<1> DEFINE q == run[r]
           v == [q EXCEPT !.i = q.i + 1, !.pc = "next"]
           n == [req |-> r, i |-> q.i, stage |-> "spawned"]
<1>0. /\ q \in ChainRun /\ RunOK(q, stats) /\ run \in [Guarded -> ChainRun]
      /\ q.i \in Nat \ {0} /\ TasksInv /\ tasks \subseteq Task
  BY Zenon DEF ChainInv, ChainTypeOK, ChainRun
<1>1. /\ q.pc = "next" /\ q.i <= Len(q.bindings) /\ ~q.bindings[q.i].blocking
      /\ offPath < OffPathLimit /\ offPath' = offPath + 1 /\ wg' = wg + 1
      /\ tasks' = tasks \cup {n}
      /\ UNCHANGED <<stats, stage>>
  BY Zenon DEF dispatch, AtBinding, B
<1>2. run' = [run EXCEPT ![r] = v]
  BY <1>0, Zenon DEF dispatch, Pass
<1>3. PassedOver(q, v)
  BY Zenon DEF PassedOver
<1>4. n \in Task /\ n.req = r /\ n.i = q.i /\ n.stage = "spawned"
  BY <1>0, Zenon DEF Task
<1> HIDE DEF v, n
<1>5. v \in ChainRun /\ RunOK(v, stats) /\ v.i = q.i + 1
  <2> HIDE DEF q
  <2> QED
    BY <1>0, <1>1, <1>3, PassKeeps, Zenon
<1>6. /\ run' \in [Guarded -> ChainRun] /\ run'[r] = v
      /\ \A p \in Guarded \ {r} : run'[p] = run[p]
  BY <1>0, <1>2, <1>5, Zenon
<1>7. \A p \in Guarded : RunOK(run'[p], stats')
  BY <1>1, <1>5, <1>6, Zenon DEF ChainInv
<1>8. \A t \in tasks : ~(t.req = r /\ t.i = q.i)
  <2> SUFFICES ASSUME NEW t \in tasks, t.req = r, t.i = q.i PROVE FALSE
    BY Zenon
  <2>1. t.i < run[t.req].i
    BY <1>0, Zenon DEF TasksInv
  <2> QED
    BY <1>0, <2>1
<1>9. n \notin tasks
  BY <1>4, <1>8, Zenon
<1>10. TasksInv'
  <2>1. IsFiniteSet(tasks') /\ Cardinality(tasks') = Cardinality(tasks) + 1
    BY <1>0, <1>1, <1>9, FS_AddElement, Zenon DEF TasksInv
  <2>2. IsFiniteSet(Holders) /\ Holders' = Holders \cup {n} /\ n \notin Holders
    <3>1. Holders \subseteq tasks
      BY Zenon DEF Holders
    <3>2. IsFiniteSet(Holders)
      BY <1>0, <3>1, FS_Subset, Zenon DEF TasksInv
    <3> QED
      BY <1>1, <1>4, <1>9, <3>1, <3>2, Zenon DEF Holders
  <2>3. Cardinality(Holders') = Cardinality(Holders) + 1
    BY <2>2, FS_AddElement, Zenon
  <2>4. ASSUME NEW t \in tasks' PROVE t.i < run'[t.req].i
    <3>1. CASE t = n
      BY <1>0, <1>4, <1>5, <1>6, <3>1
    <3>2. CASE t \in tasks
      <4>1. t.req \in Guarded /\ t.i \in Nat /\ t.i < run[t.req].i
        BY <1>0, <3>2, Zenon DEF Task, TasksInv
      <4>2. CASE t.req = r
        <5>1. t.i < q.i
          BY <4>1, <4>2, Zenon
        <5>2. run'[t.req].i = q.i + 1
          BY <1>5, <1>6, <4>2, Zenon
        <5> HIDE DEF q
        <5> QED
          BY <1>0, <4>1, <5>1, <5>2, SMTT(30)
      <4>3. CASE t.req # r
        BY <1>6, <4>1, <4>3, Zenon
      <4> QED
        BY <4>2, <4>3, Zenon
    <3> QED
      BY <1>1, <3>1, <3>2, Zenon
  <2>5. ASSUME NEW t \in tasks', NEW u \in tasks', t.req = u.req, t.i = u.i
        PROVE  t = u
    BY <1>0, <1>1, <1>4, <1>8, <2>5, Zenon DEF TasksInv
  <2>6. offPath' <= OffPathLimit
    BY <1>1, ChainAssumption DEF ChainInv, ChainTypeOK
  <2> QED
    BY <1>0, <1>1, <2>1, <2>3, <2>4, <2>5, <2>6, Zenon DEF TasksInv
<1>11. tasks' \subseteq Task /\ offPath' \in Int /\ wg' \in Int
  BY <1>0, <1>1, <1>4 DEF ChainInv, ChainTypeOK
<1> QED
  BY <1>1, <1>6, <1>7, <1>10, <1>11, Zenon DEF ChainInv, ChainTypeOK

\* A goroutine moves on: its task is replaced by the same task at another stage.
LEMMA MoveTaskKept ==
  ASSUME ChainInv, NEW t \in tasks, NEW to \in {"inspecting", "releasing", "finishing"},
         t.stage # "finishing", Move(t, to),
         offPath' = IF to = "finishing" THEN offPath - 1 ELSE offPath,
         stats' \in [ChainCounters -> Nat], Noticed(stats) => Noticed(stats'),
         UNCHANGED <<run, wg, stage>>
  PROVE  ChainInv'
<1> DEFINE n == [t EXCEPT !.stage = to]
           rest == tasks \ {t}
           held == Holders \ {t}
<1>0. t \in Task /\ TasksInv /\ tasks \subseteq Task
  BY Zenon DEF ChainInv, ChainTypeOK
<1>1. n \in Task /\ n.req = t.req /\ n.i = t.i /\ n.stage = to
  BY <1>0, Zenon DEF Task
<1>2. tasks' = rest \cup {n}
  BY Zenon DEF Move
<1> HIDE DEF n
<1>3. n \notin rest
  BY <1>0, <1>1, Zenon DEF TasksInv
<1>4. IsFiniteSet(tasks') /\ Cardinality(tasks') = Cardinality(tasks)
  <2>1. IsFiniteSet(tasks)
    BY <1>0, Zenon DEF TasksInv
  <2>2. IsFiniteSet(rest) /\ Cardinality(rest) = Cardinality(tasks) - 1
    BY <2>1, FS_RemoveElement, Zenon
  <2>3. Cardinality(tasks) \in Nat
    BY <2>1, FS_CardinalityType, Zenon
  <2> HIDE DEF rest
  <2>4. IsFiniteSet(tasks') /\ Cardinality(tasks') = Cardinality(rest) + 1
    BY <1>2, <1>3, <2>2, FS_AddElement, Zenon
  <2> QED
    BY <2>2, <2>3, <2>4
<1>5. Cardinality(Holders') = IF to = "finishing" THEN Cardinality(Holders) - 1
                                                  ELSE Cardinality(Holders)
  <2>0. Holders \subseteq tasks /\ t \in Holders
    BY Zenon DEF Holders
  <2>1. IsFiniteSet(Holders)
    BY <1>0, <2>0, FS_Subset, Zenon DEF TasksInv
  <2>2. /\ IsFiniteSet(held) /\ Cardinality(held) = Cardinality(Holders) - 1
        /\ Cardinality(Holders) \in Nat
    BY <2>0, <2>1, FS_RemoveElement, FS_CardinalityType, Zenon
  <2>3. n \notin held
    BY <1>3, <2>0, Zenon
  <2>4. Holders' = IF to = "finishing" THEN held ELSE held \cup {n}
    BY <1>1, <1>2, Zenon DEF Holders
  <2> HIDE DEF held
  <2>5. Cardinality(held \cup {n}) = Cardinality(held) + 1
    BY <2>2, <2>3, FS_AddElement, Zenon
  <2> QED
    BY <2>2, <2>4, <2>5
<1>6. \A x \in tasks' : x.i < run'[x.req].i
  BY <1>0, <1>1, <1>2, Zenon DEF TasksInv
<1>7. \A x, y \in tasks' : x.req = y.req /\ x.i = y.i => x = y
  <2> TAKE x, y \in tasks'
  <2> HAVE x.req = y.req /\ x.i = y.i
  <2>1. \A z \in rest : ~(z.req = n.req /\ z.i = n.i)
    BY <1>0, <1>1, Zenon DEF TasksInv
  <2> QED
    BY <1>0, <1>2, <2>1, Zenon DEF TasksInv
<1>8. offPath' = Cardinality(Holders') /\ offPath' <= OffPathLimit /\ offPath' \in Int
  BY <1>0, <1>5, ChainAssumption, SMTT(30) DEF TasksInv, ChainInv, ChainTypeOK
<1>9. TasksInv'
  BY <1>0, <1>4, <1>6, <1>7, <1>8, Zenon DEF TasksInv
<1>10. \A r \in Guarded : RunOK(run'[r], stats')
  BY RunOKMonotone, Zenon DEF ChainInv
<1>11. tasks' \subseteq Task
  BY <1>0, <1>1, <1>2, Zenon
<1> QED
  BY <1>8, <1>9, <1>10, <1>11, Zenon DEF ChainInv, ChainTypeOK

\* The last deferred call of a goroutine: the wait group no longer counts it.
LEMMA TaskDoneKept ==
  ASSUME ChainInv, NEW t \in tasks, TaskDone(t)
  PROVE  ChainInv'
<1>0. TasksInv /\ tasks \subseteq Task
  BY Zenon DEF ChainInv, ChainTypeOK
<1>1. /\ t.stage = "finishing" /\ wg' = wg - 1 /\ tasks' = tasks \ {t}
      /\ UNCHANGED <<run, offPath, stats, stage>>
  BY Zenon DEF TaskDone
<1>2. IsFiniteSet(tasks') /\ Cardinality(tasks') = Cardinality(tasks) - 1
  BY <1>0, <1>1, FS_RemoveElement, Zenon DEF TasksInv
<1>3. Holders' = Holders
  BY <1>1, Zenon DEF Holders
<1>4. /\ \A x \in tasks' : x.i < run'[x.req].i
      /\ \A x, y \in tasks' : x.req = y.req /\ x.i = y.i => x = y
  BY <1>0, <1>1, Zenon DEF TasksInv
<1>5. TasksInv'
  BY <1>0, <1>1, <1>2, <1>3, <1>4, Zenon DEF TasksInv
<1> QED
  BY <1>0, <1>1, <1>5, SMTT(30) DEF ChainInv, ChainTypeOK

\* Every step of an off-path inspection keeps the invariant.
LEMMA TaskStepKept ==
  ASSUME ChainInv, NEW t \in tasks, TaskStep(t)
  PROVE  ChainInv'
<1>0. /\ stats \in [ChainCounters -> Nat]
      /\ "evaluated" \in ChainCounters /\ "failedOpen" \in ChainCounters
  BY Zenon DEF ChainInv, ChainTypeOK, ChainCounters
<1>1. CASE TaskEvaluates(t)
  <2>1. /\ t.stage # "finishing" /\ Move(t, "inspecting") /\ stats' = Count("evaluated")
        /\ offPath' = offPath /\ UNCHANGED <<run, wg, stage>>
    BY <1>1, Zenon DEF TaskEvaluates
  <2> QED
    BY <1>0, <2>1, CountGrows, MoveTaskKept, Zenon
<1>2. ASSUME NEW o, TaskInspected(t, o) PROVE ChainInv'
  <2>1. /\ t.stage # "finishing" /\ Move(t, "releasing")
        /\ stats' = Count("failedOpen") \/ stats' = stats
        /\ offPath' = offPath /\ UNCHANGED <<run, wg, stage>>
    BY <1>2, Zenon DEF TaskInspected
  <2>2. stats' \in [ChainCounters -> Nat] /\ (Noticed(stats) => Noticed(stats'))
    BY <1>0, <2>1, CountGrows, Zenon
  <2> QED
    BY <2>1, <2>2, MoveTaskKept, Zenon
<1>3. CASE TaskReleases(t)
  <2>1. /\ t.stage # "finishing" /\ Move(t, "finishing") /\ stats' = stats
        /\ offPath' = offPath - 1 /\ UNCHANGED <<run, wg, stage>>
    BY <1>3, Zenon DEF TaskReleases
  <2> QED
    BY <1>0, <2>1, MoveTaskKept, Zenon
<1>4. CASE TaskDone(t)
  BY <1>4, TaskDoneKept, Zenon
<1> QED
  BY <1>1, <1>2, <1>3, <1>4, Zenon DEF TaskStep

\* A module is bound, the server stops, the wait returns.
LEMMA AroundChainKept ==
  ASSUME ChainInv,
         (\E name \in Modules : ModuleBound(name)) \/ ServerStops \/ WaitReturns
  PROVE  ChainInv'
<1>1. UNCHANGED <<run, tasks, offPath, wg, stats>>
  BY Zenon DEF ModuleBound, ServerStops, WaitReturns
<1>2. \A r \in Guarded : run[r].i <= run'[r].i
  BY <1>1 DEF ChainInv, ChainTypeOK, ChainRun
<1>3. TasksInv'
  BY <1>1, <1>2, TasksUntouched, Zenon DEF ChainInv, ChainTypeOK
<1> QED
  BY <1>1, <1>3, Zenon DEF ChainInv, ChainTypeOK

\* Initially no chain runs.
LEMMA ChainInvInit == ChainInit => ChainInv
<1> SUFFICES ASSUME ChainInit PROVE ChainInv
  BY Zenon
<1> DEFINE q == [pc |-> "idle", bindings |-> <<>>, i |-> 1, payload |-> <<>>,
                 denied |-> FALSE, reason |-> 0, said |-> <<>>]
<1>1. q \in ChainRun
  BY DEF ChainRun
<1>2. /\ q.pc = "idle" /\ q.bindings = <<>> /\ q.i = 1 /\ q.payload = <<>>
      /\ q.denied = FALSE /\ q.said = <<>>
  BY Zenon
<1>3. run = [r \in Guarded |-> q]
  BY Zenon DEF ChainInit
<1> HIDE DEF q
<1>4. run \in [Guarded -> ChainRun] /\ \A r \in Guarded : run[r] = q
  BY <1>1, <1>3, Zenon
<1>5. RunOK(q, stats)
  <2>1. PassedOK(q, stats)
    BY <1>2, SMTT(30) DEF PassedOK
  <2> QED
    BY <1>2, <2>1 DEF RunOK
<1>6. stats \in [ChainCounters -> Nat]
  BY SMTT(30) DEF ChainInit, ChainCounters
<1>7. TasksInv
  <2>1. Holders = {} /\ tasks = {}
    BY Zenon DEF Holders, ChainInit
  <2>2. IsFiniteSet({}) /\ Cardinality({}) = 0
    BY FS_EmptySet, Zenon
  <2> QED
    BY <2>1, <2>2, ChainAssumption, SMTT(30) DEF TasksInv, ChainInit
<1>8. tasks = {} /\ offPath = 0 /\ wg = 0
  BY Zenon DEF ChainInit
<1>9. ChainTypeOK
  BY <1>4, <1>6, <1>8 DEF ChainTypeOK
<1> QED
  BY <1>4, <1>5, <1>7, <1>9, Zenon DEF ChainInv

\* Every step keeps the invariant.
LEMMA ChainInvNext == ChainInv /\ [ChainNext]_chainVars => ChainInv'
<1> SUFFICES ASSUME ChainInv, [ChainNext]_chainVars PROVE ChainInv'
  BY Zenon
<1>1. CASE UNCHANGED chainVars
  BY <1>1, Zenon DEF chainVars, ChainInv, ChainTypeOK, TasksInv, Holders
<1>2. ASSUME NEW r \in Guarded, ChainStep(r) PROVE ChainInv'
  <2>1. \/ Missing(r) \/ Saturated(r) \/ Inspect(r) \/ ChainReturns(r)
        \/ \E o \in Outcomes(Kind(r, run[r].i)) : Inspected(r, o)
        \/ dispatch(r)
    BY <1>2, Zenon DEF ChainStep
  <2> QED
    BY <2>1, ChainStepKept, DispatchKept, Zenon
<1>3. ASSUME NEW r \in Guarded, NEW bindings \in Chains, RunChain(r, bindings)
      PROVE  ChainInv'
  BY <1>3, ChainStepKept, Zenon
<1>4. ASSUME NEW t \in tasks, TaskStep(t) PROVE ChainInv'
  BY <1>4, TaskStepKept, Zenon
<1>5. CASE (\E name \in Modules : ModuleBound(name)) \/ ServerStops \/ WaitReturns
  BY <1>5, AroundChainKept, Zenon
<1> QED
  BY <1>1, <1>2, <1>3, <1>4, <1>5, Zenon DEF ChainNext

\* The invariant holds throughout.
LEMMA ChainInvariant == ChainSafety => []ChainInv
BY ChainInvInit, ChainInvNext, PTL DEF ChainSafety

\* A request the chain lets through was allowed or rewritten by every blocking
\* guardrail that is not fail-open, and carries exactly the rewrites of those
\* that made one, in their order (Chain.Run), for any chains and any answers.
THEOREM ServedMeansInspectedHolds == ChainSafety => []ServedMeansInspected
<1>1. ChainInv => ServedMeansInspected
  <2> SUFFICES ASSUME ChainInv, NEW r \in Guarded, Served(r)
               PROVE  /\ \A i \in Blocking(r) :
                           \/ run[r].said[i] \in {"allow", "mutate"}
                           \/ /\ run[r].said[i] = "nothing"
                              /\ run[r].bindings[i].mode = "open"
                              /\ stats.failedOpen + stats.skipped > 0
                      /\ \A a, b \in DOMAIN run[r].payload :
                           a < b => run[r].payload[a] < run[r].payload[b]
                      /\ Range(run[r].payload) =
                           {i \in Blocking(r) : run[r].said[i] = "mutate"}
    BY Zenon DEF ServedMeansInspected
  <2> DEFINE q == run[r]
  <2>1. /\ q.bindings \in Seq(Binding) /\ q.payload \in Seq(Nat)
        /\ RunOK(q, stats) /\ q.i \in Nat
    BY Zenon DEF ChainInv, ChainTypeOK, ChainRun
  <2>2. q.i > Len(q.bindings) /\ PassedOK(q, stats)
    BY <2>1, Zenon DEF RunOK, Served
  <2>3. /\ DOMAIN q.bindings = 1..Len(q.bindings) /\ Len(q.bindings) \in Nat
        /\ DOMAIN q.payload = 1..Len(q.payload)
    BY <2>1, SMTT(30)
  <2>4. \A i \in Blocking(r) :
          i \in 1..Len(q.bindings) /\ i < q.i /\ q.bindings[i].blocking
    BY <2>1, <2>2, <2>3, SMTT(30) DEF Blocking
  <2>5. ASSUME NEW i \in Blocking(r)
        PROVE  \/ q.said[i] \in {"allow", "mutate"}
               \/ /\ q.said[i] = "nothing" /\ q.bindings[i].mode = "open"
                  /\ stats.failedOpen + stats.skipped > 0
    BY <2>2, <2>4, Zenon DEF PassedOK, Noticed
  <2>6. \A a, b \in DOMAIN q.payload : a < b => q.payload[a] < q.payload[b]
    BY <2>2, <2>3, Zenon DEF PassedOK
  <2>7. ASSUME NEW x \in Range(q.payload)
        PROVE  x \in Blocking(r) /\ q.said[x] = "mutate"
    <3>1. PICK a \in 1..Len(q.payload) : q.payload[a] = x
      BY <2>3, Zenon DEF Range
    <3>2. x \in 1..Len(q.bindings) /\ Rewrote(q, x)
      BY <2>2, <3>1, Zenon DEF PassedOK
    <3> QED
      BY <2>3, <3>2, Zenon DEF Rewrote, Blocking
  <2>8. ASSUME NEW x \in Blocking(r), q.said[x] = "mutate"
        PROVE  x \in Range(q.payload)
    <3>1. x \in 1..Len(q.bindings) /\ x < q.i /\ Rewrote(q, x)
      BY <2>4, <2>8, Zenon DEF Rewrote
    <3>2. PICK a \in 1..Len(q.payload) : q.payload[a] = x
      BY <2>2, <3>1, Zenon DEF PassedOK
    <3> QED
      BY <2>3, <3>2, Zenon DEF Range
  <2> QED
    BY <2>5, <2>6, <2>7, <2>8, Zenon
<1> QED
  BY <1>1, ChainInvariant, PTL

\* Once the server has stopped with its handlers done no chain runs, and once Wait
\* has returned as well no goroutine does.
StoppedInv ==
  orderly /\ stage # "serving" => InFlight = {} /\ (stage = "closed" => tasks = {})

\* Every step keeps that: only a chain that runs starts goroutines.
LEMMA StoppedKept ==
  ChainInv /\ StoppedInv /\ [ChainNext]_chainVars => StoppedInv'
<1> SUFFICES ASSUME ChainInv, StoppedInv, [ChainNext]_chainVars PROVE StoppedInv'
  BY Zenon
<1>1. CASE UNCHANGED chainVars
  BY <1>1, Zenon DEF chainVars, StoppedInv, InFlight
<1>2. ASSUME NEW r \in Guarded, ChainStep(r) PROVE StoppedInv'
  <2>1. run[r].pc \in {"next", "inspect"} /\ UNCHANGED <<stage, orderly>>
    BY <1>2, Zenon DEF ChainStep, Missing, Saturated, dispatch, Inspect, Inspected,
                       ChainReturns, AtBinding
  <2>2. r \in InFlight
    BY <2>1, Zenon DEF InFlight
  <2> QED
    BY <2>1, <2>2, Zenon DEF StoppedInv
<1>3. ASSUME NEW r \in Guarded, NEW bindings \in Chains, RunChain(r, bindings)
      PROVE  StoppedInv'
  BY <1>3, Zenon DEF RunChain, StoppedInv
<1>4. ASSUME NEW t \in tasks, TaskStep(t) PROVE StoppedInv'
  <2>1. UNCHANGED <<run, stage, orderly>>
    BY <1>4, Zenon DEF TaskStep, TaskEvaluates, TaskInspected, TaskReleases, TaskDone
  <2> QED
    BY <2>1, Zenon DEF StoppedInv, InFlight
<1>5. CASE \E name \in Modules : ModuleBound(name)
  BY <1>5, Zenon DEF ModuleBound, StoppedInv
<1>6. CASE ServerStops
  BY <1>6, Zenon DEF ServerStops, StoppedInv, InFlight
<1>7. CASE WaitReturns
  <2>1. tasks = {}
    BY <1>7, FS_EmptySet, Zenon DEF WaitReturns, ChainInv, TasksInv
  <2> QED
    BY <1>7, <2>1, Zenon DEF WaitReturns, StoppedInv, InFlight
<1> QED
  BY <1>1, <1>2, <1>3, <1>4, <1>5, <1>6, <1>7, Zenon DEF ChainNext

\* The channel and the wait group count the off-path goroutines exactly, the
\* channel never beyond its capacity, and none is left when the runtime they
\* call is closed, if the handlers were done within the grace (dispatch, and the
\* deferred calls of main).
THEOREM OffPathAccountedHolds == ChainSafety => []OffPathAccounted
<1>1. ChainInv /\ StoppedInv => OffPathAccounted
  BY Zenon DEF ChainInv, TasksInv, StoppedInv, Holders, OffPathAccounted
<1>2. ChainInit => StoppedInv
  BY Zenon DEF ChainInit, StoppedInv
<1> QED
  BY <1>1, <1>2, ChainInvariant, StoppedKept, PTL DEF ChainSafety
=============================================================================
