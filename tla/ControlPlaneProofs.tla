------------------------- MODULE ControlPlaneProofs -------------------------
(***************************************************************************)
(* Proofs about the control plane: what the accounting consumer commits    *)
(* and acknowledges, and what a worker makes of the snapshots compiled for *)
(* it.                                                                     *)
(***************************************************************************)
EXTENDS Accounting, Publishing, FiniteSetTheorems, WellFoundedInduction, TLAPS

-----------------------------------------------------------------------------
(* Least and greatest elements *)

\* A nonempty set of natural numbers has a least element.
LEMMA NatMin ==
  ASSUME NEW T \in SUBSET Nat, T # {}
  PROVE  \E x \in T : \A y \in T : x <= y
<1> DEFINE R == OpToRel(<, Nat)
<1>1. \A x, y \in Nat : <<y, x>> \in R <=> y < x
  BY Zenon DEF OpToRel
<1>2. IsWellFoundedOn(R, Nat)
  BY NatLessThanWellFounded, Zenon
<1> HIDE DEF R
<1>3. PICK x \in T : \A y \in T : ~(<<y, x>> \in R)
  BY <1>2, WFMin, Zenon
<1>4. ASSUME NEW y \in T PROVE x <= y
  <2>1. x \in Nat /\ y \in Nat
    BY Zenon
  <2>2. ~(y < x)
    BY <1>1, <1>3, <2>1, Zenon
  <2> QED
    BY <2>1, <2>2
<1> QED
  BY <1>4, Zenon

\* Event takes the least of the events that are still to be applied.
LEMMA MinIsIn ==
  ASSUME NEW T \in SUBSET Nat, T # {}
  PROVE  Min(T) \in T
BY NatMin, Zenon DEF Min

\* Read takes the greatest entry of the batch it was given.
LEMMA MaxIsIn ==
  ASSUME NEW n \in Nat, NEW T \in SUBSET (0 .. n), T # {}
  PROVE  Max(T) \in T /\ \A y \in T : y <= Max(T)
<1> DEFINE U == {n - y : y \in T}
<1>1. U \in SUBSET Nat /\ U # {}
  <2>1. \A y \in T : n - y \in Nat
    OBVIOUS
  <2> QED
    BY <2>1, Zenon
<1> HIDE DEF U
<1>2. PICK u \in U : \A v \in U : u <= v
  BY <1>1, NatMin, Zenon
<1>3. PICK x \in T : u = n - x
  BY Zenon DEF U
<1>4. \A y \in T : y <= x
  <2> TAKE y \in T
  <2>1. n - y \in U
    BY Zenon DEF U
  <2> QED
    BY <1>2, <1>3, <2>1
<1> QED
  BY <1>4, Zenon DEF Max

-----------------------------------------------------------------------------
(* Accounting: types *)

ProcLabels == {"down", "starting", "reading", "recording", "charging", "acking"}

Proc == [pc: ProcLabels, batch: SUBSET Entries, left: SUBSET Entries, charged: Nat,
         inserted: SUBSET Entries, charges: [Budgets -> Nat]]

\* The types of the accounting consumer's state.
AccountingTypeOK ==
  /\ name \in [Processes -> Names]
  /\ malformed \subseteq Entries
  /\ published \in Nat /\ 1 .. published \subseteq Entries
  /\ trimmed \in Nat
  /\ delivered \in 0 .. published
  /\ pending \in [Names -> SUBSET Entries]
  /\ proc \in [Processes -> Proc]
  /\ records \subseteq Entries
  /\ spent \in [Budgets -> Nat]

\* Entry e has a record in S, or is not to have one.
Settled(e, S) == e \in malformed \cup lost \/ RequestOf[e] = NoId \/ SameRequest(e, S)

\* Where process p is in its batch, and what it has recorded of it.
ApplyOK(p) ==
  /\ proc[p].pc \in {"recording", "charging"} =>
       \A e \in proc[p].batch \ proc[p].left : Settled(e, records \cup proc[p].inserted)
  /\ proc[p].pc = "charging" =>
       /\ AtEvent(p) /\ Event(p) \in proc[p].inserted
       /\ proc[p].charged <= Len(BudgetsOf[Event(p)])
  /\ proc[p].pc = "acking" => \A e \in proc[p].batch : Settled(e, records)
  /\ proc[p].pc \notin {"recording", "charging"} =>
       proc[p].inserted = {} /\ proc[p].charges = NoCharges

ApplyInv == \A p \in Processes : ApplyOK(p)

\* No two entries of a request are recorded or about to be.
DistinctRequests ==
  /\ \A e, f \in records : RequestOf[e] = RequestOf[f] => e = f
  /\ \A p \in Processes : \A e \in proc[p].inserted :
       /\ ~SameRequest(e, records)
       /\ \A f \in proc[p].inserted : RequestOf[e] = RequestOf[f] => e = f
       /\ \A q \in Processes \ {p} : ~SameRequest(e, proc[q].inserted)

\* The charges to b that the entries of S owe, but, where a process is charging
\* entry e, for the budgets of e it has not come to.
OwedSoFar(S, b, pc, e, charged) ==
  {u \in Owed(S, b) : ~(pc = "charging" /\ u[1] = e /\ u[2] > charged)}

\* The charges process p has made to b in its transaction.
Made(p, b) ==
  OwedSoFar(proc[p].inserted, b, proc[p].pc, Event(p), proc[p].charged)

\* Every charge is one that a record, or an inserted entry, owes.
ChargesInv ==
  \A b \in Budgets :
    /\ IsFiniteSet(Owed(records, b)) /\ spent[b] = Cardinality(Owed(records, b))
    /\ \A p \in Processes :
         IsFiniteSet(Made(p, b)) /\ proc[p].charges[b] = Cardinality(Made(p, b))


-----------------------------------------------------------------------------
(* Accounting: the steps of a process *)

\* Process p moves to the state with these fields, and the others stay.
Becomes(p, k, B, d, c, i, f) ==
  /\ proc' \in [Processes -> Proc]
  /\ proc'[p].pc = k /\ proc'[p].batch = B /\ proc'[p].left = d
  /\ proc'[p].charged = c /\ proc'[p].inserted = i /\ proc'[p].charges = f
  /\ \A q \in Processes : q # p => proc'[q] = proc[q]

\* The entries of the stream are finitely many positive numbers.
LEMMA EntryFacts == Entries \subseteq Nat \ {0} /\ IsFiniteSet(Entries)
<1>1. IsFiniteSet(Entries) /\ Entries = 1 .. Cardinality(Entries)
  BY AccountingAssumption, Zenon
<1>2. Cardinality(Entries) \in Nat
  BY <1>1, FS_CardinalityType, Zenon
<1> QED
  BY <1>1, <1>2

\* A consumer that takes on the record s is where s says.
LEMMA ProcMoves ==
  ASSUME proc \in [Processes -> Proc], NEW p \in Processes, NEW s \in Proc,
         proc' = [proc EXCEPT ![p] = s]
  PROVE  Becomes(p, s.pc, s.batch, s.left, s.charged, s.inserted, s.charges)
<1>1. proc' \in [Processes -> Proc] /\ proc'[p] = s
  BY Zenon
<1>2. \A q \in Processes : q # p => proc'[q] = proc[q]
  BY Zenon
<1> QED
  BY <1>1, <1>2, Zenon DEF Becomes

\* Between batches, and when a batch has just been read or committed.
LEMMA HandlingShape ==
  ASSUME proc \in [Processes -> Proc], NEW p \in Processes,
         NEW k \in ProcLabels, NEW B \in SUBSET Entries, NEW L \in SUBSET Entries,
         proc' = [proc EXCEPT ![p] = Handling(k, B, L)]
  PROVE  Becomes(p, k, B, L, 0, {}, NoCharges)
<1> DEFINE s == Handling(k, B, L)
<1>1. NoCharges \in [Budgets -> Nat]
  BY Zenon DEF NoCharges
<1>2. /\ s \in Proc
      /\ s.pc = k /\ s.batch = B /\ s.left = L /\ s.charged = 0
      /\ s.inserted = {} /\ s.charges = NoCharges
  BY <1>1, Zenon DEF Handling, Proc
<1> HIDE DEF s
<1>3. Becomes(p, s.pc, s.batch, s.left, s.charged, s.inserted, s.charges)
  BY <1>2, ProcMoves, Zenon DEF s
<1> QED
  BY <1>2, <1>3, Zenon

LEMMA IdleShape ==
  ASSUME proc \in [Processes -> Proc], NEW p \in Processes, NEW k \in ProcLabels,
         proc' = [proc EXCEPT ![p] = Idle(k)]
  PROVE  Becomes(p, k, {}, {}, 0, {}, NoCharges)
<1>1. {} \in SUBSET Entries
  BY Zenon
<1> QED
  BY <1>1, HandlingShape, Zenon DEF Idle

\* What is applied of a batch that was read is part of it.
LEMMA ApplyingShape ==
  ASSUME proc \in [Processes -> Proc], NEW p \in Processes, NEW B \in SUBSET Entries,
         proc' = [proc EXCEPT ![p] = Applying(B)]
  PROVE  Becomes(p, "recording", B, Events(B), 0, {}, NoCharges)
<1>1. Events(B) \in SUBSET Entries
  BY Zenon DEF Events, InStream
<1> QED
  BY <1>1, HandlingShape, Zenon DEF Applying, ProcLabels

\* The event at hand is one of those that are left.
LEMMA EventIsIn ==
  ASSUME NEW p \in Processes, proc[p] \in Proc, AtEvent(p)
  PROVE  Event(p) \in Entries /\ Event(p) \in proc[p].left
<1>1. proc[p].left \subseteq Entries
  BY Zenon DEF Proc
<1>2. proc[p].left \in SUBSET Nat /\ proc[p].left # {}
  BY <1>1, EntryFacts, Zenon DEF AtEvent
<1>3. Event(p) \in proc[p].left
  BY <1>2, MinIsIn, Zenon DEF Event
<1> QED
  BY <1>1, <1>3, Zenon

\* insert_once leaves an event already recorded and inserts another.
LEMMA RecordShape ==
  ASSUME proc \in [Processes -> Proc], NEW p \in Processes, Record(p)
  PROVE  LET s == proc[p]
             e == Event(p)
         IN  \/ /\ RequestOf[e] = NoId \/ SameRequest(e, records \cup s.inserted)
                /\ Becomes(p, s.pc, s.batch, s.left \ {e}, s.charged, s.inserted, s.charges)
             \/ /\ RequestOf[e] # NoId /\ ~SameRequest(e, records \cup s.inserted)
                /\ Becomes(p, "charging", s.batch, s.left, 0, s.inserted \cup {e}, s.charges)
<1> DEFINE s == proc[p]
           e == Event(p)
<1>1. s \in Proc /\ e \in Entries
  BY EventIsIn, Zenon DEF Record
<1> HIDE DEF s, e
<1>2. CASE RequestOf[e] = NoId \/ SameRequest(e, records \cup s.inserted)
  <2> DEFINE t == [s EXCEPT !.left = @ \ {e}]
  <2>1. /\ t \in Proc
        /\ t.pc = s.pc /\ t.batch = s.batch /\ t.left = s.left \ {e}
        /\ t.charged = s.charged /\ t.inserted = s.inserted /\ t.charges = s.charges
    BY <1>1, Zenon DEF Proc
  <2>2. proc' = [proc EXCEPT ![p] = t]
    BY <1>2, Zenon DEF Record, s, e
  <2> HIDE DEF t
  <2>3. Becomes(p, t.pc, t.batch, t.left, t.charged, t.inserted, t.charges)
    BY <2>1, <2>2, ProcMoves, Zenon
  <2> QED
    BY <1>2, <2>1, <2>3, Zenon DEF s, e
<1>3. CASE ~(RequestOf[e] = NoId \/ SameRequest(e, records \cup s.inserted))
  <2> DEFINE a == [s EXCEPT !.inserted = @ \cup {e}]
             c == [a EXCEPT !.pc = "charging"]
             t == [c EXCEPT !.charged = 0]
  <2>1. /\ a \in Proc
        /\ a.pc = s.pc /\ a.batch = s.batch /\ a.left = s.left
        /\ a.charged = s.charged /\ a.inserted = s.inserted \cup {e} /\ a.charges = s.charges
    BY <1>1, Zenon DEF Proc
  <2>2. proc' = [proc EXCEPT ![p] = t]
    <3>1. [s EXCEPT !.inserted = @ \cup {e}, !.pc = "charging", !.charged = 0] = t
      BY Zenon
    <3> HIDE DEF t
    <3> QED
      BY <1>3, <3>1, Zenon DEF Record, s, e
  <2> HIDE DEF a
  <2>3. /\ c \in Proc
        /\ c.pc = "charging" /\ c.batch = a.batch /\ c.left = a.left
        /\ c.charged = a.charged /\ c.inserted = a.inserted /\ c.charges = a.charges
    BY <2>1, Zenon DEF Proc, ProcLabels
  <2> HIDE DEF c
  <2>4. /\ t \in Proc
        /\ t.pc = c.pc /\ t.batch = c.batch /\ t.left = c.left
        /\ t.charged = 0 /\ t.inserted = c.inserted /\ t.charges = c.charges
    BY <2>3, Zenon DEF Proc
  <2> HIDE DEF t
  <2>5. Becomes(p, t.pc, t.batch, t.left, t.charged, t.inserted, t.charges)
    BY <2>2, <2>4, ProcMoves, Zenon
  <2> QED
    BY <1>3, <2>1, <2>3, <2>4, <2>5, Zenon DEF s, e
<1> QED
  BY <1>2, <1>3, Zenon

\* charge adds one to a budget that exists and passes over one that does not.
LEMMA ChargeShape ==
  ASSUME proc \in [Processes -> Proc], NEW p \in Processes, Charge(p)
  PROVE  LET s == proc[p]
             f == IF Budget(p) \in Budgets
                  THEN [s.charges EXCEPT ![Budget(p)] = @ + 1] ELSE s.charges
         IN  Becomes(p, s.pc, s.batch, s.left, s.charged + 1, s.inserted, f)
<1> DEFINE s == proc[p]
           f == IF Budget(p) \in Budgets
                THEN [s.charges EXCEPT ![Budget(p)] = @ + 1] ELSE s.charges
           a == [s EXCEPT !.charged = @ + 1]
           t == [a EXCEPT !.charges = f]
<1>1. s \in Proc
  BY Zenon
<1>2. proc' = [proc EXCEPT ![p] = t]
  <2>1. [s EXCEPT !.charged = @ + 1, !.charges = f] = t
    BY Zenon
  <2> HIDE DEF t
  <2> QED
    BY <2>1, Zenon DEF Charge
<1> HIDE DEF s
<1>3. f \in [Budgets -> Nat]
  BY <1>1 DEF Proc
<1>4. /\ a \in Proc
      /\ a.pc = s.pc /\ a.batch = s.batch /\ a.left = s.left
      /\ a.charged = s.charged + 1 /\ a.inserted = s.inserted /\ a.charges = s.charges
  <2>1. PICK c \in Nat : c = s.charged + 1
    BY <1>1 DEF Proc
  <2>2. a = [s EXCEPT !.charged = c]
    BY <2>1, Zenon
  <2> HIDE DEF a
  <2> QED
    BY <1>1, <2>1, <2>2, Zenon DEF Proc
<1> HIDE DEF f, a
<1>5. /\ t \in Proc
      /\ t.pc = a.pc /\ t.batch = a.batch /\ t.left = a.left
      /\ t.charged = a.charged /\ t.inserted = a.inserted /\ t.charges = f
  BY <1>3, <1>4, Zenon DEF Proc
<1> HIDE DEF t
<1>6. Becomes(p, t.pc, t.batch, t.left, t.charged, t.inserted, t.charges)
  BY <1>2, <1>5, ProcMoves, Zenon
<1> QED
  BY <1>4, <1>5, <1>6, Zenon DEF s, f

\* An event whose budgets are all charged is done.
LEMMA ChargedShape ==
  ASSUME proc \in [Processes -> Proc], NEW p \in Processes, Charged(p), AtEvent(p)
  PROVE  LET s == proc[p] IN
         Becomes(p, "recording", s.batch, s.left \ {Event(p)}, s.charged, s.inserted,
                 s.charges)
<1> DEFINE s == proc[p]
           e == Event(p)
           a == [s EXCEPT !.pc = "recording"]
           t == [a EXCEPT !.left = @ \ {e}]
<1>1. s \in Proc /\ e \in Entries
  BY EventIsIn, Zenon
<1>2. proc' = [proc EXCEPT ![p] = t]
  <2>1. [s EXCEPT !.pc = "recording", !.left = @ \ {e}] = t
    BY Zenon
  <2> HIDE DEF t
  <2> QED
    BY <2>1, Zenon DEF Charged
<1> HIDE DEF s, e
<1>3. /\ a \in Proc
      /\ a.pc = "recording" /\ a.batch = s.batch /\ a.left = s.left
      /\ a.charged = s.charged /\ a.inserted = s.inserted /\ a.charges = s.charges
  BY <1>1, Zenon DEF Proc, ProcLabels
<1> HIDE DEF a
<1>4. /\ t \in Proc
      /\ t.pc = a.pc /\ t.batch = a.batch /\ t.left = a.left \ {e}
      /\ t.charged = a.charged /\ t.inserted = a.inserted /\ t.charges = a.charges
  BY <1>1, <1>3, Zenon DEF Proc
<1> HIDE DEF t
<1>5. Becomes(p, t.pc, t.batch, t.left, t.charged, t.inserted, t.charges)
  BY <1>2, <1>4, ProcMoves, Zenon
<1> QED
  BY <1>3, <1>4, <1>5, Zenon DEF s, e

\* What a batch of unread entries is made of: an unbroken run of those the stream
\* still has.
LEMMA BatchFacts ==
  ASSUME NEW d \in Nat, NEW n \in Nat, trimmed \in Nat, NEW B,
         B = FirstBatch(InStream((d + 1) .. n)), B # {}
  PROVE  /\ B \subseteq InStream((d + 1) .. n)
         /\ Max(B) \in (d + 1) .. n
         /\ 1 .. Max(B) \subseteq (1 .. d) \cup ((d + 1) .. trimmed) \cup B
<1> DEFINE S == InStream((d + 1) .. n)
           Before(e) == {f \in S : f < e}
<1>1. B \subseteq S /\ S \subseteq (d + 1) .. n
  BY Zenon DEF FirstBatch, InStream
<1>2. Max(B) \in B
  <2>1. B \in SUBSET (0 .. n)
    BY <1>1
  <2> QED
    BY <2>1, MaxIsIn, Zenon
<1>3. Max(B) \in (d + 1) .. n
  BY <1>1, <1>2, Zenon
<1>4. ASSUME NEW e \in 1 .. Max(B), e \notin 1 .. d, e \notin (d + 1) .. trimmed PROVE e \in B
  <2>1. e \in (d + 1) .. n /\ e > trimmed
    BY <1>3, <1>4
  <2>2. e \in S
    BY <2>1, Zenon DEF InStream
  <2>3. Before(e) \subseteq Before(Max(B))
    <3>1. \A f \in (d + 1) .. n : f < e => f < Max(B)
      BY <1>3, <1>4
    <3> QED
      BY <1>1, <3>1, Zenon
  <2>4. IsFiniteSet(Before(Max(B)))
    <3>1. d + 1 \in Int /\ n \in Int
      OBVIOUS
    <3>2. IsFiniteSet((d + 1) .. n)
      BY <3>1, FS_Interval, Zenon
    <3>3. Before(Max(B)) \subseteq (d + 1) .. n
      BY <1>1, Zenon
    <3> QED
      BY <3>2, <3>3, FS_Subset, Zenon
  <2> HIDE DEF Before
  <2>5. /\ Cardinality(Before(e)) <= Cardinality(Before(Max(B)))
        /\ IsFiniteSet(Before(e))
    BY <2>3, <2>4, FS_Subset, Zenon
  <2>6. Cardinality(Before(Max(B))) \in Nat /\ Cardinality(Before(e)) \in Nat
    BY <2>4, <2>5, FS_CardinalityType, Zenon
  <2>7. Cardinality(Before(Max(B))) < BatchSize
    BY <1>2, Zenon DEF FirstBatch, Before, S
  <2>8. Cardinality(Before(e)) < BatchSize
    BY <2>5, <2>6, <2>7, AccountingAssumption
  <2> QED
    BY <2>2, <2>8, Zenon DEF FirstBatch, Before, S
<1> QED
  BY <1>1, <1>3, <1>4, Zenon

\* The types hold initially.
LEMMA AccountingInitType == AccountingInit => AccountingTypeOK
<1> SUFFICES ASSUME AccountingInit PROVE AccountingTypeOK
  BY Zenon
<1>1. NoCharges \in [Budgets -> Nat]
  BY Zenon DEF NoCharges
<1>2. Idle("down") \in Proc
  BY <1>1, Zenon DEF Idle, Handling, Proc, ProcLabels
<1>3. proc \in [Processes -> Proc]
  BY <1>2, Zenon DEF AccountingInit
<1>4. spent \in [Budgets -> Nat]
  BY <1>1, Zenon DEF AccountingInit
<1> QED
  BY <1>3, <1>4 DEF AccountingInit, AccountingTypeOK

\* A step of a process moves that process only, and keeps the types.
LEMMA StepType ==
  ASSUME AccountingTypeOK, NEW p \in Processes,
         Step(p) \/ Crash(p) \/ Abort(p),
         proc[p].pc = "charging" => AtEvent(p)
  PROVE  AccountingTypeOK' /\ \A q \in Processes : q # p => proc'[q] = proc[q]
<1>t. /\ name \in [Processes -> Names] /\ name[p] \in Names
      /\ published \in Nat /\ 1 .. published \subseteq Entries /\ trimmed \in Nat
      /\ delivered \in 0 .. published
      /\ pending \in [Names -> SUBSET Entries] /\ pending[name[p]] \in SUBSET Entries
      /\ proc \in [Processes -> Proc] /\ proc[p] \in Proc
      /\ records \subseteq Entries /\ spent \in [Budgets -> Nat]
  BY Zenon DEF AccountingTypeOK
<1>f. /\ proc[p].batch \subseteq Entries /\ proc[p].inserted \subseteq Entries
      /\ proc[p].charges \in [Budgets -> Nat]
  BY <1>t, Zenon DEF Proc
<1>s. ASSUME name' = name, malformed' = malformed, published' = published, trimmed' = trimmed,
             delivered' \in 0 .. published, pending' \in [Names -> SUBSET Entries],
             NEW k, NEW B, NEW d, NEW c, NEW i, NEW f, Becomes(p, k, B, d, c, i, f),
             records' \subseteq Entries, spent' \in [Budgets -> Nat]
      PROVE  AccountingTypeOK' /\ \A q \in Processes : q # p => proc'[q] = proc[q]
  BY <1>s, Zenon DEF AccountingTypeOK, Becomes
<1>1. CASE Start(p)
  <2>1. Becomes(p, "starting", {}, {}, 0, {}, NoCharges)
    BY <1>1, <1>t, IdleShape, Zenon DEF Start, ProcLabels
  <2> QED
    BY <1>1, <1>s, <1>t, <2>1, Zenon DEF Start, environment, redis, database
<1>2. CASE ReadPending(p)
  <2>1. \E k, B, L : Becomes(p, k, B, L, 0, {}, NoCharges)
    <3> DEFINE B == FirstBatch(pending[name[p]])
    <3>1. B \in SUBSET Entries
      BY <1>t, Zenon DEF FirstBatch
    <3>2. \/ proc' = [proc EXCEPT ![p] = Applying(B)]
          \/ proc' = [proc EXCEPT ![p] = Idle("reading")]
      BY <1>2, Zenon DEF ReadPending
    <3> HIDE DEF B
    <3> QED
      BY <1>t, <3>1, <3>2, ApplyingShape, IdleShape, Zenon DEF ProcLabels
  <2> QED
    BY <1>2, <1>s, <1>t, <2>1, Zenon DEF ReadPending, environment, redis, database
<1>3. CASE Read(p)
  <2> DEFINE B == FirstBatch(InStream((delivered + 1) .. published))
  <2>1. B # {} /\ delivered \in Nat
    BY <1>3, <1>t DEF Read
  <2>2. B \subseteq (delivered + 1) .. published /\ Max(B) \in (delivered + 1) .. published
    BY <1>t, <2>1, BatchFacts, ZenonT(30) DEF InStream
  <2>4. /\ proc' = [proc EXCEPT ![p] = Applying(B)]
        /\ delivered' = Max(B) /\ pending' = [pending EXCEPT ![name[p]] = @ \cup B]
    BY <1>3, Zenon DEF Read
  <2> HIDE DEF B
  <2>3. B \in SUBSET Entries /\ Max(B) \in 0 .. published
    BY <1>t, <2>1, <2>2
  <2>5. Becomes(p, "recording", B, Events(B), 0, {}, NoCharges)
    BY <1>t, <2>3, <2>4, ApplyingShape, Zenon
  <2>6. pending' \in [Names -> SUBSET Entries]
    BY <1>t, <2>3, <2>4, Zenon
  <2>7. UNCHANGED <<name, malformed, published, trimmed, records, spent>>
    BY <1>3, Zenon DEF Read, environment, database
  <2> QED
    BY <1>s, <1>t, <2>3, <2>4, <2>5, <2>6, <2>7, Zenon
<1>4. CASE Record(p)
  <2>1. \E k, B, d, c, i, f : Becomes(p, k, B, d, c, i, f)
    BY <1>4, <1>t, RecordShape, Zenon
  <2> QED
    BY <1>4, <1>s, <1>t, <2>1, Zenon DEF Record, environment, redis, database
<1>5. CASE Charge(p)
  <2>1. \E k, B, d, c, i, f : Becomes(p, k, B, d, c, i, f)
    BY <1>5, <1>t, ChargeShape, Zenon
  <2> QED
    BY <1>5, <1>s, <1>t, <2>1, Zenon DEF Charge, environment, redis, database
<1>6. CASE Charged(p)
  <2>1. \E k, B, d, c, i, f : Becomes(p, k, B, d, c, i, f)
    BY <1>6, <1>t, ChargedShape, Zenon DEF Charged
  <2> QED
    BY <1>6, <1>s, <1>t, <2>1, Zenon DEF Charged, environment, redis, database
<1>7. CASE Commit(p)
  <2>1. Becomes(p, "acking", proc[p].batch, {}, 0, {}, NoCharges)
    <3>1. {} \in SUBSET Entries
      BY Zenon
    <3> QED
      BY <1>7, <1>t, <1>f, <3>1, HandlingShape, Zenon DEF Commit, ProcLabels
  <2>2. /\ records' \subseteq Entries /\ spent' \in [Budgets -> Nat]
    BY <1>7, <1>t, <1>f DEF Commit
  <2> QED
    BY <1>7, <1>s, <1>t, <2>1, <2>2, Zenon DEF Commit, environment, redis
<1>8. CASE Ack(p)
  <2>1. Becomes(p, "reading", {}, {}, 0, {}, NoCharges)
    BY <1>8, <1>t, IdleShape, Zenon DEF Ack, ProcLabels
  <2>2. pending' \in [Names -> SUBSET Entries]
    BY <1>8, <1>t, Zenon DEF Ack
  <2> QED
    BY <1>8, <1>s, <1>t, <2>1, <2>2, Zenon DEF Ack, environment, database
<1>9. CASE Crash(p) \/ Abort(p)
  <2>1. Dies(p)
    BY <1>9, Zenon DEF Crash, Abort
  <2>2. Becomes(p, "down", {}, {}, 0, {}, NoCharges)
    BY <2>1, <1>t, IdleShape, Zenon DEF Dies, ProcLabels
  <2> QED
    BY <1>s, <1>t, <2>1, <2>2, Zenon DEF Dies, redis, database
<1> QED
  BY <1>1, <1>2, <1>3, <1>4, <1>5, <1>6, <1>7, <1>8, <1>9, Zenon DEF Step

-----------------------------------------------------------------------------
(* Accounting: what is acknowledged is recorded *)

\* Initially nothing is applied and nothing acknowledged.
LEMMA ApplyInitially == AccountingInit => ApplyInv /\ AckedIsRecorded
<1> SUFFICES ASSUME AccountingInit PROVE ApplyInv /\ AckedIsRecorded
  BY Zenon
<1>1. \A p \in Processes : proc[p] = Idle("down")
  BY Zenon DEF AccountingInit
<1>2. \A p \in Processes : /\ proc[p].pc = "down" /\ proc[p].inserted = {}
                           /\ proc[p].charges = NoCharges
  BY <1>1 DEF Idle, Handling
<1>3. ApplyInv
  BY <1>2, Zenon DEF ApplyInv, ApplyOK
<1> QED
  BY <1>3 DEF AccountingInit, AckedIsRecorded

\* The event at hand depends on what is left.
LEMMA SameEvent ==
  ASSUME NEW p \in Processes, proc'[p].left = proc[p].left
  PROVE  AtEvent(p)' = AtEvent(p) /\ Event(p)' = Event(p)
BY Zenon DEF AtEvent, Event

\* What is settled stays so when records are added and entries are found trimmed.
LEMMA SettledStays ==
  ASSUME NEW S, NEW T, S \subseteq T, malformed' = malformed, lost \subseteq lost'
  PROVE  \A e : Settled(e, S) => Settled(e, T) /\ Settled(e, T)'
BY Zenon DEF Settled, SameRequest

\* What is known of a consumer survives a step of another that only adds records.
LEMMA ApplyStays ==
  ASSUME NEW q \in Processes, proc'[q] = proc[q], malformed' = malformed,
         lost \subseteq lost', records \subseteq records', ApplyOK(q)
  PROVE  ApplyOK(q)'
<1>1. AtEvent(q)' = AtEvent(q) /\ Event(q)' = Event(q)
  BY SameEvent, Zenon
<1>2. /\ \A e : Settled(e, records \cup proc[q].inserted)
                   => Settled(e, records \cup proc[q].inserted)'
      /\ \A e : Settled(e, records) => Settled(e, records)'
  BY Zenon DEF Settled, SameRequest
<1> QED
  BY <1>1, <1>2, Zenon DEF ApplyOK

\* The budgets of an event are a sequence.
LEMMA BudgetSequences ==
  \A e \in Entries : Len(BudgetsOf[e]) \in Nat /\ DOMAIN BudgetsOf[e] = 1 .. Len(BudgetsOf[e])
<1> TAKE e \in Entries
<1>1. BudgetsOf[e] \in Seq(Range(BudgetsOf[e]))
  BY AccountingAssumption, Zenon
<1> QED
  BY <1>1

\* A consumer's step, crash or rollback keeps the invariant.
LEMMA StepApply ==
  ASSUME AccountingTypeOK, ApplyInv, AckedIsRecorded, NEW p \in Processes,
         Step(p) \/ Crash(p) \/ Abort(p)
  PROVE  (ApplyInv /\ AckedIsRecorded)'
<1>t. /\ name \in [Processes -> Names] /\ name[p] \in Names
      /\ published \in Nat /\ 1 .. published \subseteq Entries /\ trimmed \in Nat
      /\ delivered \in 0 .. published
      /\ pending \in [Names -> SUBSET Entries] /\ pending[name[p]] \in SUBSET Entries
      /\ proc \in [Processes -> Proc] /\ proc[p] \in Proc
  BY Zenon DEF AccountingTypeOK
<1>a. ApplyOK(p)
  BY Zenon DEF ApplyInv
<1>q. /\ \A q \in Processes : q # p => proc'[q] = proc[q]
      /\ malformed' = malformed /\ lost \subseteq lost'
  <2>1. proc[p].pc = "charging" => AtEvent(p)
    BY <1>a, Zenon DEF ApplyOK
  <2>2. malformed' = malformed /\ lost \subseteq lost'
    BY Zenon DEF Step, Start, ReadPending, Read, Record, Charge, Charged, Commit, Ack, Crash, Abort,
           Dies, environment
  <2> QED
    BY <2>1, <2>2, StepType, Zenon
<1>s. ASSUME records \subseteq records', ApplyOK(p)'
      PROVE  ApplyInv'
  <2>1. \A q \in Processes : q # p => ApplyOK(q)'
    BY <1>q, <1>s, ApplyStays, Zenon DEF ApplyInv
  <2> QED
    BY <1>s, <2>1, Zenon DEF ApplyInv
<1>i. ASSUME NEW k, k \in {"down", "starting", "reading"}, NEW B,
             Becomes(p, k, B, {}, 0, {}, NoCharges)
      PROVE  ApplyOK(p)'
  BY <1>i, Zenon DEF ApplyOK, Becomes
<1>r. ASSUME NEW B, Becomes(p, "recording", B, Events(B), 0, {}, NoCharges),
             \A e \in B : e > trimmed \/ e \in lost'
      PROVE  ApplyOK(p)'
  <2>1. \A e \in B \ Events(B) : e \in malformed' \cup lost'
    BY <1>q, <1>r, Zenon DEF Events, InStream
  <2> QED
    BY <1>r, <2>1, Zenon DEF ApplyOK, Becomes, Settled
<1>d. AckedIsRecorded <=>
        \A e \in 1 .. delivered : (\E n \in Names : e \in pending[n]) \/ Settled(e, records)
  BY Zenon DEF AckedIsRecorded, Settled
<1>e. AckedIsRecorded' <=>
        \A e \in 1 .. delivered' : (\E n \in Names : e \in pending'[n]) \/ Settled(e, records)'
  BY Zenon DEF AckedIsRecorded, Settled
<1>v. ASSUME records \subseteq records'
      PROVE  \A e : Settled(e, records) => Settled(e, records)'
  BY <1>q, <1>v, Zenon DEF Settled, SameRequest
<1>m. ASSUME delivered' = delivered, pending' = pending, records \subseteq records'
      PROVE  AckedIsRecorded'
  BY <1>m, <1>d, <1>e, <1>v, Zenon
<1>1. CASE Start(p)
  <2>1. Becomes(p, "starting", {}, {}, 0, {}, NoCharges)
    BY <1>1, <1>t, IdleShape, Zenon DEF Start, ProcLabels
  <2> QED
    BY <1>1, <1>s, <1>i, <1>m, <2>1, Zenon DEF Start, environment, redis, database
<1>2. CASE ReadPending(p)
  <2> DEFINE B == FirstBatch(pending[name[p]])
  <2>1. B \in SUBSET Entries
    BY <1>t, Zenon DEF FirstBatch
  <2>2. /\ \/ proc' = [proc EXCEPT ![p] = Applying(B)]
           \/ proc' = [proc EXCEPT ![p] = Idle("reading")]
        /\ lost' = lost \cup (B \ InStream(B))
        /\ UNCHANGED <<delivered, pending, records>>
    BY <1>2, Zenon DEF ReadPending, redis, database
  <2> HIDE DEF B
  <2>3. \/ Becomes(p, "recording", B, Events(B), 0, {}, NoCharges)
        \/ Becomes(p, "reading", {}, {}, 0, {}, NoCharges)
    BY <1>t, <2>1, <2>2, ApplyingShape, IdleShape, Zenon DEF ProcLabels
  <2>4. \A e \in B : e > trimmed \/ e \in lost'
    BY <2>2, Zenon DEF InStream
  <2> QED
    BY <2>2, <2>3, <2>4, <1>s, <1>i, <1>r, <1>m, Zenon
<1>3. CASE Read(p)
  <2> DEFINE B == FirstBatch(InStream((delivered + 1) .. published))
  <2>1. B # {} /\ delivered \in Nat
    BY <1>3, <1>t DEF Read
  <2>2. /\ B \subseteq InStream((delivered + 1) .. published)
        /\ 1 .. Max(B) \subseteq (1 .. delivered) \cup ((delivered + 1) .. trimmed) \cup B
    BY <1>t, <2>1, BatchFacts, ZenonT(30)
  <2>4. /\ proc' = [proc EXCEPT ![p] = Applying(B)]
        /\ delivered' = Max(B) /\ pending' = [pending EXCEPT ![name[p]] = @ \cup B]
        /\ lost' = lost \cup ((delivered + 1) .. trimmed)
        /\ records' = records
    BY <1>3, Zenon DEF Read, database
  <2> HIDE DEF B
  <2>3. /\ B \in SUBSET Entries /\ \A e \in B : e > trimmed
    <3>1. B \subseteq (delivered + 1) .. published /\ \A e \in B : e > trimmed
      BY <2>2, Zenon DEF InStream
    <3> QED
      BY <1>t, <2>1, <3>1
  <2>5. Becomes(p, "recording", B, Events(B), 0, {}, NoCharges)
    BY <1>t, <2>3, <2>4, ApplyingShape, Zenon
  <2>6. ASSUME NEW e \in 1 .. delivered'
        PROVE  (\E n \in Names : e \in pending'[n]) \/ Settled(e, records)'
    <3>1. \A n \in Names : pending[n] \subseteq pending'[n]
      BY <1>t, <2>4, Zenon
    <3>2. B \subseteq pending'[name[p]]
      BY <1>t, <2>4, Zenon
    <3>3. e \in (1 .. delivered) \cup ((delivered + 1) .. trimmed) \cup B
      BY <2>2, <2>4, <2>6, Zenon
    <3>4. e \in (delivered + 1) .. trimmed => Settled(e, records)'
      BY <2>4, Zenon DEF Settled
    <3> QED
      BY <1>t, <1>d, <1>v, <2>4, <3>1, <3>2, <3>3, <3>4, Zenon
  <2>7. AckedIsRecorded'
    BY <1>e, <2>6, Zenon
  <2> QED
    BY <1>s, <1>r, <2>3, <2>4, <2>5, <2>7, Zenon
<1>4. CASE Record(p)
  <2> DEFINE e == Event(p)
             s == proc[p]
  <2>1. s.pc = "recording" /\ AtEvent(p) /\ e \in Entries
    BY <1>4, <1>t, EventIsIn, Zenon DEF Record
  <2>2. UNCHANGED <<delivered, pending, records>>
    BY <1>4, Zenon DEF Record, redis, database
  <2>3. CASE /\ RequestOf[e] = NoId \/ SameRequest(e, records \cup s.inserted)
             /\ Becomes(p, s.pc, s.batch, s.left \ {e}, s.charged, s.inserted, s.charges)
    <3>1. /\ proc'[p].pc = "recording" /\ proc'[p].batch = s.batch
          /\ proc'[p].left = s.left \ {e} /\ proc'[p].inserted = s.inserted
      BY <2>1, <2>3, Zenon DEF Becomes
    <3>2. \A f \in s.batch \ s.left : Settled(f, records \cup s.inserted)
      BY <1>a, <2>1, Zenon DEF ApplyOK
    <3>3. \A f \in s.batch \ (s.left \ {e}) : Settled(f, records \cup s.inserted)
      BY <2>3, <3>2, Zenon DEF Settled
    <3> HIDE DEF e, s
    <3>4. \A f \in proc'[p].batch \ proc'[p].left : Settled(f, records \cup proc[p].inserted)'
      BY <1>q, <2>2, <3>1, <3>3, SettledStays, Zenon DEF s, Settled, SameRequest
    <3>5. ApplyOK(p)'
      BY <3>1, <3>4, Zenon DEF ApplyOK
    <3> QED
      BY <1>s, <1>m, <2>2, <3>5, Zenon
  <2>4. CASE Becomes(p, "charging", s.batch, s.left, 0, s.inserted \cup {e}, s.charges)
    <3>1. AtEvent(p)' /\ Event(p)' = e
      BY <2>1, <2>4, SameEvent, Zenon DEF Becomes
    <3>2. /\ proc'[p].pc = "charging" /\ proc'[p].left = s.left /\ proc'[p].batch = s.batch
          /\ proc'[p].charged = 0 /\ proc'[p].inserted = s.inserted \cup {e}
      BY <2>4, Zenon DEF Becomes
    <3>3. 0 <= Len(BudgetsOf[e])
      BY <2>1, BudgetSequences
    <3>4. \A f \in s.batch \ s.left : Settled(f, records \cup s.inserted)
      BY <1>a, <2>1, Zenon DEF ApplyOK
    <3> HIDE DEF e, s
    <3>5. \A f \in proc'[p].batch \ proc'[p].left : Settled(f, records \cup proc[p].inserted)'
      BY <1>q, <2>2, <3>2, <3>4, Zenon DEF Settled, SameRequest
    <3>6. ApplyOK(p)'
      BY <3>1, <3>2, <3>3, <3>5, ZenonT(30) DEF ApplyOK
    <3> QED
      BY <1>s, <1>m, <2>2, <3>6, Zenon
  <2> QED
    BY <1>4, <1>t, <2>3, <2>4, RecordShape, Zenon
<1>5. CASE Charge(p)
  <2> DEFINE s == proc[p]
             f == IF Budget(p) \in Budgets
                  THEN [s.charges EXCEPT ![Budget(p)] = @ + 1] ELSE s.charges
  <2>1. /\ s.pc = "charging" /\ s.charged < Len(BudgetsOf[Event(p)])
        /\ AtEvent(p) /\ Event(p) \in Entries /\ Event(p) \in s.inserted
    BY <1>5, <1>t, <1>a, EventIsIn, Zenon DEF Charge, AtBudget, ApplyOK
  <2>2. UNCHANGED <<delivered, pending, records>>
    BY <1>5, Zenon DEF Charge, redis, database
  <2>3. Becomes(p, s.pc, s.batch, s.left, s.charged + 1, s.inserted, f)
    BY <1>5, <1>t, ChargeShape, Zenon
  <2> HIDE DEF f
  <2>4. AtEvent(p)' /\ Event(p)' = Event(p)
    BY <2>1, <2>3, SameEvent, Zenon DEF Becomes
  <2>5. s.charged + 1 <= Len(BudgetsOf[Event(p)])
    <3>1. s.charged \in Nat
      BY <1>t, Zenon DEF Proc
    <3> QED
      BY <2>1, <3>1, BudgetSequences
  <2>6. /\ proc'[p].pc = "charging" /\ proc'[p].left = s.left /\ proc'[p].batch = s.batch
        /\ proc'[p].charged = s.charged + 1 /\ proc'[p].inserted = s.inserted
    BY <2>1, <2>3, Zenon DEF Becomes
  <2>7. \A e \in s.batch \ s.left : Settled(e, records \cup s.inserted)
    BY <1>a, <2>1, Zenon DEF ApplyOK
  <2>8. \A e \in proc'[p].batch \ proc'[p].left : Settled(e, records \cup proc[p].inserted)'
    BY <1>q, <2>2, <2>6, <2>7, Zenon DEF Settled, SameRequest
  <2>9. ApplyOK(p)'
    BY <2>1, <2>4, <2>5, <2>6, <2>8, ZenonT(30) DEF ApplyOK
  <2> QED
    BY <1>s, <1>m, <2>2, <2>9, Zenon
<1>6. CASE Charged(p)
  <2> DEFINE s == proc[p]
  <2>1. s.pc = "charging" /\ AtEvent(p) /\ Event(p) \in s.inserted
    BY <1>6, <1>a, Zenon DEF Charged, ApplyOK
  <2>2. UNCHANGED <<delivered, pending, records>>
    BY <1>6, Zenon DEF Charged, redis, database
  <2>3. Becomes(p, "recording", s.batch, s.left \ {Event(p)}, s.charged, s.inserted,
                s.charges)
    BY <1>6, <1>t, <2>1, ChargedShape, ZenonT(30)
  <2>4. /\ proc'[p].pc = "recording" /\ proc'[p].left = s.left \ {Event(p)}
        /\ proc'[p].batch = s.batch /\ proc'[p].inserted = s.inserted
    BY <2>3, Zenon DEF Becomes
  <2>5. /\ \A e \in s.batch \ s.left : Settled(e, records \cup s.inserted)
        /\ Settled(Event(p), records \cup s.inserted)
    BY <1>a, <2>1, Zenon DEF ApplyOK, Settled, SameRequest
  <2>6. \A e \in proc'[p].batch \ proc'[p].left : Settled(e, records \cup proc[p].inserted)'
    BY <1>q, <2>2, <2>4, <2>5, Zenon DEF Settled, SameRequest
  <2>7. ApplyOK(p)'
    BY <2>4, <2>6, Zenon DEF ApplyOK
  <2> QED
    BY <1>s, <1>m, <2>2, <2>7, Zenon
<1>7. CASE Commit(p)
  <2>1. Becomes(p, "acking", proc[p].batch, {}, 0, {}, NoCharges)
    <3>1. proc[p].batch \in SUBSET Entries /\ {} \in SUBSET Entries
      BY <1>t, Zenon DEF Proc
    <3> QED
      BY <1>7, <1>t, <3>1, HandlingShape, ZenonT(30) DEF Commit, ProcLabels
  <2>2. /\ UNCHANGED <<delivered, pending>> /\ records' = records \cup proc[p].inserted
        /\ proc[p].pc = "recording" /\ ~AtEvent(p)
    BY <1>7, Zenon DEF Commit, redis
  <2>3. \A e \in proc[p].batch : Settled(e, records \cup proc[p].inserted)
    BY <1>a, <2>2, Zenon DEF AtEvent, ApplyOK
  <2>4. ApplyOK(p)'
    <3>1. /\ proc'[p].pc = "acking" /\ proc'[p].batch = proc[p].batch
          /\ proc'[p].inserted = {} /\ proc'[p].charges = NoCharges
      BY <2>1, Zenon DEF Becomes
    <3>2. \A e \in proc'[p].batch : Settled(e, records)'
      BY <1>q, <2>2, <2>3, <3>1, Zenon DEF Settled, SameRequest
    <3> QED
      BY <3>1, <3>2, Zenon DEF ApplyOK
  <2> QED
    BY <1>s, <1>m, <2>2, <2>4, Zenon
<1>8. CASE Ack(p)
  <2>1. Becomes(p, "reading", {}, {}, 0, {}, NoCharges)
    BY <1>8, <1>t, IdleShape, ZenonT(30) DEF Ack, ProcLabels
  <2>2. /\ pending' = [pending EXCEPT ![name[p]] = @ \ proc[p].batch]
        /\ UNCHANGED <<delivered, records>> /\ proc[p].pc = "acking"
    BY <1>8, Zenon DEF Ack, database
  <2>3. \A e \in proc[p].batch : Settled(e, records)
    BY <1>a, <2>2, Zenon DEF ApplyOK
  <2>4. \A n \in Names : pending[n] \subseteq pending'[n] \cup proc[p].batch
    BY <1>t, <2>2, Zenon
  <2>5. AckedIsRecorded'
    BY <1>d, <1>e, <1>v, <2>2, <2>3, <2>4, Zenon
  <2> QED
    BY <1>s, <1>i, <2>1, <2>2, <2>5, Zenon
<1>9. CASE Crash(p) \/ Abort(p)
  <2>1. Dies(p)
    BY <1>9, Zenon DEF Crash, Abort
  <2>2. Becomes(p, "down", {}, {}, 0, {}, NoCharges)
    BY <2>1, <1>t, IdleShape, Zenon DEF Dies, ProcLabels
  <2> QED
    BY <1>s, <1>i, <1>m, <2>1, <2>2, Zenon DEF Dies, redis, database
<1> QED
  BY <1>1, <1>2, <1>3, <1>4, <1>5, <1>6, <1>7, <1>8, <1>9, Zenon DEF Step

\* Publishing, and a group that has nothing to do, disturb nothing of a process.
LEMMA OtherSteps ==
  ASSUME AccountingTypeOK,
         Publish \/ (Finished /\ UNCHANGED accountingVars) \/ UNCHANGED accountingVars
  PROVE  /\ AccountingTypeOK'
         /\ UNCHANGED <<name, malformed, lost, delivered, pending, proc, records, spent>>
<1>1. UNCHANGED <<name, malformed, lost, delivered, pending, proc, records, spent>>
  BY Zenon DEF Publish, accountingVars, environment, redis, database
<1>2. /\ published' \in Nat /\ 1 .. published' \subseteq Entries /\ delivered' \in 0 .. published'
      /\ trimmed' \in Nat
  <2>1. CASE Publish
    BY <1>1, <2>1 DEF Publish, AccountingTypeOK
  <2>2. CASE UNCHANGED <<published, trimmed>>
    BY <1>1, <2>2, Zenon DEF AccountingTypeOK
  <2> QED
    BY <2>1, <2>2, Zenon DEF accountingVars, redis
<1> QED
  BY <1>1, <1>2, Zenon DEF AccountingTypeOK

AppliedInv == AccountingTypeOK /\ ApplyInv /\ AckedIsRecorded

\* Every step keeps the invariant.
LEMMA AppliedStep == AppliedInv /\ [AccountingNext]_accountingVars => AppliedInv'
<1> SUFFICES ASSUME AppliedInv, [AccountingNext]_accountingVars PROVE AppliedInv'
  BY Zenon
<1> USE DEF AppliedInv
<1>1. CASE Publish \/ (Finished /\ UNCHANGED accountingVars) \/ UNCHANGED accountingVars
  <2>1. /\ AccountingTypeOK'
        /\ UNCHANGED <<name, malformed, lost, delivered, pending, proc, records>>
    BY <1>1, OtherSteps, Zenon
  <2>2. ApplyInv'
    BY <2>1, ApplyStays, Zenon DEF ApplyInv
  <2> QED
    BY <2>1, <2>2, Zenon DEF AckedIsRecorded, SameRequest
<1>2. CASE \E p \in Processes : Step(p) \/ Crash(p) \/ Abort(p)
  <2>1. PICK p \in Processes : Step(p) \/ Crash(p) \/ Abort(p)
    BY <1>2, Zenon
  <2>2. proc[p].pc = "charging" => AtEvent(p)
    BY Zenon DEF ApplyInv, ApplyOK
  <2> QED
    BY <2>1, <2>2, StepType, StepApply, Zenon
<1> QED
  BY <1>1, <1>2, Zenon DEF AccountingNext

\* For every number of processes, names, entries and budgets, every batch size
\* and every bound of the stream, an entry leaves the pending list only once its
\* request has a committed record, unless it was trimmed unread: apply commits before
\* the batch is acknowledged, and whatever it has passed over has a record, has no id
\* or had no payload.
THEOREM AckedIsRecordedHolds == AccountingSafety => []AckedIsRecorded
<1>1. AccountingInit => AppliedInv
  BY AccountingInitType, ApplyInitially, Zenon DEF AppliedInv
<1>2. AppliedInv /\ [AccountingNext]_accountingVars => AppliedInv'
  BY AppliedStep, Zenon
<1>3. AppliedInv => AckedIsRecorded
  BY Zenon DEF AppliedInv
<1> QED
  BY <1>1, <1>2, <1>3, PTL DEF AccountingSafety

-----------------------------------------------------------------------------
(* Accounting: what is charged *)

\* Process p holds the row of each request it has inserted: no record and no other
\* open transaction has that request.
LEMMA RecordsAreDistinct ==
  ASSUME AccountingTypeOK, ApplyInv, DistinctRequests, NEW p \in Processes,
         Step(p) \/ Crash(p) \/ Abort(p)
  PROVE  DistinctRequests'
<1>t. proc \in [Processes -> Proc] /\ proc[p] \in Proc /\ records \subseteq Entries
  BY Zenon DEF AccountingTypeOK
<1>c. proc[p].pc = "charging" => AtEvent(p)
  BY Zenon DEF ApplyInv, ApplyOK
<1>q. \A q \in Processes : q # p => proc'[q] = proc[q]
  BY <1>c, StepType, Zenon
<1>s. ASSUME records' = records, proc'[p].inserted \subseteq proc[p].inserted
      PROVE  DistinctRequests'
  <2>1. \A q \in Processes : proc'[q].inserted \subseteq proc[q].inserted
    BY <1>q, <1>s, Zenon
  <2> QED
    BY <1>s, <2>1 DEF DistinctRequests, SameRequest
<1>1. CASE Record(p)
  <2> DEFINE e == Event(p)
             s == proc[p]
  <2>1. s.pc = "recording" /\ AtEvent(p) /\ ~Blocked(p) /\ records' = records
    BY <1>1, Zenon DEF Record, database
  <2>2. CASE Becomes(p, s.pc, s.batch, s.left \ {e}, s.charged, s.inserted, s.charges)
    BY <1>s, <2>1, <2>2, Zenon DEF Becomes
  <2>3. CASE /\ RequestOf[e] # NoId /\ ~SameRequest(e, records \cup s.inserted)
             /\ Becomes(p, "charging", s.batch, s.left, 0, s.inserted \cup {e}, s.charges)
    <3>1. Row(p) = <<"request", RequestOf[e]>>
      BY <2>1, <2>3, Zenon DEF Row, AtBudget, SameRequest
    <3>2. \A q \in Processes \ {p} : ~SameRequest(e, proc[q].inserted)
      BY <2>1, <3>1, SMTT(30) DEF Blocked, WaitsFor, Holds, SameRequest
    <3>3. proc'[p].inserted = s.inserted \cup {e}
      BY <2>3, Zenon DEF Becomes
    <3>4. ~SameRequest(e, records) /\ ~SameRequest(e, s.inserted)
      BY <2>3, Zenon DEF SameRequest
    <3> HIDE DEF e, s
    <3> QED
      BY <1>q, <2>1, <3>2, <3>3, <3>4, SMTT(30) DEF DistinctRequests, SameRequest, s
  <2> QED
    BY <1>1, <1>t, <2>2, <2>3, RecordShape, Zenon
<1>2. CASE Commit(p)
  <2>1. Becomes(p, "acking", proc[p].batch, {}, 0, {}, NoCharges)
    <3>1. proc[p].batch \in SUBSET Entries /\ {} \in SUBSET Entries
      BY <1>t, Zenon DEF Proc
    <3> QED
      BY <1>2, <1>t, <3>1, HandlingShape, Zenon DEF Commit, ProcLabels
  <2>2. proc'[p].inserted = {} /\ records' = records \cup proc[p].inserted
    BY <1>2, <2>1, Zenon DEF Commit, Becomes
  <2> QED
    BY <1>q, <2>2, SMTT(30) DEF DistinctRequests, SameRequest
<1>3. CASE ~Record(p) /\ ~Commit(p)
  <2>1. records' = records
    BY <1>3, Zenon
    DEF Step, Start, ReadPending, Read, Charge, Charged, Ack, Crash, Abort, Dies, database
  <2>2. proc'[p].inserted = {} \/ proc'[p].inserted = proc[p].inserted
    <3>1. CASE Charge(p)
      BY <1>t, <3>1, ChargeShape, Zenon DEF Becomes
    <3>2. CASE Charged(p)
      BY <1>t, <1>c, <3>2, ChargedShape, Zenon DEF Becomes, Charged
    <3>3. CASE ~Charge(p) /\ ~Charged(p)
      <4>1. \E k, B, L : proc' = [proc EXCEPT ![p] = Handling(k, B, L)]
        BY <1>3, <3>3, Zenon DEF Step, Start, ReadPending, Read, Ack, Crash, Abort, Dies,
                                 Applying, Idle
      <4> QED
        BY <1>t, <4>1 DEF Handling
    <3> QED
      BY <3>1, <3>2, <3>3, Zenon
  <2> QED
    BY <1>s, <2>1, <2>2, Zenon
<1> QED
  BY <1>1, <1>2, <1>3, Zenon

\* What a set of events owes a budget is one charge per place that names it.
LEMMA OwedHas ==
  ASSUME NEW S \in SUBSET Entries, NEW b, NEW u \in Owed(S, b)
  PROVE  /\ u[1] \in S /\ u[2] \in 1 .. Len(BudgetsOf[u[1]])
         /\ Len(BudgetsOf[u[1]]) \in Nat
         /\ BudgetRow(u[1], u[2]) = b /\ u = <<u[1], u[2]>>
<1>1. \A e \in S : DOMAIN BudgetsOf[e] = 1 .. Len(BudgetsOf[e]) /\ Len(BudgetsOf[e]) \in Nat
  BY BudgetSequences, Zenon
<1> QED
  BY <1>1 DEF Owed

\* Every place that names a budget owes it a charge.
LEMMA OwedBy ==
  ASSUME NEW S \in SUBSET Entries, NEW b, NEW e \in S, NEW i \in 1 .. Len(BudgetsOf[e]),
         BudgetRow(e, i) = b
  PROVE  <<e, i>> \in Owed(S, b)
<1>1. DOMAIN BudgetsOf[e] = 1 .. Len(BudgetsOf[e])
  BY BudgetSequences, Zenon
<1> QED
  BY <1>1 DEF Owed

\* Events that are apart owe apart.
LEMMA OwedUnion ==
  ASSUME NEW S \in SUBSET Entries, NEW T \in SUBSET Entries, NEW b, S \cap T = {}
  PROVE  Owed(S \cup T, b) = Owed(S, b) \cup Owed(T, b) /\ Owed(S, b) \cap Owed(T, b) = {}
<1>1. Owed(S \cup T, b) = Owed(S, b) \cup Owed(T, b)
  BY DEF Owed
<1>2. ASSUME NEW u \in Owed(S, b), u \in Owed(T, b) PROVE FALSE
  BY <1>2, OwedHas
<1> QED
  BY <1>1, <1>2, Zenon

\* Nothing is left out when no entry is being charged, or all of its budgets were.
LEMMA AllOwed ==
  ASSUME NEW S \in SUBSET Entries, NEW b, NEW k, NEW e, NEW c,
         k # "charging" \/ (e \in S /\ c = Len(BudgetsOf[e]))
  PROVE  OwedSoFar(S, b, k, e, c) = Owed(S, b)
<1>1. CASE k # "charging"
  BY <1>1, Zenon DEF OwedSoFar
<1>2. CASE e \in S /\ c = Len(BudgetsOf[e])
  <2>1. ASSUME NEW u \in Owed(S, b), u[1] = e PROVE ~(u[2] > c)
    BY <1>2, <2>1, OwedHas
  <2> QED
    BY <2>1, Zenon DEF OwedSoFar
<1> QED
  BY <1>1, <1>2, Zenon

\* An entry whose charging begins adds nothing yet.
LEMMA NothingYet ==
  ASSUME NEW S \in SUBSET Entries, NEW b, NEW e \in Entries \ S
  PROVE  OwedSoFar(S \cup {e}, b, "charging", e, 0) = Owed(S, b)
<1>1. ASSUME NEW u \in Owed(S, b) PROVE u \in Owed(S \cup {e}, b) /\ u[1] # e
  <2>1. u \in Owed(S \cup {e}, b)
    BY Zenon DEF Owed
  <2> QED
    BY <2>1, OwedHas
<1>2. ASSUME NEW u \in Owed(S \cup {e}, b), ~(u[1] = e /\ u[2] > 0) PROVE u \in Owed(S, b)
  <2>1. S \cup {e} \in SUBSET Entries
    BY Zenon
  <2>2. /\ u[1] \in S \cup {e} /\ u[2] \in 1 .. Len(BudgetsOf[u[1]])
        /\ Len(BudgetsOf[u[1]]) \in Nat
        /\ BudgetRow(u[1], u[2]) = b /\ u = <<u[1], u[2]>>
    BY <2>1, OwedHas
  <2>3. u[1] \in S
    BY <1>2, <2>2
  <2>4. <<u[1], u[2]>> \in Owed(S, b)
    BY <2>2, <2>3, OwedBy, Zenon
  <2> QED
    BY <2>2, <2>4, Zenon
<1> QED
  BY <1>1, <1>2, Zenon DEF OwedSoFar

GrowsBy(A, D, u) == u \notin A /\ D = A \cup {u}

\* A set with one member more has one member more to count.
LEMMA GrownCount ==
  ASSUME NEW A, NEW D, NEW u, IsFiniteSet(A), GrowsBy(A, D, u)
  PROVE  IsFiniteSet(D) /\ Cardinality(D) = Cardinality(A) + 1
<1>1. D = A \cup {u} /\ u \notin A
  BY Zenon DEF GrowsBy
<1> QED
  BY <1>1, FS_AddElement, Zenon

\* Passing a budget adds the one charge to it.
LEMMA OneMore ==
  ASSUME NEW S \in SUBSET Entries, NEW b, NEW e \in S, NEW c \in Nat,
         c < Len(BudgetsOf[e])
  PROVE  /\ BudgetRow(e, c + 1) = b =>
              GrowsBy(OwedSoFar(S, b, "charging", e, c),
                      OwedSoFar(S, b, "charging", e, c + 1), <<e, c + 1>>)
         /\ BudgetRow(e, c + 1) # b =>
              OwedSoFar(S, b, "charging", e, c) = OwedSoFar(S, b, "charging", e, c + 1)
<1> DEFINE A == OwedSoFar(S, b, "charging", e, c)
           D == OwedSoFar(S, b, "charging", e, c + 1)
           N == IF BudgetRow(e, c + 1) = b THEN {<<e, c + 1>>} ELSE {}
<1>0. c + 1 \in 1 .. Len(BudgetsOf[e]) /\ Len(BudgetsOf[e]) \in Nat
  BY BudgetSequences
<1>1. <<e, c + 1>> \notin A
  BY DEF OwedSoFar
<1>2. ASSUME NEW u \in D PROVE u \in A \cup N
  <2>1. u \in Owed(S, b) /\ ~(u[1] = e /\ u[2] > c + 1)
    BY <1>2, Zenon DEF OwedSoFar
  <2>2. /\ u[2] \in Int /\ BudgetRow(u[1], u[2]) = b /\ u = <<u[1], u[2]>>
    BY <2>1, OwedHas
  <2>3. CASE u[1] = e /\ u[2] = c + 1
    BY <2>2, <2>3, Zenon
  <2>4. CASE ~(u[1] = e /\ u[2] > c)
    BY <2>1, <2>4, Zenon DEF OwedSoFar
  <2> QED
    BY <2>1, <2>2, <2>3, <2>4
<1>3. ASSUME NEW u \in A PROVE u \in D
  <2>1. u \in Owed(S, b) /\ ~(u[1] = e /\ u[2] > c)
    BY <1>3, Zenon DEF OwedSoFar
  <2>2. u[2] \in Int
    BY <2>1, OwedHas
  <2>3. ~(u[1] = e /\ u[2] > c + 1)
    BY <2>1, <2>2
  <2> QED
    BY <2>1, <2>3, Zenon DEF OwedSoFar
<1>4. ASSUME NEW u \in N PROVE u \in D
  <2>1. u = <<e, c + 1>> /\ BudgetRow(e, c + 1) = b
    BY <1>4, Zenon
  <2>2. u \in Owed(S, b)
    BY <1>0, <2>1, OwedBy, Zenon
  <2>3. ~(u[1] = e /\ u[2] > c + 1)
    BY <2>1
  <2> QED
    BY <2>2, <2>3, Zenon DEF OwedSoFar
<1> HIDE DEF A, D, N
<1>5. D = A \cup N
  BY <1>2, <1>3, <1>4, Zenon
<1> QED
  BY <1>1, <1>5, Zenon DEF A, D, N, GrowsBy

\* What a process has charged follows its entries and the budgets it has come to.
LEMMA ChargesStep ==
  ASSUME AccountingTypeOK, ApplyInv, DistinctRequests, ChargesInv, NEW p \in Processes,
         Step(p) \/ Crash(p) \/ Abort(p)
  PROVE  ChargesInv'
<1> SUFFICES ASSUME NEW b \in Budgets
             PROVE  /\ IsFiniteSet(Owed(records', b)) /\ spent'[b] = Cardinality(Owed(records', b))
                    /\ \A q \in Processes :
                         /\ IsFiniteSet(Made(q, b)')
                         /\ proc'[q].charges[b] = Cardinality(Made(q, b)')
  BY Zenon DEF ChargesInv, Owed
<1>t. /\ proc \in [Processes -> Proc] /\ proc[p] \in Proc /\ records \subseteq Entries
      /\ spent \in [Budgets -> Nat]
      /\ proc[p].inserted \subseteq Entries /\ proc[p].charges \in [Budgets -> Nat]
      /\ proc[p].charged \in Nat
  BY Zenon DEF AccountingTypeOK, Proc
<1>c. proc[p].pc = "charging" =>
        /\ AtEvent(p) /\ Event(p) \in proc[p].inserted
        /\ proc[p].charged <= Len(BudgetsOf[Event(p)])
  BY ZenonT(30) DEF ApplyInv, ApplyOK
<1>q. \A q \in Processes : q # p => proc'[q] = proc[q]
  BY <1>c, StepType, Zenon
<1>h. /\ IsFiniteSet(Owed(records, b)) /\ spent[b] = Cardinality(Owed(records, b))
      /\ \A q \in Processes :
           IsFiniteSet(Made(q, b)) /\ proc[q].charges[b] = Cardinality(Made(q, b))
  BY Zenon DEF ChargesInv
<1>o. \A q \in Processes : q # p => Made(q, b)' = Made(q, b)
  BY <1>q, SameEvent, Zenon DEF Made, OwedSoFar, Owed
<1>m. \A q \in Processes :
        Made(q, b)' = OwedSoFar(proc'[q].inserted, b, proc'[q].pc, Event(q)', proc'[q].charged)
  BY Zenon DEF Made, OwedSoFar, Owed
<1>s. ASSUME records' = records, spent' = spent, IsFiniteSet(Made(p, b)'),
             proc'[p].charges[b] = Cardinality(Made(p, b)')
      PROVE  /\ IsFiniteSet(Owed(records', b)) /\ spent'[b] = Cardinality(Owed(records', b))
             /\ \A q \in Processes :
                  /\ IsFiniteSet(Made(q, b)')
                  /\ proc'[q].charges[b] = Cardinality(Made(q, b)')
  <2>1. \A q \in Processes : q # p =>
          IsFiniteSet(Made(q, b)') /\ proc'[q].charges[b] = Cardinality(Made(q, b)')
    BY <1>q, <1>o, <1>h, Zenon
  <2> QED
    BY <1>s, <1>h, <2>1, Zenon
<1>i. ASSUME NEW k, k # "charging", proc'[p].pc = k, proc'[p].inserted = {},
             proc'[p].charges = NoCharges
      PROVE  IsFiniteSet(Made(p, b)') /\ proc'[p].charges[b] = Cardinality(Made(p, b)')
  <2>1. Made(p, b)' = {}
    <3>1. Owed({}, b) = {}
      BY Zenon DEF Owed
    <3> QED
      BY <1>i, <1>m, <3>1, Zenon DEF OwedSoFar
  <2>2. proc'[p].charges[b] = 0
    BY <1>i, Zenon DEF NoCharges
  <2> QED
    BY <2>1, <2>2, FS_EmptySet, Zenon
<1>1. CASE Record(p)
  <2> DEFINE e == Event(p)
             s == proc[p]
  <2>1. s.pc = "recording" /\ AtEvent(p) /\ e \in Entries
    BY <1>1, <1>t, EventIsIn, Zenon DEF Record
  <2>2. records' = records /\ spent' = spent
    BY <1>1, Zenon DEF Record, database
  <2>3. Made(p, b) = Owed(s.inserted, b)
    BY <1>t, <2>1, AllOwed, SMTT(30) DEF Made
  <2>4. CASE Becomes(p, s.pc, s.batch, s.left \ {e}, s.charged, s.inserted, s.charges)
    <3>1. proc'[p].pc = "recording" /\ proc'[p].inserted = s.inserted
          /\ proc'[p].charges = s.charges
      BY <2>1, <2>4, Zenon DEF Becomes
    <3>2. Made(p, b)' = Made(p, b)
      BY <1>m, <1>t, <2>3, <3>1, AllOwed, SMTT(30)
    <3> QED
      BY <1>h, <1>s, <2>2, <3>1, <3>2, Zenon
  <2>5. CASE /\ ~SameRequest(e, records \cup s.inserted)
             /\ Becomes(p, "charging", s.batch, s.left, 0, s.inserted \cup {e}, s.charges)
    <3>1. /\ proc'[p].pc = "charging" /\ proc'[p].inserted = s.inserted \cup {e}
          /\ proc'[p].charges = s.charges /\ proc'[p].charged = 0
          /\ Event(p)' = e
      BY <2>5, SameEvent, Zenon DEF Becomes
    <3>2. e \in Entries \ s.inserted
      BY <2>1, <2>5, Zenon DEF SameRequest
    <3>3. Made(p, b)' = Made(p, b)
      BY <1>m, <1>t, <2>3, <3>1, <3>2, NothingYet, Zenon
    <3> QED
      BY <1>h, <1>s, <2>2, <3>1, <3>3, Zenon
  <2> QED
    BY <1>1, <1>t, <2>4, <2>5, RecordShape, Zenon
<1>2. CASE Charge(p)
  <2> DEFINE s == proc[p]
             e == Event(p)
             g == IF Budget(p) \in Budgets
                  THEN [s.charges EXCEPT ![Budget(p)] = @ + 1] ELSE s.charges
             u == <<e, s.charged + 1>>
  <2>1. /\ s.pc = "charging" /\ s.charged < Len(BudgetsOf[e])
        /\ e \in s.inserted /\ Budget(p) = BudgetRow(e, s.charged + 1)
    BY <1>2, <1>c, Zenon DEF Charge, AtBudget, Budget
  <2>2. records' = records /\ spent' = spent
    BY <1>2, Zenon DEF Charge, database
  <2>3. Becomes(p, s.pc, s.batch, s.left, s.charged + 1, s.inserted, g)
    BY <1>2, <1>t, ChargeShape, ZenonT(30)
  <2>4. /\ proc'[p].pc = "charging" /\ proc'[p].inserted = s.inserted
        /\ proc'[p].charges = g /\ proc'[p].charged = s.charged + 1
        /\ Event(p)' = e
    BY <2>1, <2>3, SameEvent, Zenon DEF Becomes
  <2>5. /\ Budget(p) = b => GrowsBy(Made(p, b), Made(p, b)', u)
        /\ Budget(p) # b => Made(p, b)' = Made(p, b)
    <3>1. Made(p, b) = OwedSoFar(s.inserted, b, "charging", e, s.charged)
      BY <2>1, Zenon DEF Made
    <3>2. Made(p, b)' = OwedSoFar(s.inserted, b, "charging", e, s.charged + 1)
      BY <1>m, <2>4, Zenon
    <3>3. /\ s.inserted \in SUBSET Entries /\ e \in s.inserted
          /\ s.charged \in Nat /\ s.charged < Len(BudgetsOf[e])
      BY <1>t, <2>1, Zenon
    <3> HIDE DEF s, e
    <3> QED
      BY <2>1, <3>1, <3>2, <3>3, OneMore, ZenonT(30)
  <2>6. IsFiniteSet(Made(p, b)) /\ s.charges[b] = Cardinality(Made(p, b))
    BY <1>h, Zenon
  <2>7. CASE Budget(p) = b
    <3>1. g[b] = s.charges[b] + 1
      BY <1>t, <2>7, Zenon
    <3> HIDE DEF u
    <3>2. IsFiniteSet(Made(p, b)') /\ Cardinality(Made(p, b)') = Cardinality(Made(p, b)) + 1
      BY <2>5, <2>6, <2>7, GrownCount, ZenonT(30)
    <3> QED
      BY <1>s, <2>2, <2>4, <2>6, <3>1, <3>2, ZenonT(30)
  <2>8. CASE Budget(p) # b
    <3>1. g[b] = s.charges[b]
      BY <1>t, <2>8, ZenonT(30)
    <3> QED
      BY <1>s, <2>2, <2>4, <2>5, <2>6, <2>8, <3>1, ZenonT(30)
  <2> QED
    BY <2>7, <2>8, Zenon
<1>3. CASE Charged(p)
  <2> DEFINE s == proc[p]
             e == Event(p)
  <2>1. s.pc = "charging" /\ AtEvent(p) /\ e \in s.inserted /\ ~AtBudget(p)
    BY <1>3, <1>c, Zenon DEF Charged
  <2>2. records' = records /\ spent' = spent
    BY <1>3, Zenon DEF Charged, database
  <2>3. Becomes(p, "recording", s.batch, s.left \ {e}, s.charged, s.inserted, s.charges)
    BY <1>3, <1>t, <2>1, ChargedShape, ZenonT(30)
  <2>4. s.charged = Len(BudgetsOf[e])
    BY <1>c, <1>t, <2>1, BudgetSequences, SMTT(30) DEF AtBudget
  <2>5. Made(p, b) = Owed(s.inserted, b)
    BY <1>t, <2>1, <2>4, AllOwed, SMTT(30) DEF Made
  <2>6. proc'[p].pc = "recording" /\ proc'[p].inserted = s.inserted /\ proc'[p].charges = s.charges
    BY <2>3, Zenon DEF Becomes
  <2>7. Made(p, b)' = Made(p, b)
    BY <1>m, <1>t, <2>5, <2>6, AllOwed
  <2> QED
    BY <1>h, <1>s, <2>2, <2>6, <2>7, Zenon
<1>4. CASE Commit(p)
  <2> DEFINE S == proc[p].inserted
  <2>1. Becomes(p, "acking", proc[p].batch, {}, 0, {}, NoCharges)
    <3>1. proc[p].batch \in SUBSET Entries /\ {} \in SUBSET Entries
      BY <1>t, Zenon DEF Proc
    <3> QED
      BY <1>4, <1>t, <3>1, HandlingShape, ZenonT(30) DEF Commit, ProcLabels
  <2>2. /\ records' = records \cup S /\ spent'[b] = spent[b] + proc[p].charges[b]
        /\ proc[p].pc = "recording"
    BY <1>4, Zenon DEF Commit
  <2>3. Made(p, b) = Owed(S, b)
    BY <1>t, <2>2, AllOwed DEF Made
  <2>4. records \cap S = {}
    BY Zenon DEF DistinctRequests, SameRequest
  <2>5. Owed(records', b) = Owed(records, b) \cup Owed(S, b)
        /\ Owed(records, b) \cap Owed(S, b) = {}
    BY <1>t, <2>2, <2>4, OwedUnion, SMTT(30)
  <2>6. IsFiniteSet(Owed(S, b)) /\ proc[p].charges[b] = Cardinality(Owed(S, b))
    BY <1>h, <2>3, Zenon
  <2>7. /\ IsFiniteSet(Owed(records', b))
        /\ Cardinality(Owed(records', b)) =
             Cardinality(Owed(records, b)) + Cardinality(Owed(S, b))
    <3>1. /\ IsFiniteSet(Owed(records', b))
          /\ Cardinality(Owed(records', b)) =
               Cardinality(Owed(records, b)) + Cardinality(Owed(S, b))
                 - Cardinality(Owed(records, b) \cap Owed(S, b))
      <4> DEFINE A == Owed(records, b)
                 D == Owed(S, b)
      <4>1. IsFiniteSet(A) /\ IsFiniteSet(D) /\ Owed(records', b) = A \cup D
        BY <1>h, <2>5, <2>6, Zenon
      <4> HIDE DEF A, D
      <4>2. /\ IsFiniteSet(A \cup D)
            /\ Cardinality(A \cup D) =
                 Cardinality(A) + Cardinality(D) - Cardinality(A \cap D)
        BY <4>1, FS_Union, Zenon
      <4> QED
        BY <4>1, <4>2, ZenonT(30) DEF A, D
    <3>2. Cardinality(Owed(records, b) \cap Owed(S, b)) = 0
      BY <2>5, FS_EmptySet, Zenon
    <3>3. Cardinality(Owed(records, b)) \in Nat /\ Cardinality(Owed(S, b)) \in Nat
      BY <1>h, <2>6, FS_CardinalityType, Zenon
    <3> QED
      BY <3>1, <3>2, <3>3
  <2>8. IsFiniteSet(Made(p, b)') /\ proc'[p].charges[b] = Cardinality(Made(p, b)')
    BY <1>i, <2>1, ZenonT(30) DEF Becomes
  <2>9. \A q \in Processes : q # p =>
          IsFiniteSet(Made(q, b)') /\ proc'[q].charges[b] = Cardinality(Made(q, b)')
    BY <1>q, <1>o, <1>h, Zenon
  <2> QED
    BY <1>h, <2>2, <2>6, <2>7, <2>8, <2>9, ZenonT(30)
<1>5. CASE ~Record(p) /\ ~Charge(p) /\ ~Charged(p) /\ ~Commit(p)
  <2>1. records' = records /\ spent' = spent
    BY <1>5, Zenon DEF Step, Start, ReadPending, Read, Ack, Crash, Abort, Dies, database
  <2>2. /\ proc'[p].pc # "charging" /\ proc'[p].inserted = {}
        /\ proc'[p].charges = NoCharges
    <3>1. \E k \in ProcLabels \ {"charging"} : \E B, L :
            proc' = [proc EXCEPT ![p] = Handling(k, B, L)]
      BY <1>5, Zenon DEF Step, Start, ReadPending, Read, Ack, Crash, Abort, Dies, Applying,
                         Idle, ProcLabels
    <3> QED
      BY <1>t, <3>1 DEF Handling
  <2> QED
    BY <1>i, <1>s, <2>1, <2>2, ZenonT(30)
<1> QED
  BY <1>1, <1>2, <1>3, <1>4, <1>5, ZenonT(30)

AccountingInv == AppliedInv /\ DistinctRequests /\ ChargesInv

\* For every value of the constants: the usage records hold each request once, and
\* each budget was charged once for every record that names it, whichever replicas
\* are given an entry and wherever they die.  A replica holds the row of each request
\* it inserts (DistinctRequests), and its open transaction has charged what the
\* entries inserted so far owe (ChargesInv).
THEOREM ChargedOnceHolds == AccountingSafety => []ChargedOnce
<1>1. AccountingInit => AccountingInv
  <2> SUFFICES ASSUME AccountingInit PROVE AccountingInv
    BY Zenon
  <2>1. \A p \in Processes : proc[p] = Idle("down")
    BY Zenon DEF AccountingInit
  <2>2. records = {} /\ spent = NoCharges
        /\ \A p \in Processes : /\ proc[p].pc = "down" /\ proc[p].inserted = {}
                                /\ proc[p].charges = NoCharges
    BY <2>1, Zenon DEF Idle, Handling, AccountingInit
  <2>3. \A b : Owed({}, b) = {}
    BY Zenon DEF Owed
  <2>4. \A p \in Processes : \A b \in Budgets : Made(p, b) = {}
    BY <2>2, <2>3, Zenon DEF Made, OwedSoFar
  <2>5. ChargesInv
    BY <2>2, <2>3, <2>4, FS_EmptySet, Zenon DEF ChargesInv, NoCharges
  <2>6. DistinctRequests
    BY <2>2, Zenon DEF DistinctRequests
  <2> QED
    BY <2>5, <2>6, AccountingInitType, ApplyInitially, Zenon DEF AccountingInv, AppliedInv
<1>2. AccountingInv /\ [AccountingNext]_accountingVars => AccountingInv'
  <2> SUFFICES ASSUME AccountingInv, [AccountingNext]_accountingVars PROVE AccountingInv'
    BY Zenon
  <2>1. AppliedInv'
    BY AppliedStep, Zenon DEF AccountingInv
  <2>2. AccountingTypeOK /\ ApplyInv
    BY Zenon DEF AccountingInv, AppliedInv
  <2>3. CASE Publish \/ (Finished /\ UNCHANGED accountingVars) \/ UNCHANGED accountingVars
    <3>1. UNCHANGED <<malformed, proc, records, spent>>
      BY <2>2, <2>3, OtherSteps, Zenon
    <3>2. \A p \in Processes : Event(p)' = Event(p)
      BY <3>1, SameEvent, Zenon
    <3>3. \A p \in Processes, b \in Budgets : Made(p, b)' = Made(p, b)
      BY <3>1, <3>2, Zenon DEF Made, OwedSoFar, Owed
    <3>4. ChargesInv'
      BY <3>1, <3>3, Zenon DEF AccountingInv, ChargesInv, Owed
    <3>5. DistinctRequests'
      BY <3>1 DEF AccountingInv, DistinctRequests, SameRequest
    <3> QED
      BY <2>1, <3>4, <3>5, Zenon DEF AccountingInv
  <2>4. CASE \E p \in Processes : Step(p) \/ Crash(p) \/ Abort(p)
    BY <2>1, <2>2, <2>4, RecordsAreDistinct, ChargesStep, Zenon DEF AccountingInv
  <2> QED
    BY <2>3, <2>4, Zenon DEF AccountingNext
<1>3. AccountingInv => ChargedOnce
  BY Zenon DEF AccountingInv, DistinctRequests, ChargesInv, ChargedOnce
<1> QED
  BY <1>1, <1>2, <1>3, PTL DEF AccountingSafety

-----------------------------------------------------------------------------
(* Publishing *)

SessionType == [op: {"none", "revoke", "rotate", "issue", "configure"},
                key: Keys \cup {Closed.key}, successor: Keys \cup {Closed.key},
                tenant: Tenants \cup {Closed.tenant}, version: Nat]

PollType == [pc: {"waiting", "tenants", "keys"}, coherent: BOOLEAN,
             version: [Tenants -> Nat], keys: SUBSET Keys, todo: SUBSET Tenants]

\* The types of what the admin API, a poll and the Holder keep.
PublishingTypeOK ==
  /\ version \in [Tenants -> Nat]
  /\ status \in [Keys -> {"absent", "active", "revoked"}]
  /\ coherent \in BOOLEAN
  /\ session \in [Sessions -> SessionType]
  /\ \A c \in Sessions : session[c].op # "none" => session[c].tenant \in Tenants
  /\ poll \in PollType
  /\ held \in [version: [Tenants -> Nat], keys: SUBSET Keys]
  /\ high \in [Tenants -> Nat]
  /\ since \in [Keys -> Nat]

\* A snapshot, read or held, that has a revoked key is older than the revocation.
CoversVersion(s) ==
  \A k \in s.keys : since[k] > 0 => s.version[Owner[k]] < since[k]

\* No snapshot is ahead of the versions there were, a key whose revocation took its
\* tenant to a new version stays revoked, a build reads its versions before its
\* keys, and neither the build nor the worker has a key its versions deny.
CoverInv ==
  /\ \A t \in Tenants : /\ version[t] <= high[t]
                        /\ poll.version[t] <= high[t]
                        /\ held.version[t] <= high[t]
  /\ \A k \in Keys : since[k] > 0 => status[k] = "revoked"
  /\ poll.pc # "keys" => poll.keys = {}
  /\ CoversVersion(poll)
  /\ CoversVersion(held)

\* A session that is closed has no operation under way.
LEMMA ClosedType == Closed \in SessionType /\ Closed.op = "none"
<1>1. /\ Closed.op = "none" /\ Closed.version = 0
      /\ Closed = [op |-> Closed.op, key |-> Closed.key, successor |-> Closed.key,
                   tenant |-> Closed.tenant, version |-> Closed.version]
  BY SMTT(30) DEF Closed
<1> QED
  BY <1>1, SMTT(30) DEF SessionType

\* A poll that is waiting has read nothing.
LEMMA WaitingType == Waiting \in PollType /\ Waiting.pc = "waiting" /\ Waiting.keys = {}
                     /\ \A t \in Tenants : Waiting.version[t] = 0
BY Zenon DEF Waiting, PollType

\* Nothing is published initially.
LEMMA PublishingInitially == PublishingInit => PublishingTypeOK /\ CoverInv
<1> SUFFICES ASSUME PublishingInit PROVE PublishingTypeOK /\ CoverInv
  BY Zenon
<1>1. session \in [Sessions -> SessionType] /\ \A c \in Sessions : session[c].op = "none"
  BY ClosedType, Zenon DEF PublishingInit
<1>2. poll \in PollType /\ poll.pc = "waiting" /\ poll.keys = {}
      /\ \A t \in Tenants : poll.version[t] = 0
  BY WaitingType, Zenon DEF PublishingInit
<1>3. /\ version = [t \in Tenants |-> 1] /\ high = version
      /\ held.version = version /\ held.keys = Issued
      /\ since = [k \in Keys |-> 0]
  BY Zenon DEF PublishingInit
<1>4. held \in [version: [Tenants -> Nat], keys: SUBSET Keys]
  BY PublishingAssumption, Zenon DEF PublishingInit
<1>5. PublishingTypeOK
  BY <1>1, <1>2, <1>3, <1>4, SMTT(30) DEF PublishingTypeOK, PublishingInit
<1>6. CoverInv
  BY <1>2, <1>3, PublishingAssumption DEF CoverInv, CoversVersion
<1> QED
  BY <1>5, <1>6, Zenon

\* A session reads, or is closed without a commit.
LEMMA ReadsType ==
  ASSUME PublishingTypeOK, CoverInv, NEW c \in Sessions, NEW s \in SessionType,
         s.op # "none" => s.tenant \in Tenants,
         session' = [session EXCEPT ![c] = s], UNCHANGED <<db, poll, held, ghosts>>
  PROVE  (PublishingTypeOK /\ CoverInv)'
<1>1. UNCHANGED <<version, status, coherent, poll, held, high, since>>
  BY Zenon DEF db, ghosts
<1>2. /\ session' \in [Sessions -> SessionType]
      /\ \A d \in Sessions : session'[d].op # "none" => session'[d].tenant \in Tenants
  BY Zenon DEF PublishingTypeOK
<1>3. PublishingTypeOK'
  BY <1>1, <1>2, Zenon DEF PublishingTypeOK
<1>4. CoverInv'
  BY <1>1, Zenon DEF CoverInv, CoversVersion
<1> QED
  BY <1>3, <1>4, Zenon

\* A key that is revoked stays so, and no other key is.
LEMMA WrittenKeepsRevoked ==
  ASSUME PublishingTypeOK, NEW c \in Sessions,
         \A k \in Inserts(session[c]) : status[k] = "absent",
         status' = Written(session[c], status)
  PROVE  /\ status' \in [Keys -> {"absent", "active", "revoked"}]
         /\ \A k \in Keys : status[k] = "revoked" => status'[k] = "revoked"
         /\ \A k \in Keys : session[c].op = "revoke" /\ k = session[c].key
                              => status'[k] = "revoked"
<1> DEFINE s == session[c]
<1>1. status \in [Keys -> {"absent", "active", "revoked"}]
  BY Zenon DEF PublishingTypeOK
<1> HIDE DEF s
<1>2. CASE s.op = "revoke"
  BY <1>1, <1>2, Zenon DEF Written, s
<1>3. CASE s.op = "issue"
  <2>1. status[s.key] = "absent" /\ status' = [status EXCEPT ![s.key] = "active"]
    BY <1>3, Zenon DEF Written, Inserts, s
  <2> QED
    BY <1>1, <1>3, <2>1, Zenon DEF s
<1>4. CASE s.op = "rotate"
  <2>1. status[s.successor] = "absent" /\ status' = [status EXCEPT ![s.successor] = "active"]
    BY <1>4, Zenon DEF Written, Inserts, s
  <2> QED
    BY <1>1, <1>4, <2>1, ZenonT(30) DEF s
<1>5. CASE s.op \notin {"revoke", "issue", "rotate"}
  <2>1. status' = status
    BY <1>5, Zenon DEF Written, s
  <2> QED
    BY <1>1, <1>5, <2>1, Zenon DEF s
<1> QED
  BY <1>2, <1>3, <1>4, <1>5, Zenon

\* A commit makes its rows and its version visible together.
LEMMA CommitCovers ==
  ASSUME PublishingTypeOK, CoverInv, NEW c \in Sessions, CommitSession(c)
  PROVE  (PublishingTypeOK /\ CoverInv)'
<1> DEFINE s == session[c]
           t == s.tenant
<1>t. /\ version \in [Tenants -> Nat] /\ high \in [Tenants -> Nat]
      /\ status \in [Keys -> {"absent", "active", "revoked"}]
      /\ session \in [Sessions -> SessionType] /\ s \in SessionType /\ s.version \in Nat
      /\ poll.version \in [Tenants -> Nat] /\ held.version \in [Tenants -> Nat]
      /\ poll.keys \subseteq Keys /\ held.keys \subseteq Keys
      /\ since \in [Keys -> Nat] /\ Owner \in [Keys -> Tenants]
  BY PublishingAssumption, Zenon DEF PublishingTypeOK, SessionType, PollType
<1>1. /\ status' \in [Keys -> {"absent", "active", "revoked"}]
      /\ \A k \in Keys : status[k] = "revoked" => status'[k] = "revoked"
      /\ \A k \in Keys : s.op = "revoke" /\ k = s.key => status'[k] = "revoked"
  BY WrittenKeepsRevoked, Zenon DEF CommitSession
<1>2. /\ session' \in [Sessions -> SessionType]
      /\ \A d \in Sessions : session'[d].op # "none" => session'[d].tenant \in Tenants
  BY <1>t, ClosedType, ZenonT(30) DEF CommitSession, PublishingTypeOK
<1>3. /\ version' = [version EXCEPT ![t] = s.version + 1]
      /\ high' = [high EXCEPT ![t] = IF version'[t] > @ THEN version'[t] ELSE @]
      /\ UNCHANGED <<coherent, poll, held>>
      /\ since' = [k \in Keys |->
           IF k = s.key /\ s.op = "revoke" /\ status[k] # "revoked"
                /\ version'[Owner[k]] > high[Owner[k]]
           THEN version'[Owner[k]] ELSE since[k]]
  BY Zenon DEF CommitSession, Raise
<1> HIDE DEF s, t
<1>4. /\ version' \in [Tenants -> Nat] /\ high' \in [Tenants -> Nat]
      /\ \A o \in Tenants : version'[o] <= high'[o] /\ high[o] <= high'[o]
  <2>1. \A o \in Tenants : version[o] <= high[o]
    BY Zenon DEF CoverInv
  <2>2. CASE t \in Tenants
    <3>1. /\ version' \in [Tenants -> Nat] /\ version'[t] = s.version + 1
          /\ \A o \in Tenants : o # t => version'[o] = version[o]
      BY <1>t, <1>3, <2>2, SMTT(30)
    <3>2. PICK h \in Nat : h = IF version'[t] > high[t] THEN version'[t] ELSE high[t]
      BY <1>t, <2>2, <3>1, Zenon
    <3>3. high' = [high EXCEPT ![t] = h]
      BY <1>3, <3>2, SMTT(30)
    <3>4. h >= version'[t] /\ h >= high[t]
      BY <1>t, <2>2, <3>1, <3>2, SMTT(30)
    <3> QED
      BY <1>t, <2>1, <2>2, <3>1, <3>3, <3>4, SMTT(30)
  <2>3. CASE t \notin Tenants
    <3>1. version' = version /\ high' = high
      BY <1>t, <1>3, <2>3, SMTT(30)
    <3> QED
      BY <1>t, <2>1, <3>1, SMTT(30)
  <2> QED
    BY <2>2, <2>3, Zenon
<1>5. since' \in [Keys -> Nat]
  BY <1>t, <1>3, <1>4, Zenon
<1>6. PublishingTypeOK'
  BY <1>1, <1>2, <1>3, <1>4, <1>5, Zenon DEF PublishingTypeOK
<1>7. \A k \in Keys : \/ since'[k] = since[k]
                      \/ /\ status'[k] = "revoked" /\ since'[k] > high[Owner[k]]
                         /\ since'[k] = version'[Owner[k]]
  BY <1>1, <1>3, Zenon
<1>8. ASSUME NEW x, x.version \in [Tenants -> Nat], x.keys \subseteq Keys, CoversVersion(x),
             \A o \in Tenants : x.version[o] <= high[o]
      PROVE  CoversVersion(x)'
  <2> SUFFICES ASSUME NEW k \in x.keys, since'[k] > 0 PROVE x.version[Owner[k]] < since'[k]
    BY Zenon DEF CoversVersion
  <2>1. Owner[k] \in Tenants /\ k \in Keys
    BY <1>t, <1>8, Zenon
  <2>2. /\ x.version[Owner[k]] \in Nat /\ high[Owner[k]] \in Nat /\ since'[k] \in Nat
        /\ x.version[Owner[k]] <= high[Owner[k]]
    BY <1>t, <1>5, <1>8, <2>1, Zenon
  <2> QED
    BY <1>7, <1>8, <2>1, <2>2, SMTT(30) DEF CoversVersion
<1>9. CoversVersion(poll)' /\ CoversVersion(held)'
  <2>1. CoversVersion(poll) /\ CoversVersion(held)
        /\ \A o \in Tenants : poll.version[o] <= high[o] /\ held.version[o] <= high[o]
    BY Zenon DEF CoverInv
  <2>2. /\ \A k \in poll.keys : since'[k] > 0 => poll.version[Owner[k]] < since'[k]
        /\ \A k \in held.keys : since'[k] > 0 => held.version[Owner[k]] < since'[k]
    BY <1>t, <1>8, <2>1, ZenonT(30) DEF CoversVersion
  <2> QED
    BY <1>3, <2>2, Zenon DEF CoversVersion
<1>10. \A o \in Tenants : poll'.version[o] <= high'[o] /\ held'.version[o] <= high'[o]
  <2> SUFFICES ASSUME NEW o \in Tenants
               PROVE  poll.version[o] <= high'[o] /\ held.version[o] <= high'[o]
    BY <1>3, Zenon
  <2>1. poll.version[o] <= high[o] /\ held.version[o] <= high[o]
    BY Zenon DEF CoverInv
  <2> QED
    BY <1>t, <1>4, <2>1, SMTT(30)
<1>11. \A k \in Keys : since'[k] > 0 => status'[k] = "revoked"
  BY <1>1, <1>7, Zenon DEF CoverInv
<1>12. poll'.pc # "keys" => poll'.keys = {}
  BY <1>3, Zenon DEF CoverInv
<1> QED
  BY <1>4, <1>6, <1>9, <1>10, <1>11, <1>12, Zenon DEF CoverInv

\* The steps of a poll, and Holder.Swap.
LEMMA PollCovers ==
  ASSUME PublishingTypeOK, CoverInv, PollStep
  PROVE  (PublishingTypeOK /\ CoverInv)'
<1>t. /\ version \in [Tenants -> Nat] /\ coherent \in BOOLEAN
      /\ poll \in PollType /\ poll.version \in [Tenants -> Nat] /\ poll.keys \subseteq Keys
      /\ poll.todo \subseteq Tenants
  BY Zenon DEF PublishingTypeOK, PollType
<1>c. /\ \A t \in Tenants : /\ version[t] <= high[t] /\ poll.version[t] <= high[t]
                            /\ held.version[t] <= high[t]
      /\ \A k \in Keys : since[k] > 0 => status[k] = "revoked"
      /\ poll.pc # "keys" => poll.keys = {}
      /\ CoversVersion(poll) /\ CoversVersion(held)
  BY Zenon DEF CoverInv
<1>u. UNCHANGED <<db, session, ghosts>>
  BY Zenon DEF PollStep, LoadFleet, LoadTenants, LoadKeys, Apply, KeepHeld
<1>s. ASSUME poll' \in PollType, poll'.pc # "keys" => poll'.keys = {},
             \A t \in Tenants : poll'.version[t] <= high[t],
             \A k \in poll'.keys : since[k] > 0 => poll'.version[Owner[k]] < since[k],
             \/ held' = held
             \/ held'.version = poll.version /\ held'.keys = poll.keys
                /\ held' = [version |-> poll.version, keys |-> poll.keys]
      PROVE  (PublishingTypeOK /\ CoverInv)'
  <2>1. UNCHANGED <<version, status, coherent, session, high, since>>
    BY <1>u, Zenon DEF db, ghosts
  <2>2. held' \in [version: [Tenants -> Nat], keys: SUBSET Keys]
    BY <1>s, <1>t, Zenon DEF PublishingTypeOK
  <2>3. PublishingTypeOK'
    BY <1>s, <2>1, <2>2, Zenon DEF PublishingTypeOK
  <2>4. CoversVersion(held)' /\ \A t \in Tenants : held'.version[t] <= high[t]
    BY <1>s, <1>c, <2>1, Zenon DEF CoversVersion
  <2>5. CoversVersion(poll)'
    BY <1>s, <2>1, Zenon DEF CoversVersion
  <2> QED
    BY <1>s, <1>c, <2>1, <2>3, <2>4, <2>5, Zenon DEF CoverInv
<1>w. ASSUME poll' = Waiting
      PROVE  /\ poll' \in PollType
             /\ poll'.pc # "keys" => poll'.keys = {}
             /\ \A t \in Tenants : poll'.version[t] <= high[t]
             /\ \A k \in poll'.keys : since[k] > 0 => poll'.version[Owner[k]] < since[k]
  BY <1>w, WaitingType, SMTT(30) DEF PublishingTypeOK
<1>1. CASE LoadFleet
  <2> DEFINE f == [poll EXCEPT !.pc = "tenants"]
             g == [f EXCEPT !.coherent = coherent]
  <2>1. f \in PollType /\ f.pc = "tenants" /\ f.version = poll.version /\ f.keys = poll.keys
    BY <1>t, Zenon DEF PollType
  <2>2. poll' = g
    BY <1>1, Zenon DEF LoadFleet
  <2> HIDE DEF f
  <2>3. g \in PollType /\ g.pc = "tenants" /\ g.version = poll.version /\ g.keys = poll.keys
    BY <1>t, <2>1, Zenon DEF PollType
  <2>4. poll.keys = {} /\ held' = held
    BY <1>1, <1>c, Zenon DEF LoadFleet
  <2> HIDE DEF g
  <2> QED
    BY <1>c, <1>s, <2>2, <2>3, <2>4, Zenon
<1>2. CASE LoadTenants
  <2> DEFINE f == [poll EXCEPT !.pc = "keys"]
             g == [f EXCEPT !.version = version]
             h == [g EXCEPT !.todo = Tenants]
  <2>1. f \in PollType /\ f.pc = "keys" /\ f.keys = poll.keys
    BY <1>t, Zenon DEF PollType
  <2>2. poll' = h
    BY <1>2, Zenon DEF LoadTenants
  <2> HIDE DEF f
  <2>3. g \in PollType /\ g.pc = "keys" /\ g.version = version /\ g.keys = poll.keys
    BY <1>t, <2>1, Zenon DEF PollType
  <2> HIDE DEF g
  <2>4. h \in PollType /\ h.pc = "keys" /\ h.version = version /\ h.keys = poll.keys
    BY <1>t, <2>3, Zenon DEF PollType
  <2>5. poll.keys = {} /\ held' = held
    BY <1>2, <1>c, Zenon DEF LoadTenants
  <2> HIDE DEF h
  <2> QED
    BY <1>c, <1>s, <2>2, <2>4, <2>5, Zenon
<1>3. ASSUME NEW t \in Tenants, LoadKeys(t)
      PROVE  (PublishingTypeOK /\ CoverInv)'
  <2> DEFINE K == {k \in Keys : Owner[k] = t /\ status[k] = "active"}
             f == [poll EXCEPT !.keys = @ \cup K]
             g == [f EXCEPT !.todo = @ \ {t}]
  <2>1. /\ f \in PollType /\ f.pc = poll.pc /\ f.version = poll.version
        /\ f.keys = poll.keys \cup K /\ f.todo = poll.todo
    BY <1>t, Zenon DEF PollType
  <2>2. poll' = g /\ poll.pc = "keys" /\ held' = held
    BY <1>3, Zenon DEF LoadKeys
  <2>3. \A k \in K : since[k] > 0 => FALSE
    BY <1>c, Zenon
  <2> HIDE DEF f, K
  <2>4. /\ g \in PollType /\ g.pc = poll.pc /\ g.version = poll.version
        /\ g.keys = poll.keys \cup K
    BY <1>t, <2>1, Zenon DEF PollType
  <2> HIDE DEF g
  <2>5. \A k \in poll.keys \cup K : since[k] > 0 => poll.version[Owner[k]] < since[k]
    BY <1>c, <2>3, Zenon DEF CoversVersion
  <2> QED
    BY <1>c, <1>s, <2>2, <2>4, <2>5, Zenon
<1>4. CASE Apply
  <2>1. /\ poll' = Waiting /\ held' = [version |-> poll.version, keys |-> poll.keys]
    BY <1>4, Zenon DEF Apply, Compiled
  <2>2. held'.version = poll.version /\ held'.keys = poll.keys
    BY <2>1, Zenon
  <2> QED
    BY <1>s, <1>w, <2>1, <2>2, Zenon
<1>5. CASE KeepHeld
  BY <1>5, <1>s, <1>w, Zenon DEF KeepHeld
<1> QED
  BY <1>1, <1>2, <1>3, <1>4, <1>5, Zenon DEF PollStep

\* Every step keeps the invariant.
LEMMA PublishingStep ==
  PublishingTypeOK /\ CoverInv /\ [PublishingNext]_publishingVars
    => (PublishingTypeOK /\ CoverInv)'
<1> SUFFICES ASSUME PublishingTypeOK, CoverInv, [PublishingNext]_publishingVars
             PROVE  (PublishingTypeOK /\ CoverInv)'
  BY Zenon
<1>t. /\ version \in [Tenants -> Nat] /\ high \in [Tenants -> Nat]
      /\ session \in [Sessions -> SessionType] /\ Owner \in [Keys -> Tenants]
      /\ poll.version \in [Tenants -> Nat] /\ held.version \in [Tenants -> Nat]
  BY PublishingAssumption, Zenon DEF PublishingTypeOK, PollType
<1>1. ASSUME NEW c \in Sessions, AdminStep(c) PROVE (PublishingTypeOK /\ CoverInv)'
  <2>1. ASSUME NEW op \in {"revoke", "rotate", "issue", "configure"},
               NEW k \in Keys \cup {Closed.key}, NEW s \in Keys \cup {Closed.key},
               NEW t \in Tenants, ReadKey(c, op, k, s, t)
        PROVE  (PublishingTypeOK /\ CoverInv)'
    <3> DEFINE r == [op |-> op, key |-> k, successor |-> s, tenant |-> t, version |-> 0]
    <3>1. r \in SessionType /\ r.tenant \in Tenants
      BY Zenon DEF SessionType
    <3>2. session' = [session EXCEPT ![c] = r] /\ UNCHANGED <<db, poll, held, ghosts>>
      BY <2>1, Zenon DEF ReadKey
    <3> HIDE DEF r
    <3> QED
      BY <3>1, <3>2, ReadsType, ZenonT(30)
  <2>2. ASSUME NEW k \in Keys, RevokeReads(c, k) \/ IssueReads(c, k)
        PROVE  (PublishingTypeOK /\ CoverInv)'
    BY <1>t, <2>1, <2>2, Zenon DEF RevokeReads, IssueReads
  <2>3. ASSUME NEW k \in Keys, NEW s \in Keys, RotateReads(c, k, s)
        PROVE  (PublishingTypeOK /\ CoverInv)'
    BY <1>t, <2>1, <2>3, Zenon DEF RotateReads
  <2>4. ASSUME NEW t \in Tenants, ConfigureReads(c, t)
        PROVE  (PublishingTypeOK /\ CoverInv)'
    BY <2>1, <2>4, Zenon DEF ConfigureReads
  <2>5. CASE ReadTenant(c)
    <3> DEFINE s == session[c]
               n == version[s.tenant]
               r == [s EXCEPT !.version = n]
    <3>1. s \in SessionType /\ s.tenant \in Tenants /\ n \in Nat
      BY <1>t, <2>5, Zenon DEF ReadTenant, PublishingTypeOK
    <3>2. /\ session' = [session EXCEPT ![c] = r]
          /\ UNCHANGED <<db, poll, held, ghosts>>
      BY <2>5, Zenon DEF ReadTenant
    <3> HIDE DEF s, n
    <3>3. r \in SessionType /\ r.tenant = s.tenant
      BY <3>1, Zenon DEF SessionType
    <3> HIDE DEF r
    <3> QED
      BY <3>1, <3>2, <3>3, ReadsType, Zenon
  <2>6. CASE CommitSession(c)
    BY <2>6, CommitCovers, Zenon
  <2>7. CASE Refused(c)
    BY <2>7, ClosedType, ReadsType, Zenon DEF Refused
  <2> QED
    BY <1>1, <2>2, <2>3, <2>4, <2>5, <2>6, <2>7, ZenonT(30) DEF AdminStep
<1>2. CASE Provision
  <2>1. UNCHANGED <<version, status, session, poll, held, high, since>>
    BY <1>2, Zenon DEF Provision, ghosts
  <2>2. coherent' \in BOOLEAN
    BY <1>2, Zenon DEF Provision
  <2> QED
    BY <2>1, <2>2, Zenon DEF PublishingTypeOK, CoverInv, CoversVersion
<1>3. ASSUME NEW t \in Tenants, BumpVersion(t) PROVE (PublishingTypeOK /\ CoverInv)'
  <2>1. /\ version' = [version EXCEPT ![t] = @ + 1]
        /\ high' = [high EXCEPT ![t] = IF version'[t] > @ THEN version'[t] ELSE @]
        /\ UNCHANGED <<status, coherent, session, poll, held, since>>
    BY <1>3, Zenon DEF BumpVersion, Raise
  <2>2. PICK h \in Nat : h = IF version'[t] > high[t] THEN version'[t] ELSE high[t]
    BY <1>t, <2>1, SMTT(30)
  <2>3. high' = [high EXCEPT ![t] = h] /\ h >= version'[t] /\ h >= high[t]
    BY <1>t, <2>1, <2>2, SMTT(30)
  <2>4. /\ version' \in [Tenants -> Nat] /\ high' \in [Tenants -> Nat]
        /\ \A o \in Tenants : version'[o] <= high'[o] /\ high[o] <= high'[o]
    BY <1>t, <2>1, <2>3, SMTT(30) DEF CoverInv
  <2>5. \A o \in Tenants : poll.version[o] <= high'[o] /\ held.version[o] <= high'[o]
    <3> TAKE o \in Tenants
    <3>1. poll.version[o] <= high[o] /\ held.version[o] <= high[o]
      BY Zenon DEF CoverInv
    <3> QED
      BY <1>t, <2>4, <3>1, SMTT(30)
  <2>6. PublishingTypeOK'
    BY <2>1, <2>4, Zenon DEF PublishingTypeOK
  <2> QED
    BY <2>1, <2>4, <2>5, <2>6, Zenon DEF CoverInv, CoversVersion
<1>4. CASE PollStep
  BY <1>4, PollCovers, Zenon
<1>5. CASE UNCHANGED publishingVars
  <2>1. UNCHANGED <<version, status, coherent, session, poll, held, high, since>>
    BY <1>5, Zenon DEF publishingVars, db, ghosts
  <2> QED
    BY <2>1, Zenon DEF PublishingTypeOK, CoverInv, CoversVersion
<1> QED
  BY <1>1, <1>2, <1>3, <1>4, <1>5, Zenon DEF PublishingNext

\* For every number of tenants, keys and sessions: a worker that has a version a
\* revocation took its tenant to does not serve the key, whatever is committed
\* between the statements of a build.  It needs that the build in progress covers
\* its versions too, and that no version read is ahead of those there were.
THEOREM ContentCoversVersionHolds == PublishingSafety => []ContentCoversVersion
<1>1. PublishingTypeOK /\ CoverInv => ContentCoversVersion
  <2> SUFFICES ASSUME PublishingTypeOK, CoverInv, NEW k \in Keys, since[k] > 0,
                      held.version[Owner[k]] >= since[k], k \in held.keys
               PROVE  FALSE
    BY Zenon DEF ContentCoversVersion
  <2>1. held.version[Owner[k]] < since[k]
    BY Zenon DEF CoverInv, CoversVersion
  <2>2. held.version[Owner[k]] \in Nat /\ since[k] \in Nat
    BY PublishingAssumption, Zenon DEF PublishingTypeOK
  <2> QED
    BY <2>1, <2>2
<1> QED
  BY <1>1, PublishingInitially, PublishingStep, PTL DEF PublishingSafety

\* For every value of the constants: a key that is revoked, and that neither the
\* worker nor a build in progress has, is never served again.
THEOREM RevokedStaysOutHolds == PublishingSafety => RevokedStaysOut
<1>1. PublishingTypeOK /\ [PublishingNext]_publishingVars
        => [\A k \in Keys :
              status[k] = "revoked" /\ k \notin held.keys \cup poll.keys
                => status'[k] = "revoked" /\ k \notin held'.keys \cup poll'.keys]_publishingVars
  <2> SUFFICES ASSUME PublishingTypeOK, PublishingNext, NEW k \in Keys, status[k] = "revoked",
                      k \notin held.keys, k \notin poll.keys
               PROVE  status'[k] = "revoked" /\ k \notin held'.keys /\ k \notin poll'.keys
    BY Zenon
  <2>1. status'[k] = "revoked"
    <3>1. ASSUME NEW c \in Sessions, CommitSession(c) PROVE status'[k] = "revoked"
      BY <3>1, WrittenKeepsRevoked, Zenon DEF CommitSession
    <3>2. CASE \A c \in Sessions : ~CommitSession(c)
      <4>1. status' = status
        BY <3>2, Zenon DEF PublishingNext, AdminStep, RevokeReads, IssueReads, RotateReads,
                    ConfigureReads, ReadKey, ReadTenant, Refused, Provision, BumpVersion, PollStep,
                    LoadFleet, LoadTenants, LoadKeys, Apply, KeepHeld, db
      <4> QED
        BY <4>1, Zenon
    <3> QED
      BY <3>1, <3>2, Zenon
  <2>2. held' = held \/ held'.keys = poll.keys
    <3>1. CASE Apply
      BY <3>1, Zenon DEF Apply, Compiled
    <3>2. CASE ~Apply
      BY <3>2, Zenon DEF PublishingNext, AdminStep, RevokeReads, IssueReads, RotateReads,
                  ConfigureReads, ReadKey, ReadTenant, CommitSession, Refused, Provision,
                  BumpVersion, PollStep, LoadFleet, LoadTenants, LoadKeys, KeepHeld
    <3> QED
      BY <3>1, <3>2, Zenon
  <2>3. k \notin poll'.keys
    <3>1. poll \in PollType
      BY Zenon DEF PublishingTypeOK
    <3>2. ASSUME NEW t \in Tenants, LoadKeys(t) PROVE k \notin poll'.keys
      BY <3>1, <3>2, Zenon DEF LoadKeys, PollType
    <3>3. CASE LoadFleet \/ LoadTenants
      BY <3>1, <3>3, Zenon DEF LoadFleet, LoadTenants, PollType
    <3>4. CASE Apply \/ KeepHeld
      BY <3>4, WaitingType, Zenon DEF Apply, KeepHeld
    <3>5. CASE ~PollStep
      <4>1. poll' = poll
        BY <3>5, Zenon DEF PublishingNext, AdminStep, RevokeReads, IssueReads, RotateReads,
                    ConfigureReads, ReadKey, ReadTenant, CommitSession, Refused, Provision,
                    BumpVersion
      <4> QED
        BY <4>1, Zenon
    <3> QED
      BY <3>2, <3>3, <3>4, <3>5, Zenon DEF PollStep
  <2> QED
    BY <2>1, <2>2, <2>3, Zenon
<1> QED
  BY <1>1, PublishingInitially, PublishingStep, PTL DEF PublishingSafety, RevokedStaysOut
=============================================================================
