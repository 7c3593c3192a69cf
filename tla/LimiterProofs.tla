--------------------------- MODULE LimiterProofs ---------------------------
(***************************************************************************)
(* The rate limiter, for every fleet, limit and lease.                     *)
(*                                                                         *)
(* WindowBound is proved by counting permits: those spent, those left in   *)
(* the workers' buckets and those leased but not yet installed are         *)
(* together no more than the store has counted out.  A count over workers  *)
(* or requests is the size of a set of pairs, so that one bucket's change  *)
(* moves it by that bucket's difference.  SlotsExact is inductive once the *)
(* counter is known never to be found negative.                            *)
(***************************************************************************)
EXTENDS Limiter, FiniteSetTheorems, TLAPS

-----------------------------------------------------------------------------
(* Counting *)

\* One pair for every unit of every f[d].
Units(D, f) == {u \in D \X (Nat \ {0}) : u[2] <= f[u[1]]}

\* Where one value changes, the number of units changes by the difference.
LEMMA UnitsMove ==
  ASSUME NEW D, NEW f \in [D -> Nat], NEW g \in [D -> Nat], NEW d \in D,
         \A c \in D : c # d => g[c] = f[c],
         IsFiniteSet(Units(D, f))
  PROVE  /\ IsFiniteSet(Units(D, g))
         /\ Cardinality(Units(D, g)) = Cardinality(Units(D, f)) - f[d] + g[d]
<1> DEFINE rest == {u \in Units(D, f) : u[1] # d}
           col(n) == {d} \X (1 .. n)
<1>1. ASSUME NEW n \in Nat
      PROVE  IsFiniteSet(col(n)) /\ Cardinality(col(n)) = n
  <2>1. IsFiniteSet(1 .. n) /\ Cardinality(1 .. n) = n
    <3>1. 1 \in Int /\ n \in Int /\ (1 > n => n = 0) /\ n - 1 + 1 = n
      OBVIOUS
    <3>2. /\ IsFiniteSet(1 .. n)
          /\ Cardinality(1 .. n) = IF 1 > n THEN 0 ELSE n - 1 + 1
      BY <3>1, FS_Interval, Zenon
    <3> QED BY <3>1, <3>2, Zenon
  <2>2. IsFiniteSet({d}) /\ Cardinality({d}) = 1
    BY FS_Singleton, Zenon
  <2>3. IsFiniteSet({d} \X (1 .. n)) /\ Cardinality({d} \X (1 .. n)) = 1 * n
    <3>1. /\ IsFiniteSet({d} \X (1 .. n))
          /\ Cardinality({d} \X (1 .. n)) = Cardinality({d}) * Cardinality(1 .. n)
      BY <2>1, <2>2, FS_Product, Zenon
    <3> QED BY <2>1, <2>2, <3>1, Zenon
  <2> QED BY <2>3
<1>2. IsFiniteSet(rest)
  BY FS_Subset, Zenon
<1>3. Units(D, f) = rest \cup col(f[d]) /\ Units(D, g) = rest \cup col(g[d])
  BY DEF Units
<1>4. ASSUME NEW n \in Nat
      PROVE  /\ IsFiniteSet(rest \cup col(n))
             /\ Cardinality(rest \cup col(n)) = Cardinality(rest) + n
  <2>1. rest \cap col(n) = {}
    BY Zenon
  <2> HIDE DEF rest, col
  <2>2. Cardinality(rest) \in Nat
    BY <1>2, FS_CardinalityType, Zenon
  <2>3. /\ IsFiniteSet(rest \cup col(n))
        /\ Cardinality(rest \cup col(n)) =
             Cardinality(rest) + Cardinality(col(n)) - Cardinality(rest \cap col(n))
    BY <1>1, <1>2, FS_Union, Zenon
  <2>4. Cardinality(col(n)) = n /\ Cardinality(rest \cap col(n)) = 0
    BY <1>1, <2>1, FS_EmptySet, Zenon
  <2> QED BY <2>2, <2>3, <2>4
<1>5. f[d] \in Nat /\ g[d] \in Nat
  BY Zenon
<1> HIDE DEF rest, col
<1> QED BY <1>2, <1>3, <1>4, <1>5, FS_CardinalityType

\* Where no value changes, neither does the number of units.
LEMMA UnitsStay ==
  ASSUME NEW D, NEW f \in [D -> Nat], NEW g \in [D -> Nat],
         \A c \in D : g[c] = f[c]
  PROVE  Units(D, g) = Units(D, f)
BY Zenon DEF Units

\* Counts that are all zero add up to nothing.
LEMMA UnitsNone ==
  ASSUME NEW D, NEW f \in [D -> Nat], \A c \in D : f[c] = 0
  PROVE  IsFiniteSet(Units(D, f)) /\ Cardinality(Units(D, f)) = 0
<1>1. Units(D, f) = {}
  BY DEF Units
<1> QED BY <1>1, FS_EmptySet, Zenon

-----------------------------------------------------------------------------
(* Limiter: the inductive invariant *)

BucketType == [remaining : Nat, expires : Nat, refreshing : BOOLEAN]
Labels == {"idle", "overflow", "take", "refill", "lease", "grant", "retake", "tokens",
           "running", "refused", "finishing", "reset"}
LocalsType == [pc : Labels, max : Nat, key : Windows, taken : BOOLEAN, granted : Nat]

LTypeOK ==
  /\ fleet \in Fleets
  /\ window \in Windows
  /\ maxConcurrent \in MaxConcurrents
  /\ slots \in [Workers -> Int]
  /\ counted \subseteq Workers
  /\ bucket \in [Workers -> [Windows -> BucketType]]
  /\ {rpm, tpm, failures, spent} \subseteq [Windows -> Nat]
  /\ req \in [Requests -> LocalsType]

\* The permits of window w that a request has been granted and not installed.
InHand(q, w) == IF q.pc = "grant" /\ q.key = w THEN q.granted ELSE 0

Bucketed(w) == Units(Workers, [k \in Workers |-> bucket[k][w].remaining])
Leased(w) == Units(Requests, [r \in Requests |-> InHand(req[r], w)])

\* What the store has counted out of window w, up to the limit.
CountedOut(w) == IF rpm[w] <= Limit THEN rpm[w] ELSE Limit

PermitsInv ==
  \A w \in Windows :
    /\ IsFiniteSet(Bucketed(w)) /\ IsFiniteSet(Leased(w))
    /\ spent[w] + Cardinality(Bucketed(w)) + Cardinality(Leased(w))
         <= CountedOut(w) + Lease * failures[w]

\* With a MaxConcurrent throughout, whoever is past Arrive was counted.
SlotsInv ==
  0 \notin MaxConcurrents =>
    \A r \in Requests : req[r].pc # "idle" =>
      /\ req[r].pc # "reset"
      /\ req[r].max \in MaxConcurrents
      /\ Host[r] \in counted

-----------------------------------------------------------------------------
(* Limiter: constants of a fleet, and types *)

\* What any fleet gives its constants.
LEMMA FleetFacts ==
  ASSUME fleet \in Fleets
  PROVE  /\ 1 \in Windows /\ Windows \subseteq Nat
         /\ MaxConcurrents \subseteq Nat
         /\ IsFiniteSet(Requests)
         /\ TokenLimit \in Nat /\ MaxFailures \in Nat
         /\ \A r \in Requests : Host[r] \in Workers
         /\ Limit \in Nat \ {0} /\ Lease \in Nat \ {0}
BY LimiterAssumption
   DEF Windows, MaxWindow, MaxConcurrents, Requests, Host, TokenLimit, MaxFailures, Workers

\* The fleet is chosen once.
LEMMA FleetFixed ==
  ASSUME fleet' = fleet
  PROVE  /\ Host' = Host /\ Requests' = Requests /\ Workers' = Workers
         /\ Windows' = Windows /\ MaxConcurrents' = MaxConcurrents
BY Zenon DEF Windows, MaxWindow, MaxConcurrents, Requests, Host, Workers

\* The smaller of two numbers.
LEMMA MinOfTwo ==
  ASSUME NEW a \in Nat, NEW b \in Nat
  PROVE  Min({a, b}) = IF a <= b THEN a ELSE b
<1>1. \E x \in {a, b} : \A y \in {a, b} : x <= y
  OBVIOUS
<1>2. Min({a, b}) \in {a, b} /\ \A y \in {a, b} : Min({a, b}) <= y
  BY <1>1, Zenon DEF Min
<1> QED BY <1>2

\* The types hold initially.
LEMMA LimiterInitType == LimiterInit => LTypeOK
<1> SUFFICES ASSUME LimiterInit PROVE LTypeOK
  BY Zenon
<1>1. fleet \in Fleets
  BY Zenon DEF LimiterInit
<1>2. 1 \in Windows
  BY <1>1, FleetFacts, Zenon
<1>3. EmptyBucket \in BucketType /\ Idle \in LocalsType
  BY <1>2, Zenon DEF EmptyBucket, Idle, BucketType, LocalsType, Labels
<1>4. {rpm, tpm, failures, spent} \subseteq [Windows -> Nat]
  BY DEF LimiterInit
<1>5. bucket \in [Workers -> [Windows -> BucketType]] /\ req \in [Requests -> LocalsType]
  BY <1>3, Zenon DEF LimiterInit
<1> QED BY <1>1, <1>2, <1>4, <1>5 DEF LimiterInit, LTypeOK

\* The bucket Take leaves, and the one Grant leaves.
LEMMA BucketOps ==
  ASSUME NEW b \in BucketType,
         window \in Nat, NEW n \in Nat
  PROVE  /\ Usable(b) \in 0 .. b.remaining
         /\ AfterTake(b) \in BucketType
         /\ AfterTake(b).remaining + (IF Usable(b) > 0 THEN 1 ELSE 0) <= b.remaining
         /\ AfterGrant(b, n) \in BucketType
         /\ AfterGrant(b, n).remaining = b.remaining + n
<1>1. Usable(b) \in 0 .. b.remaining
  BY DEF Usable, BucketType
<1>2. AfterTake(b) = [b EXCEPT !.remaining = IF Usable(b) > 0 THEN Usable(b) - 1 ELSE 0]
  BY Zenon DEF AfterTake
<1>3. /\ AfterGrant(b, n) \in BucketType
      /\ AfterGrant(b, n).remaining = b.remaining + n
  <2> DEFINE c == [b EXCEPT !.remaining = @ + n]
             d == [c EXCEPT !.expires = IF n > 0 THEN window ELSE @]
  <2>1. c \in BucketType /\ c.remaining = b.remaining + n
    BY DEF BucketType
  <2> HIDE DEF c
  <2>2. d \in BucketType /\ d.remaining = c.remaining
    BY <2>1, Zenon DEF BucketType
  <2> HIDE DEF d
  <2>3. /\ [d EXCEPT !.refreshing = FALSE] \in BucketType
        /\ [d EXCEPT !.refreshing = FALSE].remaining = d.remaining
    BY <2>2, Zenon DEF BucketType
  <2> QED BY <2>1, <2>2, <2>3, Zenon DEF c, d, AfterGrant
<1> QED BY <1>1, <1>2, <1>3 DEF BucketType

\* A grant is a natural number.
LEMMA GrantedType ==
  ASSUME NEW used \in Nat, Limit \in Nat, Lease \in Nat
  PROVE  Granted(used) \in Nat
BY DEF Granted

\* A request's locals, one field at a time.
LEMMA LocalsSet ==
  ASSUME NEW f \in [Requests -> LocalsType], NEW r \in Requests,
         NEW p \in Labels, NEW n \in Nat
  PROVE  /\ [f EXCEPT ![r].pc = p] \in [Requests -> LocalsType]
         /\ [f EXCEPT ![r].max = n] \in [Requests -> LocalsType]
         /\ [f EXCEPT ![r].granted = n] \in [Requests -> LocalsType]
BY DEF LocalsType

\* Where a request is once acquire has returned.
LEMMA ReturnedType ==
  ASSUME NEW q \in LocalsType, NEW t \in BOOLEAN, 1 \in Windows
  PROVE  /\ Returned(q, t) \in LocalsType
         /\ Returned(q, t).pc = IF t THEN "tokens" ELSE "refused"
         /\ Returned(q, t).max = q.max
<1> DEFINE a == [q EXCEPT !.pc = IF t THEN "tokens" ELSE "refused"]
           b == [a EXCEPT !.key = 1]
           c == [b EXCEPT !.taken = FALSE]
           d == [c EXCEPT !.granted = 0]
<1>1. /\ a \in LocalsType /\ a.max = q.max
      /\ a.pc = IF t THEN "tokens" ELSE "refused"
  BY Zenon DEF LocalsType, Labels
<1> HIDE DEF a
<1>2. b \in LocalsType /\ b.max = a.max /\ b.pc = a.pc
  BY <1>1, Zenon DEF LocalsType
<1> HIDE DEF b
<1>3. c \in LocalsType /\ c.max = b.max /\ c.pc = b.pc
  BY <1>2, Zenon DEF LocalsType
<1> HIDE DEF c
<1>4. d \in LocalsType /\ d.max = c.max /\ d.pc = c.pc
  BY <1>3, Zenon DEF LocalsType
<1> QED BY <1>1, <1>2, <1>3, <1>4, Zenon DEF a, b, c, d, Returned

\* What a step of request r leaves alone.
OthersSame(r) ==
  /\ \A q \in Requests : q # r => req'[q] = req[q]
  /\ \A k \in Workers : k # Host[r] => bucket'[k] = bucket[k] /\ slots'[k] = slots[k]

\* A request's step keeps the types and the locals of every other request.
LEMMA RequestStepType ==
  ASSUME LTypeOK, fleet' = fleet, NEW r \in Requests, RequestStep(r)
  PROVE  LTypeOK' /\ OthersSame(r)
<1>t. /\ window \in Windows /\ window \in Nat
      /\ maxConcurrent \in MaxConcurrents /\ maxConcurrent \in Nat
      /\ slots \in [Workers -> Int] /\ counted \subseteq Workers
      /\ bucket \in [Workers -> [Windows -> BucketType]]
      /\ rpm \in [Windows -> Nat] /\ tpm \in [Windows -> Nat]
      /\ failures \in [Windows -> Nat] /\ spent \in [Windows -> Nat]
      /\ req \in [Requests -> LocalsType] /\ req[r] \in LocalsType
      /\ 1 \in Windows /\ Windows \subseteq Nat
      /\ Host[r] \in Workers
      /\ TokenLimit \in Nat /\ Limit \in Nat /\ Lease \in Nat
  BY FleetFacts, Zenon DEF LTypeOK
<1>s. SUFFICES
        /\ window' \in Windows /\ maxConcurrent' \in MaxConcurrents
        /\ slots' \in [Workers -> Int] /\ counted' \subseteq Workers
        /\ bucket' \in [Workers -> [Windows -> BucketType]]
        /\ rpm' \in [Windows -> Nat] /\ tpm' \in [Windows -> Nat]
        /\ failures' \in [Windows -> Nat] /\ spent' \in [Windows -> Nat]
        /\ req' \in [Requests -> LocalsType]
        /\ OthersSame(r)
  <2>1. LocalsType' = LocalsType /\ BucketType' = BucketType
    BY FleetFixed, Zenon DEF LocalsType, BucketType
  <2> QED BY FleetFixed, <2>1, Zenon DEF LTypeOK
<1>0. /\ req[r].key \in Windows /\ req[r].granted \in Nat /\ req[r].taken \in BOOLEAN
  BY <1>t, Zenon DEF LocalsType
<1>v. /\ rpm[req[r].key] \in Nat /\ spent[req[r].key] \in Nat
      /\ failures[req[r].key] \in Nat
  <2>1. \A v \in Windows : rpm[v] \in Nat /\ spent[v] \in Nat /\ failures[v] \in Nat
    BY <1>t, Zenon
  <2> QED BY <1>0, <2>1, Zenon
<1>k. B(r) \in BucketType /\ B(r) = bucket[Host[r]][req[r].key]
  BY <1>t, <1>0, Zenon DEF B
<1>b. ASSUME NEW v \in Windows, NEW b \in BucketType,
             bucket' = [bucket EXCEPT ![Host[r]][v] = b]
      PROVE  /\ bucket' \in [Workers -> [Windows -> BucketType]]
             /\ \A k \in Workers : k # Host[r] => bucket'[k] = bucket[k]
  BY <1>t, <1>b, Zenon
<1>1. CASE Arrive(r)
  <2> DEFINE p == IF maxConcurrent > 0 /\ slots[Host[r]] + 1 > maxConcurrent
                  THEN "overflow" ELSE "take"
             f == [req EXCEPT ![r].pc = p]
  <2>1. p \in Labels
    BY Zenon DEF Labels
  <2> HIDE DEF p
  <2>2. f \in [Requests -> LocalsType]
    BY <1>t, <2>1, LocalsSet, Zenon
  <2>3. \A q \in Requests : q # r => f[q] = req[q]
    BY <1>t, Zenon
  <2> HIDE DEF f
  <2>4. [f EXCEPT ![r].max = maxConcurrent] \in [Requests -> LocalsType]
    BY <1>t, <1>0, <2>1, <2>2, LocalsSet, Zenon
  <2>5. req' = [f EXCEPT ![r].max = maxConcurrent]
    BY <1>t, <1>1, Zenon DEF Arrive, f, p
  <2>6. /\ slots' \in [Workers -> Int] /\ counted' \subseteq Workers
        /\ \A k \in Workers : k # Host[r] => slots'[k] = slots[k]
    BY <1>t, <1>1 DEF Arrive
  <2>7. req' \in [Requests -> LocalsType] /\ \A q \in Requests : q # r => req'[q] = req[q]
    BY <2>2, <2>3, <2>4, <2>5, Zenon
  <2>8. UNCHANGED <<window, maxConcurrent, bucket, rpm, tpm, failures, spent>>
    BY <1>1, Zenon DEF Arrive
  <2> QED BY <1>t, <2>6, <2>7, <2>8, Zenon DEF OthersSame
<1>2. CASE Overflow(r) \/ ResetSlots(r) \/ ReleaseSlot(r)
  <2> DEFINE f == [req EXCEPT ![r].pc = "idle"]
  <2>1. f \in [Requests -> LocalsType]
    BY <1>t, LocalsSet, Zenon DEF Labels
  <2>2. [req EXCEPT ![r].pc = "reset"] \in [Requests -> LocalsType]
    BY <1>t, LocalsSet, Zenon DEF Labels
  <2> HIDE DEF f
  <2>3. [f EXCEPT ![r].max = 0] \in [Requests -> LocalsType]
    BY <1>t, <2>1, LocalsSet, Zenon DEF Labels
  <2>4. Leave(r) \/ Goto(r, "reset")
    BY <1>t, <1>2, Zenon DEF Overflow, ResetSlots, ReleaseSlot
  <2>5. /\ req' \in [Requests -> LocalsType]
        /\ \A q \in Requests : q # r => req'[q] = req[q]
    BY <1>t, <2>2, <2>3, <2>4, Zenon DEF Leave, Goto, f
  <2>6. /\ slots' \in [Workers -> Int]
        /\ \A k \in Workers : k # Host[r] => slots'[k] = slots[k]
    <3>1. \E n \in Int : slots' = slots \/ slots' = [slots EXCEPT ![Host[r]] = n]
      <4>1. slots[Host[r]] - 1 \in Int /\ 0 \in Int
        BY <1>t
      <4>2. CASE Overflow(r)
        BY <4>1, <4>2, Zenon DEF Overflow
      <4>3. CASE ResetSlots(r)
        BY <4>1, <4>3, Zenon DEF ResetSlots
      <4>4. CASE ReleaseSlot(r)
        BY <4>1, <4>4, Zenon DEF ReleaseSlot
      <4> QED BY <1>2, <4>2, <4>3, <4>4, Zenon
    <3> QED BY <1>t, <3>1, Zenon
  <2>7. UNCHANGED <<window, maxConcurrent, counted, bucket, rpm, tpm, failures, spent>>
    BY <1>2, Zenon DEF Overflow, ResetSlots, ReleaseSlot
  <2> QED BY <1>t, <2>5, <2>6, <2>7, Zenon DEF OthersSame
<1>3. CASE Take(r)
  <2> DEFINE b == bucket[Host[r]][window]
             t == Usable(b) > 0
             a == [req[r] EXCEPT !.pc = "refill"]
             c == [a EXCEPT !.key = window]
             d == [c EXCEPT !.taken = t]
  <2>1. b \in BucketType /\ AfterTake(b) \in BucketType /\ t \in BOOLEAN
    BY <1>t, <1>0, BucketOps
  <2> HIDE DEF b, t
  <2>2. a \in LocalsType
    BY <1>t, <1>0, Zenon DEF LocalsType, Labels
  <2> HIDE DEF a
  <2>3. c \in LocalsType
    BY <1>t, <2>2, Zenon DEF LocalsType
  <2> HIDE DEF c
  <2>4. d \in LocalsType
    BY <1>t, <2>1, <2>3, Zenon DEF LocalsType
  <2> HIDE DEF d
  <2>5. Returned(req[r], t) \in LocalsType
    BY <1>t, <1>0, <2>1, ReturnedType, Zenon
  <2>6. req' = [req EXCEPT ![r] = IF ShouldRefill(b) THEN d ELSE Returned(req[r], t)]
    BY <1>t, <1>3, Zenon DEF Take, a, b, c, d, t
  <2>7. spent' \in [Windows -> Nat]
    BY <1>t, <1>3 DEF Take
  <2>8. bucket' = [bucket EXCEPT ![Host[r]][window] = AfterTake(b)]
    BY <1>t, <1>3, Zenon DEF Take, b
  <2>9. bucket' \in [Workers -> [Windows -> BucketType]]
    BY <1>t, <1>b, <2>1, <2>8, Zenon
  <2> QED BY <1>t, <1>3, <1>b, <2>1, <2>4, <2>5, <2>6, <2>7, <2>8, <2>9 DEF Take, OthersSame
<1>4. CASE BeginRefill(r)
  <2> DEFINE b == [B(r) EXCEPT !.refreshing = TRUE]
  <2>1. b \in BucketType
    BY <1>t, <1>k, Zenon DEF BucketType
  <2>2. [req EXCEPT ![r].pc = "lease"] \in [Requests -> LocalsType]
    BY <1>t, LocalsSet, Zenon DEF Labels
  <2>3. bucket' = [bucket EXCEPT ![Host[r]][req[r].key] = b]
    BY <1>t, <1>4, Zenon DEF BeginRefill, SetBucket
  <2> HIDE DEF b
  <2>4. bucket' \in [Workers -> [Windows -> BucketType]]
    BY <1>t, <1>0, <1>b, <2>1, <2>3, Zenon
  <2> QED BY <1>t, <1>0, <1>4, <1>b, <2>1, <2>2, <2>3, <2>4, Zenon DEF BeginRefill, Goto, OthersSame
<1>5. CASE RefillTaken(r)
  <2>1. Returned(req[r], req[r].taken) \in LocalsType
    BY <1>t, <1>0, ReturnedType, Zenon
  <2> QED BY <1>t, <1>5, <2>1, Zenon DEF RefillTaken, OthersSame
<1>6. CASE LeaseFrom(r) \/ LeaseFails(r)
  <2> DEFINE used == rpm[req[r].key] + Lease
             n == IF LeaseFrom(r) THEN Granted(used) ELSE Lease
             f == [req EXCEPT ![r].granted = n]
  <2>1. used \in Nat /\ Limit + Lease \in Nat
    BY <1>t, <1>v
  <2>2. Granted(used) \in Nat /\ Min({used, Limit + Lease}) \in Nat
    BY <1>t, <2>1, GrantedType, MinOfTwo, Zenon
  <2>3. n \in Nat
    BY <1>t, <2>2, Zenon
  <2>4. req' = [f EXCEPT ![r].pc = "grant"]
    BY <1>t, <1>6, Zenon DEF LeaseFrom, LeaseFails
  <2>5. rpm' \in [Windows -> Nat] /\ failures' \in [Windows -> Nat]
    <3>1. CASE LeaseFrom(r)
      BY <1>t, <1>0, <2>2, <3>1, Zenon DEF LeaseFrom
    <3>2. CASE LeaseFails(r)
      BY <1>t, <1>0, <3>2 DEF LeaseFails
    <3> QED BY <1>6, <3>1, <3>2, Zenon
  <2> HIDE DEF n
  <2>6. f \in [Requests -> LocalsType] /\ \A q \in Requests : q # r => f[q] = req[q]
    BY <1>t, <2>3, LocalsSet, ZenonT(30) DEF Labels
  <2> HIDE DEF f
  <2>7. [f EXCEPT ![r].pc = "grant"] \in [Requests -> LocalsType]
    BY <1>t, <2>6, LocalsSet, Zenon DEF Labels
  <2> QED BY <1>t, <1>6, <2>4, <2>5, <2>6, <2>7, Zenon DEF LeaseFrom, LeaseFails, OthersSame
<1>7. CASE Grant(r)
  <2> DEFINE b == AfterGrant(B(r), req[r].granted)
             a == [req[r] EXCEPT !.pc = "retake"]
             c == [a EXCEPT !.granted = 0]
  <2>1. b \in BucketType
    BY <1>t, <1>0, <1>k, BucketOps, Zenon
  <2>2. bucket' = [bucket EXCEPT ![Host[r]][req[r].key] = b]
    BY <1>t, <1>7, Zenon DEF Grant, SetBucket
  <2> HIDE DEF b
  <2>3. bucket' \in [Workers -> [Windows -> BucketType]]
    BY <1>t, <1>0, <1>b, <2>1, <2>2, Zenon
  <2>4. a \in LocalsType
    BY <1>t, <1>0, Zenon DEF LocalsType, Labels
  <2> HIDE DEF a
  <2>5. c \in LocalsType
    BY <1>t, <2>4, Zenon DEF LocalsType
  <2> HIDE DEF c
  <2>6. Returned(req[r], TRUE) \in LocalsType
    BY <1>t, <1>0, ReturnedType, Zenon
  <2>7. req' = [req EXCEPT ![r] = IF req[r].taken THEN Returned(req[r], TRUE) ELSE c]
    BY <1>t, <1>7, Zenon DEF Grant, a, c
  <2>8. UNCHANGED <<window, maxConcurrent, slots, counted, rpm, tpm, failures, spent>>
    BY <1>7, Zenon DEF Grant
  <2>9. req' \in [Requests -> LocalsType] /\ \A q \in Requests : q # r => req'[q] = req[q]
    BY <1>t, <2>5, <2>6, <2>7, Zenon
  <2> QED BY <1>t, <1>0, <1>b, <2>1, <2>2, <2>3, <2>8, <2>9, Zenon DEF OthersSame
<1>8. CASE Retake(r)
  <2> DEFINE b == AfterTake(B(r))
             t == Usable(B(r)) > 0
  <2>1. b \in BucketType /\ t \in BOOLEAN
    BY <1>t, <1>0, <1>k, BucketOps
  <2>2. bucket' = [bucket EXCEPT ![Host[r]][req[r].key] = b]
    BY <1>t, <1>8, Zenon DEF Retake, SetBucket
  <2>3. req' = [req EXCEPT ![r] = Returned(req[r], t)]
    BY <1>t, <1>8, Zenon DEF Retake
  <2>a. spent' = IF t THEN [spent EXCEPT ![req[r].key] = @ + 1] ELSE spent
    BY <1>8, Zenon DEF Retake
  <2> HIDE DEF b, t
  <2>4. bucket' \in [Workers -> [Windows -> BucketType]]
    BY <1>t, <1>0, <1>b, <2>1, <2>2, Zenon
  <2>5. Returned(req[r], t) \in LocalsType
    BY <1>t, <1>0, <2>1, ReturnedType, Zenon
  <2>6. spent' \in [Windows -> Nat]
    <3> DEFINE n == spent[req[r].key] + 1
    <3>1. n \in Nat
      BY <1>v
    <3> HIDE DEF n
    <3> QED BY <1>t, <1>0, <2>a, <3>1, Zenon DEF n
  <2> QED BY <1>t, <1>0, <1>8, <1>b, <2>1, <2>2, <2>3, <2>4, <2>5, <2>6, SMTT(30)
          DEF Retake, OthersSame
<1>9. CASE CheckTokens(r) \/ RecordTokens(r) \/ FinishUnmetered(r)
  <2>1. \A p \in Labels : [req EXCEPT ![r].pc = p] \in [Requests -> LocalsType]
    BY <1>t, LocalsSet, Zenon
  <2>2. {"refused", "running", "finishing"} \subseteq Labels
    BY Zenon DEF Labels
  <2>3. \E p \in {"refused", "running", "finishing"} : req' = [req EXCEPT ![r].pc = p]
    BY <1>t, <1>9, Zenon DEF CheckTokens, RecordTokens, FinishUnmetered, Goto
  <2>4. Min({tpm[window] + 1, TokenLimit}) \in Nat
    BY <1>t, MinOfTwo
  <2>5. tpm' \in [Windows -> Nat]
    BY <1>t, <1>9, <2>4, Zenon DEF CheckTokens, RecordTokens, FinishUnmetered
  <2> QED BY <1>t, <1>9, <2>1, <2>2, <2>3, <2>5
          DEF CheckTokens, RecordTokens, FinishUnmetered, OthersSame
<1> QED BY <1>t, <1>1, <1>2, <1>3, <1>4, <1>5, <1>6, <1>7, <1>8, <1>9, Zenon DEF RequestStep

\* Every step keeps the types.
LEMMA LimiterNextType == LTypeOK /\ [LimiterNext]_limiterVars => LTypeOK'
<1> SUFFICES ASSUME LTypeOK, [LimiterNext]_limiterVars PROVE LTypeOK'
  BY Zenon
<1>f. fleet' = fleet
  BY Zenon DEF LimiterNext, limiterVars
<1>l. LocalsType' = LocalsType /\ BucketType' = BucketType
  BY <1>f, FleetFixed, Zenon DEF LocalsType, BucketType
<1>1. ASSUME NEW r \in Requests, RequestStep(r) PROVE LTypeOK'
  BY <1>1, <1>f, RequestStepType, Zenon
<1>2. CASE Roll
  <2>1. window' \in Windows
    BY <1>2, LimiterAssumption DEF Roll, LTypeOK, Windows, MaxWindow
  <2> QED BY <1>2, <1>f, <1>l, <2>1, FleetFixed, Zenon DEF Roll, LTypeOK
<1>3. ASSUME NEW m \in MaxConcurrents, Reconfigure(m) PROVE LTypeOK'
  BY <1>3, <1>f, <1>l, FleetFixed, Zenon DEF Reconfigure, LTypeOK
<1>4. CASE UNCHANGED limiterVars
  BY <1>4, <1>f, <1>l, FleetFixed, Zenon DEF limiterVars, LTypeOK
<1> QED BY <1>1, <1>2, <1>3, <1>4, Zenon DEF LimiterNext

-----------------------------------------------------------------------------
(* Limiter: WindowBound *)

\* The count of window w is preserved by r's own worker and r's own lease.
Balanced(r, w) ==
  spent'[w] + bucket'[Host[r]][w].remaining + InHand(req'[r], w)
    + CountedOut(w) + Lease * failures[w]
  <= spent[w] + bucket[Host[r]][w].remaining + InHand(req[r], w)
    + CountedOut(w)' + Lease * failures'[w]

\* Then it is preserved altogether by a step of r.
LEMMA PermitsBalance ==
  ASSUME LTypeOK, LTypeOK', fleet' = fleet, PermitsInv,
         NEW r \in Requests, OthersSame(r),
         \A w \in Windows : Balanced(r, w)
  PROVE  PermitsInv'
<1> SUFFICES ASSUME NEW w \in Windows
             PROVE  /\ IsFiniteSet(Bucketed(w)') /\ IsFiniteSet(Leased(w)')
                    /\ spent'[w] + Cardinality(Bucketed(w)') + Cardinality(Leased(w)')
                         <= CountedOut(w)' + Lease * failures'[w]
  BY FleetFixed, Zenon DEF PermitsInv
<1> DEFINE k == Host[r]
           f == [j \in Workers |-> bucket[j][w].remaining]
           g == [j \in Workers |-> bucket'[j][w].remaining]
           h == [q \in Requests |-> InHand(req[q], w)]
           i == [q \in Requests |-> InHand(req'[q], w)]
<1>1. k \in Workers
  BY FleetFacts, Zenon DEF LTypeOK
<1>2. f \in [Workers -> Nat] /\ g \in [Workers -> Nat]
  BY FleetFixed, SMTT(30) DEF LTypeOK, BucketType
<1>3. h \in [Requests -> Nat] /\ i \in [Requests -> Nat]
  BY FleetFixed, Zenon DEF LTypeOK, LocalsType, InHand
<1>4. \A j \in Workers : j # k => g[j] = f[j]
  BY Zenon DEF OthersSame
<1>5. \A q \in Requests : q # r => i[q] = h[q]
  BY Zenon DEF OthersSame
<1>6. /\ Bucketed(w) = Units(Workers, f) /\ Leased(w) = Units(Requests, h)
      /\ Bucketed(w)' = Units(Workers, g) /\ Leased(w)' = Units(Requests, i)
  BY FleetFixed, Zenon DEF Bucketed, Leased, Units, InHand
<1>7. IsFiniteSet(Units(Workers, f)) /\ IsFiniteSet(Units(Requests, h))
  BY <1>6, Zenon DEF PermitsInv
<1>8. /\ f[k] = bucket[k][w].remaining /\ g[k] = bucket'[k][w].remaining
      /\ h[r] = InHand(req[r], w) /\ i[r] = InHand(req'[r], w)
      /\ {f[k], g[k], h[r], i[r]} \subseteq Nat
  BY <1>1, <1>2, <1>3
<1> HIDE DEF f, g, h, i
<1>9. /\ IsFiniteSet(Units(Workers, g))
      /\ Cardinality(Units(Workers, g)) = Cardinality(Units(Workers, f)) - f[k] + g[k]
  BY <1>1, <1>2, <1>4, <1>7, UnitsMove
<1>10. /\ IsFiniteSet(Units(Requests, i))
       /\ Cardinality(Units(Requests, i)) = Cardinality(Units(Requests, h)) - h[r] + i[r]
  BY <1>3, <1>5, <1>7, UnitsMove, SMTT(30)
<1>11. /\ spent[w] + Cardinality(Units(Workers, f)) + Cardinality(Units(Requests, h))
            <= CountedOut(w) + Lease * failures[w]
       /\ Cardinality(Units(Workers, f)) \in Nat /\ Cardinality(Units(Requests, h)) \in Nat
  BY <1>6, <1>7, FS_CardinalityType, Zenon DEF PermitsInv
<1>12. /\ spent[w] \in Nat /\ spent'[w] \in Nat
       /\ CountedOut(w) \in Nat /\ CountedOut(w)' \in Nat
       /\ Lease * failures[w] \in Nat /\ Lease * failures'[w] \in Nat
  <2>1. /\ Lease \in Nat /\ Limit \in Nat
        /\ failures[w] \in Nat /\ failures'[w] \in Nat
        /\ spent[w] \in Nat /\ spent'[w] \in Nat
        /\ rpm[w] \in Nat /\ rpm'[w] \in Nat
    BY FleetFacts, FleetFixed, Zenon DEF LTypeOK
  <2> QED BY <2>1, SMTT(30) DEF CountedOut
<1>13. spent'[w] + g[k] + i[r] + CountedOut(w) + Lease * failures[w]
         <= spent[w] + f[k] + h[r] + CountedOut(w)' + Lease * failures'[w]
  BY <1>8, Zenon DEF Balanced
<1> DEFINE x == Lease * failures[w]
           y == Lease * failures'[w]
           cu == CountedOut(w)
           cv == CountedOut(w)'
           m == Cardinality(Units(Workers, f))
           n == Cardinality(Units(Requests, h))
<1> HIDE DEF x, y, cu, cv, m, n
<1> QED BY <1>6, <1>8, <1>9, <1>10, <1>11, <1>12, <1>13, SMTT(30) DEF x, y, cu, cv, m, n

\* What leaseFrom grants is what the counter moved inside the limit.
LEMMA GrantedIsCounted ==
  ASSUME NEW u \in Nat, Limit \in Nat, Lease \in Nat \ {0},
         NEW v \in Nat, v = Min({u + Lease, Limit + Lease})
  PROVE  (IF u <= Limit THEN u ELSE Limit) + Granted(u + Lease)
           = (IF v <= Limit THEN v ELSE Limit)
<1>1. v = IF u + Lease <= Limit + Lease THEN u + Lease ELSE Limit + Lease
  BY MinOfTwo
<1> QED BY <1>1 DEF Granted

\* A request's step keeps the permits within what the store counted out.
LEMMA PermitsStep ==
  ASSUME LTypeOK, fleet' = fleet, PermitsInv, NEW r \in Requests, RequestStep(r)
  PROVE  PermitsInv'
<1>t. LTypeOK' /\ OthersSame(r)
  BY RequestStepType, Zenon
<1>u. /\ window \in Nat /\ window \in Windows /\ req[r] \in LocalsType
      /\ req[r].key \in Windows /\ req[r].granted \in Nat /\ req[r].taken \in BOOLEAN
      /\ Host[r] \in Workers /\ 1 \in Windows
      /\ Limit \in Nat /\ Lease \in Nat \ {0}
  BY FleetFacts, Zenon DEF LTypeOK, LocalsType
<1>w. ASSUME NEW w \in Windows
      PROVE  /\ spent[w] \in Nat /\ spent'[w] \in Nat /\ rpm[w] \in Nat /\ rpm'[w] \in Nat
             /\ failures[w] \in Nat /\ failures'[w] \in Nat
             /\ bucket[Host[r]][w] \in BucketType
             /\ bucket[Host[r]][w].remaining \in Nat
             /\ CountedOut(w) \in Nat /\ Lease * failures[w] \in Nat
             /\ InHand(req[r], w) \in Nat
  <2>1. /\ spent[w] \in Nat /\ spent'[w] \in Nat /\ rpm[w] \in Nat /\ rpm'[w] \in Nat
        /\ failures[w] \in Nat /\ failures'[w] \in Nat
        /\ bucket[Host[r]][w] \in BucketType
    BY <1>t, <1>u, FleetFixed, ZenonT(30) DEF LTypeOK
  <2> QED BY <1>u, <2>1, SMTT(30) DEF CountedOut, InHand, BucketType
<1>s. SUFFICES ASSUME NEW w \in Windows
               PROVE  Balanced(r, w)
  BY <1>t, PermitsBalance, Zenon
<1>c. UNCHANGED <<rpm, failures>> => /\ CountedOut(w)' = CountedOut(w)
                                     /\ Lease * failures'[w] = Lease * failures[w]
  BY Zenon DEF CountedOut
<1>1. ASSUME UNCHANGED <<bucket, rpm, failures, spent>>,
             req[r].pc # "grant", req'[r].pc # "grant"
      PROVE  Balanced(r, w)
  BY <1>1, <1>c, <1>w DEF InHand, Balanced
<1>2. CASE Arrive(r) \/ Overflow(r) \/ ReleaseSlot(r) \/ ResetSlots(r)
           \/ CheckTokens(r) \/ RecordTokens(r) \/ FinishUnmetered(r)
  <2>1. UNCHANGED <<bucket, rpm, failures, spent>> /\ req[r].pc # "grant"
    BY <1>2, Zenon DEF Arrive, Overflow, ReleaseSlot, ResetSlots, CheckTokens, RecordTokens,
                FinishUnmetered
  <2>2. req'[r].pc # "grant"
    BY <1>2 DEF LTypeOK, LocalsType, Arrive, Overflow, ReleaseSlot, ResetSlots, CheckTokens,
                RecordTokens, FinishUnmetered, Leave, Goto
  <2> QED BY <1>1, <2>1, <2>2, Zenon
<1>3. ASSUME NEW v \in Windows, NEW b, NEW t \in BOOLEAN,
             bucket' = [bucket EXCEPT ![Host[r]][v] = b],
             b.remaining \in Nat,
             b.remaining + (IF t THEN 1 ELSE 0) <= bucket[Host[r]][v].remaining,
             spent' = IF t THEN [spent EXCEPT ![v] = @ + 1] ELSE spent,
             UNCHANGED <<rpm, failures>>, req[r].pc # "grant", req'[r].pc # "grant"
      PROVE  Balanced(r, w)
  <2>1. bucket'[Host[r]][w] = IF w = v THEN b ELSE bucket[Host[r]][w]
    BY <1>3, <1>u, Zenon DEF LTypeOK
  <2>2. spent'[w] = IF w = v /\ t THEN spent[w] + 1 ELSE spent[w]
    BY <1>3, Zenon DEF LTypeOK
  <2> QED BY <1>3, <1>c, <1>w, <2>1, <2>2 DEF InHand, Balanced
<1>4. CASE Take(r)
  <2> DEFINE b == bucket[Host[r]][window]
             t == Usable(b) > 0
  <2>0. b \in BucketType
    BY <1>u, <1>w, Zenon
  <2>1. /\ AfterTake(b) \in BucketType /\ t \in BOOLEAN
        /\ AfterTake(b).remaining + (IF t THEN 1 ELSE 0) <= b.remaining
    <3> HIDE DEF b
    <3> QED BY <1>u, <2>0, BucketOps, SMTT(30)
  <2>2. AfterTake(b).remaining \in Nat
    BY <2>1, Zenon DEF BucketType
  <2>3. /\ bucket' = [bucket EXCEPT ![Host[r]][window] = AfterTake(b)]
        /\ spent' = IF t THEN [spent EXCEPT ![window] = @ + 1] ELSE spent
        /\ UNCHANGED <<rpm, failures>> /\ req[r].pc # "grant"
    BY <1>4, Zenon DEF Take
  <2>4. req'[r].pc # "grant"
    <3>1. req'[r] = IF ShouldRefill(b)
                    THEN [req[r] EXCEPT !.pc = "refill", !.key = window, !.taken = t]
                    ELSE Returned(req[r], t)
      BY <1>4, Zenon DEF Take, LTypeOK
    <3>2. Returned(req[r], t).pc # "grant"
      BY <1>u, <2>1, ReturnedType, Zenon
    <3>3. [req[r] EXCEPT !.pc = "refill", !.key = window, !.taken = t].pc = "refill"
      BY <1>u, Zenon DEF LocalsType
    <3> QED BY <3>1, <3>2, <3>3, Zenon
  <2> QED BY <1>3, <1>u, <2>1, <2>2, <2>3, <2>4, Zenon
<1>5. CASE Retake(r)
  <2> DEFINE b == bucket[Host[r]][req[r].key]
             t == Usable(b) > 0
  <2>0. b \in BucketType
    BY <1>u, <1>w, ZenonT(30)
  <2>1. /\ AfterTake(b) \in BucketType /\ t \in BOOLEAN
        /\ AfterTake(b).remaining + (IF t THEN 1 ELSE 0) <= b.remaining
    <3> HIDE DEF b
    <3> QED BY <1>u, <2>0, BucketOps
  <2>2. AfterTake(b).remaining \in Nat
    BY <2>1, Zenon DEF BucketType
  <2>3. /\ bucket' = [bucket EXCEPT ![Host[r]][req[r].key] = AfterTake(b)]
        /\ spent' = IF t THEN [spent EXCEPT ![req[r].key] = @ + 1] ELSE spent
        /\ UNCHANGED <<rpm, failures>> /\ req[r].pc # "grant"
    BY <1>5, Zenon DEF Retake, SetBucket, B
  <2>4. req'[r].pc # "grant"
    <3>1. req'[r] = Returned(req[r], t)
      BY <1>5, Zenon DEF Retake, LTypeOK, B
    <3> QED BY <1>u, <2>1, <3>1, ReturnedType, ZenonT(30)
  <2> QED BY <1>3, <1>u, <2>1, <2>2, <2>3, <2>4, Zenon
<1>6. CASE BeginRefill(r)
  <2> DEFINE b == [B(r) EXCEPT !.refreshing = TRUE]
             v == req[r].key
  <2>1. b.remaining = bucket[Host[r]][v].remaining
    BY <1>u, <1>w, Zenon DEF B, BucketType
  <2>2. /\ bucket' = [bucket EXCEPT ![Host[r]][v] = b]
        /\ UNCHANGED <<rpm, failures, spent>> /\ req[r].pc # "grant"
    BY <1>6, Zenon DEF BeginRefill, SetBucket
  <2>3. req'[r].pc = "lease"
    BY <1>6, Zenon DEF BeginRefill, Goto, LTypeOK, LocalsType
  <2>4. v \in Windows /\ b.remaining \in Nat
    BY <1>u, <1>w, <2>1, Zenon
  <2>5. spent' = IF FALSE THEN [spent EXCEPT ![v] = @ + 1] ELSE spent
    BY <2>2, Zenon
  <2>6. b.remaining + (IF FALSE THEN 1 ELSE 0) <= bucket[Host[r]][v].remaining
    BY <2>1, <2>4
  <2> HIDE DEF b, v
  <2> QED BY <1>3, <2>2, <2>3, <2>4, <2>5, <2>6, Zenon
<1>7. CASE RefillTaken(r)
  <2>1. req'[r] = Returned(req[r], req[r].taken)
    BY <1>7, Zenon DEF RefillTaken, LTypeOK
  <2>2. req'[r].pc # "grant"
    BY <1>u, <2>1, ReturnedType, Zenon
  <2> QED BY <1>1, <1>7, <2>2, Zenon DEF RefillTaken
<1>8. CASE LeaseFrom(r)
  <2>v. PICK v \in Windows : v = req[r].key
    BY <1>u, Zenon
  <2> DEFINE n == Granted(rpm[v] + Lease)
  <2>1. /\ rpm[v] \in Nat /\ rpm'[v] \in Nat
        /\ UNCHANGED <<bucket, failures, spent>> /\ req[r].pc # "grant"
    BY <1>8, <1>u, <1>w, Zenon DEF LeaseFrom
  <2>2. /\ rpm'[v] = Min({rpm[v] + Lease, Limit + Lease})
        /\ \A x \in Windows : x # v => rpm'[x] = rpm[x]
    BY <1>8, <2>v, Zenon DEF LeaseFrom, LTypeOK
  <2>3. CountedOut(v) + n = CountedOut(v)'
    BY <1>u, <2>1, <2>2, GrantedIsCounted, Zenon DEF CountedOut
  <2>4. w # v => CountedOut(w)' = CountedOut(w)
    BY <2>2, Zenon DEF CountedOut
  <2>5. InHand(req'[r], w) = IF w = v THEN n ELSE 0
    <3>1. req' = [req EXCEPT ![r].granted = n, ![r].pc = "grant"]
      BY <1>8, <2>v, Zenon DEF LeaseFrom
    <3> HIDE DEF n
    <3>2. req'[r].pc = "grant" /\ req'[r].granted = n /\ req'[r].key = v
      BY <1>u, <2>v, <3>1, Zenon DEF LTypeOK, LocalsType
    <3> QED BY <3>2, Zenon DEF InHand
  <2>6. n \in Nat
    BY <1>u, <2>1, GrantedType
  <2>7. /\ InHand(req[r], w) = 0 /\ Lease * failures'[w] = Lease * failures[w]
        /\ bucket'[Host[r]][w].remaining = bucket[Host[r]][w].remaining
        /\ spent'[w] = spent[w]
    BY <2>1, Zenon DEF InHand
  <2> HIDE DEF n
  <2> QED BY <1>w, <2>3, <2>4, <2>5, <2>6, <2>7 DEF Balanced
<1>9. CASE LeaseFails(r)
  <2> DEFINE v == req[r].key
  <2>1. /\ v \in Windows /\ UNCHANGED <<bucket, rpm, spent>> /\ req[r].pc # "grant"
        /\ failures' = [failures EXCEPT ![v] = @ + 1]
    BY <1>9, <1>u, Zenon DEF LeaseFails
  <2>2. Lease * failures'[w] = IF w = v THEN Lease * failures[w] + Lease
                               ELSE Lease * failures[w]
    <3>1. failures'[w] = IF w = v THEN failures[w] + 1 ELSE failures[w]
      BY <2>1, Zenon DEF LTypeOK
    <3>2. \A x \in Nat : Lease * (x + 1) = Lease * x + Lease
      BY <1>u
    <3> QED BY <1>w, <3>1, <3>2, Zenon
  <2>3. InHand(req'[r], w) = IF w = v THEN Lease ELSE 0
    BY <1>9, <1>u, Zenon DEF LeaseFails, LTypeOK, LocalsType, InHand
  <2>4. CountedOut(w)' = CountedOut(w)
    BY <2>1, Zenon DEF CountedOut
  <2> HIDE DEF v
  <2> QED BY <1>u, <1>w, <2>1, <2>2, <2>3, <2>4 DEF Balanced, InHand
<1>10. CASE Grant(r)
  <2> DEFINE v == req[r].key
             b == AfterGrant(bucket[Host[r]][v], req[r].granted)
  <2>1. /\ v \in Windows /\ UNCHANGED <<rpm, failures, spent>> /\ req[r].pc = "grant"
        /\ bucket' = [bucket EXCEPT ![Host[r]][v] = b]
    BY <1>10, <1>u, Zenon DEF Grant, SetBucket, B
  <2>2. b.remaining = bucket[Host[r]][v].remaining + req[r].granted
    BY <1>u, <1>w, BucketOps, Zenon
  <2> HIDE DEF b
  <2>3. bucket'[Host[r]][w] = IF w = v THEN b ELSE bucket[Host[r]][w]
    BY <1>u, <2>1, Zenon DEF LTypeOK
  <2>4. req'[r].pc # "grant"
    <3>1. req'[r] = IF req[r].taken THEN Returned(req[r], TRUE)
                    ELSE [req[r] EXCEPT !.pc = "retake", !.granted = 0]
      BY <1>10, Zenon DEF Grant, LTypeOK
    <3>2. [req[r] EXCEPT !.pc = "retake", !.granted = 0].pc = "retake"
      BY <1>u, Zenon DEF LocalsType
    <3> QED BY <1>u, <3>1, <3>2, ReturnedType, Zenon
  <2> QED BY <1>c, <1>u, <1>w, <2>1, <2>2, <2>3, <2>4 DEF Balanced, InHand
<1> QED BY <1>2, <1>4, <1>5, <1>6, <1>7, <1>8, <1>9, <1>10, Zenon DEF RequestStep

\* A step that touches neither bucket nor counter keeps them there.
LEMMA PermitsStay ==
  ASSUME LTypeOK, fleet' = fleet, PermitsInv, UNCHANGED <<bucket, rpm, failures, spent, req>>
  PROVE  PermitsInv'
<1>1. ASSUME NEW w \in Windows
      PROVE  /\ Bucketed(w)' = Bucketed(w) /\ Leased(w)' = Leased(w)
             /\ CountedOut(w)' = CountedOut(w)
  BY FleetFixed, Zenon DEF Bucketed, Leased, CountedOut, Units, InHand
<1> QED BY <1>1, FleetFixed, Zenon DEF PermitsInv

\* No permit has been granted initially.
LEMMA PermitsInitially == LimiterInit => PermitsInv
<1> SUFFICES ASSUME LimiterInit, NEW w \in Windows
             PROVE  /\ IsFiniteSet(Bucketed(w)) /\ IsFiniteSet(Leased(w))
                    /\ spent[w] + Cardinality(Bucketed(w)) + Cardinality(Leased(w))
                         <= CountedOut(w) + Lease * failures[w]
  BY Zenon DEF PermitsInv
<1> DEFINE f == [k \in Workers |-> bucket[k][w].remaining]
           h == [r \in Requests |-> InHand(req[r], w)]
<1>1. f \in [Workers -> Nat] /\ \A k \in Workers : f[k] = 0
  BY Zenon DEF LimiterInit, EmptyBucket
<1>2. h \in [Requests -> Nat] /\ \A r \in Requests : h[r] = 0
  BY Zenon DEF LimiterInit, Idle, InHand
<1>3. Bucketed(w) = Units(Workers, f) /\ Leased(w) = Units(Requests, h)
  BY Zenon DEF Bucketed, Leased
<1> HIDE DEF f, h
<1>4. /\ IsFiniteSet(Bucketed(w)) /\ Cardinality(Bucketed(w)) = 0
      /\ IsFiniteSet(Leased(w)) /\ Cardinality(Leased(w)) = 0
  BY <1>1, <1>2, <1>3, UnitsNone
<1>5. spent[w] = 0 /\ rpm[w] = 0 /\ failures[w] = 0
  BY Zenon DEF LimiterInit
<1>6. Lease * 0 = 0 /\ Limit \in Nat
  BY LimiterAssumption
<1> QED BY <1>4, <1>5, <1>6 DEF CountedOut

\* The fleet spends no more permits of a window than the limit and the leases
\* granted while the store was unreachable, for any number of workers, requests
\* and windows, any limit and any lease (take, leaseFrom, Bucket).
THEOREM WindowBoundHolds == LimiterSpec => []WindowBound
<1>1. LimiterInit => LTypeOK /\ PermitsInv
  BY LimiterInitType, PermitsInitially, Zenon
<1>2. LTypeOK /\ PermitsInv /\ [LimiterNext]_limiterVars => LTypeOK' /\ PermitsInv'
  <2> SUFFICES ASSUME LTypeOK, PermitsInv, [LimiterNext]_limiterVars
               PROVE  LTypeOK' /\ PermitsInv'
    BY Zenon
  <2>1. LTypeOK' /\ fleet' = fleet
    BY LimiterNextType, Zenon DEF LimiterNext, limiterVars
  <2>2. ASSUME NEW r \in Requests, RequestStep(r) PROVE PermitsInv'
    BY <2>1, <2>2, PermitsStep, Zenon
  <2>3. CASE Roll \/ (\E m \in MaxConcurrents : Reconfigure(m)) \/ UNCHANGED limiterVars
    BY <2>1, <2>3, PermitsStay, Zenon DEF Roll, Reconfigure, limiterVars
  <2> QED BY <2>1, <2>2, <2>3, Zenon DEF LimiterNext
<1>3. LTypeOK /\ PermitsInv => WindowBound
  <2> SUFFICES ASSUME LTypeOK, PermitsInv, NEW w \in Windows
               PROVE  spent[w] <= Limit + Lease * failures[w]
    BY Zenon DEF WindowBound
  <2>1. /\ spent[w] \in Nat /\ failures[w] \in Nat /\ rpm[w] \in Nat
        /\ Limit \in Nat /\ Lease \in Nat
    BY FleetFacts, Zenon DEF LTypeOK
  <2>2. CountedOut(w) \in 0 .. Limit /\ Lease * failures[w] \in Nat
    BY <2>1 DEF CountedOut
  <2>3. Cardinality(Bucketed(w)) \in Nat /\ Cardinality(Leased(w)) \in Nat
    BY FS_CardinalityType, Zenon DEF PermitsInv
  <2>4. spent[w] + Cardinality(Bucketed(w)) + Cardinality(Leased(w))
          <= CountedOut(w) + Lease * failures[w]
    BY Zenon DEF PermitsInv
  <2> QED BY <2>1, <2>2, <2>3, <2>4
<1> QED BY <1>1, <1>2, <1>3, PTL DEF LimiterSpec

-----------------------------------------------------------------------------
(* Limiter: SlotsExact *)

Holds(q) == q.max > 0 /\ q.pc \notin {"idle", "overflow", "reset"}

\* The holders admitted under limits up to m.
HoldingUpTo(k, m) == {r \in Holding(k) : req[r].max <= m}

\* The requests that hold a slot can be counted.
LEMMA HoldersFinite ==
  ASSUME LTypeOK, NEW k
  PROVE  /\ IsFiniteSet(Holding(k)) /\ Cardinality(Holding(k)) \in Nat
         /\ IsFiniteSet(Overflowing(k)) /\ Cardinality(Overflowing(k)) \in Nat
         /\ \A m : /\ IsFiniteSet(HoldingUpTo(k, m))
                   /\ Cardinality(HoldingUpTo(k, m)) \in Nat
                   /\ Cardinality(HoldingUpTo(k, m)) <= Cardinality(Holding(k))
<1>1. IsFiniteSet(Requests)
  BY FleetFacts, Zenon DEF LTypeOK
<1>2. Holding(k) \in SUBSET Requests /\ Overflowing(k) \in SUBSET Requests
  BY Zenon DEF Holding, Overflowing
<1>3. \A m : HoldingUpTo(k, m) \in SUBSET Holding(k)
  BY Zenon DEF HoldingUpTo
<1>4. IsFiniteSet(Holding(k)) /\ IsFiniteSet(Overflowing(k))
  BY <1>1, <1>2, FS_Subset, Zenon
<1> QED BY <1>3, <1>4, FS_Subset, FS_CardinalityType, Zenon

\* A step of r puts r, and r only, into or out of its worker's sets.
LEMMA HoldersMove ==
  ASSUME LTypeOK, LTypeOK', fleet' = fleet, NEW r \in Requests, OthersSame(r), NEW k
  PROVE  /\ Holding(k)' = IF Host[r] = k /\ Holds(req'[r])
                          THEN Holding(k) \cup {r} ELSE Holding(k) \ {r}
         /\ Overflowing(k)' = IF Host[r] = k /\ req'[r].pc = "overflow"
                              THEN Overflowing(k) \cup {r} ELSE Overflowing(k) \ {r}
         /\ r \in Holding(k) <=> Host[r] = k /\ Holds(req[r])
         /\ r \in Overflowing(k) <=> Host[r] = k /\ req[r].pc = "overflow"
BY FleetFixed DEF OthersSame, Holding, Overflowing, Holds

\* The slots a request accounts for.
Weight(q) == IF Holds(q) \/ q.pc = "overflow" THEN 1 ELSE 0

\* SlotsExact is preserved by a step of r that changes the counter by what r
\* accounts for, and lets r become a holder only below its own limit.
LEMMA SlotsBalance ==
  ASSUME LTypeOK, LTypeOK', fleet' = fleet, SlotsExact, 0 \notin MaxConcurrents,
         NEW r \in Requests, OthersSame(r),
         slots'[Host[r]] = slots[Host[r]] + Weight(req'[r]) - Weight(req[r]),
         \/ ~Holds(req'[r])
         \/ Holds(req[r]) /\ req'[r].max = req[r].max
         \/ ~Holds(req[r]) /\ slots[Host[r]] + 1 <= req'[r].max
  PROVE  SlotsExact'
<1> SUFFICES ASSUME NEW k \in Workers
             PROVE  /\ slots'[k] = Cardinality(Holding(k)') + Cardinality(Overflowing(k)')
                    /\ \A m \in MaxConcurrents : Cardinality(HoldingUpTo(k, m)') <= m
  BY FleetFixed, Zenon DEF SlotsExact, HoldingUpTo
<1>1. /\ slots[k] = Cardinality(Holding(k)) + Cardinality(Overflowing(k))
      /\ \A m \in MaxConcurrents : Cardinality(HoldingUpTo(k, m)) <= m
  BY Zenon DEF SlotsExact, HoldingUpTo
<1>2. /\ Cardinality(Holding(k)) \in Nat /\ Cardinality(Overflowing(k)) \in Nat
      /\ \A m : /\ Cardinality(HoldingUpTo(k, m)) \in Nat
                /\ Cardinality(HoldingUpTo(k, m)) <= Cardinality(Holding(k))
      /\ slots[k] \in Int
  BY HoldersFinite, Zenon DEF LTypeOK
<1>3. ASSUME NEW S, IsFiniteSet(S)
      PROVE  /\ Cardinality(S \cup {r}) = IF r \in S THEN Cardinality(S) ELSE Cardinality(S) + 1
             /\ Cardinality(S \ {r}) = IF r \in S THEN Cardinality(S) - 1 ELSE Cardinality(S)
  BY <1>3, FS_AddElement, FS_RemoveElement, Zenon
<1>4. /\ Cardinality(Holding(k)') =
           IF Host[r] = k /\ Holds(req'[r])
           THEN IF Holds(req[r]) THEN Cardinality(Holding(k)) ELSE Cardinality(Holding(k)) + 1
           ELSE IF Host[r] = k /\ Holds(req[r]) THEN Cardinality(Holding(k)) - 1
                ELSE Cardinality(Holding(k))
      /\ Cardinality(Overflowing(k)') =
           IF Host[r] = k /\ req'[r].pc = "overflow"
           THEN IF req[r].pc = "overflow" THEN Cardinality(Overflowing(k))
                ELSE Cardinality(Overflowing(k)) + 1
           ELSE IF Host[r] = k /\ req[r].pc = "overflow" THEN Cardinality(Overflowing(k)) - 1
                ELSE Cardinality(Overflowing(k))
  <2>1. /\ Cardinality(Holding(k) \cup {r}) =
             IF r \in Holding(k) THEN Cardinality(Holding(k)) ELSE Cardinality(Holding(k)) + 1
        /\ Cardinality(Holding(k) \ {r}) =
             IF r \in Holding(k) THEN Cardinality(Holding(k)) - 1 ELSE Cardinality(Holding(k))
        /\ Cardinality(Overflowing(k) \cup {r}) =
             IF r \in Overflowing(k) THEN Cardinality(Overflowing(k))
             ELSE Cardinality(Overflowing(k)) + 1
        /\ Cardinality(Overflowing(k) \ {r}) =
             IF r \in Overflowing(k) THEN Cardinality(Overflowing(k)) - 1
             ELSE Cardinality(Overflowing(k))
    BY <1>3, HoldersFinite, Zenon
  <2>2. /\ Holding(k)' = IF Host[r] = k /\ Holds(req'[r])
                         THEN Holding(k) \cup {r} ELSE Holding(k) \ {r}
        /\ Overflowing(k)' = IF Host[r] = k /\ req'[r].pc = "overflow"
                             THEN Overflowing(k) \cup {r} ELSE Overflowing(k) \ {r}
        /\ r \in Holding(k) <=> Host[r] = k /\ Holds(req[r])
        /\ r \in Overflowing(k) <=> Host[r] = k /\ req[r].pc = "overflow"
    BY HoldersMove, Zenon
  <2> QED BY <2>1, <2>2, Zenon
<1>5. ASSUME NEW m \in MaxConcurrents
      PROVE  Cardinality(HoldingUpTo(k, m)') =
               IF Host[r] = k /\ Holds(req'[r]) /\ req'[r].max <= m
               THEN IF Holds(req[r]) /\ req[r].max <= m THEN Cardinality(HoldingUpTo(k, m))
                    ELSE Cardinality(HoldingUpTo(k, m)) + 1
               ELSE IF Host[r] = k /\ Holds(req[r]) /\ req[r].max <= m
                    THEN Cardinality(HoldingUpTo(k, m)) - 1
                    ELSE Cardinality(HoldingUpTo(k, m))
  <2>1. /\ Cardinality(HoldingUpTo(k, m) \cup {r}) =
             IF r \in HoldingUpTo(k, m) THEN Cardinality(HoldingUpTo(k, m))
             ELSE Cardinality(HoldingUpTo(k, m)) + 1
        /\ Cardinality(HoldingUpTo(k, m) \ {r}) =
             IF r \in HoldingUpTo(k, m) THEN Cardinality(HoldingUpTo(k, m)) - 1
             ELSE Cardinality(HoldingUpTo(k, m))
    BY <1>3, HoldersFinite, Zenon
  <2>2. /\ HoldingUpTo(k, m)' =
             IF Host[r] = k /\ Holds(req'[r]) /\ req'[r].max <= m
             THEN HoldingUpTo(k, m) \cup {r} ELSE HoldingUpTo(k, m) \ {r}
        /\ r \in HoldingUpTo(k, m) <=> Host[r] = k /\ Holds(req[r]) /\ req[r].max <= m
    BY FleetFixed DEF OthersSame, Holding, HoldingUpTo, Holds
  <2> QED BY <2>1, <2>2, Zenon
<1>6. Host[r] # k => slots'[k] = slots[k]
  BY Zenon DEF OthersSame
<1>7. req[r].pc = "overflow" => ~Holds(req[r])
  BY Zenon DEF Holds
<1>8. req'[r].pc = "overflow" => ~Holds(req'[r])
  BY Zenon DEF Holds
<1>9. slots'[k] = Cardinality(Holding(k)') + Cardinality(Overflowing(k)')
  BY <1>1, <1>2, <1>4, <1>6, <1>7, <1>8, SMTT(30) DEF Weight
<1>10. ASSUME NEW m \in MaxConcurrents PROVE Cardinality(HoldingUpTo(k, m)') <= m
  <2>1. m \in Nat /\ req'[r].max \in Nat /\ req[r].max \in Nat
    BY FleetFacts, FleetFixed, Zenon DEF LTypeOK, LocalsType
  <2> QED BY <1>1, <1>2, <1>5, <2>1
<1> QED BY <1>9, <1>10, Zenon

\* A request's step keeps the slot counter exact.
LEMMA SlotsStep ==
  ASSUME LTypeOK, fleet' = fleet, SlotsInv, SlotsExact, NEW r \in Requests, RequestStep(r)
  PROVE  SlotsInv' /\ SlotsExact'
<1>t. LTypeOK' /\ OthersSame(r)
  BY RequestStepType, Zenon
<1>z. CASE 0 \in MaxConcurrents
  BY <1>z, FleetFixed, Zenon DEF SlotsInv, SlotsExact
<1> SUFFICES ASSUME 0 \notin MaxConcurrents PROVE SlotsInv' /\ SlotsExact'
  BY <1>z, Zenon
<1>u. /\ MaxConcurrents \subseteq Nat \ {0} /\ maxConcurrent \in MaxConcurrents
      /\ slots \in [Workers -> Int] /\ Host[r] \in Workers
      /\ req \in [Requests -> LocalsType] /\ req[r] \in LocalsType /\ 1 \in Windows
      /\ req[r].taken \in BOOLEAN
  BY FleetFacts, Zenon DEF LTypeOK, LocalsType
<1>e. /\ slots[Host[r]] = Cardinality(Holding(Host[r])) + Cardinality(Overflowing(Host[r]))
      /\ Cardinality(Holding(Host[r])) \in Nat /\ Cardinality(Overflowing(Host[r])) \in Nat
  BY <1>u, HoldersFinite, Zenon DEF SlotsExact
<1>i. ASSUME counted \subseteq counted',
             req'[r].pc # "idle" => /\ req'[r].pc # "reset"
                                    /\ req'[r].max \in MaxConcurrents
                                    /\ Host[r] \in counted'
      PROVE  SlotsInv'
  BY <1>i, <1>t, FleetFixed DEF SlotsInv, OthersSame
<1>1. CASE Arrive(r)
  <2>1. /\ req'[r].max = maxConcurrent
        /\ req'[r].pc = IF slots[Host[r]] + 1 > maxConcurrent THEN "overflow" ELSE "take"
        /\ req[r].pc = "idle"
        /\ slots'[Host[r]] = slots[Host[r]] + 1
        /\ counted' = counted \cup {Host[r]}
    BY <1>1, <1>u DEF Arrive, LocalsType
  <2>2. SlotsInv'
    BY <1>i, <1>u, <2>1, Zenon
  <2>3. /\ Weight(req'[r]) = 1 /\ Weight(req[r]) = 0 /\ ~Holds(req[r])
        /\ Holds(req'[r]) => slots[Host[r]] + 1 <= req'[r].max
    <3>1. /\ maxConcurrent > 0
          /\ slots[Host[r]] + 1 > maxConcurrent \/ slots[Host[r]] + 1 <= maxConcurrent
      BY <1>u
    <3>2. /\ req'[r].pc \in {"overflow", "take"} /\ req'[r].max > 0 /\ req[r].pc = "idle"
          /\ req'[r].pc = "take" => slots[Host[r]] + 1 <= req'[r].max
      BY <2>1, <3>1, Zenon
    <3>3. Weight(req'[r]) = 1
      BY <3>2, Zenon DEF Weight, Holds
    <3>4. Weight(req[r]) = 0 /\ ~Holds(req[r])
      BY <3>2, Zenon DEF Weight, Holds
    <3>5. Holds(req'[r]) => req'[r].pc # "overflow"
      BY Zenon DEF Holds
    <3> QED BY <3>2, <3>3, <3>4, <3>5, Zenon
  <2>4. slots'[Host[r]] = slots[Host[r]] + Weight(req'[r]) - Weight(req[r])
    BY <1>u, <2>1, <2>3
  <2> QED BY <1>t, <2>2, <2>3, <2>4, SlotsBalance, Zenon
<1>s. req[r].pc # "idle" =>
        /\ req[r].pc # "reset" /\ req[r].max \in MaxConcurrents /\ Host[r] \in counted
        /\ req[r].max > 0
  <2>1. \A m \in MaxConcurrents : m > 0
    BY <1>u, SMTT(30)
  <2> QED BY <2>1, Zenon DEF SlotsInv
<1>2. CASE Overflow(r)
  <2>1. /\ req'[r].pc = "idle" /\ req[r].pc = "overflow"
        /\ slots'[Host[r]] = slots[Host[r]] - 1 /\ counted' = counted
    BY <1>2, <1>u, Zenon DEF Overflow, Leave, LocalsType
  <2>2. Weight(req'[r]) = 0 /\ Weight(req[r]) = 1 /\ ~Holds(req'[r])
    BY <2>1, Zenon DEF Weight, Holds
  <2>3. slots'[Host[r]] = slots[Host[r]] + Weight(req'[r]) - Weight(req[r])
    BY <1>u, <2>1, <2>2
  <2> QED BY <1>i, <1>t, <2>1, <2>2, <2>3, SlotsBalance, Zenon
<1>3. CASE ReleaseSlot(r)
  <2>1. req[r].pc \in {"refused", "finishing"} /\ counted' = counted
    BY <1>3, Zenon DEF ReleaseSlot
  <2>2. Host[r] \in counted /\ req[r].max > 0 /\ req[r].max # 0
    BY <1>s, <1>u, <2>1, Zenon
  <2>3. slots' = [slots EXCEPT ![Host[r]] = @ - 1]
    BY <1>3, <2>2, Zenon DEF ReleaseSlot
  <2>4. Holds(req[r]) /\ Weight(req[r]) = 1
    BY <2>1, <2>2, Zenon DEF Holds, Weight
  <2>5. slots[Host[r]] > 0
    <3>1. r \in Holding(Host[r])
      BY <2>4, Zenon DEF Holding, Holds
    <3>2. Cardinality(Holding(Host[r])) # 0
      BY <3>1, HoldersFinite, FS_EmptySet, Zenon
    <3> QED BY <1>e, <3>2
  <2>6. slots'[Host[r]] = slots[Host[r]] - 1 /\ ~(slots'[Host[r]] < 0)
    BY <1>u, <2>3, <2>5
  <2>7. req'[r].pc = "idle"
    BY <1>3, <1>u, <2>6 DEF ReleaseSlot, Leave, LocalsType
  <2>8. Weight(req'[r]) = 0 /\ ~Holds(req'[r])
    BY <2>7, Zenon DEF Weight, Holds
  <2>9. slots'[Host[r]] = slots[Host[r]] + Weight(req'[r]) - Weight(req[r])
    BY <1>u, <2>4, <2>6, <2>8
  <2> QED BY <1>i, <1>t, <2>1, <2>7, <2>8, <2>9, SlotsBalance, Zenon
<1>4. CASE ResetSlots(r)
  BY <1>4, <1>s, Zenon DEF ResetSlots
<1>5. ASSUME UNCHANGED <<slots, counted>>, req'[r].max = req[r].max,
             req[r].pc \notin {"idle", "overflow", "reset"},
             req'[r].pc \notin {"idle", "overflow", "reset"}
      PROVE  SlotsInv' /\ SlotsExact'
  <2>1. Weight(req'[r]) = 1 /\ Weight(req[r]) = 1 /\ Holds(req[r])
    BY <1>5, <1>s, Zenon DEF Weight, Holds
  <2>2. slots'[Host[r]] = slots[Host[r]] + Weight(req'[r]) - Weight(req[r])
    BY <1>5, <1>u, <2>1
  <2>3. SlotsInv'
    BY <1>5, <1>i, <1>s, Zenon
  <2> QED BY <1>5, <1>t, <2>1, <2>2, <2>3, SlotsBalance, Zenon
<1>6. ASSUME NEW q \in LocalsType, NEW t \in BOOLEAN, req'[r] = Returned(q, t),
             q = req[r], UNCHANGED <<slots, counted>>,
             req[r].pc \notin {"idle", "overflow", "reset"}
      PROVE  SlotsInv' /\ SlotsExact'
  BY <1>5, <1>6, <1>u, ReturnedType
<1>7. CASE Take(r) \/ RefillTaken(r) \/ Retake(r) \/ Grant(r)
  <2>1. UNCHANGED <<slots, counted>> /\ req[r].pc \notin {"idle", "overflow", "reset"}
    BY <1>7, Zenon DEF Take, RefillTaken, Retake, Grant
  <2>2. \/ \E t \in BOOLEAN : req'[r] = Returned(req[r], t)
        \/ req'[r].max = req[r].max /\ req'[r].pc \in {"refill", "retake"}
    <3>1. CASE Take(r)
      <4> DEFINE b == bucket[Host[r]][window]
                 t == Usable(b) > 0
      <4>1. req'[r] = IF ShouldRefill(b)
                      THEN [req[r] EXCEPT !.pc = "refill", !.key = window, !.taken = t]
                      ELSE Returned(req[r], t)
        BY <1>u, <3>1, Zenon DEF Take
      <4>2. t \in BOOLEAN
        OBVIOUS
      <4> HIDE DEF b, t
      <4>3. /\ [req[r] EXCEPT !.pc = "refill", !.key = window, !.taken = t].pc = "refill"
            /\ [req[r] EXCEPT !.pc = "refill", !.key = window, !.taken = t].max = req[r].max
        BY <1>u, Zenon DEF LocalsType
      <4> QED BY <4>1, <4>2, <4>3, Zenon
    <3>2. CASE RefillTaken(r)
      BY <1>u, <3>2, Zenon DEF RefillTaken
    <3>3. CASE Retake(r)
      <4> DEFINE t == Usable(B(r)) > 0
      <4>1. req'[r] = Returned(req[r], t) /\ t \in BOOLEAN
        BY <1>u, <3>3 DEF Retake
      <4> QED BY <4>1, ZenonT(30)
    <3>4. CASE Grant(r)
      <4>1. req'[r] = IF req[r].taken THEN Returned(req[r], TRUE)
                      ELSE [req[r] EXCEPT !.pc = "retake", !.granted = 0]
        BY <1>u, <3>4, Zenon DEF Grant
      <4>2. /\ [req[r] EXCEPT !.pc = "retake", !.granted = 0].pc = "retake"
            /\ [req[r] EXCEPT !.pc = "retake", !.granted = 0].max = req[r].max
        BY <1>u, Zenon DEF LocalsType
      <4> QED BY <4>1, <4>2, Zenon
    <3> QED BY <1>7, <3>1, <3>2, <3>3, <3>4, Zenon
  <2>3. CASE \E t \in BOOLEAN : req'[r] = Returned(req[r], t)
    BY <1>6, <1>u, <2>1, <2>3, Zenon
  <2>4. CASE req'[r].max = req[r].max /\ req'[r].pc \in {"refill", "retake"}
    BY <1>5, <2>1, <2>4, Zenon
  <2> QED BY <2>2, <2>3, <2>4, Zenon
<1>8. CASE BeginRefill(r) \/ LeaseFrom(r) \/ LeaseFails(r) \/ CheckTokens(r)
           \/ RecordTokens(r) \/ FinishUnmetered(r)
  <2>1. UNCHANGED <<slots, counted>> /\ req[r].pc \notin {"idle", "overflow", "reset"}
    BY <1>8, Zenon DEF BeginRefill, LeaseFrom, LeaseFails, CheckTokens, RecordTokens,
                       FinishUnmetered
  <2>2. req'[r].max = req[r].max /\ req'[r].pc \notin {"idle", "overflow", "reset"}
    BY <1>8, <1>u DEF BeginRefill, LeaseFrom, LeaseFails, CheckTokens, RecordTokens,
                      FinishUnmetered, Goto, LocalsType
  <2> QED BY <1>5, <2>1, <2>2, Zenon
<1> QED BY <1>1, <1>2, <1>3, <1>4, <1>7, <1>8, Zenon DEF RequestStep

\* The in-flight counter counts the holders of a slot and those giving one back,
\* and of the holders admitted under limits up to m there are at most m, for any
\* number of requests and any MaxConcurrents (acquireSlot, releaseSlot).
THEOREM SlotsExactHolds == LimiterSpec => []SlotsExact
<1> DEFINE IInv == LTypeOK /\ SlotsInv /\ SlotsExact
<1>1. LimiterInit => IInv
  <2> SUFFICES ASSUME LimiterInit PROVE SlotsInv /\ SlotsExact
    BY LimiterInitType, Zenon
  <2>1. \A r \in Requests : req[r].pc = "idle"
    BY Zenon DEF LimiterInit, Idle
  <2>2. \A k : Holding(k) = {} /\ Overflowing(k) = {}
    BY <2>1, Zenon DEF Holding, Overflowing
  <2>3. \A k, m : {r \in Holding(k) : req[r].max <= m} = {}
    BY <2>2, Zenon
  <2>4. \A k \in Workers : slots[k] = 0
    BY Zenon DEF LimiterInit
  <2>5. MaxConcurrents \subseteq Nat
    BY FleetFacts, Zenon DEF LimiterInit
  <2>6. SlotsInv
    BY <2>1, Zenon DEF SlotsInv
  <2>7. /\ Cardinality({}) = 0 /\ 0 = 0 + 0
        /\ \A m \in MaxConcurrents : 0 <= m
    BY <2>5, FS_EmptySet
  <2>8. \A k \in Workers : slots[k] = Cardinality(Holding(k)) + Cardinality(Overflowing(k))
    BY <2>2, <2>4, <2>7, Zenon
  <2>9. \A k \in Workers : \A m \in MaxConcurrents :
          Cardinality({r \in Holding(k) : req[r].max <= m}) <= m
    BY <2>3, <2>7, Zenon
  <2> QED BY <2>6, <2>8, <2>9, Zenon DEF SlotsExact
<1>2. IInv /\ [LimiterNext]_limiterVars => IInv'
  <2> SUFFICES ASSUME IInv, [LimiterNext]_limiterVars PROVE IInv'
    BY Zenon
  <2>1. LTypeOK' /\ fleet' = fleet
    BY LimiterNextType, Zenon DEF LimiterNext, limiterVars
  <2>2. ASSUME NEW r \in Requests, RequestStep(r) PROVE IInv'
    BY <2>1, <2>2, SlotsStep, Zenon
  <2>3. ASSUME UNCHANGED <<slots, counted, req>> PROVE IInv'
    <3>1. Requests' = Requests /\ Host' = Host /\ Workers' = Workers
          /\ MaxConcurrents' = MaxConcurrents
      BY <2>1, FleetFixed, Zenon
    <3>2. \A k : Holding(k)' = Holding(k) /\ Overflowing(k)' = Overflowing(k)
      BY <2>3, <3>1, Zenon DEF Holding, Overflowing
    <3> QED BY <2>1, <2>3, <3>1, <3>2, Zenon DEF SlotsInv, SlotsExact
  <2>4. CASE Roll \/ (\E m \in MaxConcurrents : Reconfigure(m)) \/ UNCHANGED limiterVars
    BY <2>3, <2>4, Zenon DEF Roll, Reconfigure, limiterVars
  <2> QED BY <2>2, <2>4, Zenon DEF LimiterNext
<1> QED BY <1>1, <1>2, PTL DEF LimiterSpec
=============================================================================
