------------------------------ MODULE Limiter ------------------------------
(***************************************************************************)
(* Rate limiting of one principal across a fleet of workers                *)
(* (dataplane/internal/limits/limiter.go, bucket.go) over a shared counter *)
(* store (adapters/rediskv, or adapters/memkv for a fleet of one).         *)
(*                                                                         *)
(* A request is a goroutine on one worker: Admit, the request itself, then *)
(* RecordTokens and Release.  It is cut at every atomic operation on the   *)
(* slot counter, at every method of the bucket (each holds the bucket's    *)
(* mutex for its whole body) and at every call of the store.  Time is the  *)
(* number of the current one-minute window, which is part of every key.    *)
(***************************************************************************)
EXTENDS Integers, FiniteSets, FiniteSetsExt

CONSTANTS Limit,            \* RequestsPerMinute
          Lease,            \* Limiter.lease
          Fleets            \* the fleets and traffic to consider, see Fleet

ASSUME LimiterAssumption ==
  /\ {Limit, Lease} \subseteq Nat \ {0}
  /\ \A f \in Fleets :
       /\ IsFiniteSet(DOMAIN f.host)
       /\ {f.tokenLimit, f.maxWindow} \subseteq Nat \ {0}
       /\ f.maxConcurrents \subseteq Nat /\ f.maxConcurrents # {}
       /\ f.maxFailures \in Nat

\* fleet, one of Fleets and constant: which worker each request runs on (host),
\* TokensPerMinute in requests' worth of tokens, the values MaxConcurrent takes
\* over time, and the bounds: the last window, store failures per window.
VARIABLE fleet

Host == fleet.host
Requests == DOMAIN Host
Workers == {Host[r] : r \in Requests}
TokenLimit == fleet.tokenLimit
MaxConcurrents == fleet.maxConcurrents
MaxWindow == fleet.maxWindow
MaxFailures == fleet.maxFailures
Windows == 1 .. MaxWindow

VARIABLES window,          \* the current window
          maxConcurrent,   \* the principal's MaxConcurrent in the snapshot
          slots,           \* slots[k]: the in-flight counter on worker k
          counted,         \* workers that have made the in-flight counter
          bucket,          \* bucket[k][w]: worker k's bucket for window w's key
          rpm, tpm,        \* the store's counters, by window
          failures,        \* failures[w]: leases granted because Incr failed
          spent,           \* spent[w]: history, permits of window w spent
          req              \* req[r]: the locals of a request

limiterVars == <<fleet, window, maxConcurrent, slots, counted, bucket, rpm, tpm, failures, spent, req>>

(***************************************************************************)
(* pc: "idle"; "overflow", over the limit and about to give the slot back; *)
(* "take", about to take a permit; "refill", told to refill; "lease", has  *)
(* won BeginRefill; "grant", has permits to install; "retake", about to    *)
(* take one of them; "tokens", about to look at the token window;          *)
(* "running"; "refused", about to release its slot; "finishing", done and  *)
(* about to release its slot; "reset", found the counter negative.         *)
(***************************************************************************)
Idle == [pc |-> "idle",
         max |-> 0,          \* MaxConcurrent of its snapshot
         key |-> 1,          \* the window in the key of its bucket
         taken |-> FALSE,
         granted |-> 0]

EmptyBucket == [remaining |-> 0, expires |-> 0, refreshing |-> FALSE]

LimiterInit ==
  /\ fleet \in Fleets
  /\ window = 1
  /\ maxConcurrent \in MaxConcurrents
  /\ slots = [k \in Workers |-> 0]
  /\ counted = {}
  /\ bucket = [k \in Workers |-> [w \in Windows |-> EmptyBucket]]
  /\ rpm = [w \in Windows |-> 0]
  /\ tpm = [w \in Windows |-> 0]
  /\ failures = [w \in Windows |-> 0]
  /\ spent = [w \in Windows |-> 0]
  /\ req = [r \in Requests |-> Idle]

B(r) == bucket[Host[r]][req[r].key]
SetBucket(r, b) == bucket' = [bucket EXCEPT ![Host[r]][req[r].key] = b]
Goto(r, label) == req' = [req EXCEPT ![r].pc = label]
Leave(r) == req' = [req EXCEPT ![r].pc = "idle", ![r].max = 0]

\* take returns: its locals go out of scope.
Returned(q, taken) == [q EXCEPT !.pc = IF taken THEN "tokens" ELSE "refused",
                                !.key = 1, !.taken = FALSE, !.granted = 0]

-----------------------------------------------------------------------------
(* Bucket *)

\* The permits Take finds: those of an expired lease are dropped.
Usable(b) == IF window > b.expires THEN 0 ELSE b.remaining

\* The bucket Take leaves behind.
AfterTake(b) == [b EXCEPT !.remaining = IF Usable(b) > 0 THEN Usable(b) - 1 ELSE 0]

ShouldRefill(b) == ~b.refreshing /\ Usable(b) <= 1

\* Grant(permits, windowEnd()).
AfterGrant(b, permits) ==
  [b EXCEPT !.remaining = @ + permits,
            !.expires = IF permits > 0 THEN window ELSE @,
            !.refreshing = FALSE]

-----------------------------------------------------------------------------
(* Admit *)

\* acquireSlot: slots.Add(1), compared with MaxConcurrent.
Arrive(r) ==
  LET k == Host[r]
      over == maxConcurrent > 0 /\ slots[k] + 1 > maxConcurrent
  IN  /\ req[r].pc = "idle"
      /\ slots' = IF maxConcurrent > 0 THEN [slots EXCEPT ![k] = @ + 1] ELSE slots
      /\ counted' = IF maxConcurrent > 0 THEN counted \cup {k} ELSE counted
      /\ req' = [req EXCEPT ![r].pc = IF over THEN "overflow" ELSE "take",
                            ![r].max = maxConcurrent]
      /\ UNCHANGED <<window, maxConcurrent, bucket, rpm, tpm, failures, spent>>

\* Mutant of Overflow: the slot is not given back.
OverflowKeeps(r) ==
  /\ req[r].pc = "overflow"
  /\ Leave(r)
  /\ UNCHANGED <<window, maxConcurrent, slots, counted, bucket, rpm, tpm, failures, spent>>

\* acquireSlot gives the slot back with slots.Add(-1) and refuses.
Overflow(r) ==
  /\ req[r].pc = "overflow"
  /\ slots' = [slots EXCEPT ![Host[r]] = @ - 1]
  /\ Leave(r)
  /\ UNCHANGED <<window, maxConcurrent, counted, bucket, rpm, tpm, failures, spent>>

\* take computes its key from the clock, then calls bucket.Take.
Take(r) ==
  LET b == bucket[Host[r]][window]
      taken == Usable(b) > 0
  IN  /\ req[r].pc = "take"
      /\ bucket' = [bucket EXCEPT ![Host[r]][window] = AfterTake(b)]
      /\ spent' = IF taken THEN [spent EXCEPT ![window] = @ + 1] ELSE spent
      /\ req' = [req EXCEPT ![r] =
                   IF ShouldRefill(b)
                   THEN [@ EXCEPT !.pc = "refill", !.key = window, !.taken = taken]
                   ELSE Returned(@, taken)]
      /\ UNCHANGED <<window, maxConcurrent, slots, counted, rpm, tpm, failures>>

BeginRefill(r) ==
  /\ req[r].pc = "refill"
  /\ ~B(r).refreshing
  /\ SetBucket(r, [B(r) EXCEPT !.refreshing = TRUE])
  /\ Goto(r, "lease")
  /\ UNCHANGED <<window, maxConcurrent, slots, counted, rpm, tpm, failures, spent>>

\* Another goroutine is refilling: the answer is whatever Take said.
RefillTaken(r) ==
  /\ req[r].pc = "refill"
  /\ B(r).refreshing
  /\ req' = [req EXCEPT ![r] = Returned(@, @.taken)]
  /\ UNCHANGED <<window, maxConcurrent, slots, counted, bucket, rpm, tpm, failures, spent>>

\* Mutant of Granted: a lease that straddles the limit is granted whole.
GrantedWhole(used) == IF used - Limit >= Lease THEN 0 ELSE Lease

\* The part of a lease that fell inside the limit, `used' being what Incr
\* returned.
Granted(used) ==
  LET overshoot == used - Limit
  IN  IF overshoot >= Lease THEN 0
      ELSE IF overshoot > 0 THEN Lease - overshoot ELSE Lease

\* leaseFrom: Incr adds the lease to the shared counter whether or not the
\* limit is spent.  The counter saturates where leaseFrom stops telling its
\* values apart.
LeaseFrom(r) ==
  LET used == rpm[req[r].key] + Lease
  IN  /\ req[r].pc = "lease"
      /\ rpm' = [rpm EXCEPT ![req[r].key] = Min({used, Limit + Lease})]
      /\ req' = [req EXCEPT ![r].granted = Granted(used), ![r].pc = "grant"]
      /\ UNCHANGED <<window, maxConcurrent, slots, counted, bucket, tpm, failures, spent>>

\* The store is unreachable: leaseFrom fails open with a full lease.
LeaseFails(r) ==
  /\ req[r].pc = "lease"
  /\ failures[req[r].key] < MaxFailures
  /\ failures' = [failures EXCEPT ![req[r].key] = @ + 1]
  /\ req' = [req EXCEPT ![r].granted = Lease, ![r].pc = "grant"]
  /\ UNCHANGED <<window, maxConcurrent, slots, counted, bucket, rpm, tpm, spent>>

Grant(r) ==
  /\ req[r].pc = "grant"
  /\ SetBucket(r, AfterGrant(B(r), req[r].granted))
  /\ req' = [req EXCEPT ![r] = IF @.taken THEN Returned(@, TRUE)
                               ELSE [@ EXCEPT !.pc = "retake", !.granted = 0]]
  /\ UNCHANGED <<window, maxConcurrent, slots, counted, rpm, tpm, failures, spent>>

\* The request that found the bucket empty spends one of its own permits.
Retake(r) ==
  LET taken == Usable(B(r)) > 0
  IN  /\ req[r].pc = "retake"
      /\ SetBucket(r, AfterTake(B(r)))
      /\ spent' = IF taken THEN [spent EXCEPT ![req[r].key] = @ + 1] ELSE spent
      /\ req' = [req EXCEPT ![r] = Returned(@, taken)]
      /\ UNCHANGED <<window, maxConcurrent, slots, counted, rpm, tpm, failures>>

\* windowSpent: a Get of the current token window; an error fails open.
CheckTokens(r) ==
  /\ req[r].pc = "tokens"
  /\ \/ Goto(r, IF tpm[window] >= TokenLimit THEN "refused" ELSE "running")
     \/ MaxFailures > 0 /\ Goto(r, "running")
  /\ UNCHANGED <<window, maxConcurrent, slots, counted, bucket, rpm, tpm, failures, spent>>

-----------------------------------------------------------------------------
(* After Admit *)

\* The response is in: RecordTokens adds to the window that is current now.
RecordTokens(r) ==
  /\ req[r].pc = "running"
  /\ tpm' = [tpm EXCEPT ![window] = Min({@ + 1, TokenLimit})]
  /\ Goto(r, "finishing")
  /\ UNCHANGED <<window, maxConcurrent, slots, counted, bucket, rpm, failures, spent>>

\* The request failed before there was any usage to record.
FinishUnmetered(r) ==
  /\ req[r].pc = "running"
  /\ Goto(r, "finishing")
  /\ UNCHANGED <<window, maxConcurrent, slots, counted, bucket, rpm, tpm, failures, spent>>

\* releaseSlot: slots.Add(-1), if the worker has a counter.  Release only calls
\* it for a principal with a MaxConcurrent; a refusing Admit always calls it.
ReleaseSlot(r) ==
  LET k == Host[r]
      skip == \/ req[r].pc = "finishing" /\ req[r].max = 0
              \/ k \notin counted
  IN  /\ req[r].pc \in {"refused", "finishing"}
      /\ slots' = IF skip THEN slots ELSE [slots EXCEPT ![k] = @ - 1]
      /\ IF slots'[k] < 0 THEN Goto(r, "reset") ELSE Leave(r)
      /\ UNCHANGED <<window, maxConcurrent, counted, bucket, rpm, tpm, failures, spent>>

\* slots.Store(0).
ResetSlots(r) ==
  /\ req[r].pc = "reset"
  /\ slots' = [slots EXCEPT ![Host[r]] = 0]
  /\ Leave(r)
  /\ UNCHANGED <<window, maxConcurrent, counted, bucket, rpm, tpm, failures, spent>>

-----------------------------------------------------------------------------
\* The minute rolls.
Roll ==
  /\ window < MaxWindow
  /\ window' = window + 1
  /\ UNCHANGED <<maxConcurrent, slots, counted, bucket, rpm, tpm, failures, spent, req>>

\* A new snapshot changes the principal's MaxConcurrent.
Reconfigure(m) ==
  /\ m # maxConcurrent
  /\ maxConcurrent' = m
  /\ UNCHANGED <<window, slots, counted, bucket, rpm, tpm, failures, spent, req>>

RequestStep(r) ==
  \/ Arrive(r) \/ Overflow(r) \/ Take(r) \/ BeginRefill(r) \/ RefillTaken(r)
  \/ LeaseFrom(r) \/ LeaseFails(r) \/ Grant(r) \/ Retake(r) \/ CheckTokens(r)
  \/ RecordTokens(r) \/ FinishUnmetered(r) \/ ReleaseSlot(r) \/ ResetSlots(r)

LimiterNext ==
  /\ fleet' = fleet
  /\ \/ \E r \in Requests : RequestStep(r)
     \/ Roll
     \/ \E m \in MaxConcurrents : Reconfigure(m)

LimiterSpec == LimiterInit /\ [][LimiterNext]_limiterVars

-----------------------------------------------------------------------------
(* Properties *)

\* The requests that have a slot of worker k's counter.
Holding(k) ==
  {r \in Requests : /\ Host[r] = k
                    /\ req[r].max > 0
                    /\ req[r].pc \notin {"idle", "overflow", "reset"}}

\* Those whose Add(1) or Add(-1) is still to be undone by acquireSlot.
Overflowing(k) == {r \in Requests : Host[r] = k /\ req[r].pc = "overflow"}

\* The in-flight counter counts the requests that hold a slot, and those that
\* are giving back one they did not get: no refusal, however it interleaves
\* with others, returns a slot that is not its own.  releaseSlot's comment: "A
\* release without a matching acquire is a bug in the caller".  And of the
\* holders admitted under limits up to m there are never more than m on a
\* worker, also when snapshots raise and lower MaxConcurrent between them.
\* (For a principal that always has a MaxConcurrent: while it has none the
\* requests are not counted at all.)
SlotsExact ==
  0 \notin MaxConcurrents =>
    \A k \in Workers :
      /\ slots[k] = Cardinality(Holding(k)) + Cardinality(Overflowing(k))
      /\ \A m \in MaxConcurrents :
           Cardinality({r \in Holding(k) : req[r].max <= m}) <= m

\* However many workers lease from one window, however their refills
\* interleave with each other and with the roll of the minute, the fleet
\* spends no more permits of a window than the limit, but for the leases
\* granted while the store was unreachable (leaseFrom, Bucket).
WindowBound ==
  \A w \in Windows : spent[w] <= Limit + Lease * failures[w]

=============================================================================
