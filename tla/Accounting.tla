----------------------------- MODULE Accounting -----------------------------
(***************************************************************************)
(* The accounting consumer of the control plane: processes of              *)
(* accounting_main.py read usage events from a Redis stream as members of  *)
(* a consumer group (service/usage_stream.py), charge them to budgets in a *)
(* database transaction (service/accounting.py) and acknowledge them.      *)
(*                                                                         *)
(* A process may die between any two steps and is started again under the  *)
(* same consumer name.  Names come from the environment and have a default,*)
(* so two replicas may share one.                                          *)
(*                                                                         *)
(* The stream is bounded: the sink that adds an entry to it                *)
(* (dataplane/internal/adapters/redisstream) has Redis trim the oldest     *)
(* ones, read or not.                                                      *)
(*                                                                         *)
(* Redis and the database are modelled by what the code relies on: the     *)
(* group hands each entry to one name and keeps it pending until it is     *)
(* acknowledged, even when the entry itself has been trimmed; an INSERT    *)
(* waits for an uncommitted row with its key, an UPDATE for a row another  *)
(* transaction has updated, and a cycle of such waits is broken by         *)
(* aborting a transaction in it.                                           *)
(***************************************************************************)
EXTENDS Integers, Sequences, FiniteSets, Functions, FiniteSetsExt

CONSTANTS Processes,
          Names,       \* consumer names
          Entries,     \* the entries 1 .. n of the stream, in order
          RequestOf,   \* RequestOf[e]: the request id of entry e, or NoId
          TenantOf,    \* TenantOf[e]: the tenant e is charged to
          BudgetsOf,   \* BudgetsOf[e]: the budgets e names, as a sequence
          Budgets,     \* the budgets that exist
          BudgetTenant, \* BudgetTenant[b]: the tenant of budget b
          NoId, NoBudget,
          StreamMaxLen, \* Sink.maxLen
          BatchSize,   \* DEFAULT_BATCH
          MaxCrashes   \* bound: processes that die, other than by an abort

ASSUME AccountingAssumption ==
  /\ IsFiniteSet(Entries) /\ Entries = 1 .. Cardinality(Entries)
  /\ DOMAIN RequestOf = Entries
  /\ DOMAIN BudgetsOf = Entries
  /\ \A e \in Entries : BudgetsOf[e] \in Seq(Range(BudgetsOf[e]))
  /\ DOMAIN TenantOf = Entries
  /\ NoBudget \notin Budgets
  /\ StreamMaxLen \in Nat \ {0}
  /\ BatchSize \in Nat \ {0}
  /\ MaxCrashes \in Nat

VARIABLES name,       \* name[p]: the consumer name of process p
          malformed,  \* the entries whose payload does not parse
          published,  \* entries 1 .. published were added to the stream
          trimmed,    \* entries 1 .. trimmed are no longer in it
          delivered,  \* entries 1 .. delivered were handed to a name
          pending,    \* pending[n]: entries delivered to n, not acknowledged
          proc,       \* proc[p]: the state of process p
          records,    \* the entries whose usage record is committed
          spent,      \* spent[b]: the number of charges committed to budget b
          layerVersion, \* layerVersion[t]: the version of tenant t's layer
          lost,       \* history: the entries that were gone when a process came
                      \* to them
          crashes

redis == <<published, trimmed, delivered, pending>>
database == <<records, spent, layerVersion>>
environment == <<name, malformed, crashes>>
accountingVars == <<environment, redis, lost, proc, database>>

(***************************************************************************)
(* A process: the batch it read, the events of it that apply has still to  *)
(* come to, how far it is in the budgets of the one at hand, and its open  *)
(* transaction: the entries it inserted and the budget rows it updated,    *)
(* with the number of charges.                                             *)
(***************************************************************************)
NoCharges == [b \in Budgets |-> 0]

Handling(point, batch, left) ==
  [pc |-> point, batch |-> batch, left |-> left, charged |-> 0,
   inserted |-> {}, charges |-> NoCharges]
Idle(point) == Handling(point, {}, {})

AccountingInit ==
  /\ name \in [Processes -> Names]
  /\ malformed \in SUBSET Entries
  /\ published = 0
  /\ trimmed = 0
  /\ delivered = 0
  /\ pending = [n \in Names |-> {}]
  /\ proc = [p \in Processes |-> Idle("down")]
  /\ records = {}
  /\ spent = NoCharges
  /\ layerVersion = [t \in Range(TenantOf) |-> 0]
  /\ lost = {}
  /\ crashes = 0

-----------------------------------------------------------------------------
(* The stream *)

\* Sink.Write adds one entry.  MaxLen is approximate: Redis may leave more than
\* StreamMaxLen entries, never fewer.
Publish ==
  /\ published + 1 \in Entries
  /\ published' = published + 1
  /\ trimmed' \in {n \in trimmed .. published :
                     n = trimmed \/ published + 1 - n >= StreamMaxLen}
  /\ UNCHANGED <<environment, delivered, pending, lost, proc, database>>

InStream(S) == {e \in S : e > trimmed}

\* The first BatchSize entries of a set, in stream order.
FirstBatch(S) == {e \in S : Cardinality({f \in S : f < e}) < BatchSize}

\* _decode: the entries of a batch that have a payload, and one that parses.
Events(batch) == InStream(batch) \ malformed

Applying(batch) == Handling("recording", batch, Events(batch))

\* ensure_group leaves a group that exists as it is.
Start(p) ==
  /\ proc[p].pc = "down"
  /\ proc' = [proc EXCEPT ![p] = Idle("starting")]
  /\ UNCHANGED <<environment, redis, lost, database>>

\* Mutant of ReadPending: a restart goes straight to new entries.
ReadPendingSkipped(p) ==
  /\ proc[p].pc = "starting"
  /\ proc' = [proc EXCEPT ![p] = Idle("reading")]
  /\ UNCHANGED <<environment, redis, lost, database>>

\* read_pending, once, and only applied if some event of it parsed.  Redis
\* answers for an entry that was trimmed with its id and nothing else.
ReadPending(p) ==
  LET batch == FirstBatch(pending[name[p]]) IN
  /\ proc[p].pc = "starting"
  /\ proc' = [proc EXCEPT ![p] = IF Events(batch) # {} THEN Applying(batch)
                                                         ELSE Idle("reading")]
  /\ lost' = lost \cup (batch \ InStream(batch))
  /\ UNCHANGED <<environment, redis, database>>

\* Mutant of Read: the group is read with NOACK.
ReadAcknowledged(p) ==
  LET batch == FirstBatch(InStream((delivered + 1) .. published)) IN
  /\ proc[p].pc = "reading"
  /\ batch # {}
  /\ delivered' = Max(batch)
  /\ lost' = lost \cup ((delivered + 1) .. trimmed)
  /\ proc' = [proc EXCEPT ![p] = Applying(batch)]
  /\ UNCHANGED <<environment, published, trimmed, pending, database>>

\* read: the group goes on to what the stream still has, past what was trimmed
\* before any process came to it.  An empty answer is read again.
Read(p) ==
  LET batch == FirstBatch(InStream((delivered + 1) .. published)) IN
  /\ proc[p].pc = "reading"
  /\ batch # {}
  /\ delivered' = Max(batch)
  /\ lost' = lost \cup ((delivered + 1) .. trimmed)
  /\ pending' = [pending EXCEPT ![name[p]] = @ \cup batch]
  /\ proc' = [proc EXCEPT ![p] = Applying(batch)]
  /\ UNCHANGED <<environment, published, trimmed, database>>

-----------------------------------------------------------------------------
(* Accountant.apply *)

\* The event apply is at, the first of those that are left.
AtEvent(p) == proc[p].left # {}
Event(p) == Min(proc[p].left)

SameRequest(e, S) == \E f \in S : RequestOf[f] = RequestOf[e]

\* The row the UPDATE for the i-th budget of e finds: by id, in e's tenant.
BudgetRow(e, i) ==
  LET b == BudgetsOf[e][i] IN
  IF b \in Budgets /\ BudgetTenant[b] = TenantOf[e] THEN b ELSE NoBudget

\* The budget _charge comes to next.
AtBudget(p) == proc[p].pc = "charging" /\ proc[p].charged < Len(BudgetsOf[Event(p)])
Budget(p) == BudgetRow(Event(p), proc[p].charged + 1)

(***************************************************************************)
(* Row locks.  The row p's next statement needs is that of a request id    *)
(* without a committed record, or of a budget.  It is held by the          *)
(* transaction that inserted or updated it.                                *)
(***************************************************************************)
NoRow == <<"none">>

Row(p) ==
  IF AtBudget(p) /\ Budget(p) \in Budgets THEN <<"budget", Budget(p)>>
  ELSE IF /\ proc[p].pc = "recording" /\ AtEvent(p)
          /\ RequestOf[Event(p)] # NoId /\ ~SameRequest(Event(p), records)
       THEN <<"request", RequestOf[Event(p)]>>
       ELSE NoRow

Holds(q, row) ==
  \/ row[1] = "budget" /\ proc[q].charges[row[2]] > 0
  \/ row[1] = "request" /\ \E e \in proc[q].inserted : RequestOf[e] = row[2]

WaitsFor(p, q) == q # p /\ Holds(q, Row(p))
Blocked(p) == \E q \in Processes : WaitsFor(p, q)

\* Mutant of Record: the conflict clause replaces the row.
RecordDuplicate(p) ==
  /\ proc[p].pc = "recording"
  /\ AtEvent(p)
  /\ ~Blocked(p)
  /\ proc' = [proc EXCEPT ![p].inserted = @ \cup {Event(p)}, ![p].pc = "charging",
                          ![p].charged = 0]
  /\ UNCHANGED <<environment, redis, lost, database>>

\* _record: an event without an id, or whose id has a record, is skipped.
Record(p) ==
  LET e == Event(p) IN
  /\ proc[p].pc = "recording"
  /\ AtEvent(p)
  /\ ~Blocked(p)
  /\ proc' = [proc EXCEPT ![p] =
       IF RequestOf[e] = NoId \/ SameRequest(e, records \cup proc[p].inserted)
       THEN [proc[p] EXCEPT !.left = @ \ {e}]
       ELSE [proc[p] EXCEPT !.inserted = @ \cup {e}, !.pc = "charging", !.charged = 0]]
  /\ UNCHANGED <<environment, redis, lost, database>>

\* One UPDATE of _charge.  A budget it does not find is passed over.
Charge(p) ==
  LET b == Budget(p) IN
  /\ AtBudget(p)
  /\ ~Blocked(p)
  /\ proc' = [proc EXCEPT ![p] = [proc[p] EXCEPT !.charged = @ + 1, !.charges =
       IF b \in Budgets THEN [proc[p].charges EXCEPT ![b] = @ + 1] ELSE @]]
  /\ UNCHANGED <<environment, redis, lost, database>>

Charged(p) ==
  /\ proc[p].pc = "charging"
  /\ ~AtBudget(p)
  /\ proc' = [proc EXCEPT ![p] =
       [proc[p] EXCEPT !.pc = "recording", !.left = @ \ {Event(p)}]]
  /\ UNCHANGED <<environment, redis, lost, database>>

\* tenants_touched: the tenants some budget of which was charged.
Touched(p) == {BudgetTenant[b] : b \in {c \in Budgets : proc[p].charges[c] > 0}}

\* _bump_versions, in the same order in every transaction, and the commit.
Commit(p) ==
  /\ proc[p].pc = "recording"
  /\ ~AtEvent(p)
  /\ records' = records \cup proc[p].inserted
  /\ spent' = [b \in Budgets |-> spent[b] + proc[p].charges[b]]
  /\ layerVersion' = [t \in DOMAIN layerVersion |->
                        layerVersion[t] + (IF t \in Touched(p) THEN 1 ELSE 0)]
  /\ proc' = [proc EXCEPT ![p] = Handling("acking", proc[p].batch, {})]
  /\ UNCHANGED <<environment, redis, lost>>

Ack(p) ==
  /\ proc[p].pc = "acking"
  /\ pending' = [pending EXCEPT ![name[p]] = @ \ proc[p].batch]
  /\ proc' = [proc EXCEPT ![p] = Idle("reading")]
  /\ UNCHANGED <<environment, published, trimmed, delivered, lost, database>>

-----------------------------------------------------------------------------
(* Failures *)

\* The processes a deadlock is made of: each waits for another of them.
Deadlocked ==
  UNION {S \in SUBSET Processes : S # {} /\ \A p \in S : \E q \in S : WaitsFor(p, q)}

\* The process dies with its transaction; what was delivered to its name stays
\* pending there.
Dies(p) ==
  /\ proc' = [proc EXCEPT ![p] = Idle("down")]
  /\ UNCHANGED <<name, malformed, redis, lost, database>>

Crash(p) ==
  /\ proc[p].pc # "down"
  /\ crashes < MaxCrashes
  /\ crashes' = crashes + 1
  /\ Dies(p)

\* The database aborts a transaction of a deadlock; the error leaves run.
Abort(p) ==
  /\ p \in Deadlocked
  /\ Dies(p)
  /\ UNCHANGED crashes

Step(p) ==
  \/ Start(p) \/ ReadPending(p) \/ Read(p)
  \/ Record(p) \/ Charge(p) \/ Charged(p) \/ Commit(p)
  \/ Ack(p)

Finished ==
  /\ Entries = 1 .. published
  /\ delivered = published
  /\ \A p \in Processes : proc[p].pc = "reading"

AccountingNext ==
  \/ Publish
  \/ \E p \in Processes : Step(p) \/ Crash(p) \/ Abort(p)
  \/ Finished /\ UNCHANGED accountingVars

AccountingSafety == AccountingInit /\ [][AccountingNext]_accountingVars

(***************************************************************************)
(* A process that is down is restarted, one that runs goes on, and the     *)
(* database breaks every deadlock.                                         *)
(***************************************************************************)
AccountingFairness ==
  /\ \A p \in Processes : WF_accountingVars(Step(p))
  /\ WF_accountingVars(\E p \in Processes : Abort(p))

-----------------------------------------------------------------------------
(* Properties *)

\* The charges the entries of S make to budget b: one for each place that names it.
Owed(S, b) ==
  UNION {{e} \X {i \in DOMAIN BudgetsOf[e] : BudgetRow(e, i) = b} : e \in S}

\* The usage records hold each request once, and each budget was charged once for
\* every record of its tenant that names it: whichever entries are redelivered, to
\* whichever replica, and wherever a process dies ("re-reading loses nothing and
\* double-counts nothing").
ChargedOnce ==
  /\ \A e, f \in records : RequestOf[e] = RequestOf[f] => e = f
  /\ \A b \in Budgets : spent[b] = Cardinality(Owed(records, b))

\* An entry leaves the pending list only once its request has a committed record:
\* the commit comes before the acknowledgement.  What the stream's bound takes
\* before a process has read it, or read it back, is the one loss ("Trimming loses the oldest
\* events", redisstream.go).
AckedIsRecorded ==
  \A e \in 1 .. delivered :
    \/ e \in UNION {pending[n] : n \in Names}
    \/ e \in malformed \cup lost
    \/ RequestOf[e] = NoId
    \/ SameRequest(e, records)

\* No event that was published, and not trimmed unread, is still to be recorded.
CaughtUp == \A e \in 1 .. published :
              e \in malformed \cup lost \/ RequestOf[e] = NoId \/ SameRequest(e, records)

NamesDistinct == \A p, q \in Processes : name[p] = name[q] => p = q
NoPendingTrimmed == \A n \in Names : pending[n] = InStream(pending[n])

\* Every event is recorded in the end or was trimmed before anyone read it,
\* through crashes, when each process has a name of its own, every payload parses,
\* nothing is trimmed while it is pending and deadlocks between replicas end: the
\* batch read back at the start of a process is then all its name has pending, and
\* has something to apply.
\* (_charge updates budgets in the order of the events, so two replicas can meet
\* again and again, each time one of them is restarted.)
EventuallyRecorded ==
  NamesDistinct /\ malformed = {} /\ []NoPendingTrimmed /\ <>[](Deadlocked = {}) =>
    []<>CaughtUp

\* "Draining that first means a restart does not strand spend in the pending list
\* forever", and "one bad message must not halt accounting for everything behind
\* it": every event is recorded in the end, even if some payloads do not parse.
NothingStranded ==
  NamesDistinct => []<>CaughtUp

=============================================================================
