----------------------------- MODULE AuditChain -----------------------------
(***************************************************************************)
(* The audit consumer of the control plane: replicas of audit_main.py read *)
(* decisions from a Redis stream, append them to a hash chain in the       *)
(* database (service/audit.py) and acknowledge them.                       *)
(*                                                                         *)
(* The stream is bounded, and the sink that emits a decision has Redis     *)
(* trim the oldest ones (dataplane/internal/adapters/redisstream).         *)
(* Replicas read under one consumer name, which is what the default gives  *)
(* them: a replica that starts is handed what another is still appending.  *)
(* The database is modelled by what append relies on: an advisory lock     *)
(* that the end of the transaction releases, statements that see what is   *)
(* committed and what their own transaction has written, and the           *)
(* uniqueness of seq and of event_id.                                      *)
(***************************************************************************)
EXTENDS Naturals, Sequences, FiniteSets

CONSTANTS Appenders,        \* the processes
          Decisions,        \* Decisions[i]: the event id of entry i of the stream
          Unparseable,      \* in place of an id: the payload does not parse
          AuditMaxLen,      \* Sink.auditMaxLen
          AuditBatch,       \* DEFAULT_BATCH
          MaxAuditCrashes   \* bound: processes that die

\* The ids in the stream.
EventIds == {Decisions[i] : i \in DOMAIN Decisions}

ASSUME AuditChainAssumption ==
  /\ Decisions \in Seq(EventIds)
  /\ AuditMaxLen \in Nat \ {0}
  /\ AuditBatch \in Nat \ {0}
  /\ MaxAuditCrashes \in Nat

VARIABLES emitted,       \* entries 1 .. emitted were added to the stream
          auditTrimmed,  \* entries 1 .. auditTrimmed are no longer in it
          handed,        \* entries 1 .. handed were delivered to the name
          unacked,       \* those of them not acknowledged
          appender,      \* appender[p]: the state of process p
          chainLock,     \* the processes that hold _CHAIN_LOCK_ID
          auditRecords,  \* the committed rows of audit_records, in the order of seq
          gaps,          \* history: the entries that were gone when a process
                         \* came to them
          conflicted,    \* history: an INSERT met a row with its seq or event_id
          auditCrashes

auditStream == <<emitted, auditTrimmed, handed, unacked>>
auditVars == <<auditStream, gaps, appender, chainLock, auditRecords, conflicted, auditCrashes>>

-----------------------------------------------------------------------------
(* The chain *)

GENESIS == <<>>

\* compute_hash: sha256 over length-prefixed fields, taken as an injection of them.
compute_hash(seq, event, prev_hash) == Append(prev_hash, <<seq, event>>)

\* The row of a decision that follows one with this sequence number and hash.
LinkAfter(seq, prev_hash, event) ==
  [seq |-> seq + 1, event |-> event, prev_hash |-> prev_hash,
   hash |-> compute_hash(seq + 1, event, prev_hash)]

\* The sequence number and the hash of the last of some rows.
HeadSeq(rows) == IF rows = <<>> THEN 0 ELSE rows[Len(rows)].seq
HeadHash(rows) == IF rows = <<>> THEN GENESIS ELSE rows[Len(rows)].hash

\* verify: the walk meets no row that does not follow the one before it.
Intact(rows) ==
  \A i \in 1 .. Len(rows) :
    LET prev_hash == IF i = 1 THEN GENESIS ELSE rows[i - 1].hash IN
    /\ rows[i].prev_hash = prev_hash
    /\ rows[i].hash = compute_hash(rows[i].seq, rows[i].event, prev_hash)

EventsIn(rows) == {rows[i].event : i \in 1 .. Len(rows)}
SeqsIn(rows) == {rows[i].seq : i \in 1 .. Len(rows)}

(***************************************************************************)
(* A process: the batch it read, the entries of it that append has still   *)
(* to come to, the head it goes on from, and the rows its transaction has  *)
(* written.                                                                *)
(***************************************************************************)
AtRest(point) == [pc |-> point, batch |-> {}, left |-> {}, seq |-> 0, prev_hash |-> GENESIS,
                  rows |-> <<>>]

AuditInit ==
  /\ emitted = 0
  /\ auditTrimmed = 0
  /\ handed = 0
  /\ unacked = {}
  /\ gaps = {}
  /\ appender = [p \in Appenders |-> AtRest("down")]
  /\ chainLock = {}
  /\ auditRecords = <<>>
  /\ conflicted = FALSE
  /\ auditCrashes = 0

-----------------------------------------------------------------------------
(* run *)

\* Sink.Write adds a decision.  MaxLen is approximate: Redis may leave more than
\* AuditMaxLen entries, never fewer.
Emit ==
  /\ emitted < Len(Decisions)
  /\ emitted' = emitted + 1
  /\ auditTrimmed' \in {n \in auditTrimmed .. emitted :
                          n = auditTrimmed \/ emitted + 1 - n >= AuditMaxLen}
  /\ UNCHANGED <<handed, unacked, gaps, appender, chainLock, auditRecords, conflicted,
                 auditCrashes>>

\* The first entries of a set, as many as a batch holds.
FirstOf(S) == {i \in S : Cardinality({j \in S : j < i}) < AuditBatch}

\* _decode: the entries of a batch that have a payload, and one that parses.
ParsedOf(batch) == {i \in batch : i > auditTrimmed /\ Decisions[i] # Unparseable}

\* An append of nothing takes no lock.
ToAppend(batch) ==
  [AtRest(IF ParsedOf(batch) = {} THEN "empty" ELSE "locking")
     EXCEPT !.batch = batch, !.left = ParsedOf(batch)]

\* ensure_group, then read_pending, applied if some event of it parsed.  Redis
\* answers for an entry that was trimmed with its id and nothing else.
StartAppender(p) ==
  LET batch == FirstOf(unacked) IN
  /\ appender[p].pc = "down"
  /\ appender' = [appender EXCEPT ![p] = IF ParsedOf(batch) # {} THEN ToAppend(batch)
                                                               ELSE AtRest("reading")]
  /\ gaps' = gaps \cup {i \in batch : i <= auditTrimmed}
  /\ UNCHANGED <<auditStream, chainLock, auditRecords, conflicted, auditCrashes>>

\* read: the group goes on to what the stream still has, past what was trimmed
\* before any process came to it.
ReadDecisions(p) ==
  LET past == IF handed < auditTrimmed THEN auditTrimmed ELSE handed
      last == IF past + AuditBatch < emitted THEN past + AuditBatch ELSE emitted
      batch == (past + 1) .. last
  IN
  /\ appender[p].pc = "reading"
  /\ past < emitted
  /\ handed' = last
  /\ unacked' = unacked \cup batch
  /\ gaps' = gaps \cup ((handed + 1) .. past)
  /\ appender' = [appender EXCEPT ![p] = ToAppend(batch)]
  /\ UNCHANGED <<emitted, auditTrimmed, chainLock, auditRecords, conflicted, auditCrashes>>

-----------------------------------------------------------------------------
(* _apply *)

\* Mutant of LockChain: the dialect test fails, and nothing is locked.
LockChainSkipped(p) ==
  /\ appender[p].pc = "locking"
  /\ appender' = [appender EXCEPT ![p].pc = "head"]
  /\ UNCHANGED <<auditStream, gaps, chainLock, auditRecords, conflicted, auditCrashes>>

\* _lock
LockChain(p) ==
  /\ appender[p].pc = "locking"
  /\ chainLock = {}
  /\ chainLock' = {p}
  /\ appender' = [appender EXCEPT ![p].pc = "head"]
  /\ UNCHANGED <<auditStream, gaps, auditRecords, conflicted, auditCrashes>>

\* _head
ReadHead(p) ==
  /\ appender[p].pc = "head"
  /\ appender' = [appender EXCEPT ![p].pc = "appending", ![p].seq = HeadSeq(auditRecords),
                                  ![p].prev_hash = HeadHash(auditRecords)]
  /\ UNCHANGED <<auditStream, gaps, chainLock, auditRecords, conflicted, auditCrashes>>

\* The entry append comes to: i, the first of those left.  _seen is a query, so it
\* flushes the rows before it.
AppendNext(p, i) ==
  LET a == appender[p]
      row == LinkAfter(a.seq, a.prev_hash, Decisions[i])
  IN /\ a.pc = "appending"
     /\ \A j \in a.left : i <= j
     /\ appender' = [appender EXCEPT ![p] =
          IF Decisions[i] \in EventsIn(auditRecords) \cup EventsIn(a.rows)
          THEN [a EXCEPT !.left = @ \ {i}]
          ELSE [a EXCEPT !.left = @ \ {i}, !.rows = Append(@, row),
                         !.seq = row.seq, !.prev_hash = row.hash]]
     /\ UNCHANGED <<auditStream, gaps, chainLock, auditRecords, conflicted, auditCrashes>>

\* The process dies with its transaction, and so lets go of the lock.
AppenderEnds(p) ==
  /\ appender' = [appender EXCEPT ![p] = AtRest("down")]
  /\ chainLock' = chainLock \ {p}
  /\ UNCHANGED <<auditStream, gaps, auditRecords>>

\* The commit.  A row whose seq or event_id is taken is an error, which leaves run.
CommitRows(p) ==
  LET a == appender[p] IN
  /\ a.pc \in {"appending", "empty"}
  /\ a.left = {}
  /\ IF \/ SeqsIn(a.rows) \cap SeqsIn(auditRecords) # {}
        \/ EventsIn(a.rows) \cap EventsIn(auditRecords) # {}
     THEN AppenderEnds(p) /\ conflicted' = TRUE
     ELSE /\ auditRecords' = auditRecords \o a.rows
          /\ chainLock' = chainLock \ {p}
          /\ appender' = [appender EXCEPT ![p] = [AtRest("acking") EXCEPT !.batch = a.batch]]
          /\ UNCHANGED <<auditStream, gaps, conflicted>>
  /\ UNCHANGED auditCrashes

AckDecisions(p) ==
  /\ appender[p].pc = "acking"
  /\ unacked' = unacked \ appender[p].batch
  /\ appender' = [appender EXCEPT ![p] = AtRest("reading")]
  /\ UNCHANGED <<emitted, auditTrimmed, handed, gaps, chainLock, auditRecords, conflicted,
                 auditCrashes>>

AppenderCrashes(p) ==
  /\ appender[p].pc # "down"
  /\ auditCrashes < MaxAuditCrashes
  /\ auditCrashes' = auditCrashes + 1
  /\ AppenderEnds(p)
  /\ UNCHANGED conflicted

AuditNext ==
  \/ Emit
  \/ \E p \in Appenders :
       \/ StartAppender(p) \/ ReadDecisions(p)
       \/ LockChain(p) \/ ReadHead(p) \/ CommitRows(p)
       \/ \E i \in appender[p].left : AppendNext(p, i)
       \/ AckDecisions(p)
       \/ AppenderCrashes(p)

AuditSpec == AuditInit /\ [][AuditNext]_auditVars

-----------------------------------------------------------------------------
(* Properties *)

\* The chain verifies at every moment, no replica is ever refused the position it
\* computed, and a decision that was acknowledged is in the chain, once: whichever
\* replicas append, whatever is redelivered to them and wherever they die.  The
\* head is read under the lock, and the commit comes before the acknowledgement.
\* What the stream's bound takes before a replica has read it, or read it back, is
\* the one loss, and the chain does not show it.
ChainIntact ==
  /\ Intact(auditRecords)
  /\ ~conflicted
  /\ \A i \in 1 .. handed :
       \/ i \in unacked \cup gaps
       \/ Decisions[i] = Unparseable
       \/ Decisions[i] \in EventsIn(auditRecords)
  /\ \A k, l \in 1 .. Len(auditRecords) :
       auditRecords[k].event = auditRecords[l].event => k = l

=============================================================================
