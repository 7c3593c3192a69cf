-------------------------- MODULE GovernanceProofs --------------------------
(***************************************************************************)
(* Proofs about what the platform keeps as evidence: the audit chain, and  *)
(* the verdict a component is admitted on.  The parts share no state, and  *)
(* each has an inductive invariant of its own.                             *)
(***************************************************************************)
EXTENDS AuditChain, Admission, TLAPS

(***************************************************************************)
(* The audit chain, for any number of replicas, any stream, any bound on   *)
(* it and any batch size: the chain is intact, and every acknowledged      *)
(* decision that was not trimmed unread is in it once.                     *)
(*                                                                         *)
(* ChainIntact is not inductive: it does not say what a replica that is in *)
(* the middle of append has in its hands.  The invariant adds that it      *)
(* holds the lock, that the committed rows followed by its own are a sound *)
(* chain, and that the head it goes on from is the head of that chain.     *)
(***************************************************************************)

Hashes == Seq(Nat \X EventIds)
Rows == [seq : Nat, event : EventIds, prev_hash : Hashes, hash : Hashes]

Points == {"down", "reading", "locking", "head", "appending", "empty", "acking"}

\* A replica, when n entries were delivered.
States(n) == [pc : Points, batch : SUBSET (1 .. n), left : SUBSET (1 .. n), seq : Nat,
              prev_hash : Hashes, rows : Seq(Rows)]

TypeOK ==
  /\ emitted \in Nat /\ emitted <= Len(Decisions)
  /\ auditTrimmed \in Nat /\ auditTrimmed <= emitted
  /\ handed \in Nat /\ handed <= emitted
  /\ unacked \subseteq 1 .. handed
  /\ appender \in [Appenders -> States(handed)]
  /\ chainLock \subseteq Appenders
  /\ auditRecords \in Seq(Rows)
  /\ conflicted \in BOOLEAN

\* Rows that verify, numbered from one, no event twice.
Numbered(rows) == \A i \in 1 .. Len(rows) : rows[i].seq = i
Distinct(rows) == \A i, j \in 1 .. Len(rows) : rows[i].event = rows[j].event => i = j
Sound(rows) == Intact(rows) /\ Numbered(rows) /\ Distinct(rows)

\* A replica that has something to append and is past the lock.
Appending(p) == appender[p].pc = "appending"
Inside(p) == appender[p].pc = "head" \/ Appending(p)

\* The table as the transaction of p sees it.
View(p) == auditRecords \o appender[p].rows

LockHeld == \A p \in Appenders : Inside(p) => chainLock = {p}

\* Entry i is in the rows, or is not to be: it does not parse or was found trimmed.
Settled(i, rows) ==
  i \in gaps \/ Decisions[i] = Unparseable \/ Decisions[i] \in EventsIn(rows)

\* What a replica has at hand, by where it is.
AtHand(p) ==
  LET a == appender[p] IN
  /\ ~Appending(p) => a.rows = <<>>
  /\ a.pc \in {"locking", "head", "appending", "empty"} =>
       \A i \in a.batch \ a.left : Settled(i, View(p))
  /\ Appending(p) =>
       Sound(View(p)) /\ a.seq = HeadSeq(View(p)) /\ a.prev_hash = HeadHash(View(p))
  /\ a.pc = "acking" => \A i \in a.batch : Settled(i, auditRecords)

Acknowledged == \A i \in 1 .. handed : i \in unacked \/ Settled(i, auditRecords)

IInv ==
  /\ TypeOK
  /\ LockHeld
  /\ \A p \in Appenders : AtHand(p)
  /\ Sound(auditRecords)
  /\ Acknowledged
  /\ ~conflicted

-----------------------------------------------------------------------------
(* Facts about chains *)

\* LinkAfter makes a row.
LEMMA LinkIsRow ==
  ASSUME NEW seq \in Nat, NEW prev_hash \in Hashes, NEW event \in EventIds
  PROVE  LinkAfter(seq, prev_hash, event) \in Rows
<1>1. <<seq + 1, event>> \in Nat \X EventIds
  OBVIOUS
<1>2. compute_hash(seq + 1, event, prev_hash) \in Hashes
  BY <1>1 DEF compute_hash, Hashes
<1>3. QED
  BY <1>2 DEF LinkAfter, Rows

\* A row linked to the head of a sound chain extends it to a sound chain.
LEMMA ExtendSound ==
  ASSUME NEW rows \in Seq(Rows), NEW event \in EventIds, NEW row,
         row = LinkAfter(HeadSeq(rows), HeadHash(rows), event),
         Sound(rows), event \notin EventsIn(rows)
  PROVE  /\ row \in Rows
         /\ Sound(Append(rows, row))
         /\ HeadSeq(Append(rows, row)) = row.seq
         /\ HeadHash(Append(rows, row)) = row.hash
<1> DEFINE longer == Append(rows, row)
<1>1. HeadSeq(rows) = Len(rows) /\ HeadHash(rows) \in Hashes
  <2>1. CASE rows = <<>>
    BY <2>1 DEF HeadSeq, HeadHash, GENESIS, Hashes
  <2>2. CASE rows # <<>>
    <3>1. Len(rows) \in 1 .. Len(rows) /\ rows[Len(rows)] \in Rows
      BY <2>2
    <3>2. QED
      BY <2>2, <3>1, Zenon DEF HeadSeq, HeadHash, Sound, Numbered, Rows
  <2>3. QED
    BY <2>1, <2>2, Zenon
<1>2. row \in Rows
  BY <1>1, LinkIsRow
<1>3. /\ longer \in Seq(Rows)
      /\ Len(longer) = Len(rows) + 1
      /\ longer[Len(rows) + 1] = row
      /\ \A i \in 1 .. Len(rows) : longer[i] = rows[i]
  BY <1>2
<1>4. row.seq = Len(rows) + 1 /\ row.event = event /\ row.prev_hash = HeadHash(rows)
      /\ row.hash = compute_hash(row.seq, row.event, row.prev_hash)
  BY <1>1, Zenon DEF LinkAfter
<1> HIDE DEF longer
<1>5. Intact(longer)
  <2> SUFFICES ASSUME NEW i \in 1 .. Len(longer)
               PROVE  LET prev_hash == IF i = 1 THEN GENESIS ELSE longer[i - 1].hash IN
                      /\ longer[i].prev_hash = prev_hash
                      /\ longer[i].hash =
                           compute_hash(longer[i].seq, longer[i].event, prev_hash)
    BY Zenon DEF Intact
  <2>1. CASE i \in 1 .. Len(rows)
    <3>1. i # 1 => i - 1 \in 1 .. Len(rows)
      BY <2>1
    <3>2. QED
      BY <2>1, <3>1, <1>3, Zenon DEF Sound, Intact
  <2>2. CASE i = Len(rows) + 1
    <3>1. HeadHash(rows) = IF i = 1 THEN GENESIS ELSE longer[i - 1].hash
      BY <2>2, <1>3 DEF HeadHash
    <3>2. QED
      BY <2>2, <3>1, <1>3, <1>4, Zenon
  <2>3. QED
    BY <2>1, <2>2, <1>3
<1>6. Numbered(longer) /\ Distinct(longer)
  <2>1. \A i \in 1 .. Len(longer) : i \in 1 .. Len(rows) \/ i = Len(rows) + 1
    BY <1>3
  <2>2. Numbered(longer)
    BY <2>1, <1>3, <1>4, Zenon DEF Sound, Numbered
  <2>3. \A i \in 1 .. Len(rows) : longer[i].event # longer[Len(rows) + 1].event
    BY <1>3, <1>4, Zenon DEF EventsIn
  <2>4. \A i, j \in 1 .. Len(rows) : longer[i].event = longer[j].event => i = j
    BY <1>3, Zenon DEF Sound, Distinct
  <2>5. Distinct(longer)
    BY <2>1, <2>3, <2>4, Zenon DEF Distinct
  <2>6. QED
    BY <2>2, <2>5, Zenon
<1>7. HeadSeq(longer) = row.seq /\ HeadHash(longer) = row.hash
  BY <1>3 DEF HeadSeq, HeadHash
<1>8. QED
  BY <1>2, <1>5, <1>6, <1>7, Zenon DEF Sound, longer

\* What concatenation does to rows and to the events in them.
LEMMA ConcatRows ==
  ASSUME NEW a \in Seq(Rows), NEW b \in Seq(Rows)
  PROVE  /\ a \o b \in Seq(Rows)
         /\ a \o <<>> = a
         /\ EventsIn(a \o b) = EventsIn(a) \cup EventsIn(b)
<1>1. a \o b \in Seq(Rows) /\ a \o <<>> = a
  OBVIOUS
<1>2. /\ Len(a \o b) = Len(a) + Len(b)
      /\ \A i \in 1 .. Len(a) : (a \o b)[i] = a[i]
      /\ \A i \in 1 .. Len(b) : (a \o b)[Len(a) + i] = b[i]
  OBVIOUS
<1>3. EventsIn(a) \cup EventsIn(b) \subseteq EventsIn(a \o b)
  <2>1. \A i \in 1 .. Len(a) : i \in 1 .. Len(a \o b) /\ a[i] = (a \o b)[i]
    BY <1>2
  <2>2. \A i \in 1 .. Len(b) : Len(a) + i \in 1 .. Len(a \o b) /\ b[i] = (a \o b)[Len(a) + i]
    BY <1>2
  <2>3. EventsIn(a) \subseteq EventsIn(a \o b)
    BY <2>1, Zenon DEF EventsIn
  <2>4. EventsIn(b) \subseteq EventsIn(a \o b)
    BY <2>2, Zenon DEF EventsIn
  <2>5. QED
    BY <2>3, <2>4, Zenon
<1>4. EventsIn(a \o b) \subseteq EventsIn(a) \cup EventsIn(b)
  <2> SUFFICES ASSUME NEW i \in 1 .. Len(a \o b)
               PROVE  (a \o b)[i].event \in EventsIn(a) \cup EventsIn(b)
    BY Zenon DEF EventsIn
  <2>1. CASE i \in 1 .. Len(a)
    BY <2>1, <1>2, Zenon DEF EventsIn
  <2>2. CASE i - Len(a) \in 1 .. Len(b)
    <3>1. (a \o b)[i] = b[i - Len(a)]
      BY <2>2, <1>2
    <3>2. QED
      BY <2>2, <3>1, Zenon DEF EventsIn
  <2>3. QED
    BY <2>1, <2>2, <1>2
<1>5. QED
  BY <1>1, <1>3, <1>4, Zenon

\* Appending to the second of two sequences of rows appends to both.
LEMMA ConcatAppend ==
  ASSUME NEW a \in Seq(Rows), NEW b \in Seq(Rows), NEW row \in Rows
  PROVE  a \o Append(b, row) = Append(a \o b, row)
OBVIOUS

\* The rows that continue a sound chain take neither its numbers nor its events.
LEMMA NoConflict ==
  ASSUME NEW a \in Seq(Rows), NEW b \in Seq(Rows), Sound(a \o b)
  PROVE  SeqsIn(b) \cap SeqsIn(a) = {} /\ EventsIn(b) \cap EventsIn(a) = {}
<1>1. /\ Len(a \o b) = Len(a) + Len(b)
      /\ \A i \in 1 .. Len(a) : (a \o b)[i] = a[i]
      /\ \A i \in 1 .. Len(b) : (a \o b)[Len(a) + i] = b[i]
  OBVIOUS
<1>2. ASSUME NEW i \in 1 .. Len(a), NEW j \in 1 .. Len(b)
      PROVE  a[i].seq # b[j].seq /\ a[i].event # b[j].event
  <2>1. i \in 1 .. Len(a \o b) /\ Len(a) + j \in 1 .. Len(a \o b) /\ i # Len(a) + j
    BY <1>1
  <2>2. (a \o b)[i] = a[i] /\ (a \o b)[Len(a) + j] = b[j]
    BY <1>1, Zenon
  <2>3. QED
    BY <2>1, <2>2, Zenon DEF Sound, Numbered, Distinct
<1>3. QED
  BY <1>2, Zenon DEF SeqsIn, EventsIn

\* A replica that a step leaves alone keeps what it has at hand, unless the step
\* writes to the table.
LEMMA LeftAlone ==
  ASSUME NEW q \in Appenders, appender'[q] = appender[q], auditRecords' = auditRecords,
         gaps \subseteq gaps'
  PROVE  (AtHand(q) => AtHand(q)') /\ (Inside(q)' <=> Inside(q))
<1>1. View(q)' = View(q)
  BY Zenon DEF View
<1>2. \A i : /\ Settled(i, View(q)) => Settled(i, View(q))'
             /\ Settled(i, auditRecords) => Settled(i, auditRecords)'
  BY <1>1, Zenon DEF Settled, EventsIn
<1>3. QED
  BY <1>1, <1>2, Zenon DEF AtHand, Appending, Inside, Sound, Intact, Numbered, Distinct,
                           HeadSeq, HeadHash

\* A replica at rest has nothing at hand.
LEMMA RestHasNothing ==
  ASSUME NEW q \in Appenders, NEW point \in {"down", "reading"},
         appender'[q] = AtRest(point)
  PROVE  AtHand(q)' /\ ~Inside(q)'
BY DEF AtHand, Appending, Inside, View, AtRest

\* What a replica has at hand when it has read a batch.
LEMMA ReadHasBatch ==
  ASSUME NEW q \in Appenders, NEW batch, appender'[q] = ToAppend(batch),
         \A i \in batch : i > auditTrimmed \/ i \in gaps'
  PROVE  AtHand(q)' /\ ~Inside(q)'
<1>1. /\ appender'[q].pc \in {"empty", "locking"}
      /\ appender'[q].batch = batch
      /\ appender'[q].left = ParsedOf(batch)
      /\ appender'[q].rows = <<>>
  BY Zenon DEF ToAppend, AtRest
<1>2. \A i \in batch \ ParsedOf(batch) : i \in gaps' \/ Decisions[i] = Unparseable
  BY Zenon DEF ParsedOf
<1>3. QED
  BY <1>1, <1>2, Zenon DEF AtHand, Appending, Inside, Settled

-----------------------------------------------------------------------------
(* The invariant *)

\* An empty log is a chain.
LEMMA Initially == AuditInit => IInv
<1> SUFFICES ASSUME AuditInit PROVE IInv
  BY Zenon
<1>1. AtRest("down") \in States(0)
  BY DEF AtRest, States, Points, Hashes, GENESIS
<1>2. TypeOK
  <2>1. Len(Decisions) \in Nat
    BY AuditChainAssumption
  <2>2. appender \in [Appenders -> States(handed)] /\ auditRecords \in Seq(Rows)
    BY <1>1 DEF AuditInit
  <2>3. /\ emitted \in Nat /\ emitted <= Len(Decisions) /\ handed \in Nat /\ handed <= emitted
        /\ auditTrimmed \in Nat /\ auditTrimmed <= emitted
    BY <2>1 DEF AuditInit
  <2>4. unacked \subseteq 1 .. handed /\ chainLock \subseteq Appenders /\ conflicted \in BOOLEAN
    BY Zenon DEF AuditInit
  <2>5. QED
    BY <2>2, <2>3, <2>4, Zenon DEF TypeOK
<1>3. ASSUME NEW p \in Appenders
      PROVE  AtHand(p) /\ ~Inside(p)
  BY <1>3, Zenon DEF AuditInit, AtRest, AtHand, Inside, Appending
<1>4. Sound(auditRecords)
  BY DEF AuditInit, Sound, Intact, Numbered, Distinct
<1>5. QED
  BY <1>2, <1>3, <1>4 DEF IInv, LockHeld, Acknowledged, AuditInit

\* An entry that was delivered has an id.
LEMMA DeliveredHasId ==
  ASSUME TypeOK, NEW i \in 1 .. handed
  PROVE  Decisions[i] \in EventIds
BY AuditChainAssumption DEF TypeOK, EventIds

\* The states of replicas that the steps produce.
LEMMA StatesProduced ==
  ASSUME NEW n \in Nat
  PROVE  /\ \A point \in Points : AtRest(point) \in States(n)
         /\ \A batch \in SUBSET (1 .. n) : ToAppend(batch) \in States(n)
<1>1. \A point \in Points : AtRest(point) \in States(n)
  BY DEF AtRest, States, Hashes, GENESIS
<1>2. ASSUME NEW batch \in SUBSET (1 .. n)
      PROVE  ToAppend(batch) \in States(n)
  <2>1. ParsedOf(batch) \in SUBSET (1 .. n)
    BY Zenon DEF ParsedOf
  <2>2. AtRest(IF ParsedOf(batch) = {} THEN "empty" ELSE "locking") \in States(n)
    BY <1>1, Zenon DEF Points
  <2>3. QED
    BY <2>1, <2>2, Zenon DEF ToAppend, States
<1>3. QED
  BY <1>1, <1>2, Zenon

\* Every step keeps the types.
LEMMA TypeStep == IInv /\ [AuditNext]_auditVars => TypeOK'
<1> SUFFICES ASSUME TypeOK, [AuditNext]_auditVars PROVE TypeOK'
  BY Zenon DEF IInv
<1> USE DEF TypeOK
<1>1. CASE Emit
  BY <1>1, AuditChainAssumption DEF Emit
<1>2. ASSUME NEW p \in Appenders, StartAppender(p) PROVE TypeOK'
  <2>1. FirstOf(unacked) \in SUBSET (1 .. handed)
    BY Zenon DEF FirstOf
  <2>2. QED
    BY <1>2, <2>1, StatesProduced, Zenon DEF StartAppender, Points, auditStream
<1>3. ASSUME NEW p \in Appenders, ReadDecisions(p) PROVE TypeOK'
  <2> DEFINE past == IF handed < auditTrimmed THEN auditTrimmed ELSE handed
             last == IF past + AuditBatch < emitted THEN past + AuditBatch ELSE emitted
             batch == (past + 1) .. last
  <2>1. last \in Nat /\ handed <= last /\ last <= emitted /\ batch \in SUBSET (1 .. last)
    BY AuditChainAssumption
  <2>2. /\ handed' = last
        /\ unacked' = unacked \cup batch
        /\ appender' = [appender EXCEPT ![p] = ToAppend(batch)]
        /\ UNCHANGED <<emitted, auditTrimmed, chainLock, auditRecords, conflicted>>
    BY <1>3, Zenon DEF ReadDecisions
  <2> HIDE DEF past, last, batch
  <2>3. States(handed) \subseteq States(last) /\ 1 .. handed \subseteq 1 .. last
    <3>1. 1 .. handed \subseteq 1 .. last
      BY <2>1
    <3>2. QED
      BY <3>1, Zenon DEF States
  <2>4. ToAppend(batch) \in States(last)
    BY <2>1, StatesProduced, Zenon
  <2>5. appender' \in [Appenders -> States(last)]
    BY <2>2, <2>3, <2>4, Zenon
  <2>6. QED
    BY <2>1, <2>2, <2>3, <2>5, Zenon
<1>4. ASSUME NEW p \in Appenders, LockChain(p) PROVE TypeOK'
  <2>1. [appender[p] EXCEPT !.pc = "head"] \in States(handed)
    <3>1. appender[p] \in States(handed)
      BY Zenon
    <3>2. QED
      BY <3>1, Zenon DEF States, Points
  <2>2. QED
    BY <1>4, <2>1, Zenon DEF LockChain, auditStream
<1>5. ASSUME NEW p \in Appenders, ReadHead(p) PROVE TypeOK'
  <2>1. HeadSeq(auditRecords) \in Nat /\ HeadHash(auditRecords) \in Hashes
    <3>1. auditRecords # <<>> => auditRecords[Len(auditRecords)] \in Rows
      OBVIOUS
    <3>2. QED
      BY <3>1, SMTT(30) DEF HeadSeq, HeadHash, Rows, GENESIS, Hashes
  <2>2. [appender[p] EXCEPT !.pc = "appending", !.seq = HeadSeq(auditRecords),
                            !.prev_hash = HeadHash(auditRecords)] \in States(handed)
    <3>1. appender[p] \in States(handed)
      BY Zenon
    <3>2. "appending" \in Points
      BY Zenon DEF Points
    <3>3. QED
      BY <2>1, <3>1, <3>2, Zenon DEF States
  <2>3. QED
    BY <1>5, <2>2, Zenon DEF ReadHead, auditStream
<1>6. ASSUME NEW p \in Appenders, NEW i \in appender[p].left, AppendNext(p, i) PROVE TypeOK'
  <2> DEFINE a == appender[p]
             row == LinkAfter(a.seq, a.prev_hash, Decisions[i])
  <2>1. a \in States(handed) /\ i \in 1 .. handed
    BY Zenon DEF States
  <2>2. row \in Rows
    <3>1. Decisions[i] \in EventIds
      BY <2>1, DeliveredHasId, Zenon
    <3>2. a.seq \in Nat /\ a.prev_hash \in Hashes
      BY <2>1, Zenon DEF States
    <3>3. QED
      BY <3>1, <3>2, LinkIsRow, Zenon
  <2>3. row.seq \in Nat /\ row.hash \in Hashes
    BY <2>2, Zenon DEF Rows
  <2> HIDE DEF row
  <2>4. /\ [a EXCEPT !.left = @ \ {i}] \in States(handed)
        /\ [a EXCEPT !.left = @ \ {i}, !.rows = Append(@, row),
                     !.seq = row.seq, !.prev_hash = row.hash] \in States(handed)
    <3>1. a.left \ {i} \in SUBSET (1 .. handed) /\ Append(a.rows, row) \in Seq(Rows)
      BY <2>1, <2>2 DEF States
    <3>2. QED
      BY <2>1, <2>3, <3>1, Zenon DEF States
  <2>5. QED
    <3>1. appender' \in [Appenders -> States(handed)]
      <4>1. appender' = [appender EXCEPT ![p] =
              IF Decisions[i] \in EventsIn(auditRecords) \cup EventsIn(a.rows)
              THEN [a EXCEPT !.left = @ \ {i}]
              ELSE [a EXCEPT !.left = @ \ {i}, !.rows = Append(@, row),
                             !.seq = row.seq, !.prev_hash = row.hash]]
        BY <1>6, Zenon DEF AppendNext, row
      <4>2. QED
        BY <2>4, <4>1, Zenon
    <3>2. QED
      BY <1>6, <3>1, Zenon DEF AppendNext, auditStream
<1>7. ASSUME NEW p \in Appenders, AppenderEnds(p), conflicted' \in BOOLEAN PROVE TypeOK'
  BY <1>7, StatesProduced, Zenon DEF AppenderEnds, Points, auditStream
<1>8. ASSUME NEW p \in Appenders, CommitRows(p) PROVE TypeOK'
  <2>1. CASE AppenderEnds(p) /\ conflicted' = TRUE
    BY <2>1, <1>7, Zenon
  <2>2. CASE /\ auditRecords' = auditRecords \o appender[p].rows
             /\ chainLock' = chainLock \ {p}
             /\ appender' = [appender EXCEPT ![p] =
                               [AtRest("acking") EXCEPT !.batch = appender[p].batch]]
             /\ UNCHANGED <<emitted, auditTrimmed, handed, unacked, conflicted>>
    <3>1. appender[p].rows \in Seq(Rows) /\ appender[p].batch \in SUBSET (1 .. handed)
      BY Zenon DEF States
    <3>2. [AtRest("acking") EXCEPT !.batch = appender[p].batch] \in States(handed)
      <4>1. AtRest("acking") \in States(handed)
        BY StatesProduced, Zenon DEF Points
      <4>2. QED
        BY <3>1, <4>1, Zenon DEF States
    <3>3. QED
      BY <2>2, <3>1, <3>2
  <2>3. QED
    BY <1>8, <2>1, <2>2, Zenon DEF CommitRows, auditStream
<1>9. ASSUME NEW p \in Appenders, AckDecisions(p) PROVE TypeOK'
  BY <1>9, StatesProduced, Zenon DEF AckDecisions, Points
<1>10. ASSUME NEW p \in Appenders, AppenderCrashes(p) PROVE TypeOK'
  BY <1>7, <1>10, Zenon DEF AppenderCrashes
<1>11. CASE UNCHANGED auditVars
  BY <1>11, Zenon DEF auditVars, auditStream
<1>12. QED
  BY <1>1, <1>2, <1>3, <1>4, <1>5, <1>6, <1>8, <1>9, <1>10, <1>11, Zenon DEF AuditNext

\* A step that leaves the table and the other replicas alone keeps the invariant if it
\* keeps the types and what the replica it is of has at hand, and if that replica
\* goes inside only with the lock, which nobody else is inside of then.
LEMMA OneReplicaMoves ==
  ASSUME IInv, TypeOK', NEW p \in Appenders,
         \A q \in Appenders \ {p} : appender'[q] = appender[q],
         auditRecords' = auditRecords, conflicted' = conflicted, gaps \subseteq gaps',
         AtHand(p)',
         Inside(p)' => chainLock' = {p},
         \A q \in Appenders \ {p} : Inside(q) => chainLock' = {q},
         Acknowledged'
  PROVE  IInv'
<1>1. ASSUME NEW q \in Appenders PROVE AtHand(q)' /\ (Inside(q)' => chainLock' = {q})
  <2>1. CASE q = p
    BY <2>1, Zenon
  <2>2. CASE q # p
    BY <2>2, LeftAlone, Zenon DEF IInv
  <2>3. QED
    BY <2>1, <2>2, Zenon
<1>2. Sound(auditRecords)'
  BY Zenon DEF IInv
<1>3. QED
  BY <1>1, <1>2, Zenon DEF IInv, LockHeld

\* Every step keeps the invariant.
LEMMA InvariantStep == IInv /\ [AuditNext]_auditVars => IInv'
<1> SUFFICES ASSUME IInv, [AuditNext]_auditVars PROVE IInv'
  BY Zenon
<1> TypeOK /\ TypeOK'
  BY TypeStep, Zenon DEF IInv
<1>a. appender \in [Appenders -> States(handed)] /\ auditRecords \in Seq(Rows)
  BY Zenon DEF TypeOK
<1>k. ASSUME gaps \subseteq gaps', auditRecords' = auditRecords, handed' = handed,
             unacked' = unacked
      PROVE  Acknowledged'
  BY <1>k, Zenon DEF IInv, Acknowledged, Settled
<1>1. CASE Emit
  <2>1. \A q \in Appenders : AtHand(q)' /\ (Inside(q)' <=> Inside(q))
    BY <1>1, LeftAlone, Zenon DEF Emit, IInv
  <2>2. Acknowledged' /\ Sound(auditRecords)' /\ ~conflicted'
    BY <1>1, <1>k, Zenon DEF Emit, IInv
  <2>3. QED
    BY <1>1, <2>1, <2>2, Zenon DEF IInv, LockHeld, Emit
<1>2. ASSUME NEW p \in Appenders, StartAppender(p) PROVE IInv'
  <2> DEFINE batch == FirstOf(unacked)
  <2>1. appender'[p] \in {ToAppend(batch), AtRest("reading")}
    BY <1>2, <1>a, Zenon DEF StartAppender
  <2>2. AtHand(p)' /\ ~Inside(p)'
    <3>1. \A i \in batch : i > auditTrimmed \/ i \in gaps'
      <4>1. \A i \in batch : i \in Nat /\ auditTrimmed \in Nat
        BY DEF FirstOf, TypeOK
      <4>2. \A i \in batch : i > auditTrimmed \/ i <= auditTrimmed
        BY <4>1
      <4>3. QED
        BY <1>2, <4>2, Zenon DEF StartAppender
    <3>2. QED
      BY <2>1, <3>1, ReadHasBatch, RestHasNothing, Zenon
  <2>3. Acknowledged'
    BY <1>2, <1>k, Zenon DEF StartAppender, auditStream
  <2>4. QED
    BY <1>2, <1>a, <2>2, <2>3, OneReplicaMoves, Zenon DEF StartAppender, IInv, LockHeld
<1>3. ASSUME NEW p \in Appenders, ReadDecisions(p) PROVE IInv'
  <2> DEFINE past == IF handed < auditTrimmed THEN auditTrimmed ELSE handed
             last == IF past + AuditBatch < emitted THEN past + AuditBatch ELSE emitted
             batch == (past + 1) .. last
  <2>1. /\ appender'[p] = ToAppend(batch)
        /\ \A q \in Appenders \ {p} : appender'[q] = appender[q]
        /\ handed' = last /\ unacked' = unacked \cup batch
        /\ gaps' = gaps \cup ((handed + 1) .. past)
        /\ UNCHANGED <<auditRecords, conflicted, chainLock>>
    BY <1>3, <1>a, Zenon DEF ReadDecisions
  <2>2. /\ \A i \in batch : i > auditTrimmed
        /\ \A i \in 1 .. last : i \in 1 .. handed \/ i \in batch \/ i \in (handed + 1) .. past
    BY AuditChainAssumption DEF TypeOK
  <2> HIDE DEF past, last, batch
  <2>3. AtHand(p)' /\ ~Inside(p)'
    BY <2>1, <2>2, ReadHasBatch, Zenon
  <2>4. Acknowledged'
    BY <2>1, <2>2, Zenon DEF IInv, Acknowledged, Settled
  <2>5. QED
    BY <2>1, <2>3, <2>4, OneReplicaMoves, Zenon DEF IInv, LockHeld
<1>4. ASSUME NEW p \in Appenders, LockChain(p) PROVE IInv'
  <2>1. appender'[p] = [appender[p] EXCEPT !.pc = "head"]
    BY <1>4, <1>a, Zenon DEF LockChain
  <2>2. AtHand(p)'
    <3>1. /\ appender'[p].pc = "head" /\ appender'[p].batch = appender[p].batch
          /\ appender'[p].left = appender[p].left /\ appender'[p].rows = appender[p].rows
          /\ appender[p].pc = "locking" /\ UNCHANGED <<auditRecords, gaps>>
      BY <1>4, <1>a, <2>1, Zenon DEF LockChain, States
    <3>2. View(p)' = View(p)
      BY <3>1, Zenon DEF View
    <3>3. QED
      BY <3>1, <3>2, Zenon DEF IInv, AtHand, Appending, Settled
  <2>3. \A q \in Appenders : ~Inside(q)
    BY <1>4, Zenon DEF LockChain, IInv, LockHeld
  <2>4. Acknowledged'
    BY <1>4, <1>k, Zenon DEF LockChain, auditStream
  <2>5. QED
    BY <1>4, <1>a, <2>2, <2>3, <2>4, OneReplicaMoves, Zenon DEF LockChain
<1>5. ASSUME NEW p \in Appenders, ReadHead(p) PROVE IInv'
  <2>1. appender'[p] = [appender[p] EXCEPT !.pc = "appending", !.seq = HeadSeq(auditRecords),
                                           !.prev_hash = HeadHash(auditRecords)]
    BY <1>5, <1>a, Zenon DEF ReadHead
  <2>2. /\ \A i \in appender[p].batch \ appender[p].left : Settled(i, View(p))
        /\ appender[p].rows = <<>>
    BY <1>5, Zenon DEF ReadHead, IInv, AtHand, Appending
  <2>3. View(p)' = auditRecords /\ View(p) = auditRecords
    BY <1>5, <1>a, <2>1, <2>2, ConcatRows, SMTT(30) DEF ReadHead, View, States
  <2>4. AtHand(p)'
    <3>1. /\ appender'[p].pc = "appending" /\ appender'[p].batch = appender[p].batch
          /\ appender'[p].left = appender[p].left
          /\ appender'[p].seq = HeadSeq(auditRecords)
          /\ appender'[p].prev_hash = HeadHash(auditRecords)
      BY <1>a, <2>1, Zenon DEF States
    <3>2. UNCHANGED <<auditRecords, gaps>>
      BY <1>5, Zenon DEF ReadHead
    <3>3. QED
      BY <2>2, <2>3, <3>1, <3>2, Zenon DEF IInv, AtHand, Appending, Settled, HeadSeq, HeadHash
  <2>5. Inside(p) /\ chainLock' = chainLock
    BY <1>5, Zenon DEF ReadHead, Inside
  <2>6. Acknowledged'
    BY <1>5, <1>k, Zenon DEF ReadHead, auditStream
  <2>7. QED
    BY <1>5, <1>a, <2>4, <2>5, <2>6, OneReplicaMoves, Zenon DEF ReadHead, IInv, LockHeld
<1>6. ASSUME NEW p \in Appenders, NEW i \in appender[p].left, AppendNext(p, i) PROVE IInv'
  <2> DEFINE a == appender[p]
             row == LinkAfter(a.seq, a.prev_hash, Decisions[i])
             seen == Decisions[i] \in EventsIn(auditRecords) \cup EventsIn(a.rows)
  <2>1. a \in States(handed) /\ a.rows \in Seq(Rows) /\ a.pc = "appending"
    BY <1>6, <1>a, Zenon DEF AppendNext, States
  <2>2. /\ Appending(p)
        /\ \A j \in a.batch \ a.left : Settled(j, View(p))
        /\ Sound(View(p)) /\ a.seq = HeadSeq(View(p)) /\ a.prev_hash = HeadHash(View(p))
    BY <2>1, Zenon DEF IInv, AtHand, Appending
  <2>3. View(p) \in Seq(Rows) /\ (seen <=> Decisions[i] \in EventsIn(View(p)))
    BY <1>a, <2>1, ConcatRows, SMTT(30) DEF View
  <2>4. AtHand(p)' /\ Appending(p)'
    <3>g. gaps' = gaps
      BY <1>6, Zenon DEF AppendNext
    <3>1. CASE seen
      <4>1. /\ appender'[p].pc = "appending" /\ appender'[p].batch = a.batch
            /\ appender'[p].left = a.left \ {i} /\ appender'[p].rows = a.rows
            /\ appender'[p].seq = a.seq /\ appender'[p].prev_hash = a.prev_hash
        <5>1. appender'[p] = [a EXCEPT !.left = @ \ {i}]
          BY <1>6, <1>a, <3>1, Zenon DEF AppendNext
        <5>2. QED
          BY <2>1, <5>1, Zenon DEF States
      <4>2. View(p)' = View(p)
        BY <1>6, <4>1, ZenonT(30) DEF AppendNext, View
      <4>3. QED
        BY <2>2, <2>3, <3>g, <3>1, <4>1, <4>2, Zenon DEF AtHand, Appending, Settled
    <3>2. CASE ~seen
      <4>1. /\ appender'[p].pc = "appending" /\ appender'[p].batch = a.batch
            /\ appender'[p].left = a.left \ {i} /\ appender'[p].rows = Append(a.rows, row)
            /\ appender'[p].seq = row.seq /\ appender'[p].prev_hash = row.hash
        <5>1. appender'[p] = [a EXCEPT !.left = @ \ {i}, !.rows = Append(@, row),
                                       !.seq = row.seq, !.prev_hash = row.hash]
          BY <1>6, <1>a, <3>2, Zenon DEF AppendNext
        <5>2. QED
          BY <2>1, <5>1, Zenon DEF States
      <4>2. Decisions[i] \in EventIds
        BY <2>1, DeliveredHasId, Zenon DEF States
      <4>3. /\ row \in Rows
            /\ Sound(Append(View(p), row))
            /\ HeadSeq(Append(View(p), row)) = row.seq
            /\ HeadHash(Append(View(p), row)) = row.hash
        <5>1. row = LinkAfter(HeadSeq(View(p)), HeadHash(View(p)), Decisions[i])
          BY <2>2, Zenon
        <5>2. Decisions[i] \notin EventsIn(View(p))
          BY <2>3, <3>2, Zenon
        <5> HIDE DEF row
        <5>3. QED
          BY <2>2, <2>3, <4>2, <5>1, <5>2, ExtendSound, Zenon
      <4>4. row.event = Decisions[i]
        BY Zenon DEF LinkAfter
      <4> HIDE DEF row
      <4>5. View(p)' = Append(View(p), row)
        <5>1. auditRecords' = auditRecords
          BY <1>6, Zenon DEF AppendNext
        <5>2. View(p)' = auditRecords \o Append(a.rows, row)
          BY <4>1, <5>1, Zenon DEF View
        <5>3. QED
          BY <1>a, <2>1, <4>3, <5>2, ConcatAppend, Zenon DEF View
      <4>6. EventsIn(Append(View(p), row)) = EventsIn(View(p)) \cup {Decisions[i]}
        BY <2>3, <4>3, <4>4, SMTT(30) DEF EventsIn
      <4>7. QED
        BY <2>2, <3>g, <4>1, <4>3, <4>5, <4>6, Zenon DEF AtHand, Appending, Settled
    <3>3. QED
      BY <3>1, <3>2, Zenon
  <2>5. Acknowledged'
    BY <1>6, <1>k, Zenon DEF AppendNext, auditStream
  <2>6. \A q \in Appenders \ {p} : appender'[q] = appender[q]
    BY <1>6, <1>a, Zenon DEF AppendNext
  <2>7. UNCHANGED <<auditRecords, conflicted, chainLock, gaps>>
    BY <1>6, Zenon DEF AppendNext
  <2>8. QED
    BY <2>2, <2>4, <2>5, <2>6, <2>7, OneReplicaMoves, Zenon DEF IInv, LockHeld, Inside
<1>7. ASSUME NEW p \in Appenders, AppenderEnds(p), conflicted' = conflicted PROVE IInv'
  <2>1. AtHand(p)' /\ ~Inside(p)'
    BY <1>7, <1>a, RestHasNothing, Zenon DEF AppenderEnds
  <2>2. Acknowledged'
    BY <1>7, <1>k, Zenon DEF AppenderEnds, auditStream
  <2>3. \A q \in Appenders \ {p} : Inside(q) => chainLock' = {q}
    BY <1>7, Zenon DEF AppenderEnds, IInv, LockHeld
  <2>4. QED
    BY <1>7, <1>a, <2>1, <2>2, <2>3, OneReplicaMoves, Zenon DEF AppenderEnds
<1>8. ASSUME NEW p \in Appenders, CommitRows(p) PROVE IInv'
  <2> DEFINE a == appender[p]
             refused == \/ SeqsIn(a.rows) \cap SeqsIn(auditRecords) # {}
                        \/ EventsIn(a.rows) \cap EventsIn(auditRecords) # {}
  <2>1. a \in States(handed) /\ a.rows \in Seq(Rows) /\ a.left = {}
        /\ a.pc \in {"appending", "empty"}
    BY <1>8, <1>a, Zenon DEF CommitRows, States
  <2>2. Appending(p) \/ a.rows = <<>>
    BY Zenon DEF IInv, AtHand
  <2>3. ~refused
    <3>1. CASE Appending(p)
      BY <3>1, <1>a, <2>1, NoConflict, Zenon DEF IInv, AtHand, View
    <3>2. CASE a.rows = <<>>
      BY <3>2 DEF SeqsIn, EventsIn
    <3>3. QED
      BY <2>2, <3>1, <3>2, Zenon
  <2>4. /\ auditRecords' = View(p)
        /\ chainLock' = chainLock \ {p}
        /\ appender' = [appender EXCEPT ![p] = [AtRest("acking") EXCEPT !.batch = a.batch]]
        /\ UNCHANGED <<handed, unacked, gaps, conflicted>>
    BY <1>8, <2>3, Zenon DEF CommitRows, View, auditStream
  <2>5. appender'[p].pc = "acking" /\ appender'[p].batch = a.batch /\ appender'[p].rows = <<>>
    BY <1>a, <2>4, Zenon DEF AtRest
  <2>6. Sound(auditRecords)' /\ EventsIn(auditRecords) \subseteq EventsIn(auditRecords')
    <3>1. EventsIn(View(p)) = EventsIn(auditRecords) \cup EventsIn(a.rows)
      BY <1>a, <2>1, ConcatRows, Zenon DEF View
    <3>2. Sound(View(p))
      <4>1. CASE Appending(p)
        BY <4>1, Zenon DEF IInv, AtHand
      <4>2. CASE a.rows = <<>>
        BY <4>2, <1>a, ConcatRows, Zenon DEF IInv, View
      <4>3. QED
        BY <2>2, <4>1, <4>2, Zenon
    <3>3. QED
      BY <2>4, <3>1, <3>2, Zenon
  <2>7. AtHand(p)' /\ ~Inside(p)'
    <3>1. \A i \in a.batch : Settled(i, View(p))
      BY <2>1, Zenon DEF IInv, AtHand
    <3>2. QED
      BY <2>4, <2>5, <3>1, Zenon DEF AtHand, Inside, Appending, Settled
  <2>8. ASSUME NEW q \in Appenders, q # p PROVE AtHand(q)' /\ (Inside(q)' => chainLock' = {q})
    <3>1. appender'[q] = appender[q]
      BY <1>a, <2>4, <2>8, Zenon
    <3>2. CASE Appending(p)
      <4>1. ~Inside(q)
        BY <2>8, <3>2, Zenon DEF IInv, LockHeld, Inside
      <4>2. ~Inside(q)' /\ ~Appending(q)'
        BY <3>1, <4>1, Zenon DEF Inside, Appending
      <4>3. AtHand(q)
        BY Zenon DEF IInv
      <4>4. AtHand(q)'
        <5>1. appender[q].rows = <<>>
          BY <4>1, <4>3, Zenon DEF AtHand, Inside
        <5>2. View(q) = auditRecords /\ View(q)' = auditRecords'
          <6>1. auditRecords' \in Seq(Rows)
            BY Zenon DEF TypeOK
          <6>2. QED
            BY <1>a, <3>1, <5>1, <6>1, ConcatRows, Zenon DEF View
        <5>3. \A i : Settled(i, auditRecords) => Settled(i, auditRecords)'
          BY <2>4, <2>6, Zenon DEF Settled
        <5>4. \A i : Settled(i, View(q))' <=> Settled(i, auditRecords)'
          BY <5>2, Zenon DEF Settled
        <5>5. QED
          BY <3>1, <4>2, <4>3, <5>1, <5>2, <5>3, <5>4, Zenon DEF AtHand
      <4>5. QED
        BY <4>2, <4>4, Zenon
    <3>3. CASE a.rows = <<>>
      <4>1. auditRecords' = auditRecords
        BY <1>a, <2>4, <3>3, ConcatRows, Zenon DEF View
      <4>2. AtHand(q)' /\ (Inside(q)' <=> Inside(q))
        BY <2>4, <3>1, <4>1, LeftAlone, Zenon DEF IInv
      <4>3. QED
        BY <2>4, <2>8, <4>2, Zenon DEF IInv, LockHeld
    <3>4. QED
      BY <2>2, <3>2, <3>3, Zenon
  <2>9. Acknowledged'
    BY <2>4, <2>6, Zenon DEF IInv, Acknowledged, Settled
  <2>10. ~conflicted'
    BY <2>4, Zenon DEF IInv
  <2>11. QED
    BY <2>6, <2>7, <2>8, <2>9, <2>10, Zenon DEF IInv, LockHeld
<1>9. ASSUME NEW p \in Appenders, AckDecisions(p) PROVE IInv'
  <2>1. AtHand(p)' /\ ~Inside(p)'
    BY <1>9, <1>a, RestHasNothing, Zenon DEF AckDecisions
  <2>2. Acknowledged'
    <3>1. \A i \in appender[p].batch : Settled(i, auditRecords)
      BY <1>9, Zenon DEF AckDecisions, IInv, AtHand
    <3>2. QED
      BY <1>9, <3>1, Zenon DEF AckDecisions, IInv, Acknowledged, Settled
  <2>3. QED
    BY <1>9, <1>a, <2>1, <2>2, OneReplicaMoves, Zenon DEF AckDecisions, IInv, LockHeld
<1>10. ASSUME NEW p \in Appenders, AppenderCrashes(p) PROVE IInv'
  BY <1>7, <1>10, Zenon DEF AppenderCrashes
<1>11. CASE UNCHANGED auditVars
  <2>1. \A q \in Appenders : AtHand(q)' /\ (Inside(q)' <=> Inside(q))
    BY <1>11, LeftAlone, Zenon DEF auditVars, IInv
  <2>2. QED
    BY <1>11, <1>k, <2>1, Zenon DEF IInv, LockHeld, auditVars, auditStream
<1>12. QED
  BY <1>1, <1>2, <1>3, <1>4, <1>5, <1>6, <1>8, <1>9, <1>10, <1>11, Zenon DEF AuditNext

\* The chain verifies, no replica is refused its position, and an acknowledged
\* decision that was not trimmed unread is in the chain once: the lock of _lock,
\* the query of _seen and the commit before the acknowledgement suffice, for any
\* number of replicas of the consumer, whatever is redelivered to them and whatever
\* the stream's bound takes away.
THEOREM ChainStaysIntact == AuditSpec => []ChainIntact
<1>1. IInv => ChainIntact
  BY Zenon DEF IInv, ChainIntact, Sound, Distinct, Acknowledged, Settled
<1>2. QED
  BY <1>1, Initially, InvariantStep, PTL DEF AuditSpec

-----------------------------------------------------------------------------
(***************************************************************************)
(* A run of the admission runner, for any jobs, wherever the component     *)
(* stops, the run is interrupted or a call to the outside fails.           *)
(*                                                                         *)
(* VerdictEarned speaks of a verdict and of the component; what lies       *)
(* between is the report.  The invariant says what each case on it shows   *)
(* of the component (ReportInv), which way a run came to the step it is at *)
(* (PathInv), what it holds there (HostInv), and carries that through the  *)
(* verdict (VerdictInv) to the registry's record (RecordInv).              *)
(***************************************************************************)

Steps == {"start", "check", "prepare", "launch", "await", "ping", "load", "compile", "suite",
          "teardown", "release", "write", "report", "recording", "exited"}

AdmissionTypeOK ==
  /\ job \in Job
  /\ step \in Steps
  /\ canceled \in BOOLEAN
  /\ container \in {"none", "running", "exited", "removed"}
  /\ verdict \in {"none", "error", "pass", "fail"}
  /\ report \in Seq(BOOLEAN)

\* What a run has acquired by the step it is at, and given back.
HostInv ==
  /\ step \in {"start", "check", "write", "report", "recording", "exited"} =>
       ~socketDir /\ ~runtime
  /\ step \in {"start", "check", "prepare", "launch", "load", "compile"} => container = "none"
  /\ step \in {"release", "write", "report", "recording", "exited"} =>
       (container = "running" => rmFailed)
  /\ step = "suite" /\ Sidecar => container \in {"running", "exited"}

\* The component runs from content its manifest pins.
Pinned == IF Sidecar THEN job.pinned ELSE job.store = "has" /\ Compiles(job.module)

\* What the step a run is at says of its job.
PathInv ==
  /\ step \in {"prepare", "launch"} => Sidecar
  /\ step \in {"await", "ping"} => Sidecar /\ job.pinned
  /\ step \in {"load", "compile"} => ~Sidecar
  /\ step = "compile" => job.store = "has"
  /\ step = "suite" => Pinned /\ job.name

\* What a case that passed says of the component.
Behaves(n) ==
  /\ n = 2 => /\ job.component.benign.verdict = "allow" /\ job.component.benign.payload = "nil"
              /\ ~job.component.hangs
  /\ n = 6 => (job.trigger => \/ /\ job.component.trigger.verdict = "deny"
                                 /\ job.component.trigger.reason
                                 /\ job.component.trigger.payload = "nil"
                              \/ /\ job.component.trigger.verdict = "mutate"
                                 /\ job.component.trigger.payload = "rewritten")
  /\ n = 9 => ~job.component.emptyFails

\* What a case that failed in a run that was not interrupted says of it.
AtFault ==
  \/ ~Conforming \/ job.component.flaky
  \/ IF Sidecar THEN container = "exited" ELSE ~Compiles(job.module) \/ ~job.name

ReportInv ==
  /\ Len(report) <= Cases
  /\ \A n \in DOMAIN report : report[n] => Behaves(n)
  /\ \A n \in DOMAIN report : report[n] \/ canceled \/ AtFault

\* A verdict holds what the report shows.  The context is looked at once more
\* before a verdict is sent, so that one on record owes nothing to an interrupt.
VerdictInv ==
  /\ verdict = "pass" => Conforming /\ Pinned
  /\ verdict = "fail" => canceled \/ AtFault
  /\ verdict = "fail" /\ step = "recording" => AtFault
  /\ admissions = <<"pass">> => Conforming /\ Pinned
  /\ admissions = <<"fail">> => AtFault

\* What is on record, by the step the run is at.
RecordInv ==
  /\ admissions \in {<<>>, <<"pass">>, <<"fail">>}
  /\ step # "exited" => admissions = <<>> /\ exit = -1
  /\ step \in {"teardown", "release"} => verdict \in {"error", "pass", "fail"}
  /\ step \in {"write", "report", "recording"} => verdict \in {"pass", "fail"}
  /\ step \in {"report", "recording"} => evidence
  /\ admissions # <<>> => evidence
  /\ componentStatus = "active" => admissions = <<"pass">>
  /\ exit = 0 => verdict = "pass" /\ (job.dryRun \/ admissions = <<"pass">>)
  /\ exit = exitFailedSuite => verdict = "fail" /\ (job.dryRun \/ admissions = <<"fail">>)

-----------------------------------------------------------------------------
\* A call of a guest that fails is the failure of the inspection.
LEMMA GuestFails ==
  ASSUME NEW g, NEW late, NEW done, NEW code, code # "none",
         Call(g, late, done) = Failure(code, done)
  PROVE  /\ WasmInspect(g, late, done) = Failure(code, done)
         /\ Failed(Failure(code, done))
<1>1. Failed(Failure(code, done))
  BY Zenon DEF Failed, Failure
<1> QED
  BY <1>1, Zenon DEF WasmInspect

\* Each call of the component is answered or fails, and a call whose context is
\* done fails as a canceled one.
LEMMA InspectIs ==
  ASSUME job \in Job, NEW r \in Response, NEW done \in BOOLEAN
  PROVE  /\ ~done /\ ~job.component.hangs /\ (Sidecar => container = "running") =>
              InspectAs(r, done) = toResult(r)
         /\ done \/ job.component.hangs \/ (Sidecar /\ container # "running") =>
              Failed(InspectAs(r, done))
         /\ InspectAs(r, TRUE).canceled
<1> DEFINE x == [answered |-> container = "running" /\ ~done /\ ~job.component.hangs,
                 status |-> 200, parses |-> TRUE, body |-> r]
           g == [GoodGuest(r) EXCEPT !.starts = ~done,
                                     !.handle = IF job.component.hangs THEN "traps" ELSE @]
<1>0. job.component.hangs \in BOOLEAN
  BY Zenon DEF Job, Component
<1>1. CASE Sidecar
  <2>1. InspectAs(r, done) = SidecarInspect(x, done)
    BY <1>1, Zenon DEF InspectAs
  <2>2. ~(container = "running" /\ ~done /\ ~job.component.hangs) =>
           SidecarInspect(x, done) = Failure("unavailable", done)
    BY Zenon DEF SidecarInspect
  <2>3. container = "running" /\ ~done /\ ~job.component.hangs =>
           SidecarInspect(x, done) = toResult(r)
    BY Zenon DEF SidecarInspect
  <2>4. Failed(Failure("unavailable", done))
    BY Zenon DEF Failed, Failure
  <2>5. InspectAs(r, TRUE) = Failure("unavailable", TRUE)
    BY <1>1, Zenon DEF InspectAs, SidecarInspect
  <2>6. Failure("unavailable", TRUE).canceled
    BY Zenon DEF Failure
  <2> QED
    BY <1>1, <2>1, <2>2, <2>3, <2>4, <2>5, <2>6, ZenonT(30)
<1>2. CASE ~Sidecar
  <2> DEFINE late == done \/ job.component.hangs
  <2>1. InspectAs(r, done) = WasmInspect(g, late, done)
    BY <1>2, Zenon DEF InspectAs
  <2>2. /\ g.starts <=> ~done
        /\ g.alloc = "inside" /\ g.packed = "inside" /\ g.parses /\ g.body = r
        /\ g.handle = IF job.component.hangs THEN "traps" ELSE "returns"
    BY Zenon DEF GoodGuest
  <2>3. late <=> done \/ job.component.hangs
    BY Zenon
  <2> HIDE DEF g, late
  <2>4. ~Failed(writeInput(g, late, done))
    BY <2>2, Zenon DEF writeInput, Failed
  <2>5. InspectAs(r, TRUE).canceled
    <3> DEFINE k == [GoodGuest(r) EXCEPT !.starts = ~TRUE,
                                     !.handle = IF job.component.hangs THEN "traps" ELSE @]
               l == TRUE \/ job.component.hangs
    <3>1. InspectAs(r, TRUE) = WasmInspect(k, l, TRUE)
      BY <1>2, Zenon DEF InspectAs
    <3>2. ~k.starts
      BY Zenon DEF GoodGuest
    <3> HIDE DEF k, l
    <3>3. Call(k, l, TRUE) = Failure("unavailable", TRUE)
      BY <3>2, Zenon DEF Call
    <3>4. Failure("unavailable", TRUE).canceled
      BY Zenon DEF Failure
    <3> QED
      BY <3>1, <3>3, <3>4, GuestFails, Zenon
  <2>6. CASE done
    <3>1. Call(g, late, done) = Failure("unavailable", done)
      BY <2>2, <2>6, Zenon DEF Call
    <3> QED
      BY <1>2, <2>1, <2>6, <2>5, <3>1, GuestFails, Zenon
  <2>7. CASE ~done /\ job.component.hangs
    <3>1. Call(g, late, done) = wrapGuestError(late, done)
      BY <2>2, <2>4, <2>7, Zenon DEF Call
    <3>2. wrapGuestError(late, done) = Failure("upstream_timeout", done)
      BY <2>3, <2>7, Zenon DEF wrapGuestError
    <3> QED
      BY <1>2, <2>1, <2>7, <2>5, <3>1, <3>2, GuestFails, ZenonT(30)
  <2>8. CASE ~done /\ ~job.component.hangs
    <3>1. Call(g, late, done) = readOutput(g)
      BY <2>2, <2>4, <2>8, Zenon DEF Call
    <3>2. ~Failed(readOutput(g))
      BY <2>2, Zenon DEF readOutput, Failed
    <3> QED
      BY <1>2, <2>1, <2>2, <2>8, <2>5, <3>1, <3>2, Zenon DEF WasmInspect
  <2> QED
    BY <1>0, <2>6, <2>7, <2>8, Zenon
<1> QED
  BY <1>1, <1>2, Zenon

\* What an answer is taken for.
LEMMA ToResultIs ==
  ASSUME NEW r \in Response
  PROVE  LET bad == r.verdict = "other" \/ (r.verdict = "mutate") # (r.payload # "nil") IN
         /\ bad => Failed(toResult(r))
         /\ ~bad => /\ ~Failed(toResult(r))
                    /\ toResult(r).verdict = r.verdict /\ toResult(r).payload = r.payload
                    /\ toResult(r).reason = r.reason
BY Zenon DEF toResult, Failed, Failure, Result, Response

\* The answers a payload may get are answers.
LEMMA BenignTyped ==
  ASSUME job \in Job
  PROVE  /\ job.component.benign \in Response /\ job.component.trigger \in Response
         /\ job.component.flaky \in BOOLEAN /\ job.component.hangs \in BOOLEAN
         /\ job.component.emptyFails \in BOOLEAN /\ job.trigger \in BOOLEAN
         /\ \A a \in Benign : /\ a \in Response
                              /\ a # job.component.benign =>
                                   job.component.flaky /\ a = Answer("deny", "nil", TRUE)
<1>1. job.component \in Component /\ job.trigger \in BOOLEAN
  BY Zenon DEF Job
<1>2. Answer("deny", "nil", TRUE) \in Response
  BY Zenon DEF Answer, Response, Payloads
<1> QED
  BY <1>1, <1>2, Zenon DEF Component, Benign

\* A case that passes shows what Behaves says.
LEMMA CasePasses ==
  ASSUME job \in Job, canceled \in BOOLEAN, NEW n \in 1 .. Cases,
         NEW a \in Benign, NEW b \in Benign, Case(n, a, b)
  PROVE  Behaves(n)
<1> USE BenignTyped
<1>1. CASE n = 2
  <2>1. Allowed(InspectAs(a, canceled))
    BY <1>1 DEF Case, AllowsBenign
  <2>2. ~job.component.hangs /\ InspectAs(a, canceled) = toResult(a)
    <3>1. ~Failed(InspectAs(a, canceled))
      BY <2>1, Zenon DEF Allowed
    <3> QED
      BY <3>1, InspectIs, Zenon
  <2>3. a.verdict = "allow" /\ a.payload = "nil"
    <3>1. ~Failed(toResult(a)) /\ toResult(a).verdict = "allow"
      BY <2>1, <2>2, Zenon DEF Allowed
    <3> QED
      BY <3>1, ToResultIs, Zenon
  <2>4. a = job.component.benign
    BY <2>3 DEF Answer
  <2> QED
    BY <1>1, <2>2, <2>3, <2>4 DEF Behaves
<1>2. CASE n = 6
  <2> DEFINE t == job.component.trigger
  <2>1. SUFFICES ASSUME job.trigger
                 PROVE  \/ t.verdict = "deny" /\ t.reason /\ t.payload = "nil"
                        \/ t.verdict = "mutate" /\ t.payload = "rewritten"
    BY <1>2 DEF Behaves
  <2>2. ActsOnTrigger(InspectAs(t, canceled))
    BY <1>2, <2>1 DEF Case, Acts
  <2>3. InspectAs(t, canceled) = toResult(t)
    BY <2>2, InspectIs, Zenon DEF ActsOnTrigger
  <2>4. t.verdict = "other" \/ (t.verdict = "mutate") # (t.payload # "nil") =>
          Failed(toResult(t))
    BY ToResultIs, Zenon
  <2>5. /\ toResult(t).verdict = t.verdict /\ toResult(t).payload = t.payload
        /\ toResult(t).reason = t.reason
    BY <2>2, <2>3, ToResultIs, Zenon DEF ActsOnTrigger
  <2> HIDE DEF t
  <2> QED
    BY <2>2, <2>3, <2>4, <2>5, Zenon DEF ActsOnTrigger
<1>3. CASE n = 9
  BY <1>3 DEF Case, HandlesEmpty, Behaves
<1>4. CASE n \notin {2, 6, 9}
  BY <1>4, Zenon DEF Behaves
<1> QED
  BY <1>1, <1>2, <1>3, <1>4, Zenon

\* A case of a run that was not interrupted and whose component did not stop
\* fails for what the component does.
LEMMA CaseFails ==
  ASSUME job \in Job, canceled = FALSE, NEW n \in 1 .. Cases,
         NEW a \in Benign, NEW b \in Benign, job.name,
         Sidecar => container = "running", Conforming, ~job.component.flaky
  PROVE  Case(n, a, b)
<1> USE BenignTyped
<1> DEFINE r == job.component.benign
           t == job.component.trigger
<1>1. a = r /\ b = r /\ ~job.component.hangs /\ ~job.component.emptyFails
  BY Zenon DEF Conforming
<1>2. InspectAs(r, canceled) = toResult(r) /\ InspectAs(t, canceled) = toResult(t)
  BY <1>1, InspectIs, Zenon
<1>3. ~Failed(toResult(r)) /\ toResult(r).verdict = "allow" /\ toResult(r).payload = "nil"
  BY ToResultIs, Zenon DEF Conforming
<1>4. Allowed(InspectAs(r, canceled))
  BY <1>2, <1>3, Zenon DEF Allowed
<1>5. job.trigger => ActsOnTrigger(toResult(t))
  <2> SUFFICES ASSUME job.trigger PROVE ActsOnTrigger(toResult(t))
    BY Zenon
  <2>1. CASE t.verdict = "deny" /\ t.reason /\ t.payload = "nil"
    BY <2>1, ToResultIs, Zenon DEF ActsOnTrigger
  <2>2. CASE t.verdict = "mutate" /\ t.payload = "rewritten"
    BY <2>2, ToResultIs, Zenon DEF ActsOnTrigger
  <2> QED
    BY <2>1, <2>2, Zenon DEF Conforming
<1>6. RespectsCancel(a)
  BY <1>1, InspectIs, ZenonT(30) DEF RespectsCancel
<1> HIDE DEF r, t
<1>7. StableName /\ AllowsBenign(a) /\ AllowHasNoPayload(a) /\ WithinDeadline
  BY <1>1, <1>2, <1>3, <1>4, Zenon
  DEF StableName, AllowsBenign, AllowHasNoPayload, WithinDeadline
<1>8. Deterministic(a, b) /\ LeavesInput(a) /\ HandlesEmpty(a)
  BY <1>1, <1>2, <1>3, Zenon DEF Deterministic, LeavesInput, HandlesEmpty
<1>9. Acts
  BY <1>2, <1>5, Zenon DEF Acts, t
<1>10. n \in {1, 2, 3, 4, 5, 6, 7, 8, 9}
  BY DEF Cases
<1> QED
  BY <1>6, <1>7, <1>8, <1>9, <1>10, Zenon DEF Case

\* A case passes or fails.
LEMMA CaseTyped ==
  ASSUME job \in Job, NEW n \in 1 .. Cases, NEW a \in Benign, NEW b \in Benign
  PROVE  Case(n, a, b) \in BOOLEAN
<1>1. n \in {1, 2, 3, 4, 5, 6, 7, 8, 9}
  BY DEF Cases
<1>2. StableName \in BOOLEAN
  BY Zenon DEF StableName, Job
<1> QED
  BY <1>1, <1>2, Zenon
  DEF Case, AllowsBenign, AllowHasNoPayload, WithinDeadline, Deterministic, LeavesInput,
      HandlesEmpty, Acts, RespectsCancel, Allowed

-----------------------------------------------------------------------------
(* The steps of a run *)

\* Every step keeps the types.
LEMMA AdmissionTyped ==
  AdmissionTypeOK /\ [AdmissionNext]_admissionVars => AdmissionTypeOK'
<1> SUFFICES ASSUME AdmissionTypeOK, [AdmissionNext]_admissionVars PROVE AdmissionTypeOK'
  BY Zenon
<1>0. Len(report) \in Nat
  BY DEF AdmissionTypeOK
<1> USE DEF AdmissionTypeOK, Steps, Goto, Exit, GiveUp, hostVars, registryVars
<1>1. CASE Fetch \/ Check \/ Prepare \/ Launch
  BY <1>1, Zenon DEF Fetch, Check, Prepare, Launch
<1>2. CASE Await \/ PingComponent \/ Load \/ Compile
  BY <1>2 DEF Await, Close, PingComponent, Load, Compile
<1>3. CASE RunCase
  <2>1. PICK a \in Benign, b \in Benign : report' = Append(report, Case(Len(report) + 1, a, b))
    BY <1>3, Zenon DEF RunCase
  <2>2. Len(report) + 1 \in 1 .. Cases
    BY <1>0, <1>3 DEF RunCase, Cases
  <2>3. Case(Len(report) + 1, a, b) \in BOOLEAN
    BY <2>2, CaseTyped, Zenon
  <2>4. report' \in Seq(BOOLEAN)
    BY <2>1, <2>3
  <2> QED
    BY <1>3, <2>4, Zenon DEF RunCase
<1>4. CASE GiveVerdict \/ Teardown \/ WriteReport
  BY <1>4, Zenon DEF GiveVerdict, Teardown, Close, WriteReport
<1>5. CASE DryRun \/ ReportSent \/ RecordAdmission
  BY <1>5, Zenon DEF DryRun, ReportSent, RecordAdmission
<1>6. CASE RetireReads \/ RetireCommits \/ ComponentExits \/ Interrupt
  BY <1>6, Zenon DEF RetireReads, RetireCommits, ComponentExits, Interrupt
<1>7. CASE UNCHANGED admissionVars
  BY <1>7, Zenon DEF admissionVars
<1> QED
  BY <1>1, <1>2, <1>3, <1>4, <1>5, <1>6, <1>7, Zenon DEF AdmissionNext, RunnerStep

\* The job is fixed, a component that stopped does not run again, and an
\* interrupt is not taken back.
LEMMA Lasting ==
  ASSUME HostInv, [AdmissionNext]_admissionVars
  PROVE  /\ job' = job /\ (Sidecar' <=> Sidecar) /\ (Pinned' <=> Pinned)
         /\ Conforming' <=> Conforming
         /\ canceled => canceled'
         /\ container = "exited" => container' = "exited"
         /\ AtFault => AtFault'
         /\ \A n : Behaves(n) <=> Behaves(n)'
<1>1. job' = job
  BY Zenon
  DEF AdmissionNext, RunnerStep, Fetch, Check, Prepare, Launch, Await, PingComponent, Load,
      Compile, RunCase, GiveVerdict, Teardown, WriteReport, DryRun, ReportSent,
      RecordAdmission, RetireReads, RetireCommits, ComponentExits, Interrupt, admissionVars
<1>2. canceled => canceled'
  BY Zenon
  DEF AdmissionNext, RunnerStep, Fetch, Check, Prepare, Launch, Await, PingComponent, Load,
      Compile, RunCase, GiveVerdict, Teardown, WriteReport, DryRun, ReportSent,
      RecordAdmission, RetireReads, RetireCommits, ComponentExits, Interrupt, admissionVars
<1>3. container = "exited" => container' = "exited"
  <2>1. ASSUME Close PROVE container = "exited" => container' = "exited"
    BY <2>1, Zenon DEF Close
  <2>2. CASE Launch \/ Await \/ Teardown \/ ComponentExits
    <3>1. CASE Launch BY <3>1, Zenon DEF Launch, HostInv
    <3>2. CASE Await BY <2>1, <3>2, Zenon DEF Await
    <3>3. CASE Teardown BY <2>1, <3>3, Zenon DEF Teardown
    <3>4. CASE ComponentExits BY <3>4, Zenon DEF ComponentExits
    <3> QED BY <2>2, <3>1, <3>2, <3>3, <3>4, Zenon
  <2>3. CASE ~(Launch \/ Await \/ Teardown \/ ComponentExits)
    BY <2>3, Zenon
    DEF AdmissionNext, RunnerStep, Fetch, Check, Prepare, PingComponent, Load,
        Compile, RunCase, GiveVerdict, WriteReport, DryRun, ReportSent,
        RecordAdmission, RetireReads, RetireCommits, Interrupt, admissionVars, hostVars
  <2> QED
    BY <2>2, <2>3, Zenon
<1>4. /\ (Sidecar' <=> Sidecar) /\ (Pinned' <=> Pinned) /\ (Conforming' <=> Conforming)
      /\ \A n : Behaves(n) <=> Behaves(n)'
  BY <1>1, Zenon DEF Sidecar, Pinned, Conforming, Behaves
<1>5. AtFault => AtFault'
  BY <1>1, <1>3, <1>4, Zenon DEF AtFault
<1> QED
  BY <1>1, <1>2, <1>3, <1>4, <1>5, Zenon

\* What is acquired is given back on every way out.
LEMMA HostStep ==
  AdmissionTypeOK /\ HostInv /\ PathInv /\ [AdmissionNext]_admissionVars => HostInv'
<1> SUFFICES ASSUME AdmissionTypeOK, HostInv, PathInv, [AdmissionNext]_admissionVars
             PROVE  HostInv'
  BY Zenon
<1>0. Sidecar' <=> Sidecar
  BY Lasting, Zenon
<1> USE DEF HostInv, Goto, Exit, GiveUp, hostVars, registryVars
<1>1. CASE Fetch \/ Check \/ Prepare \/ Launch
  BY <1>0, <1>1, SMTT(30) DEF Fetch, Check, Prepare, Launch
<1>2. CASE Await \/ PingComponent
  BY <1>0, <1>2, Zenon DEF Await, Close, PingComponent, AdmissionTypeOK
<1>3. CASE Load \/ Compile
  BY <1>0, <1>3, Zenon DEF Load, Compile, PathInv
<1>4. CASE RunCase \/ GiveVerdict
  BY <1>0, <1>4, Zenon DEF RunCase, GiveVerdict
<1>5. CASE Teardown
  BY <1>0, <1>5, Zenon DEF Teardown, Close, AdmissionTypeOK
<1>6. CASE WriteReport \/ DryRun \/ ReportSent \/ RecordAdmission
  BY <1>0, <1>6, SMTT(30) DEF WriteReport, DryRun, ReportSent, RecordAdmission
<1>7. CASE RetireReads \/ RetireCommits \/ ComponentExits \/ Interrupt
  BY <1>0, <1>7 DEF RetireReads, RetireCommits, ComponentExits, Interrupt
<1>8. CASE UNCHANGED admissionVars
  BY <1>0, <1>8, Zenon DEF admissionVars
<1> QED
  BY <1>1, <1>2, <1>3, <1>4, <1>5, <1>6, <1>7, <1>8, Zenon DEF AdmissionNext, RunnerStep

\* The way to a step is what the step says of the job.
LEMMA PathStep == HostInv /\ PathInv /\ [AdmissionNext]_admissionVars => PathInv'
<1> SUFFICES ASSUME HostInv, PathInv, [AdmissionNext]_admissionVars PROVE PathInv'
  BY Zenon
<1>0. job' = job /\ (Sidecar' <=> Sidecar) /\ (Pinned' <=> Pinned)
  BY Lasting, Zenon
<1> USE DEF PathInv, Goto, Exit, GiveUp
<1>1. CASE Fetch \/ Check
  BY <1>0, <1>1, Zenon DEF Fetch, Check
<1>2. CASE Prepare \/ Launch
  BY <1>0, <1>2, Zenon DEF Prepare, Launch, Validated
<1>3. CASE Await \/ PingComponent
  BY <1>0, <1>3, Zenon DEF Await, PingComponent, Pinned
<1>4. CASE Load \/ Compile
  BY <1>0, <1>4, Zenon DEF Load, Compile, Pinned
<1>5. CASE RunCase \/ GiveVerdict \/ Teardown
  BY <1>0, <1>5, Zenon DEF RunCase, GiveVerdict, Teardown
<1>6. CASE WriteReport \/ DryRun \/ ReportSent \/ RecordAdmission
  BY <1>0, <1>6, Zenon DEF WriteReport, DryRun, ReportSent, RecordAdmission
<1>7. CASE RetireReads \/ RetireCommits \/ ComponentExits \/ Interrupt
  BY <1>0, <1>7, Zenon DEF RetireReads, RetireCommits, ComponentExits, Interrupt
<1>8. CASE UNCHANGED admissionVars
  BY <1>0, <1>8, Zenon DEF admissionVars
<1> QED
  BY <1>1, <1>2, <1>3, <1>4, <1>5, <1>6, <1>7, <1>8, Zenon DEF AdmissionNext, RunnerStep

\* A report grows by the case that was run.
LEMMA ReportStep ==
  AdmissionTypeOK /\ HostInv /\ PathInv /\ ReportInv /\ [AdmissionNext]_admissionVars => ReportInv'
<1> SUFFICES ASSUME AdmissionTypeOK, HostInv, PathInv, ReportInv, [AdmissionNext]_admissionVars
             PROVE  ReportInv'
  BY Zenon
<1> USE Lasting
<1>1. CASE report' = report
  BY <1>1, Zenon DEF ReportInv
<1>2. CASE RunCase
  <2>1. PICK a \in Benign, b \in Benign : report' = Append(report, Case(Len(report) + 1, a, b))
    BY <1>2, Zenon DEF RunCase
  <2> DEFINE m == Len(report) + 1
             c == Case(m, a, b)
  <2>2. /\ report \in Seq(BOOLEAN) /\ Len(report) \in Nat /\ m \in 1 .. Cases
        /\ job \in Job /\ canceled \in BOOLEAN
    BY <1>2 DEF RunCase, Cases, AdmissionTypeOK
  <2>3. c \in BOOLEAN
    BY <2>2, CaseTyped, Zenon
  <2>4. c => Behaves(m)
    BY <2>2, CasePasses, Zenon
  <2>5. c \/ canceled \/ AtFault
    <3> SUFFICES ASSUME ~canceled, ~AtFault PROVE c
      BY Zenon
    <3>1. job.name /\ Conforming /\ ~job.component.flaky /\ (Sidecar => container = "running")
      BY <1>2, Zenon DEF RunCase, AtFault, PathInv, HostInv
    <3> QED
      BY <2>2, <3>1, CaseFails, Zenon
  <2>6. report' = Append(report, c)
    BY <2>1, Zenon
  <2> HIDE DEF c
  <2>7. /\ Len(report') = m
        /\ \A n \in DOMAIN report' : \/ n \in DOMAIN report /\ report'[n] = report[n]
                                     \/ n = m /\ report'[n] = c
    BY <2>2, <2>3, <2>6
  <2>8. \A n \in DOMAIN report' : report'[n] => Behaves(n)
    BY <2>4, <2>7, Zenon DEF ReportInv
  <2>9. \A n \in DOMAIN report' : report'[n] \/ canceled \/ AtFault
    BY <2>3, <2>5, <2>7, Zenon DEF ReportInv
  <2>10. m <= Cases
    BY <2>2 DEF Cases
  <2> QED
    BY <2>7, <2>8, <2>9, <2>10, Zenon DEF ReportInv
<1> QED
  BY <1>1, <1>2, Zenon
  DEF AdmissionNext, RunnerStep, Fetch, Check, Prepare, Launch, Await, PingComponent, Load,
      Compile, GiveVerdict, Teardown, WriteReport, DryRun, ReportSent,
      RecordAdmission, RetireReads, RetireCommits, ComponentExits, Interrupt, admissionVars

\* A verdict follows from the report, and what is on record from the verdict.
LEMMA VerdictStep ==
  /\ AdmissionTypeOK /\ HostInv /\ PathInv /\ ReportInv /\ VerdictInv /\ RecordInv
  /\ [AdmissionNext]_admissionVars
  => VerdictInv'
<1> SUFFICES ASSUME AdmissionTypeOK, HostInv, PathInv, ReportInv, VerdictInv, RecordInv,
                    [AdmissionNext]_admissionVars
             PROVE  VerdictInv'
  BY Zenon
<1> USE Lasting
<1>1. ASSUME UNCHANGED <<admissions, verdict>>, step' # "recording" PROVE VerdictInv'
  BY <1>1, Zenon DEF VerdictInv
<1>2. ASSUME UNCHANGED <<step, verdict, admissions>> PROVE VerdictInv'
  BY <1>2, Zenon DEF VerdictInv
<1>3. ASSUME verdict' = "error", UNCHANGED admissions PROVE VerdictInv'
  BY <1>3, Zenon DEF VerdictInv
<1>4. CASE Fetch \/ Check \/ Prepare \/ Launch
  BY <1>1, <1>3, <1>4, Zenon
  DEF Fetch, Check, Prepare, Launch, Goto, Exit, GiveUp, registryVars
<1>5. CASE Await \/ PingComponent \/ Load
  BY <1>1, <1>3, <1>5, Zenon DEF Await, PingComponent, Load, Goto, GiveUp, registryVars
<1>6. CASE Compile
  <2>1. CASE Compiles(job.module) /\ job.name
    BY <1>1, <1>6, <2>1, Zenon DEF Compile, Goto, registryVars
  <2>2. CASE ~(Compiles(job.module) /\ job.name)
    <3>1. AtFault
      BY <1>6, <2>2, Zenon DEF Compile, PathInv, AtFault
    <3>2. verdict' = "fail" /\ admissions' = admissions
      BY <1>6, <2>2, Zenon DEF Compile, registryVars
    <3> QED
      BY <3>1, <3>2, Zenon DEF VerdictInv
  <2> QED
    BY <2>1, <2>2, Zenon
<1>7. CASE RunCase
  BY <1>2, <1>7, Zenon DEF RunCase, registryVars
<1>8. CASE GiveVerdict
  <2>1. Len(report) = Cases /\ DOMAIN report = 1 .. Cases /\ Pinned
    BY <1>8, SMTT(30) DEF GiveVerdict, AdmissionTypeOK, PathInv
  <2>2. Passed => Conforming
    <3>1. Passed => Behaves(2) /\ Behaves(6) /\ Behaves(9)
      BY <2>1 DEF Passed, ReportInv, Cases
    <3> QED
      BY <3>1, Zenon DEF Behaves, Conforming
  <2>3. ~Passed => canceled \/ AtFault
    <3>1. report # <<>>
      BY <2>1, SMTT(30) DEF Cases
    <3> QED
      BY <3>1, Zenon DEF Passed, ReportInv
  <2>4. /\ verdict' = IF Passed THEN "pass" ELSE "fail"
        /\ step' = "teardown" /\ admissions' = admissions
    BY <1>8, Zenon DEF GiveVerdict, Goto, registryVars
  <2> QED
    BY <2>1, <2>2, <2>3, <2>4, Zenon DEF VerdictInv
<1>9. CASE Teardown \/ WriteReport \/ DryRun
  BY <1>1, <1>9, Zenon DEF Teardown, WriteReport, DryRun, Goto, Exit, registryVars
<1>10. CASE ReportSent
  <2>1. UNCHANGED <<admissions, verdict>> /\ (step' = "recording" => ~canceled)
    BY <1>10, Zenon DEF ReportSent, Goto, Exit
  <2> QED
    BY <2>1, Zenon DEF VerdictInv
<1>11. CASE RecordAdmission
  <2>1. /\ step = "recording" /\ step' = "exited" /\ verdict' = verdict
        /\ admissions' = Append(admissions, verdict)
    BY <1>11, Zenon DEF RecordAdmission, Exit
  <2>2. admissions' = Append(<<>>, verdict) /\ verdict \in {"pass", "fail"}
    BY <2>1, SMTT(30) DEF RecordInv
  <2> QED
    BY <2>1, <2>2 DEF VerdictInv
<1>12. CASE RetireReads \/ RetireCommits \/ ComponentExits \/ Interrupt
  BY <1>2, <1>12, Zenon DEF RetireReads, RetireCommits, ComponentExits, Interrupt, registryVars
<1>13. CASE UNCHANGED admissionVars
  BY <1>2, <1>13, Zenon DEF admissionVars, registryVars
<1> QED
  BY <1>4, <1>5, <1>6, <1>7, <1>8, <1>9, <1>10, <1>11, <1>12, <1>13, Zenon
  DEF AdmissionNext, RunnerStep

\* The evidence is written before the report is sent, and one report is sent.
LEMMA RecordStep ==
  AdmissionTypeOK /\ HostInv /\ RecordInv /\ [AdmissionNext]_admissionVars => RecordInv'
<1> SUFFICES ASSUME AdmissionTypeOK, HostInv, RecordInv, [AdmissionNext]_admissionVars
             PROVE  RecordInv'
  BY Zenon
<1>0. job' = job
  BY Lasting, Zenon
<1> USE DEF RecordInv, Goto, Exit, GiveUp, registryVars, exitFailedSuite, exitCouldNotRun
<1>1. CASE Fetch \/ Check
  BY <1>0, <1>1, SMTT(30) DEF Fetch, Check
<1>2. CASE Prepare \/ Launch
  BY <1>0, <1>2, SMTT(30) DEF Prepare, Launch
<1>3. CASE Await \/ PingComponent
  BY <1>0, <1>3, SMTT(30) DEF Await, PingComponent
<1>4. CASE Load \/ Compile
  BY <1>0, <1>4, SMTT(30) DEF Load, Compile
<1>5. CASE RunCase \/ GiveVerdict
  BY <1>0, <1>5, SMTT(30) DEF RunCase, GiveVerdict
<1>6. CASE Teardown
  BY <1>0, <1>6 DEF Teardown
<1>7. CASE WriteReport
  BY <1>0, <1>7 DEF WriteReport
<1>8. CASE DryRun
  BY <1>0, <1>8, SMTT(30) DEF DryRun, passExit
<1>9. CASE ReportSent
  BY <1>0, <1>9, SMTT(30) DEF ReportSent
<1>10. CASE RecordAdmission
  <2>1. admissions' = Append(<<>>, verdict) /\ verdict \in {"pass", "fail"} /\ evidence'
    BY <1>10 DEF RecordAdmission
  <2>2. componentStatus' = "active" => verdict = "pass"
    BY <1>10 DEF RecordAdmission, RecordedStatus
  <2>3. /\ step' = "exited" /\ verdict' = verdict
        /\ exit' = passExit \/ exit' = 1
    BY <1>10, Zenon DEF RecordAdmission
  <2> QED
    BY <1>0, <2>1, <2>2, <2>3 DEF passExit
<1>11. CASE RetireReads \/ RetireCommits
  BY <1>0, <1>11, SMTT(30) DEF RetireReads, RetireCommits
<1>12. CASE ComponentExits \/ Interrupt
  BY <1>0, <1>12, Zenon DEF ComponentExits, Interrupt
<1>13. CASE UNCHANGED admissionVars
  BY <1>0, <1>13, Zenon DEF admissionVars
<1> QED
  BY <1>1, <1>2, <1>3, <1>4, <1>5, <1>6, <1>7, <1>8, <1>9, <1>10, <1>11, <1>12, <1>13, Zenon
  DEF AdmissionNext, RunnerStep

-----------------------------------------------------------------------------
AdmissionInv ==
  AdmissionTypeOK /\ HostInv /\ PathInv /\ ReportInv /\ VerdictInv /\ RecordInv

\* The invariant holds of a run that has not begun.
LEMMA AdmissionInvInit == AdmissionInit => AdmissionInv
<1> SUFFICES ASSUME AdmissionInit PROVE AdmissionInv
  BY Zenon
<1>1. AdmissionTypeOK
  <2>1. job \in Job /\ canceled \in BOOLEAN
    BY JobsAssumption, Zenon DEF AdmissionInit
  <2>2. report \in Seq(BOOLEAN)
    BY DEF AdmissionInit
  <2> QED
    BY <2>1, <2>2, Zenon DEF AdmissionInit, AdmissionTypeOK, Steps
<1>2. HostInv /\ PathInv
  BY Zenon DEF AdmissionInit, HostInv, PathInv
<1>3. ReportInv
  BY DEF AdmissionInit, ReportInv, Cases
<1>4. VerdictInv /\ RecordInv
  BY DEF AdmissionInit, VerdictInv, RecordInv, exitFailedSuite
<1> QED
  BY <1>1, <1>2, <1>3, <1>4, Zenon DEF AdmissionInv

\* The invariant holds of every run.
LEMMA AdmissionInvariant == AdmissionSpec => []AdmissionInv
<1>1. AdmissionInv /\ [AdmissionNext]_admissionVars => AdmissionInv'
  BY AdmissionTyped, HostStep, PathStep, ReportStep, VerdictStep, RecordStep, Zenon DEF AdmissionInv
<1> QED
  BY <1>1, AdmissionInvInit, PTL DEF AdmissionSpec

\* Runner.Run, RunGuardrailSuite, Client.Report and RegistryService._record: for
\* any components and jobs, a verdict on record was earned by the component.
THEOREM VerdictEarnedHolds == AdmissionSpec => []VerdictEarned
<1>1. AdmissionInv => VerdictEarned
  <2> SUFFICES ASSUME AdmissionInv PROVE VerdictEarned
    BY Zenon
  <2> DEFINE on == {admissions[n] : n \in DOMAIN admissions}
  <2>1. admissions \in {<<>>, <<"pass">>, <<"fail">>}
    BY Zenon DEF AdmissionInv, RecordInv
  <2>2. "pass" \in on <=> admissions = <<"pass">>
    BY <2>1
  <2>3. "fail" \in on <=> admissions = <<"fail">>
    BY <2>1
  <2> HIDE DEF on
  <2>4. "pass" \in on => Conforming /\ Pinned
    BY <2>2, Zenon DEF AdmissionInv, VerdictInv
  <2>5. "fail" \in on => AtFault
    BY <2>3, Zenon DEF AdmissionInv, VerdictInv
  <2>6. /\ admissions # <<>> => evidence
        /\ componentStatus = "active" => "pass" \in on
        /\ exit = 0 => verdict = "pass" /\ (job.dryRun \/ admissions = <<"pass">>)
        /\ exit = exitFailedSuite => verdict = "fail" /\ (job.dryRun \/ admissions = <<"fail">>)
    BY <2>2, Zenon DEF AdmissionInv, RecordInv
  <2> QED
    BY <2>4, <2>5, <2>6, Zenon DEF VerdictEarned, Pinned, AtFault, on
<1> QED
  BY <1>1, AdmissionInvariant, PTL

\* The deferred calls of Runner.Run and Start's own Close: wherever a run ends, it
\* has given back what it had acquired by then.
THEOREM CleansUpHolds == AdmissionSpec => []CleansUp
<1>1. AdmissionInv => CleansUp
  BY Zenon DEF AdmissionInv, HostInv, CleansUp
<1> QED
  BY <1>1, AdmissionInvariant, PTL

=============================================================================
