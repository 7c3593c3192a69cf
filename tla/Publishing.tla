----------------------------- MODULE Publishing -----------------------------
(***************************************************************************)
(* How a change of configuration reaches a worker: the control plane's     *)
(* services write rows (service/keys.py, service/provisioning.py,          *)
(* service/accounting.py), each poll of the worker's subscriber            *)
(* (dataplane/internal/snapshot/subscriber.go) has the API compile a       *)
(* snapshot from them (api/app.py, db/repository.py, snapshot/builder.py), *)
(* and the Holder takes it if no layer's version moves backwards.          *)
(*                                                                         *)
(* Transactions run at the database's default isolation, READ COMMITTED:   *)
(* every SELECT sees what is committed when it runs.  A service reads the  *)
(* rows it needs and writes when it commits; the row lock an UPDATE holds  *)
(* until then delays other writers and no reader, so an update and its     *)
(* commit are one step.  ORM objects carry the values they were read with: *)
(* `tenant.version += 1' writes the version that was read, plus one.       *)
(*                                                                         *)
(* A layer is the tenant's version and the status of its keys.  Of the     *)
(* catalog (deployments, aliases, components) only one thing matters to    *)
(* the rest: whether the builder accepts it.  The fleet's own version is a *)
(* row nothing writes.                                                     *)
(***************************************************************************)
EXTENDS Integers, FiniteSets

CONSTANTS Tenants, Keys,
          Owner,        \* Owner[k]: the tenant of key k
          Issued,       \* the keys that exist at first
          Sessions,     \* concurrent sessions of the admin API
          MaxVersion    \* bound: the version at which nothing more is changed,
                        \* every open session counted as a change to come

ASSUME PublishingAssumption ==
  /\ Owner \in [Keys -> Tenants]
  /\ Issued \subseteq Keys
  /\ MaxVersion \in Nat \ {0}

VARIABLES version,      \* version[t]: tenants.version, committed
          status,       \* status[k]: "absent", "active" or "revoked"; a rotated
                        \* key stays active, its expiry is for the worker's clock
          coherent,     \* whether the catalog passes builder._validate
          session,      \* session[c]: an admin request and what it has read
          poll,         \* the poll in progress and what its build has read
          held,         \* the snapshot the worker serves
          high,         \* high[t]: history, the highest version t ever had
          since         \* since[k]: history, the version k's revocation took
                        \* its tenant to, if t never had it before, else 0

db == <<version, status, coherent>>
ghosts == <<high, since>>
publishingVars == <<db, session, poll, held, ghosts>>

Closed == [op |-> "none", key |-> CHOOSE k \in Keys : TRUE,
           successor |-> CHOOSE k \in Keys : TRUE,
           tenant |-> CHOOSE t \in Tenants : TRUE, version |-> 0]

Waiting == [pc |-> "waiting", coherent |-> FALSE,
            version |-> [t \in Tenants |-> 0], keys |-> {}, todo |-> {}]

\* The worker bootstraps from a snapshot of the configuration.
PublishingInit ==
  /\ version = [t \in Tenants |-> 1]
  /\ status = [k \in Keys |-> IF k \in Issued THEN "active" ELSE "absent"]
  /\ coherent = TRUE
  /\ session = [c \in Sessions |-> Closed]
  /\ poll = Waiting
  /\ held = [version |-> version, keys |-> Issued]
  /\ high = version
  /\ since = [k \in Keys |-> 0]

-----------------------------------------------------------------------------
(* The admin API *)

ReadKey(c, op, k, successor, t) ==
  /\ session[c] = Closed
  /\ version[t] + Cardinality({d \in Sessions : session[d] # Closed}) < MaxVersion
  /\ session' = [session EXCEPT ![c] =
       [op |-> op, key |-> k, successor |-> successor, tenant |-> t, version |-> 0]]
  /\ UNCHANGED <<db, poll, held, ghosts>>

\* revoke: a key that is gone is not found, one that is revoked stays so.
RevokeReads(c, k) == status[k] = "active" /\ ReadKey(c, "revoke", k, k, Owner[k])

\* rotate: the successor's id must be free, in the same tenant.
RotateReads(c, k, s) ==
  /\ status[k] = "active"
  /\ status[s] = "absent" /\ Owner[s] = Owner[k]
  /\ ReadKey(c, "rotate", k, s, Owner[k])

\* issue reads the tenant first; an id that is free later was free before.
IssueReads(c, k) == status[k] = "absent" /\ ReadKey(c, "issue", k, k, Owner[k])

\* ensure_tenant and ensure_budget of a tenant that exists.
ConfigureReads(c, t) == ReadKey(c, "configure", Closed.key, Closed.key, t)

\* session.get(Tenant): the version the service will add one to.
ReadTenant(c) ==
  /\ session[c].op # "none"
  /\ session[c].version = 0
  /\ version[session[c].tenant] < MaxVersion
  /\ session' = [session EXCEPT ![c].version = version[session[c].tenant]]
  /\ UNCHANGED <<db, poll, held, ghosts>>

\* Mutant of Written: a rotation writes the whole row of the key it read.
WrittenWhole(s, old) ==
  CASE s.op = "revoke" -> [old EXCEPT ![s.key] = "revoked"]
    [] s.op = "issue"  -> [old EXCEPT ![s.key] = "active"]
    [] s.op = "rotate" -> [old EXCEPT ![s.key] = "active", ![s.successor] = "active"]
    [] OTHER -> old

\* Only the columns a service assigned are written: rotate's deprecated and
\* not_after do not undo a revocation committed since it read the key.
Written(s, old) ==
  CASE s.op = "revoke" -> [old EXCEPT ![s.key] = "revoked"]
    [] s.op = "issue"  -> [old EXCEPT ![s.key] = "active"]
    [] s.op = "rotate" -> [old EXCEPT ![s.successor] = "active"]
    [] OTHER -> old

\* The primary key refuses a second row with the id of a new key.
Inserts(s) == CASE s.op = "issue"  -> {s.key}
                [] s.op = "rotate" -> {s.successor}
                [] OTHER -> {}

Raise(t) == high' = [high EXCEPT ![t] = IF version'[t] > @ THEN version'[t] ELSE @]

\* flush and commit: the rows, and the version that was read plus one.
CommitSession(c) ==
  /\ session[c].version > 0
  /\ \A k \in Inserts(session[c]) : status[k] = "absent"
  /\ status' = Written(session[c], status)
  /\ version' = [version EXCEPT ![session[c].tenant] = session[c].version + 1]
  /\ since' = [k \in Keys |->
       IF k = session[c].key /\ session[c].op = "revoke" /\ status[k] # "revoked"
            /\ version'[Owner[k]] > high[Owner[k]]
       THEN version'[Owner[k]] ELSE since[k]]
  /\ Raise(session[c].tenant)
  /\ session' = [session EXCEPT ![c] = Closed]
  /\ UNCHANGED <<coherent, poll, held>>

\* The primary key refuses the insert, and the transaction is rolled back.  A
\* dry run, or a request that dies, is a session that goes no further.
Refused(c) ==
  /\ \E k \in Inserts(session[c]) : status[k] # "absent"
  /\ session' = [session EXCEPT ![c] = Closed]
  /\ UNCHANGED <<db, poll, held, ghosts>>

\* ensure_deployment, remove_deployment and ensure_alias check nothing of one
\* another and move no version: a removal can leave an alias without a
\* deployment, an alias can be given a target without one, and either can be put
\* right again.
Provision ==
  /\ coherent' = ~coherent
  /\ UNCHANGED <<version, status, session, poll, held, ghosts>>

(* The accounting consumer: UPDATE tenants SET version = version + 1 *)
BumpVersion(t) ==
  /\ version[t] < MaxVersion
  /\ version' = [version EXCEPT ![t] = @ + 1]
  /\ Raise(t)
  /\ UNCHANGED <<status, coherent, session, poll, held, since>>

-----------------------------------------------------------------------------
(* A poll: GET /v1/snapshots/current, then Holder.Swap *)

\* load_fleet.  Its SELECTs may straddle changes of the catalog and so read one
\* that never was; if the builder refuses it, that is KeepHeld's business.
LoadFleet ==
  /\ poll.pc = "waiting"
  /\ poll' = [poll EXCEPT !.pc = "tenants", !.coherent = coherent]
  /\ UNCHANGED <<db, session, held, ghosts>>

\* load_tenants selects every tenant's row.  load_tenant asks the session for it
\* again, which answers from its identity map.
LoadTenants ==
  /\ poll.pc = "tenants"
  /\ poll' = [poll EXCEPT !.pc = "keys", !.version = version, !.todo = Tenants]
  /\ UNCHANGED <<db, session, held, ghosts>>

\* load_tenant: the keys that are not revoked.
LoadKeys(t) ==
  /\ poll.pc = "keys"
  /\ t \in poll.todo
  /\ poll' = [poll EXCEPT !.keys = @ \cup {k \in Keys : Owner[k] = t /\ status[k] = "active"},
                          !.todo = @ \ {t}]
  /\ UNCHANGED <<db, session, held, ghosts>>

Monotonic(old, new) == \A t \in Tenants : new.version[t] >= old.version[t]

\* Mutant of Compiled: the version is read again, after the keys.
CompiledLate == [version |-> version, keys |-> poll.keys]

\* build_snapshot of what was read.
Compiled == [version |-> poll.version, keys |-> poll.keys]

Built == poll.pc = "keys" /\ poll.todo = {}

\* Mutant of Apply: a snapshot is taken only if every layer has moved forward.
ApplyNewer ==
  /\ Built
  /\ poll.coherent
  /\ \A t \in Tenants : Compiled.version[t] > held.version[t]
  /\ held' = Compiled
  /\ poll' = Waiting
  /\ UNCHANGED <<db, session, ghosts>>

\* The snapshot is valid, arrives, and the Holder takes it.
Apply ==
  /\ Built
  /\ poll.coherent
  /\ Monotonic(held, Compiled)
  /\ held' = Compiled
  /\ poll' = Waiting
  /\ UNCHANGED <<db, session, ghosts>>

\* The build is refused or the response is lost (Refresh counts it as failed),
\* or the Holder rejects the snapshot.  The worker keeps what it has and polls
\* again.
KeepHeld ==
  /\ Built
  /\ poll' = Waiting
  /\ UNCHANGED <<db, session, held, ghosts>>

PollStep ==
  \/ LoadFleet
  \/ LoadTenants
  \/ \E t \in Tenants : LoadKeys(t)
  \/ Apply
  \/ KeepHeld

AdminStep(c) ==
  \/ \E k \in Keys : RevokeReads(c, k) \/ IssueReads(c, k)
  \/ \E k, s \in Keys : RotateReads(c, k, s)
  \/ \E t \in Tenants : ConfigureReads(c, t)
  \/ ReadTenant(c)
  \/ CommitSession(c)
  \/ Refused(c)

PublishingNext ==
  \/ \E c \in Sessions : AdminStep(c)
  \/ Provision
  \/ \E t \in Tenants : BumpVersion(t)
  \/ PollStep

PublishingSafety == PublishingInit /\ [][PublishingNext]_publishingVars

(***************************************************************************)
(* The subscriber polls for ever, whatever a poll ends in (run's `keep     *)
(* going'), and the control plane is not unreachable for ever: a response  *)
(* that could be applied again and again is applied.  Nothing is assumed   *)
(* of the administrators and of accounting.                                *)
(***************************************************************************)
PublishingFairness == WF_publishingVars(PollStep) /\ SF_publishingVars(Apply)

-----------------------------------------------------------------------------
(* Properties *)

\* A snapshot's layers are at least as new as their versions say: a worker that
\* has a version a revocation took its tenant to does not serve the key.  So
\* load_tenants must read the version before the keys, whatever is committed
\* between its statements.
ContentCoversVersion ==
  \A k \in Keys :
    since[k] > 0 /\ held.version[Owner[k]] >= since[k] => k \notin held.keys

\* A key that is revoked, and that neither the worker nor a build in progress
\* has, is never served again: no rotation or late commit brings it back (Swap's
\* comment: a stale snapshot `silently reinstates deleted keys').
RevokedStaysOut ==
  [][\A k \in Keys :
       status[k] = "revoked" /\ k \notin held.keys \cup poll.keys
         => status'[k] = "revoked" /\ k \notin held'.keys \cup poll'.keys]_publishingVars

\* Administrators leave the catalog in a state that compiles in the end.
CatalogSettles == <>[]coherent

Taken == []<>(\A k \in Keys : status[k] = "revoked" => k \notin held.keys)

\* A committed revocation takes effect in the worker, through lost responses and
\* builds torn by other commits, provided that the catalog settles and that the
\* worker's versions do not stay ahead of the database's.
RevocationReachesWorkers ==
  CatalogSettles /\ <>[](\A t \in Tenants : held.version[t] <= version[t]) => Taken

\* KeyService.revoke: `Stop a key working at the next snapshot.'  The same with
\* nothing assumed of versions: the column comment of tenants.version has it
\* incremented `whenever anything in this tenant's layer changes'.
RevocationTakesEffect == CatalogSettles => Taken

=============================================================================
