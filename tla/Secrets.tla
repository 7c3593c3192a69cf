------------------------------- MODULE Secrets -------------------------------
(***************************************************************************)
(* Credentials on a worker (dataplane/internal/secrets/secrets.go): a TTL  *)
(* cache in front of a store, filled outside its lock, while credentials   *)
(* are rotated in the store.                                               *)
(*                                                                         *)
(* A secret is the number of rotations before it; time is in ticks.        *)
(***************************************************************************)
EXTENDS Naturals

CONSTANTS Resolvers,      \* requests that resolve a credential
          Refs,           \* references, NoRef among them
          TTL,            \* Resolver.ttl
          MaxFetch,       \* ticks a request lives, and so a fetch of it
          MaxRotations,   \* bound on the rotations of a reference
          MaxTime         \* bound on the clock

\* NewResolver refuses a TTL that is not positive.
ASSUME SecretsAssumption ==
  TTL \in Nat \ {0} /\ MaxFetch \in Nat /\ MaxRotations \in Nat /\ MaxTime \in Nat

VARIABLES now,
          stored,       \* stored[f]: the secret the store has for f
          rotatedAt,    \* history: rotatedAt[f][v] is when v went
          straddled,    \* history: straddled[f] are the secrets that a fetch had read
                        \* and not yet cached when they went
          cached, resolver

secretVars == <<now, stored, rotatedAt, straddled, cached, resolver>>

NoRef == ""                    \* what needs no credential
Missing == [found |-> FALSE]

SecretsInit ==
  /\ now = 0
  /\ stored = [f \in Refs |-> 0]
  /\ rotatedAt = [f \in Refs |-> <<>>]
  /\ straddled = [f \in Refs |-> {}]
  /\ cached = [f \in Refs |-> Missing]
  /\ resolver = [r \in Resolvers |-> [pc |-> "idle"]]

\* Mutant of lookup: an entry is good until something else evicts it.
LookupForever(f) == cached[f].found

lookup(f) == cached[f].found /\ now < cached[f].expiresAt

\* What Resolve returns to the request, at which time.
Return(r, f, secret) ==
  resolver' = [resolver EXCEPT ![r] = [pc |-> "done", ref |-> f, secret |-> secret, at |-> now]]

\* Resolve: no reference, a cached secret, or a fetch.
Resolve(r, f) ==
  /\ resolver[r].pc = "idle"
  /\ IF f # NoRef /\ ~lookup(f)
     THEN resolver' = [resolver EXCEPT ![r] = [pc |-> "fetching", ref |-> f, since |-> now]]
     ELSE Return(r, f, IF f = NoRef THEN 0 ELSE cached[f].secret)
  /\ UNCHANGED <<now, stored, rotatedAt, straddled, cached>>

\* The store answers, or fails, or has no such secret: nothing is cached then.
Fetched(r) ==
  /\ resolver[r].pc = "fetching"
  /\ \/ resolver' = [resolver EXCEPT ![r] =
          [pc |-> "storing", ref |-> @.ref, since |-> @.since, secret |-> stored[@.ref]]]
     \/ resolver' = [resolver EXCEPT ![r] = [pc |-> "idle"]]
  /\ UNCHANGED <<now, stored, rotatedAt, straddled, cached>>

\* The answer is cached, over whatever another fetch has cached since.
StoreSecret(r) ==
  /\ resolver[r].pc = "storing"
  /\ cached' = [cached EXCEPT ![resolver[r].ref] =
       [found |-> TRUE, secret |-> resolver[r].secret, expiresAt |-> now + TTL]]
  /\ Return(r, resolver[r].ref, resolver[r].secret)
  /\ UNCHANGED <<now, stored, rotatedAt, straddled>>

\* The request has used the credential; the next one comes.
Used(r) ==
  /\ resolver[r].pc = "done"
  /\ resolver' = [resolver EXCEPT ![r] = [pc |-> "idle"]]
  /\ UNCHANGED <<now, stored, rotatedAt, straddled, cached>>

\* Invalidate, and InvalidateAll for every reference.
Invalidate(refs) ==
  /\ cached' = [f \in Refs |-> IF f \in refs THEN Missing ELSE cached[f]]
  /\ UNCHANGED <<now, stored, rotatedAt, straddled, resolver>>

\* A fetch of f has the store's answer and has not cached it.
Straddles(f) ==
  \E r \in Resolvers :
    resolver[r].pc = "storing" /\ resolver[r].ref = f /\ resolver[r].secret = stored[f]

Rotate(f) ==
  /\ f # NoRef
  /\ stored[f] < MaxRotations
  /\ stored' = [stored EXCEPT ![f] = @ + 1]
  /\ rotatedAt' = [rotatedAt EXCEPT ![f] = [v \in 0 .. stored[f] |->
                     IF v = stored[f] THEN now ELSE rotatedAt[f][v]]]
  /\ straddled' = [straddled EXCEPT ![f] = IF Straddles(f) THEN @ \cup {stored[f]} ELSE @]
  /\ UNCHANGED <<now, cached, resolver>>

\* A request whose time is up has given up its fetch.
Tick ==
  /\ now < MaxTime
  /\ \A r \in Resolvers : resolver[r].pc \in {"fetching", "storing"} =>
       now < resolver[r].since + MaxFetch
  /\ \A r \in Resolvers : resolver[r].pc # "done"
  /\ now' = now + 1
  /\ UNCHANGED <<stored, rotatedAt, straddled, cached, resolver>>

SecretsNext ==
  \/ \E r \in Resolvers :
       (\E f \in Refs : Resolve(r, f)) \/ Fetched(r) \/ StoreSecret(r) \/ Used(r)
  \/ \E f \in Refs : Rotate(f) \/ Invalidate({f})
  \/ Invalidate(Refs)
  \/ Tick

SecretsSafety == SecretsInit /\ [][SecretsNext]_secretVars

\* From when no request may be given secret v of f: a TTL after its rotation, and
\* the length of a fetch later if one had read v and was yet to cache it.
GoneBy(f, v) == rotatedAt[f][v] + TTL + IF v \in straddled[f] THEN MaxFetch ELSE 0

\* A rotated secret takes effect within one TTL (secrets.go:55-56), but for a fetch
\* that read the old secret and caches it after the rotation, over what a faster
\* fetch has cached (Resolve fetches outside the lock, and counts the lifetime from
\* when the fetch returns): then within one TTL and that fetch.
CredentialIsRecent ==
  \A r \in Resolvers : resolver[r].pc = "done" =>
    LET f == resolver[r].ref
        v == resolver[r].secret
    IN  f # NoRef /\ v < stored[f] => resolver[r].at < GoneBy(f, v)
=============================================================================
