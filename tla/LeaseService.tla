---------------------------- MODULE LeaseService ----------------------------
(***************************************************************************)
(* What the snapshot Holder promises a worker, without reference counts:   *)
(* a request borrows a generation that has not been retired, keeps it for  *)
(* as long as it wants, and a generation is retired only when it is        *)
(* neither borrowed nor kept by the Holder for serving or for rollback.    *)
(***************************************************************************)
CONSTANTS Gens, Workers, NoGen

VARIABLES live,    \* generations installed and not retired
          gone,    \* generations retired
          kept,    \* the generations the Holder keeps: current and previous
          lease    \* lease[p]: the generation p has borrowed, or NoGen

lvars == <<live, gone, kept, lease>>

LInit ==
  /\ \E g \in Gens : live = {g} /\ kept = {g}
  /\ gone = {}
  /\ lease = [p \in Workers |-> NoGen]

Borrow(p) ==
  /\ lease[p] = NoGen
  /\ \E g \in live : lease' = [lease EXCEPT ![p] = g]
  /\ UNCHANGED <<live, gone, kept>>

Return(p) ==
  /\ lease[p] # NoGen
  /\ lease' = [lease EXCEPT ![p] = NoGen]
  /\ UNCHANGED <<live, gone, kept>>

\* A swap or a rollback changes which generations are kept; a retired one
\* cannot come back.
Keep(K) ==
  /\ K # {}
  /\ K \cap gone = {}
  /\ kept' = K
  /\ live' = live \cup K
  /\ UNCHANGED <<gone, lease>>

RetireGen(g) ==
  /\ g \in live
  /\ g \notin kept
  /\ \A p \in Workers : lease[p] # g
  /\ live' = live \ {g}
  /\ gone' = gone \cup {g}
  /\ UNCHANGED <<kept, lease>>

LNext ==
  \/ \E p \in Workers : Borrow(p) \/ Return(p)
  \/ \E K \in SUBSET Gens : Keep(K)
  \/ \E g \in Gens : RetireGen(g)

LSpec == LInit /\ [][LNext]_lvars

=============================================================================
