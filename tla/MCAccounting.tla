---------------------------- MODULE MCAccounting ----------------------------
(* Accounting for TLC: two replicas; entries 1 and 2 charge two budgets in *)
(* opposite orders, and entry 3 repeats the request of entry 1 and names a *)
(* budget that is gone and one of another tenant.  The stream keeps two    *)
(* entries, so entry 1 may be trimmed before or after it was read.         *)
EXTENDS Accounting

CONSTANTS p1, p2, n1, n2, b1, b2, b3, gone, r1, r2, r3, acme, globex

MCEntries == 1 .. 3
MCRequestOf == <<r1, r2, r1>>
MCTenantOf == <<acme, acme, acme>>
MCBudgetsOf == <<(<<b1, b2>>), (<<b2, b1>>), (<<gone, b3, b1>>)>>
MCBudgetTenant == [b \in {b1, b2, b3} |-> IF b = b3 THEN globex ELSE acme]

\* One replica, and three requests that charge one budget.
OneEach == <<r1, r2, r3>>
OneBudget == <<(<<b1>>), (<<b1>>), (<<b1>>)>>

AccountingSpec ==
  /\ AccountingInit /\ [][AccountingNext]_accountingVars
  /\ AccountingFairness
=============================================================================
