---------------------------- MODULE MCControlPlane ----------------------------
(***************************************************************************)
(* The control plane's processes: the accounting consumer, the audit       *)
(* consumer, the admin API with the polls that publish what it writes, the *)
(* admission of components and the fine-tune reconciler.  They share no    *)
(* state here, so one run explores the sum of their state spaces: part     *)
(* says which of them moves.                                               *)
(***************************************************************************)
EXTENDS MCAccounting, MCPublishing, MCAdmission, MCFineTune, AuditChain

CONSTANTS e1, e2

VARIABLE part

\* Two decisions, one of them emitted twice, and a payload that does not parse.
MCDecisions == <<e1, Unparseable, e1, e2>>

MCInit ==
  /\ part \in {"accounting", "audit", "publishing", "admission", "finetune"}
  /\ IF part = "accounting" THEN malformed \in {{}, {2}, {1, 3}}
     ELSE malformed = {} /\ name = [p \in Processes |-> n1]
  /\ IF part = "admission" THEN TRUE ELSE job = GoodJob
  /\ AccountingInit /\ AuditInit /\ PublishingInit /\ AdmissionInit /\ JobInit
  /\ name[p1] = n1        \* the names are interchangeable

MCNext ==
  /\ part' = part
  /\ \/ part = "accounting" /\ AccountingNext
     \/ part = "audit" /\ AuditNext
     \/ part = "publishing" /\ PublishingNext
     \/ part = "admission" /\ AdmissionNext
     \/ part = "finetune" /\ JobNext
  /\ part # "accounting" => UNCHANGED accountingVars
  /\ part # "audit" => UNCHANGED auditVars
  /\ part # "publishing" => UNCHANGED publishingVars
  /\ part # "admission" => UNCHANGED admissionVars
  /\ part # "finetune" => UNCHANGED jobVars

\* The fairness of each part, for the part that moves.
MCFairness ==
  /\ \A p \in Processes : WF_accountingVars(part = "accounting" /\ Step(p))
  /\ WF_accountingVars(part = "accounting" /\ \E p \in Processes : Abort(p))
  /\ WF_publishingVars(part = "publishing" /\ PollStep)
  /\ SF_publishingVars(part = "publishing" /\ Apply)
  /\ \A r \in Reconcilers : WF_jobVars(part = "finetune" /\ ReconcilerStep(r))
  /\ WF_jobVars(part = "finetune" /\ RunEnds)

MCSpec ==
  /\ MCInit
  /\ [][MCNext]_<<part, accountingVars, auditVars, publishingVars, admissionVars, jobVars>>
  /\ MCFairness
=============================================================================
