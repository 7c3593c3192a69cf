----------------------------- MODULE MCAdmission -----------------------------
(* Admission for TLC: components of every kind of behaviour the suite tells   *)
(* apart, run either way, and jobs with one thing wrong.                      *)
EXTENDS Admission

BenignAnswers ==
  {Answer("allow", "nil", FALSE), Answer("deny", "nil", TRUE),
   Answer("mutate", "rewritten", FALSE), Answer("allow", "input", FALSE),
   Answer("other", "nil", FALSE)}
TriggerAnswers ==
  {Answer("allow", "nil", FALSE), Answer("deny", "nil", TRUE), Answer("deny", "nil", FALSE),
   Answer("mutate", "rewritten", FALSE), Answer("mutate", "input", FALSE),
   Answer("mutate", "nil", FALSE)}

Good == [benign |-> Answer("allow", "nil", FALSE), trigger |-> Answer("deny", "nil", TRUE),
         flaky |-> FALSE, hangs |-> FALSE, emptyFails |-> FALSE]
Unreliable == {[Good EXCEPT !.flaky = f, !.hangs = h, !.emptyFails = e] : f, h, e \in BOOLEAN}
Components ==
  {[Good EXCEPT !.benign = b, !.trigger = t] : b \in BenignAnswers, t \in TriggerAnswers}
  \cup Unreliable

\* Without a trigger in the suite, what a component answers to it does not matter.
Untriggered == {[Good EXCEPT !.benign = b] : b \in BenignAnswers} \cup Unreliable

GoodModule == [valid |-> TRUE, exports |-> {"alloc", "handle"}]
GoodJob == [digest |-> TRUE, port |-> "guardrail", name |-> TRUE, execution |-> "sidecar",
            pinned |-> TRUE, module |-> GoodModule, store |-> "has", benign |-> TRUE,
            trigger |-> TRUE, component |-> Good, dryRun |-> FALSE]

MCJobs ==
  {[GoodJob EXCEPT !.component = c, !.execution = e] :
     c \in Components, e \in {"sidecar", "in_process"}}
  \cup {[GoodJob EXCEPT !.component = c, !.execution = e, !.trigger = FALSE] :
          c \in Untriggered, e \in {"sidecar", "in_process"}}
  \cup {[GoodJob EXCEPT !.digest = FALSE], [GoodJob EXCEPT !.port = "provider"],
        [GoodJob EXCEPT !.benign = FALSE], [GoodJob EXCEPT !.name = FALSE],
        [GoodJob EXCEPT !.pinned = FALSE], [GoodJob EXCEPT !.execution = "remote"],
        [GoodJob EXCEPT !.execution = "", !.dryRun = TRUE]}
  \cup {[GoodJob EXCEPT !.execution = "in_process", !.store = s, !.module = m, !.name = n] :
          s \in {"none", "missing", "altered", "has"}, m \in Module, n \in BOOLEAN}

\* The jobs of a run without surprises: what happens to its report is the question.
GoodJobs == {GoodJob}
=============================================================================
