----------------------------- MODULE MCEvalRun ------------------------------
(* Values of EvalRun's constants for TLC: the shipped suite over the shipped   *)
(* policy pack, and every message a classifier may report.                     *)
EXTENDS EvalRun, ScenarioSuite, PolicyFile

SuiteTiers == {s.tier : s \in ShippedScenarios}
SuiteDelays == {s.delay : s \in ShippedScenarios}
SuiteOverrides == {s.overrides : s \in ShippedScenarios}
SuiteEvents ==
  UNION {{s.events[i].event : i \in DOMAIN s.events} : s \in ShippedScenarios}

AllIntents == SUBSET Flags

\* The shipped suite is one the theorems with a hypothesis on the suite speak of.
ASSUME ShippedSuiteFits == GenerationScriptsTalk /\ SuiteIsJustified
=============================================================================
