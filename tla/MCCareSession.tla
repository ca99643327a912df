--------------------------- MODULE MCCareSession ----------------------------
(* Values of CareSession's constants for TLC, over the shipped policy pack.    *)
EXTENDS CareSession, PolicyFile

\* One of each band, on the edges where two rules meet.
EdgeDelays == {9, 10, 20, 40, 41}

\* A negative payload is clamped, a missing one changes nothing.
EdgeEtas == {-5, 10, 20, 40, 41, None}

NoOverrideOrOutage == {<< >>, <<"active_outage">>}

\* Human request, cancellation, consent, refusal, conflict, confirmation, silence.
KeyIntents ==
  { {"requests_human"}, {"requests_cancellation"}, {"accepts_reassignment"},
    {"prefers_to_wait"}, {"accepts_reassignment", "prefers_to_wait"},
    {"confirms_new_eta"}, {} }

AllIntents == SUBSET Flags

\* The two bands in which a conversation with the merchant takes place.
TalkDelays == {10, 20}

\* The shipped pack is one the theorems with a hypothesis on the pack speak of.
ASSUME ShippedPackFits ==
  ReassignmentRulesAreKnown /\ OnlyGoldIsAutomatic /\ ImmediateRulesPrevail
=============================================================================
