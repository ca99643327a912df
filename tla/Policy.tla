------------------------------- MODULE Policy -------------------------------
(* The policy engine, src/src/care_agent/policy/engine.py: the pure function   *)
(* decide(state, flags, policy) that is the only originator of actions.        *)
(*                                                                             *)
(* The policy pack is a parameter: the first-hit rule table, the declared      *)
(* boundary inclusivity, the override map and the thresholds are CONSTANTS,    *)
(* so what is proved here holds of every pack.  Module PolicyFile holds the    *)
(* shipped one.  A merchant message is the set of classifier flags that are    *)
(* true; flags = None marks a proactive turn (event, tick or init).            *)
EXTENDS Integers, Sequences

CONSTANTS
  Rules,                    \* the first-hit table, a sequence of rule records
  BoundaryInclusivity,      \* [R3_R4_upper, R5_lower], each "inclusive" or "exclusive"
  OverrideMap,              \* override name -> [suppressed, mode]
  LoopGuardThreshold,       \* identical off-policy pushes before a handoff
  AgentRepetitionThreshold, \* identical non-progressing replies before a handoff
  UnresponsiveAttempts,     \* unanswered notices before a handoff
  None                      \* Python's None

Tiers == {"Gold", "Silver", "Bronze"}

Flags == {"requests_human", "confirms_new_eta", "requests_cancellation",
          "accepts_reassignment", "prefers_to_wait"}

ActionTypes ==
  {"log_only", "notify_confirm_eta", "auto_reassign", "ask_reassign_or_wait",
   "reassign", "notify_reassigned", "acknowledge_wait",
   "resolve_eta_confirmed", "degraded_mode_notice", "clarify", "escalate"}

\* The action a row of the rule table may name.
RuleActions == {"log_only", "notify_confirm_eta", "auto_reassign",
                "ask_reassign_or_wait", "escalate_immediate"}

EscalationModes == {"per_order", "attach_to_incident"}

ReassignActions == {"auto_reassign", "reassign"}

\* The machine-readable reason codes of the engine and of the reducer.
Reasons ==
  {"human_requested", "no_matching_rule", "within_grace", "notify_ask_confirm",
   "eta_confirmed", "merchant_waits", "gold_auto_reassign",
   "merchant_accepts_reassignment", "ask_reassign_or_wait",
   "cancellation_requested", "delay_over_threshold", "ambiguous_intent",
   "loop_guard_tripped", "override_suppressed", "unknown_action",
   "loop_guard_agent_repetition"} \cup
  {"reassigned", "partial_failure", "tool_fail_or_no_captain", "prep_completed",
   "unresponsive", "tool_timeout", "classifier_unavailable"}

(* What the thresholds and the table must satisfy for the engine to be called  *)
(* at all: the loader refuses a pack whose caps are not positive integers or   *)
(* whose rows have another shape.                                              *)
ASSUME PolicyAssumption ==
  /\ Len(Rules) \in Nat /\ DOMAIN Rules = 1 .. Len(Rules)
  /\ \A i \in DOMAIN Rules : /\ Rules[i].lo \in Nat
                             /\ Rules[i].hi \in Nat \/ Rules[i].hi = None
                             /\ Rules[i].tiers \subseteq Tiers
                             /\ Rules[i].action \in RuleActions
  /\ LoopGuardThreshold \in Nat \ {0}
  /\ AgentRepetitionThreshold \in Nat \ {0}
  /\ UnresponsiveAttempts \in Nat \ {0}

\* None is a value of its own.
ASSUME NoneAssumption ==
  /\ \A f \in SUBSET Flags : None # f
  /\ \A a \in ActionTypes \cup Reasons : None # a
  /\ None \notin Nat

-----------------------------------------------------------------------------
(* Matching: delay band, tier, first hit.                                      *)

DelayMatches(rule, delay) ==
  /\ IF rule.id = "R5" /\ BoundaryInclusivity.R5_lower = "exclusive"
       THEN delay > rule.lo
       ELSE delay >= rule.lo
  /\ \/ rule.hi = None
     \/ IF rule.id \in {"R3", "R4"} /\ BoundaryInclusivity.R3_R4_upper = "inclusive"
          THEN delay <= rule.hi
          ELSE delay < rule.hi

Matches(i, tier, delay) ==
  DelayMatches(Rules[i], delay) /\ tier \in Rules[i].tiers

MatchedRule(tier, delay) ==
  IF \E i \in DOMAIN Rules : Matches(i, tier, delay)
    THEN Rules[CHOOSE i \in DOMAIN Rules :
                 /\ Matches(i, tier, delay)
                 /\ \A j \in 1 .. i - 1 : ~ Matches(j, tier, delay)]
    ELSE None

-----------------------------------------------------------------------------
(* Overrides: unknown names are ignored, suppressed rules are unioned, the     *)
(* first known name decides the escalation mode.                               *)

ActiveOverrides(overrides) ==
  SelectSeq(overrides, LAMBDA name : name \in DOMAIN OverrideMap)

SuppressedRules(overrides) ==
  UNION {OverrideMap[overrides[i]].suppressed :
           i \in {k \in DOMAIN overrides : overrides[k] \in DOMAIN OverrideMap}}

EscalationModeFor(overrides) ==
  LET active == ActiveOverrides(overrides)
  IN  IF active = << >> THEN "per_order" ELSE OverrideMap[Head(active)].mode

-----------------------------------------------------------------------------
(* Envelopes: the typed decision.                                              *)

Envelope(action, rule, reason, overrides) ==
  [action |-> action, rule |-> rule, reason |-> reason,
   overrides |-> ActiveOverrides(overrides),
   mode |-> IF action = "escalate" THEN EscalationModeFor(overrides) ELSE None]

Handoff(rule, reason, overrides) == Envelope("escalate", rule, reason, overrides)

\* The mode of an agent-repetition handoff is read off the stalled envelope.
EscalateForRepetition(env) ==
  [action |-> "escalate", rule |-> env.rule,
   reason |-> "loop_guard_agent_repetition",
   overrides |-> env.overrides,
   mode |-> IF env.overrides = << >> THEN "per_order"
            ELSE OverrideMap[Head(env.overrides)].mode]

ClarifyOrLoopGuard(rule, pushes, overrides) ==
  IF pushes >= LoopGuardThreshold
    THEN Handoff(rule, "loop_guard_tripped", overrides)
    ELSE Envelope("clarify", rule, "ambiguous_intent", overrides)

ReactiveR2(rule, flags, pushes, overrides) ==
  IF "requests_cancellation" \in flags
    THEN Handoff(rule, "cancellation_requested", overrides)
  ELSE IF "confirms_new_eta" \in flags
    THEN Envelope("resolve_eta_confirmed", rule, "eta_confirmed", overrides)
  ELSE IF "prefers_to_wait" \in flags
    THEN Envelope("acknowledge_wait", rule, "merchant_waits", overrides)
  ELSE ClarifyOrLoopGuard(rule, pushes, overrides)

\* Consent mutant: a conflicting "reassign, but I'd rather wait" counts as consent.
ReactiveR4NoConflict(rule, flags, pushes, overrides) ==
  IF "requests_cancellation" \in flags
    THEN Handoff(rule, "cancellation_requested", overrides)
  ELSE IF "accepts_reassignment" \in flags
    THEN Envelope("reassign", rule, "merchant_accepts_reassignment", overrides)
  ELSE IF "prefers_to_wait" \in flags
    THEN Envelope("acknowledge_wait", rule, "merchant_waits", overrides)
  ELSE ClarifyOrLoopGuard(rule, pushes, overrides)

ReactiveR4(rule, flags, pushes, overrides) ==
  LET answer == flags \cap {"accepts_reassignment", "prefers_to_wait"}
  IN  IF "requests_cancellation" \in flags
        THEN Handoff(rule, "cancellation_requested", overrides)
      ELSE IF answer = {"accepts_reassignment"}
        THEN Envelope("reassign", rule, "merchant_accepts_reassignment", overrides)
      ELSE IF answer = {"prefers_to_wait"}
        THEN Envelope("acknowledge_wait", rule, "merchant_waits", overrides)
      ELSE ClarifyOrLoopGuard(rule, pushes, overrides)

-----------------------------------------------------------------------------
(* decide.                                                                     *)

Asks(flags, flag) == flags # None /\ flag \in flags

\* An unsuppressed rule branches on its own action.
ApplyRule(rule, flags, pushes, overrides) ==
  CASE rule.action = "log_only" ->
         Envelope("log_only", rule.id, "within_grace", overrides)
    [] rule.action = "escalate_immediate" ->
         Handoff(rule.id, "delay_over_threshold", overrides)
    [] rule.action = "auto_reassign" ->
         IF Asks(flags, "requests_cancellation")
           THEN Handoff(rule.id, "cancellation_requested", overrides)
           ELSE Envelope("auto_reassign", rule.id, "gold_auto_reassign", overrides)
    [] rule.action = "notify_confirm_eta" ->
         IF flags = None
           THEN Envelope("notify_confirm_eta", rule.id, "notify_ask_confirm", overrides)
           ELSE ReactiveR2(rule.id, flags, pushes, overrides)
    [] rule.action = "ask_reassign_or_wait" ->
         IF flags = None
           THEN Envelope("ask_reassign_or_wait", rule.id, "ask_reassign_or_wait", overrides)
           ELSE ReactiveR4(rule.id, flags, pushes, overrides)
    [] OTHER -> Handoff(rule.id, "unknown_action", overrides)

\* Override mutant: a cancellation is answered with the outage notice as well.
ApplyOverrideSwallowsCancellation(rule, flags, overrides) ==
  Envelope("degraded_mode_notice", rule.id, "override_suppressed", overrides)

\* An override silences a rule, except for a cancellation request.
ApplyOverride(rule, flags, overrides) ==
  IF Asks(flags, "requests_cancellation")
    THEN Handoff(rule.id, "cancellation_requested", overrides)
    ELSE Envelope("degraded_mode_notice", rule.id, "override_suppressed", overrides)

\* Outage mutant: the override is consulted for the non-Gold rule only.
DecideGoldIgnoresOutage(tier, delay, overrides, pushes, flags) ==
  LET rule == MatchedRule(tier, delay)
  IN  IF Asks(flags, "requests_human")
        THEN Handoff("R6", "human_requested", overrides)
      ELSE IF rule = None
        THEN Handoff(None, "no_matching_rule", overrides)
      ELSE IF rule.id \in SuppressedRules(overrides) /\ rule.action # "auto_reassign"
        THEN ApplyOverride(rule, flags, overrides)
      ELSE ApplyRule(rule, flags, pushes, overrides)

Decide(tier, delay, overrides, pushes, flags) ==
  LET rule == MatchedRule(tier, delay)
  IN  IF Asks(flags, "requests_human")
        THEN Handoff("R6", "human_requested", overrides)
      ELSE IF rule = None
        THEN Handoff(None, "no_matching_rule", overrides)
      ELSE IF rule.id \in SuppressedRules(overrides)
        THEN ApplyOverride(rule, flags, overrides)
      ELSE ApplyRule(rule, flags, pushes, overrides)

=============================================================================
