------------------------- MODULE CareSession_proofs -------------------------
(* What holds of a session for every policy pack, every set of messages and    *)
(* events and every bound: the record is consistent, a handoff opens exactly   *)
(* one ticket, in the mode the overrides ask for, and an awaited dispatch is   *)
(* always one policy permits.                                                  *)
EXTENDS CareSession, WellFoundedInduction, TLAPS

-----------------------------------------------------------------------------
(* The policy engine: every decision is a well-formed envelope.                *)

EnvelopeOK(env, o) ==
  /\ env.action \in ActionTypes
  /\ env.reason \in Reasons
  /\ env = Envelope(env.action, env.rule, env.reason, o)

\* An envelope built from a known action and reason is well formed.
LEMMA EnvelopeFields ==
  ASSUME NEW a \in ActionTypes, NEW rule, NEW r \in Reasons, NEW o
  PROVE  /\ EnvelopeOK(Envelope(a, rule, r, o), o)
         /\ Envelope(a, rule, r, o).action = a
  BY DEF EnvelopeOK, Envelope

\* A handoff is a well-formed envelope that escalates.
LEMMA HandoffFields ==
  ASSUME NEW rule, NEW r \in Reasons, NEW o
  PROVE  /\ EnvelopeOK(Handoff(rule, r, o), o)
         /\ Handoff(rule, r, o).action = "escalate"
  <1>1. "escalate" \in ActionTypes
    BY DEF ActionTypes
  <1> QED
    BY <1>1, EnvelopeFields DEF Handoff

\* decide returns a well-formed envelope, whatever the table, the order and the flags.
LEMMA DecideOK ==
  ASSUME NEW t, NEW d, NEW o, NEW p, NEW f
  PROVE  EnvelopeOK(Decide(t, d, o, p, f), o)
  <1> DEFINE rule == MatchedRule(t, d)
  <1>1. \A id : /\ \A a \in ActionTypes, r \in Reasons : EnvelopeOK(Envelope(a, id, r, o), o)
                /\ \A r \in Reasons : EnvelopeOK(Handoff(id, r, o), o)
    BY EnvelopeFields, HandoffFields
  <1>2. ASSUME NEW id PROVE EnvelopeOK(ClarifyOrLoopGuard(id, p, o), o)
    BY <1>1 DEF ClarifyOrLoopGuard, ActionTypes, Reasons
  <1>3. ASSUME NEW id
        PROVE  EnvelopeOK(ReactiveR2(id, f, p, o), o) /\ EnvelopeOK(ReactiveR4(id, f, p, o), o)
    BY <1>1, <1>2 DEF ReactiveR2, ReactiveR4, ActionTypes, Reasons
  <1>4. EnvelopeOK(ApplyRule(rule, f, p, o), o)
    BY <1>1, <1>3 DEF ApplyRule, ActionTypes, Reasons
  <1>5. EnvelopeOK(ApplyOverride(rule, f, o), o)
    BY <1>1 DEF ApplyOverride, ActionTypes, Reasons
  <1> QED
    BY <1>1, <1>4, <1>5 DEF Decide, Reasons

\* The repetition guard turns a decision into a well-formed handoff.
LEMMA RepetitionOK ==
  ASSUME NEW o, NEW env, EnvelopeOK(env, o)
  PROVE  /\ EnvelopeOK(EscalateForRepetition(env), o)
         /\ EscalateForRepetition(env).action = "escalate"
  <1> DEFINE out == EscalateForRepetition(env)
  <1>1. /\ env.overrides = ActiveOverrides(o)
        /\ out.action = "escalate" /\ out.reason = "loop_guard_agent_repetition"
    BY DEF EnvelopeOK, Envelope, EscalateForRepetition
  <1>2. out = Envelope("escalate", out.rule, "loop_guard_agent_repetition", o)
    BY <1>1 DEF EscalateForRepetition, Envelope, EscalationModeFor
  <1> QED
    BY <1>1, <1>2 DEF EnvelopeOK, ActionTypes, Reasons

\* Without a message the merchant's pushes play no part in the decision.
LEMMA DecideProactive ==
  ASSUME NEW t, NEW d, NEW o, NEW p, NEW q
  PROVE  Decide(t, d, o, p, None) = Decide(t, d, o, q, None)
  BY DEF Decide, ApplyRule, ApplyOverride, Asks

\* A message that makes the engine reassign is about an order it may reassign
\* without one: consent never widens what policy permits.
LEMMA DecidePermits ==
  ASSUME NEW t, NEW d, NEW o, NEW p, NEW q, NEW f,
         Decide(t, d, o, p, f).action \in ReassignActions
  PROVE  Decide(t, d, o, q, None).action \in ReassignPremiseActions
  <1> DEFINE rule == MatchedRule(t, d)
  <1>1. \A id, r : Handoff(id, r, o).action \notin ReassignActions
    BY DEF Handoff, Envelope, ReassignActions
  <1>2. \A a, id, r : Envelope(a, id, r, o).action = a
    BY DEF Envelope
  <1>3. ApplyOverride(rule, f, o).action \notin ReassignActions
    BY <1>1, <1>2 DEF ApplyOverride, ReassignActions
  <1>4. /\ rule # None
        /\ rule.id \notin SuppressedRules(o)
        /\ ApplyRule(rule, f, p, o).action \in ReassignActions
    BY <1>1, <1>3 DEF Decide
  <1>5. \A id : /\ ClarifyOrLoopGuard(id, p, o).action \notin ReassignActions
                /\ ReactiveR2(id, f, p, o).action \notin ReassignActions
    BY <1>1, <1>2 DEF ClarifyOrLoopGuard, ReactiveR2, ReassignActions
  <1>6. rule.action \in {"auto_reassign", "ask_reassign_or_wait"}
    BY <1>1, <1>2, <1>4, <1>5 DEF ApplyRule, ReassignActions
  <1>7. Decide(t, d, o, q, None) = ApplyRule(rule, None, q, o)
    BY <1>4 DEF Decide, Asks
  <1> QED
    BY <1>2, <1>6, <1>7 DEF ApplyRule, Asks, ReassignPremiseActions, ReassignActions

-----------------------------------------------------------------------------
(* Effects: what a routed decision asks to be run agrees with where it leaves  *)
(* the record.                                                                 *)

\* What a single effect emits.
LEMMA EmitsOne ==
  ASSUME NEW kind, NEW x
  PROVE  Emits(kind, << x >>) <=> x.kind = kind
  BY DEF Emits

\* What a pair of effects emits.
LEMMA EmitsTwo ==
  ASSUME NEW kind, NEW x, NEW y
  PROVE  Emits(kind, << x, y >>) <=> x.kind = kind \/ y.kind = kind
  BY DEF Emits

\* The ticket of a lone escalation is that escalation's.
LEMMA TicketOfOne ==
  ASSUME NEW reason, NEW mode
  PROVE  TicketOf(<< Escalation(reason, mode) >>) = [reason |-> reason, mode |-> mode]
  <1> DEFINE fx == << Escalation(reason, mode) >>
  <1>1. fx[1] = [kind |-> "escalate", reason |-> reason, mode |-> mode] /\ DOMAIN fx = {1}
    BY DEF Escalation
  <1> HIDE DEF fx
  <1>2. (CHOOSE i \in DOMAIN fx : fx[i].kind = "escalate") = 1
    BY <1>1
  <1>3. TicketOf(fx) = [reason |-> fx[1].reason, mode |-> fx[1].mode]
    BY <1>2 DEF TicketOf
  <1> QED
    BY <1>1, <1>3 DEF fx

\* Routing any decision of the engine: state, dispatch, reason and effects agree.
LEMMA RoutedOK ==
  ASSUME NEW o, NEW env, NEW e \in Nat, EnvelopeOK(env, o)
  PROVE  LET state == RoutedFsm(env.action)
             fx    == RoutedEffects(env, e)
         IN  /\ state \in FsmStates
             /\ RoutedPending(env, e) \in Nat \cup {None}
             /\ RoutedReason(env) \in Reasons \cup {None}
             /\ Decision(env).action \in ActionTypes
             /\ (RoutedPending(env, e) # None) <=> (state = "AWAITING_TOOL_RESULT")
             /\ (RoutedReason(env) # None) <=> (state \in TerminalStates)
             /\ state = "AWAITING_TOOL_RESULT" <=> env.action \in ReassignActions
             /\ Emits("call_tool_chain", fx) <=> state = "AWAITING_TOOL_RESULT"
             /\ Emits("escalate", fx) <=> state = "ESCALATED"
             /\ state = "ESCALATED" =>
                  TicketOf(fx) = [reason |-> RoutedReason(env), mode |-> EscalationModeFor(o)]
  <1> DEFINE state == RoutedFsm(env.action)
             fx    == RoutedEffects(env, e)
  <1> USE DEF EnvelopeOK, ReassignActions
  <1>1. /\ state \in FsmStates
        /\ state = "AWAITING_TOOL_RESULT" <=> env.action \in ReassignActions
        /\ state = "ESCALATED" <=> env.action = "escalate"
    BY DEF RoutedFsm, FsmStates
  <1>2. /\ RoutedPending(env, e) \in Nat \cup {None}
        /\ (RoutedPending(env, e) # None) <=> (state = "AWAITING_TOOL_RESULT")
    BY <1>1, NoneAssumption DEF RoutedPending
  <1>3. /\ RoutedReason(env) \in Reasons \cup {None}
        /\ (RoutedReason(env) # None) <=> (state \in TerminalStates)
    BY NoneAssumption DEF RoutedReason
  <1>4. Decision(env).action \in ActionTypes
    BY DEF Decision
  <1>5. /\ Emits("call_tool_chain", fx) <=> env.action \in ReassignActions
        /\ Emits("escalate", fx) <=> env.action = "escalate"
    BY EmitsOne, EmitsTwo
    DEF RoutedEffects, Log, Send, CallToolChain, Escalation, Resolution
  <1>6. ASSUME env.action = "escalate"
        PROVE  TicketOf(fx) = [reason |-> RoutedReason(env), mode |-> EscalationModeFor(o)]
    <2>1. /\ fx = << Escalation(env.reason, env.mode) >>
          /\ RoutedReason(env) = env.reason
      BY <1>6 DEF RoutedEffects, RoutedReason, RoutedFsm, TerminalStates
    <2>2. env.mode = EscalationModeFor(o)
      BY <1>6 DEF Envelope
    <2> QED
      BY <2>1, <2>2, TicketOfOne
  <1> QED
    BY <1>1, <1>2, <1>3, <1>4, <1>5, <1>6

-----------------------------------------------------------------------------
(* The inductive invariant.                                                    *)

\* What the handlers read and count is typed.
FieldsOK ==
  /\ tier \in Tiers
  /\ delay \in Nat
  /\ captain \in Captains \cup {None}
  /\ unresponsive \in Nat
  /\ epoch \in Nat
  /\ pushCount \in Nat /\ repeats \in Nat /\ stalls \in Nat
  /\ lastSignature \in (SUBSET Flags) \cup {None}
  /\ lastEmitted \in ActionTypes \cup {None}

\* What routing writes is typed and consistent.
RecordOK ==
  /\ fsm \in FsmStates
  /\ pending \in Nat \cup {None}
  /\ lastAction.action \in ActionTypes
  /\ terminalReason \in Reasons \cup {None}
  /\ PendingIffAwaiting
  /\ TerminalAgreement

\* The tickets are determined by the record.
Ledger ==
  IF fsm = "ESCALATED"
    THEN << [reason |-> terminalReason, mode |-> EscalationModeFor(overrides)] >>
    ELSE << >>

IInv ==
  /\ FieldsOK
  /\ RecordOK
  /\ AwaitedDispatchIsPermitted
  /\ AwaitedResultIsInFlight
  /\ inFlight \in Nat
  /\ tickets = Ledger

\* The effects of the step that has just been taken agree with the record.
EffectsOK ==
  /\ Emits("call_tool_chain", effects) => fsm = "AWAITING_TOOL_RESULT"
  /\ Emits("escalate", effects) <=> fsm = "ESCALATED"
  /\ Emits("escalate", effects) =>
       TicketOf(effects) = [reason |-> terminalReason, mode |-> EscalationModeFor(overrides)]

\* What a handler of an open session establishes.
HandlerOK ==
  /\ FieldsOK' /\ RecordOK' /\ EffectsOK'
  /\ AwaitedDispatchIsPermitted'
  /\ UNCHANGED overrides
  /\ fsm' = "AWAITING_TOOL_RESULT" =>
       fsm = "AWAITING_TOOL_RESULT" \/ Emits("call_tool_chain", effects')

-----------------------------------------------------------------------------
(* The three ways a handler leaves the record: routed, handed off, untouched.  *)

\* Routing leaves a consistent record whose effects agree with it, and a new
\* wait comes with a dispatch.
LEMMA RouteStep ==
  ASSUME NEW env, NEW e \in Nat, EnvelopeOK(env, overrides), Route(env, e),
         UNCHANGED overrides
  PROVE  /\ RecordOK' /\ EffectsOK'
         /\ fsm' = "AWAITING_TOOL_RESULT" =>
              /\ env.action \in ReassignActions
              /\ Emits("call_tool_chain", effects')
  BY RoutedOK DEF Route, RecordOK, EffectsOK, PendingIffAwaiting, TerminalAgreement

\* A handoff from outside the engine closes the record and asks for its ticket.
LEMMA EscalateStep ==
  ASSUME NEW reason \in Reasons, lastAction.action \in ActionTypes,
         Escalate(reason), UNCHANGED overrides
  PROVE  RecordOK' /\ EffectsOK' /\ fsm' = "ESCALATED"
  <1>1. /\ fsm' = "ESCALATED" /\ pending' = None /\ terminalReason' = reason
        /\ lastAction' = lastAction
        /\ effects' = << Escalation(reason, EscalationModeFor(overrides)) >>
    BY DEF Escalate
  <1>2. RecordOK'
    BY <1>1, NoneAssumption
    DEF RecordOK, FsmStates, TerminalStates, PendingIffAwaiting, TerminalAgreement
  <1>3. EffectsOK'
    BY <1>1, EmitsOne, TicketOfOne DEF EffectsOK, Escalation
  <1> QED
    BY <1>1, <1>2, <1>3

\* A step that only logs or reconciles in an open session.
LEMMA QuietStep ==
  ASSUME RecordOK, fsm # "ESCALATED", UNCHANGED routed, NEW x,
         effects' = << x >>, x.kind \notin {"call_tool_chain", "escalate"}
  PROVE  RecordOK' /\ EffectsOK'
  <1>1. RecordOK'
    BY DEF RecordOK, routed, PendingIffAwaiting, TerminalAgreement
  <1>2. ~ Emits("call_tool_chain", effects') /\ ~ Emits("escalate", effects')
    BY EmitsOne
  <1>3. EffectsOK'
    BY <1>2 DEF EffectsOK, routed
  <1> QED
    BY <1>1, <1>3

-----------------------------------------------------------------------------
(* One lemma per handler.                                                      *)

\* A message during tool flight: handed off if it asks for a human, else buffered.
LEMMA MessageInFlightOK ==
  ASSUME IInv, Live, UNCHANGED <<context, data>>, NEW flags \in SUBSET Flags,
         MessageInFlight(flags)
  PROVE  HandlerOK
  <1> DEFINE env == Decide(tier, delay, overrides, pushCount, flags)
  <1>1. UNCHANGED <<tier, delay, overrides, captain, unresponsive, counters>>
    BY DEF MessageInFlight, context, data
  <1>2. epoch' \in Nat /\ fsm = "AWAITING_TOOL_RESULT"
    BY DEF MessageInFlight, IInv, FieldsOK
  <1>3. FieldsOK'
    BY <1>1, <1>2 DEF IInv, FieldsOK, counters
  <1>4. CASE "requests_human" \in flags
    <2>1. Route(env, epoch)
      BY <1>4 DEF MessageInFlight
    <2>2. env.action \notin ReassignActions
      <3>1. env = Handoff("R6", "human_requested", overrides)
        BY <1>4, NoneAssumption DEF Decide, Asks
      <3> QED
        BY <3>1 DEF Handoff, Envelope, ReassignActions
    <2>3. RecordOK' /\ EffectsOK' /\ fsm' # "AWAITING_TOOL_RESULT"
      BY <1>1, <2>1, <2>2, DecideOK, RouteStep DEF IInv, FieldsOK
    <2> QED
      BY <1>1, <1>3, <2>3 DEF HandlerOK, AwaitedDispatchIsPermitted
  <1>5. CASE "requests_human" \notin flags
    <2>1. effects' = << Log >> /\ UNCHANGED routed
      BY <1>5 DEF MessageInFlight
    <2>2. RecordOK' /\ EffectsOK'
      BY <1>2, <2>1, QuietStep DEF IInv, Log
    <2>3. AwaitedDispatchIsPermitted'
      BY <1>1, <2>1 DEF IInv, AwaitedDispatchIsPermitted, routed, counters
    <2> QED
      BY <1>1, <1>2, <1>3, <2>2, <2>3 DEF HandlerOK
  <1> QED
    BY <1>4, <1>5

\* A message to a session that awaits no tool: decided, guarded, routed.
LEMMA AnswerMessageOK ==
  ASSUME IInv, Live, UNCHANGED <<context, data>>, NEW flags \in SUBSET Flags,
         AnswerMessage(flags)
  PROVE  HandlerOK
  <1> DEFINE env    == Decide(tier, delay, overrides, pushCount, flags)
             pushes == NextPushes(env, flags)
             reps   == NextRepeats(env)
             stall  == NextStalls(env)
             out    == IF Stuck(env, pushes, reps, stall) THEN EscalateForRepetition(env) ELSE env
  <1>1. UNCHANGED <<tier, delay, overrides, captain, unresponsive, epoch>>
    BY DEF AnswerMessage, context, data
  <1>2. /\ pushCount' = pushes /\ lastSignature' = NextSignature(env, flags)
        /\ lastEmitted' = env.action /\ repeats' = reps /\ stalls' = stall
        /\ Route(out, epoch)
    BY DEF AnswerMessage
  <1>3. EnvelopeOK(env, overrides)
    BY DecideOK
  <1>4. EnvelopeOK(out, overrides)
    BY <1>3, RepetitionOK
  <1>5. FieldsOK'
    <2>1. pushes \in Nat /\ reps \in Nat /\ stall \in Nat
      BY DEF IInv, FieldsOK, NextPushes, NextRepeats, NextStalls
    <2>2. NextSignature(env, flags) \in (SUBSET Flags) \cup {None}
      BY DEF NextSignature, Signature
    <2> HIDE DEF env, pushes, reps, stall
    <2> QED
      BY <1>1, <1>2, <1>3, <2>1, <2>2 DEF IInv, FieldsOK, EnvelopeOK
  <1>6. /\ RecordOK' /\ EffectsOK'
        /\ fsm' = "AWAITING_TOOL_RESULT" =>
             out.action \in ReassignActions /\ Emits("call_tool_chain", effects')
    <2> HIDE DEF out
    <2> QED
      BY <1>1, <1>2, <1>4, RouteStep DEF IInv, FieldsOK
  <1>7. out.action \in ReassignActions => env.action \in ReassignActions
    BY <1>3, RepetitionOK DEF ReassignActions
  <1>8. AwaitedDispatchIsPermitted'
    BY <1>1, <1>6, <1>7, DecidePermits DEF AwaitedDispatchIsPermitted
  <1> QED
    BY <1>1, <1>5, <1>6, <1>8 DEF HandlerOK

\* Every merchant message is one of the two.
LEMMA MerchantMessageOK ==
  ASSUME IInv, NEW flags \in SUBSET Flags, MerchantMessage(flags)
  PROVE  HandlerOK
  BY MessageInFlightOK, AnswerMessageOK DEF MerchantMessage

\* A tool result, applied or reconciled, never leaves the session waiting.
LEMMA ToolResultOK ==
  ASSUME IInv, NEW outcome \in Outcomes, NEW c \in Captains, ToolResult(outcome, c)
  PROVE  HandlerOK /\ fsm' # "AWAITING_TOOL_RESULT"
  <1>1. UNCHANGED <<tier, delay, overrides, unresponsive, epoch, counters>>
    BY DEF ToolResult, context
  <1>2. captain' \in Captains \cup {None}
    BY DEF ToolResult, ApplyToolResult, ReconcileToolResult, IInv, FieldsOK
  <1>3. FieldsOK'
    BY <1>1, <1>2 DEF IInv, FieldsOK, counters
  <1>4. CASE ApplyToolResult(outcome, c) /\ outcome = "reassigned"
    <2>1. /\ fsm' = "MONITORING" /\ pending' = None /\ terminalReason' = None
          /\ lastAction'.action = "notify_reassigned"
          /\ effects' = << Send("notify_reassigned") >>
      BY <1>4 DEF ApplyToolResult
    <2>2. RecordOK'
      BY <2>1
      DEF RecordOK, FsmStates, TerminalStates, ActionTypes, PendingIffAwaiting, TerminalAgreement
    <2>3. EffectsOK'
      BY <2>1, EmitsOne DEF EffectsOK, Send
    <2> QED
      BY <1>1, <1>3, <2>1, <2>2, <2>3 DEF HandlerOK, AwaitedDispatchIsPermitted
  <1>5. CASE ApplyToolResult(outcome, c) /\ outcome # "reassigned"
    <2>1. PICK reason \in Reasons : Escalate(reason)
      BY <1>5 DEF ApplyToolResult, Reasons
    <2>2. RecordOK' /\ EffectsOK' /\ fsm' = "ESCALATED"
      BY <1>1, <2>1, EscalateStep DEF IInv, RecordOK
    <2> QED
      BY <1>1, <1>3, <2>2 DEF HandlerOK, AwaitedDispatchIsPermitted
  <1>6. CASE ReconcileToolResult(outcome, c)
    <2>1. fsm # "AWAITING_TOOL_RESULT" /\ effects' = << Reconciled >> /\ UNCHANGED routed
      BY <1>6 DEF ReconcileToolResult, AwaitingResult, IInv, RecordOK, PendingIffAwaiting
    <2>2. RecordOK' /\ EffectsOK'
      BY <2>1, QuietStep DEF ToolResult, Live, TerminalStates, IInv, Reconciled
    <2> QED
      BY <1>1, <1>3, <2>1, <2>2 DEF HandlerOK, AwaitedDispatchIsPermitted, routed
  <1> QED
    BY <1>4, <1>5, <1>6 DEF ToolResult

\* A backend event keeps a wait only while its premise holds, or routes anew.
LEMMA AsyncEventOK ==
  ASSUME IInv, NEW d \in Nat, NEW c \in Captains \cup {None}, OnAsyncEvent(d, c)
  PROVE  HandlerOK
  <1> DEFINE env == Decide(tier, d, overrides, pushCount, None)
  <1>1. /\ UNCHANGED <<tier, overrides, unresponsive, counters>>
        /\ delay' = d /\ captain' = c /\ epoch' = epoch + 1
    BY DEF OnAsyncEvent, context
  <1>2. FieldsOK' /\ pushCount' = pushCount /\ epoch + 1 \in Nat
    BY <1>1 DEF IInv, FieldsOK, counters
  <1>3. CASE fsm = "AWAITING_TOOL_RESULT" /\ env.action \in ReassignPremiseActions
    <2>1. effects' = << Log >> /\ UNCHANGED routed
      BY <1>3 DEF OnAsyncEvent
    <2>2. RecordOK' /\ EffectsOK'
      BY <1>3, <2>1, QuietStep DEF IInv, Log
    <2>3. AwaitedDispatchIsPermitted'
      BY <1>1, <1>2, <1>3 DEF AwaitedDispatchIsPermitted
    <2> QED
      BY <1>1, <1>2, <1>3, <2>2, <2>3 DEF HandlerOK
  <1>4. CASE ~ (fsm = "AWAITING_TOOL_RESULT" /\ env.action \in ReassignPremiseActions)
    <2>1. Route(env, epoch + 1)
      BY <1>4 DEF OnAsyncEvent
    <2>2. EnvelopeOK(env, overrides)
      BY DecideOK
    <2> HIDE DEF env
    <2>3. /\ RecordOK' /\ EffectsOK'
          /\ fsm' = "AWAITING_TOOL_RESULT" =>
               env.action \in ReassignActions /\ Emits("call_tool_chain", effects')
      BY <1>1, <1>2, <2>1, <2>2, RouteStep
    <2>4. AwaitedDispatchIsPermitted'
      BY <1>1, <1>2, <2>3 DEF AwaitedDispatchIsPermitted, ReassignPremiseActions, env
    <2> QED
      BY <1>1, <1>2, <2>3, <2>4 DEF HandlerOK
  <1> QED
    BY <1>3, <1>4

\* The three backend events.
LEMMA AsyncOK ==
  ASSUME IInv, Async
  PROVE  HandlerOK
  <1>1. CASE CaptainCancelled
    BY <1>1, AsyncEventOK DEF CaptainCancelled, IInv, FieldsOK
  <1>2. CASE PrepCompleted
    <2>1. /\ UNCHANGED <<tier, overrides, delay, captain, unresponsive, lastAction, counters>>
          /\ epoch' = epoch + 1
          /\ fsm' = "RESOLVED" /\ pending' = None /\ terminalReason' = "prep_completed"
          /\ effects' = << Resolution("prep_completed") >>
      BY <1>2 DEF PrepCompleted, context, data
    <2>2. FieldsOK'
      BY <2>1 DEF IInv, FieldsOK, counters
    <2>3. RecordOK'
      BY <2>1, NoneAssumption
      DEF IInv, RecordOK, FsmStates, TerminalStates, Reasons, PendingIffAwaiting, TerminalAgreement
    <2>4. EffectsOK'
      BY <2>1, EmitsOne DEF EffectsOK, Resolution
    <2> QED
      BY <2>1, <2>2, <2>3, <2>4 DEF HandlerOK, AwaitedDispatchIsPermitted
  <1>3. CASE \E eta \in EtaUpdates : EtaUpdated(eta)
    <2>1. PICK eta \in EtaUpdates : EtaUpdated(eta)
      BY <1>3
    <2>2. (IF eta = None THEN delay ELSE Max2(0, eta)) \in Nat
      BY SessionAssumption DEF Max2, IInv, FieldsOK
    <2> QED
      BY <2>1, <2>2, AsyncEventOK DEF EtaUpdated, IInv, FieldsOK
  <1> QED
    BY <1>1, <1>2, <1>3 DEF Async

\* The engine runs again on unchanged data.
LEMMA ReevaluateOK ==
  ASSUME IInv, UNCHANGED <<context, delay, captain, epoch, counters>>, unresponsive' \in Nat,
         Route(Decide(tier, delay, overrides, pushCount, None), epoch)
  PROVE  HandlerOK
  <1> DEFINE env == Decide(tier, delay, overrides, pushCount, None)
  <1>1. UNCHANGED <<tier, overrides, delay, pushCount>> /\ epoch \in Nat
    BY DEF context, counters, IInv, FieldsOK
  <1>2. FieldsOK'
    BY DEF IInv, FieldsOK, context, counters
  <1>3. EnvelopeOK(env, overrides)
    BY DecideOK
  <1>4. Route(env, epoch)
    OBVIOUS
  <1> HIDE DEF env
  <1>5. /\ RecordOK' /\ EffectsOK'
        /\ fsm' = "AWAITING_TOOL_RESULT" =>
             env.action \in ReassignActions /\ Emits("call_tool_chain", effects')
    BY <1>1, <1>3, <1>4, RouteStep
  <1>6. AwaitedDispatchIsPermitted'
    BY <1>1, <1>5 DEF AwaitedDispatchIsPermitted, ReassignPremiseActions, env
  <1> QED
    BY <1>1, <1>2, <1>5, <1>6 DEF HandlerOK

\* The handoffs that do not come from the engine.
LEMMA HandoffOK ==
  ASSUME IInv, UNCHANGED <<context, delay, captain, epoch, counters>>, unresponsive' \in Nat,
         NEW reason \in Reasons, Escalate(reason)
  PROVE  HandlerOK
  <1>1. FieldsOK' /\ UNCHANGED overrides
    BY DEF IInv, FieldsOK, context, counters
  <1>2. RecordOK' /\ EffectsOK' /\ fsm' = "ESCALATED"
    BY <1>1, EscalateStep DEF IInv, RecordOK
  <1> QED
    BY <1>1, <1>2 DEF HandlerOK, AwaitedDispatchIsPermitted

\* A timer that fires in a state it does not concern is logged.
LEMMA LateTimerOK ==
  ASSUME IInv, Live, UNCHANGED <<context, data, epoch, counters, routed>>,
         effects' = << Log >>
  PROVE  HandlerOK
  <1>1. FieldsOK' /\ UNCHANGED <<tier, delay, overrides, pushCount, fsm>>
    BY DEF IInv, FieldsOK, context, data, counters, routed
  <1>2. RecordOK' /\ EffectsOK'
    BY QuietStep DEF IInv, Live, TerminalStates, Log
  <1> QED
    BY <1>1, <1>2 DEF HandlerOK, IInv, AwaitedDispatchIsPermitted

\* The timers and the periodic re-evaluation.
LEMMA TimerOK ==
  ASSUME IInv, Timer
  PROVE  HandlerOK
  <1>1. CASE ReplyTimeout
    <2>1. UNCHANGED <<context, delay, captain, epoch, counters>> /\ Live
      BY <1>1 DEF ReplyTimeout
    <2>2. CASE fsm # "AWAITING_MERCHANT_REPLY"
      <3>1. UNCHANGED <<context, data, epoch, counters, routed>> /\ effects' = << Log >>
        BY <1>1, <2>1, <2>2 DEF ReplyTimeout, data
      <3> QED
        BY <2>1, <3>1, LateTimerOK
    <2>3. CASE fsm = "AWAITING_MERCHANT_REPLY"
      <3>1. unresponsive' \in Nat
        BY <1>1, <2>3 DEF ReplyTimeout, IInv, FieldsOK
      <3>2. \/ Escalate("unresponsive")
            \/ Route(Decide(tier, delay, overrides, pushCount, None), epoch)
        BY <1>1, <2>3 DEF ReplyTimeout
      <3>3. "unresponsive" \in Reasons
        BY DEF Reasons
      <3> QED
        BY <2>1, <3>1, <3>2, <3>3, HandoffOK, ReevaluateOK
    <2> QED
      BY <2>2, <2>3
  <1>2. CASE ToolTimeout
    <2>1. UNCHANGED <<context, data, epoch, counters>> /\ Live
      BY <1>2 DEF ToolTimeout
    <2>2. "tool_timeout" \in Reasons /\ unresponsive' \in Nat
      BY <2>1 DEF Reasons, IInv, FieldsOK, data
    <2>3. \/ effects' = << Log >> /\ UNCHANGED routed
          \/ Escalate("tool_timeout")
      BY <1>2 DEF ToolTimeout
    <2> QED
      BY <2>1, <2>2, <2>3, LateTimerOK, HandoffOK DEF data
  <1>3. CASE Reevaluate
    BY <1>3, ReevaluateOK DEF Reevaluate, data, IInv, FieldsOK
  <1> QED
    BY <1>1, <1>2, <1>3 DEF Timer

\* Every event of an open session establishes what a handler must.
LEMMA EventOK ==
  ASSUME IInv, Event
  PROVE  HandlerOK /\ Live
  <1>1. CASE Message
    BY <1>1, MerchantMessageOK, SessionAssumption DEF Message, MerchantMessage
  <1>2. CASE Async
    BY <1>2, AsyncOK DEF Async, CaptainCancelled, EtaUpdated, PrepCompleted, OnAsyncEvent
  <1>3. CASE Timer
    BY <1>3, TimerOK DEF Timer, ReplyTimeout, ToolTimeout, Reevaluate
  <1>4. CASE ClassifierUnavailable
    BY <1>4, HandoffOK DEF ClassifierUnavailable, data, Reasons, IInv, FieldsOK
  <1> QED
    BY <1>1, <1>2, <1>3, <1>4 DEF Event

-----------------------------------------------------------------------------
(* The invariant is inductive.                                                 *)

\* The turn-0 decision opens a session that satisfies the invariant.
LEMMA InitOK == Init => IInv
  <1> SUFFICES ASSUME Init PROVE IInv
    OBVIOUS
  <1>1. PICK t \in Tiers, d \in InitialDelays, c \in Captains \cup {None}, o \in OverrideLists :
          Bootstrap(t, d, c, o)
    BY DEF Init
  <1> DEFINE env == Decide(t, d, o, 0, None)
  <1>2. /\ tier = t /\ delay = d /\ captain = c /\ overrides = o
        /\ unresponsive = 0 /\ epoch = 0 /\ pushCount = 0 /\ repeats = 0 /\ stalls = 0
        /\ lastSignature = None /\ lastEmitted = None
    BY <1>1 DEF Bootstrap
  <1>3. /\ fsm = RoutedFsm(env.action)
        /\ pending = RoutedPending(env, 0)
        /\ lastAction = Decision(env)
        /\ terminalReason = RoutedReason(env)
        /\ effects = RoutedEffects(env, 0)
    BY <1>1 DEF Bootstrap
  <1>4. FieldsOK
    BY <1>2, SessionAssumption DEF FieldsOK
  <1>5. EnvelopeOK(env, o)
    BY DecideOK
  <1>6. fsm = "AWAITING_TOOL_RESULT" => AwaitedDispatchIsPermitted
    BY <1>2, <1>3, <1>5, RoutedOK
    DEF AwaitedDispatchIsPermitted, ReassignPremiseActions
  <1> HIDE DEF env
  <1>7. RecordOK /\ EffectsOK
    BY <1>2, <1>3, <1>5, RoutedOK
    DEF RecordOK, EffectsOK, PendingIffAwaiting, TerminalAgreement
  <1>8. Emits("call_tool_chain", effects) <=> fsm = "AWAITING_TOOL_RESULT"
    BY <1>3, <1>5, RoutedOK
  <1>9. inFlight \in Nat /\ AwaitedResultIsInFlight
    BY <1>8 DEF Init, AwaitedResultIsInFlight
  <1>10. tickets = Ledger
    BY <1>7 DEF Init, Ledger, EffectsOK
  <1> QED
    BY <1>4, <1>6, <1>7, <1>9, <1>10 DEF IInv, AwaitedDispatchIsPermitted

\* Running the effects of a handler: a dispatch joins the chains in flight, a
\* handoff opens the ticket of the record.
LEMMA RunEffectsOK ==
  ASSUME IInv, Live, HandlerOK, NEW rest \in Nat, RunEffects(rest)
  PROVE  /\ inFlight' \in Nat
         /\ Emits("call_tool_chain", effects') => inFlight' # 0
         /\ ~ Emits("call_tool_chain", effects') => inFlight' = rest
         /\ tickets' = Ledger'
  <1>1. tickets = << >>
    BY DEF IInv, Ledger, Live, TerminalStates
  <1>2. tickets' = Ledger'
    BY <1>1 DEF RunEffects, HandlerOK, EffectsOK, Ledger
  <1> QED
    BY <1>2 DEF RunEffects

\* Late input into a closed session: nothing is routed and nothing is run.
LEMMA InertOK ==
  ASSUME IInv, NEW kind \in {"log", "reconcile"}, Inert(kind)
  PROVE  /\ UNCHANGED sessionVars
         /\ ~ Emits("call_tool_chain", effects')
         /\ ~ Emits("send_message", effects')
         /\ ~ Emits("escalate", effects')
  BY EmitsOne DEF Inert

\* A step that changes nothing keeps the invariant.
LEMMA StutterOK ==
  ASSUME IInv, UNCHANGED sessionVars, tickets' = tickets, inFlight' \in Nat,
         AwaitedResultIsInFlight'
  PROVE  IInv'
  BY DEF IInv, sessionVars, context, data, routed, counters, FieldsOK, RecordOK,
         PendingIffAwaiting, TerminalAgreement, AwaitedDispatchIsPermitted, Ledger

\* Every step keeps the invariant.
LEMMA NextOK == IInv /\ [Next]_vars => IInv'
  <1> SUFFICES ASSUME IInv, [Next]_vars PROVE IInv'
    OBVIOUS
  <1>1. CASE Event
    <2>1. HandlerOK /\ Live /\ RunEffects(inFlight)
      BY <1>1, EventOK DEF Event
    <2>2. /\ inFlight' \in Nat
          /\ Emits("call_tool_chain", effects') => inFlight' # 0
          /\ ~ Emits("call_tool_chain", effects') => inFlight' = inFlight
          /\ tickets' = Ledger'
      BY <2>1, RunEffectsOK DEF IInv
    <2>3. AwaitedResultIsInFlight'
      BY <2>1, <2>2 DEF HandlerOK, IInv, AwaitedResultIsInFlight
    <2> QED
      BY <2>1, <2>2, <2>3 DEF IInv, HandlerOK
  <1>2. CASE LateEvent
    <2>1. UNCHANGED <<sessionVars, inFlight, tickets>>
      BY <1>2 DEF LateEvent, Inert
    <2> QED
      BY <2>1, StutterOK DEF IInv, AwaitedResultIsInFlight, sessionVars, routed
  <1>3. CASE ToolReturns
    <2>1. inFlight - 1 \in Nat /\ RunEffects(inFlight - 1)
      BY <1>3 DEF ToolReturns, IInv
    <2>2. CASE \E outcome \in Outcomes, c \in Captains : ToolResult(outcome, c)
      <3>1. HandlerOK /\ fsm' # "AWAITING_TOOL_RESULT" /\ Live
        BY <2>2, ToolResultOK DEF ToolResult
      <3>2. inFlight' \in Nat /\ tickets' = Ledger'
        BY <2>1, <3>1, RunEffectsOK
      <3> QED
        BY <3>1, <3>2 DEF IInv, HandlerOK, AwaitedResultIsInFlight
    <2>3. CASE Inert("reconcile")
      <3>1. UNCHANGED sessionVars /\ inFlight' \in Nat /\ tickets' = tickets /\ ~ Live
        BY <2>1, <2>3, InertOK DEF RunEffects, Inert
      <3>2. AwaitedResultIsInFlight'
        BY <3>1 DEF AwaitedResultIsInFlight, Live, TerminalStates, sessionVars, routed
      <3> QED
        BY <3>1, <3>2, StutterOK
    <2> QED
      BY <1>3, <2>2, <2>3 DEF ToolReturns
  <1>4. CASE UNCHANGED vars
    BY <1>4, StutterOK DEF vars, IInv, AwaitedResultIsInFlight, sessionVars, routed
  <1> QED
    BY <1>1, <1>2, <1>3, <1>4 DEF Next

\* The strengthening of the invariants below: every reachable session satisfies it.
THEOREM Inductive == Spec => []IInv
  BY InitOK, NextOK, PTL DEF Spec

-----------------------------------------------------------------------------
(* The theorems: for every policy pack, order, message set, event payload and  *)
(* bound.                                                                      *)

\* Every field of the session record keeps its declared type.
THEOREM Types == Spec => []TypeOK
  <1>1. IInv => TypeOK
    BY DEF IInv, FieldsOK, RecordOK, TypeOK
  <1> QED
    BY <1>1, Inductive, PTL

\* A dispatch is remembered exactly while its result is awaited, and the FSM
\* state and the closing reason agree on whether the session is closed.
THEOREM RecordConsistent == Spec => []RecordIsConsistent
  <1>1. IInv => RecordIsConsistent
    BY DEF IInv, RecordOK, RecordIsConsistent
  <1> QED
    BY <1>1, Inductive, PTL

\* A handed-off session has exactly one ticket, with its closing reason and in
\* the mode its overrides ask for; any other session has none.
THEOREM OneTicket == Spec => [](OneTicketPerHandoff /\ TicketModeFollowsOverrides)
  <1>1. ASSUME IInv PROVE OneTicketPerHandoff
    <2>1. CASE fsm = "ESCALATED"
      <3>1. tickets = << [reason |-> terminalReason, mode |-> EscalationModeFor(overrides)] >>
        BY <1>1, <2>1 DEF IInv, Ledger
      <3>2. Len(tickets) = 1 /\ tickets[1].reason = terminalReason
        BY <3>1
      <3> QED
        BY <2>1, <3>2 DEF OneTicketPerHandoff
    <2>2. CASE fsm # "ESCALATED"
      BY <1>1, <2>2 DEF IInv, Ledger, OneTicketPerHandoff
    <2> QED
      BY <2>1, <2>2
  <1>2. ASSUME IInv PROVE TicketModeFollowsOverrides
    <2>1. CASE fsm = "ESCALATED"
      <3>1. tickets = << [reason |-> terminalReason, mode |-> EscalationModeFor(overrides)] >>
        BY <1>2, <2>1 DEF IInv, Ledger
      <3>2. DOMAIN tickets = {1} /\ tickets[1].mode = EscalationModeFor(overrides)
        BY <3>1
      <3> QED
        BY <3>2 DEF TicketModeFollowsOverrides
    <2>2. CASE fsm # "ESCALATED"
      <3>1. DOMAIN tickets = {}
        BY <1>2, <2>2 DEF IInv, Ledger
      <3> QED
        BY <3>1 DEF TicketModeFollowsOverrides
    <2> QED
      BY <2>1, <2>2
  <1> QED
    BY <1>1, <1>2, Inductive, PTL

\* The tickets' modes on their own.
THEOREM TicketMode == Spec => []TicketModeFollowsOverrides
  BY OneTicket, PTL

\* A reassignment is awaited only while policy permits reassigning the order at
\* its present lateness, and never without a chain in flight that will answer.
THEOREM AwaitedDispatch == Spec => [](AwaitedDispatchIsPermitted /\ AwaitedResultIsInFlight)
  <1>1. IInv => AwaitedDispatchIsPermitted /\ AwaitedResultIsInFlight
    BY DEF IInv
  <1> QED
    BY <1>1, Inductive, PTL

\* A closed session stays as it was closed: no state change, no dispatch, no
\* message, no further ticket.
THEOREM Latch == Spec => TerminalLatch
  <1>1. ASSUME IInv, [Next]_vars, ~ Live
        PROVE  [/\ UNCHANGED <<sessionVars, tickets>>
                /\ ~ Emits("call_tool_chain", effects')
                /\ ~ Emits("send_message", effects')]_vars
    <2>1. CASE Event
      BY <1>1, <2>1, EventOK
    <2>2. CASE LateEvent
      BY <1>1, <2>2, InertOK DEF LateEvent
    <2>3. CASE ToolReturns
      <3>1. Inert("reconcile") /\ RunEffects(inFlight - 1)
        BY <1>1, <2>3 DEF ToolReturns, ToolResult
      <3> QED
        BY <1>1, <3>1, InertOK DEF RunEffects
    <2> QED
      BY <1>1, <2>1, <2>2, <2>3 DEF Next
  <1>2. IInv /\ [Next]_vars =>
          [~ Live => /\ UNCHANGED <<sessionVars, tickets>>
                     /\ ~ Emits("call_tool_chain", effects')
                     /\ ~ Emits("send_message", effects')]_vars
    BY <1>1
  <1> QED
    BY <1>2, Inductive, PTL DEF Spec, TerminalLatch

\* A message that asks for a human hands an open session off, whatever the table,
\* the overrides, the guards' counters and the tool in flight.
THEOREM HumanRequest == Spec => HumanRequestIsSacred
  <1>1. ASSUME IInv, NEW flags \in Intents, MerchantMessage(flags), "requests_human" \in flags
        PROVE  fsm' = "ESCALATED"
    <2> DEFINE env == Decide(tier, delay, overrides, pushCount, flags)
    <2>1. flags \in SUBSET Flags /\ flags # None
      BY SessionAssumption, NoneAssumption
    <2>2. env.action = "escalate"
      <3>1. env = Handoff("R6", "human_requested", overrides)
        BY <1>1, <2>1 DEF Decide, Asks
      <3> QED
        BY <3>1 DEF Handoff, Envelope
    <2>3. EscalateForRepetition(env).action = "escalate"
      BY DecideOK, RepetitionOK
    <2>4. \/ Route(env, epoch)
          \/ Route(EscalateForRepetition(env), epoch)
      BY <1>1 DEF MerchantMessage, MessageInFlight, AnswerMessage
    <2> HIDE DEF env
    <2> QED
      BY <2>2, <2>3, <2>4 DEF Route, RoutedFsm, ReassignActions
  <1>2. IInv /\ [Next]_vars =>
          [\A flags \in Intents :
             MerchantMessage(flags) /\ "requests_human" \in flags => fsm' = "ESCALATED"]_vars
    BY <1>1
  <1> QED
    BY <1>2, Inductive, PTL DEF Spec, HumanRequestIsSacred

\* A cancellation is handed off or, in the grace band, only logged.
LEMMA CancellationDecided ==
  ASSUME NEW t, NEW d, NEW o, NEW p, NEW flags \in SUBSET Flags,
         "requests_cancellation" \in flags
  PROVE  Decide(t, d, o, p, flags).action \in {"escalate", "log_only"}
  <1> DEFINE rule == MatchedRule(t, d)
  <1>1. \A a, id, r : Envelope(a, id, r, o).action = a /\ Handoff(id, r, o).action = "escalate"
    BY DEF Envelope, Handoff
  <1>2. flags # None
    BY NoneAssumption
  <1>3. \A id : /\ ReactiveR2(id, flags, p, o).action = "escalate"
                /\ ReactiveR4(id, flags, p, o).action = "escalate"
    BY <1>1 DEF ReactiveR2, ReactiveR4
  <1>4. ApplyRule(rule, flags, p, o).action \in {"escalate", "log_only"}
    BY <1>1, <1>2, <1>3 DEF ApplyRule, Asks
  <1>5. ApplyOverride(rule, flags, o).action = "escalate"
    BY <1>1, <1>2 DEF ApplyOverride, Asks
  <1> QED
    BY <1>1, <1>4, <1>5 DEF Decide

\* A message that cancels the order hands an open session off, except in the grace
\* band and while a dispatch is awaited, where it is buffered.
THEOREM Cancellation == Spec => CancellationEscalates
  <1>1. ASSUME IInv, NEW flags \in Intents, MerchantMessage(flags),
               "requests_cancellation" \in flags
        PROVE  \/ fsm' = "ESCALATED"
               \/ fsm = "AWAITING_TOOL_RESULT"
               \/ lastAction'.action = "log_only"
    <2> DEFINE env == Decide(tier, delay, overrides, pushCount, flags)
    <2>1. env.action \in {"escalate", "log_only"}
      BY <1>1, SessionAssumption, CancellationDecided
    <2>2. EscalateForRepetition(env).action = "escalate"
      BY DecideOK, RepetitionOK
    <2>3. CASE MessageInFlight(flags)
      BY <2>3 DEF MessageInFlight
    <2>4. CASE AnswerMessage(flags)
      <3>1. Route(env, epoch) \/ Route(EscalateForRepetition(env), epoch)
        BY <2>4 DEF AnswerMessage
      <3> HIDE DEF env
      <3> QED
        BY <2>1, <2>2, <3>1 DEF Route, RoutedFsm, ReassignActions, Decision
    <2> QED
      BY <1>1, <2>3, <2>4 DEF MerchantMessage
  <1>2. IInv /\ [Next]_vars =>
          [\A flags \in Intents :
             MerchantMessage(flags) /\ "requests_cancellation" \in flags =>
               \/ fsm' = "ESCALATED"
               \/ fsm = "AWAITING_TOOL_RESULT"
               \/ lastAction'.action = "log_only"]_vars
    BY <1>1
  <1> QED
    BY <1>2, Inductive, PTL DEF Spec, CancellationEscalates

-----------------------------------------------------------------------------
(* What the shape of the pack adds.                                            *)

\* The matched rule is a row of the table that holds for the order.
LEMMA MatchedRow ==
  ASSUME NEW t, NEW d, MatchedRule(t, d) # None
  PROVE  \E i \in DOMAIN Rules :
           MatchedRule(t, d) = Rules[i] /\ Matches(i, t, d) /\ t \in Rules[i].tiers
  <1> DEFINE Hits   == {i \in DOMAIN Rules : Matches(i, t, d)}
             first  == CHOOSE i \in DOMAIN Rules : /\ Matches(i, t, d)
                                                   /\ \A j \in 1 .. i - 1 : ~ Matches(j, t, d)
             Below  == OpToRel(<, Nat)
  <1>1. Hits # {} /\ Hits \subseteq Nat /\ MatchedRule(t, d) = Rules[first]
    BY PolicyAssumption DEF MatchedRule
  <1>2. PICK i \in Hits : \A j \in Hits : <<j, i>> \notin Below
    BY <1>1, NatLessThanWellFounded, WFMin
  <1>3. \A j \in Hits : ~ (j < i)
    BY <1>1, <1>2 DEF OpToRel
  <1>4. \A j \in 1 .. i - 1 : ~ Matches(j, t, d)
    BY <1>1, <1>3, PolicyAssumption
  <1>5. first \in DOMAIN Rules /\ Matches(first, t, d)
    BY <1>4, Zenon
  <1> QED
    BY <1>1, <1>5 DEF Matches

\* During an override that silences R3 and R4, no order may be reassigned.
LEMMA OutageForbids ==
  ASSUME ReassignmentRulesAreKnown, NEW t, NEW d, NEW o, NEW p,
         {"R3", "R4"} \subseteq SuppressedRules(o)
  PROVE  Decide(t, d, o, p, None).action \notin ReassignPremiseActions
  <1> DEFINE rule == MatchedRule(t, d)
  <1>1. \A a, id, r : Envelope(a, id, r, o).action = a /\ Handoff(id, r, o).action = "escalate"
    BY DEF Envelope, Handoff
  <1>2. CASE rule = None \/ rule.id \in SuppressedRules(o)
    BY <1>1, <1>2 DEF Decide, Asks, ApplyOverride, ReassignPremiseActions, ReassignActions
  <1>3. CASE rule # None /\ rule.id \notin SuppressedRules(o)
    <2>1. rule.action \notin {"auto_reassign", "ask_reassign_or_wait"}
      BY <1>3, MatchedRow DEF ReassignmentRulesAreKnown
    <2>2. Decide(t, d, o, p, None) = ApplyRule(rule, None, p, o)
      BY <1>3 DEF Decide, Asks
    <2> QED
      BY <1>1, <2>1, <2>2 DEF ApplyRule, ReassignPremiseActions, ReassignActions
  <1> QED
    BY <1>2, <1>3

\* Without a message only a Gold order is reassigned.
LEMMA UnaskedIsGold ==
  ASSUME OnlyGoldIsAutomatic, NEW t, NEW d, NEW o, NEW p,
         Decide(t, d, o, p, None).action \in ReassignActions
  PROVE  t = "Gold"
  <1> DEFINE rule == MatchedRule(t, d)
  <1>1. \A a, id, r : Envelope(a, id, r, o).action = a /\ Handoff(id, r, o).action = "escalate"
    BY DEF Envelope, Handoff
  <1>2. /\ rule # None
        /\ ApplyRule(rule, None, p, o).action \in ReassignActions
    BY <1>1 DEF Decide, Asks, ApplyOverride, ReassignActions
  <1>3. rule.action = "auto_reassign"
    BY <1>1, <1>2 DEF ApplyRule, ReassignActions
  <1> QED
    BY <1>2, <1>3, MatchedRow DEF OnlyGoldIsAutomatic

\* A message that makes the engine reassign an order that is not Gold consents.
LEMMA AskedConsents ==
  ASSUME OnlyGoldIsAutomatic, NEW t, t # "Gold", NEW d, NEW o, NEW p,
         NEW flags \in SUBSET Flags,
         Decide(t, d, o, p, flags).action \in ReassignActions
  PROVE  Consents(flags)
  <1> DEFINE rule == MatchedRule(t, d)
  <1>1. \A a, id, r : Envelope(a, id, r, o).action = a /\ Handoff(id, r, o).action = "escalate"
    BY DEF Envelope, Handoff
  <1>2. \A id : ClarifyOrLoopGuard(id, p, o).action \notin ReassignActions
    BY <1>1 DEF ClarifyOrLoopGuard, ReassignActions
  <1>3. /\ "requests_human" \notin flags /\ flags # None
        /\ rule # None
        /\ ApplyRule(rule, flags, p, o).action \in ReassignActions
    BY <1>1, NoneAssumption DEF Decide, Asks, ApplyOverride, ReassignActions
  <1>4. rule.action # "auto_reassign"
    BY <1>3, MatchedRow DEF OnlyGoldIsAutomatic
  <1>5. \A id : ReactiveR2(id, flags, p, o).action \notin ReassignActions
    BY <1>1, <1>2 DEF ReactiveR2, ReassignActions
  <1>6. ReactiveR4(rule.id, flags, p, o).action \in ReassignActions
    BY <1>1, <1>3, <1>4, <1>5 DEF ApplyRule, ReassignActions
  <1>7. /\ "requests_cancellation" \notin flags
        /\ flags \cap {"accepts_reassignment", "prefers_to_wait"} = {"accepts_reassignment"}
    BY <1>1, <1>2, <1>6 DEF ReactiveR4, ReassignActions
  <1> QED
    BY <1>3, <1>7 DEF Consents

\* A routed decision dispatches exactly when it reassigns.
LEMMA RouteDispatches ==
  ASSUME NEW o, NEW env, NEW e \in Nat, EnvelopeOK(env, o), Route(env, e)
  PROVE  Emits("call_tool_chain", effects') <=> env.action \in ReassignActions
  BY RoutedOK DEF Route

\* A single effect that is no dispatch dispatches nothing.
LEMMA NoDispatch ==
  ASSUME NEW x, effects' = << x >>, x.kind # "call_tool_chain"
  PROVE  ~ Emits("call_tool_chain", effects')
  BY EmitsOne

\* A handoff dispatches nothing.
LEMMA EscalateQuiet ==
  ASSUME NEW reason, Escalate(reason)
  PROVE  ~ Emits("call_tool_chain", effects')
  BY NoDispatch DEF Escalate, Escalation

\* No event, timer or result dispatches for a merchant that is not Gold.
LEMMA OthersDoNotDispatch ==
  ASSUME OnlyGoldIsAutomatic, IInv, tier # "Gold",
         Async \/ Timer \/ ClassifierUnavailable \/ LateEvent \/ ToolReturns
  PROVE  ~ Emits("call_tool_chain", effects')
  <1>1. ASSUME NEW d, NEW e \in Nat, NEW p, Route(Decide(tier, d, overrides, p, None), e)
        PROVE  ~ Emits("call_tool_chain", effects')
    BY <1>1, DecideOK, RouteDispatches, UnaskedIsGold
  <1>2. ASSUME effects' = << Log >> PROVE ~ Emits("call_tool_chain", effects')
    BY <1>2, NoDispatch DEF Log
  <1>3. epoch \in Nat
    BY DEF IInv, FieldsOK
  <1>4. CASE Async
    <2>1. ASSUME NEW d, NEW c, OnAsyncEvent(d, c)
          PROVE  ~ Emits("call_tool_chain", effects')
      <3>1. \/ effects' = << Log >>
            \/ Route(Decide(tier, d, overrides, pushCount, None), epoch + 1)
        BY <2>1 DEF OnAsyncEvent
      <3> QED
        BY <1>1, <1>2, <1>3, <3>1
    <2>2. CASE PrepCompleted
      BY <2>2, NoDispatch DEF PrepCompleted, Resolution
    <2> QED
      BY <1>4, <2>1, <2>2 DEF Async, CaptainCancelled, EtaUpdated
  <1>5. CASE Timer
    <2>1. CASE ReplyTimeout
      <3>1. \/ effects' = << Log >> \/ Escalate("unresponsive")
            \/ Route(Decide(tier, delay, overrides, pushCount, None), epoch)
        BY <2>1 DEF ReplyTimeout
      <3> QED
        BY <1>1, <1>2, <1>3, <3>1, EscalateQuiet
    <2>2. CASE ToolTimeout
      BY <1>2, <2>2, EscalateQuiet DEF ToolTimeout
    <2>3. CASE Reevaluate
      BY <1>1, <1>3, <2>3 DEF Reevaluate
    <2> QED
      BY <1>5, <2>1, <2>2, <2>3 DEF Timer
  <1>6. CASE ClassifierUnavailable
    BY <1>6, EscalateQuiet DEF ClassifierUnavailable
  <1>7. CASE LateEvent
    BY <1>7, NoDispatch DEF LateEvent, Inert
  <1>8. CASE ToolReturns
    <2>1. ASSUME NEW outcome \in Outcomes, NEW c \in Captains, ToolResult(outcome, c)
          PROVE  ~ Emits("call_tool_chain", effects')
      <3>1. \/ effects' = << Send("notify_reassigned") >> \/ effects' = << Reconciled >>
            \/ \E reason : Escalate(reason)
        BY <2>1 DEF ToolResult, ApplyToolResult, ReconcileToolResult
      <3> QED
        BY <3>1, NoDispatch, EscalateQuiet DEF Send, Reconciled
    <2>2. CASE Inert("reconcile")
      BY <2>2, NoDispatch DEF Inert
    <2> QED
      BY <1>8, <2>1, <2>2 DEF ToolReturns
  <1> QED
    BY <1>4, <1>5, <1>6, <1>7, <1>8

\* A message that dispatches for such a merchant consents.
LEMMA DispatchingMessageConsents ==
  ASSUME OnlyGoldIsAutomatic, IInv, tier # "Gold", NEW flags \in SUBSET Flags,
         MerchantMessage(flags), Emits("call_tool_chain", effects')
  PROVE  Consents(flags)
  <1> DEFINE env == Decide(tier, delay, overrides, pushCount, flags)
  <1>1. EnvelopeOK(env, overrides) /\ epoch \in Nat
    BY DecideOK DEF IInv, FieldsOK
  <1>2. effects' # << Log >>
    BY NoDispatch DEF Log
  <1>3. /\ EnvelopeOK(EscalateForRepetition(env), overrides)
        /\ EscalateForRepetition(env).action \notin ReassignActions
    BY <1>1, RepetitionOK DEF ReassignActions
  <1>4. Route(env, epoch) \/ Route(EscalateForRepetition(env), epoch)
    BY <1>2 DEF MerchantMessage, MessageInFlight, AnswerMessage
  <1>5. env.action \in ReassignActions
    <2> HIDE DEF env
    <2> QED
      BY <1>1, <1>3, <1>4, RouteDispatches
  <1> QED
    BY <1>5, AskedConsents

\* During an override that silences the reassignment rules no chain is dispatched.
THEOREM OutageStopsDispatch ==
  ASSUME ReassignmentRulesAreKnown
  PROVE  Spec => []NoDispatchDuringOutage
  <1>1. Init => NoDispatchDuringOutage
    <2> SUFFICES ASSUME Init, {"R3", "R4"} \subseteq SuppressedRules(overrides)
                 PROVE  inFlight = 0
      BY DEF NoDispatchDuringOutage
    <2>1. PICK t \in Tiers, d \in InitialDelays, c \in Captains \cup {None}, o \in OverrideLists :
            Bootstrap(t, d, c, o)
      BY DEF Init
    <2> DEFINE env == Decide(t, d, o, 0, None)
    <2>2. /\ overrides = o /\ effects = RoutedEffects(env, 0)
          /\ EnvelopeOK(env, o)
      BY <2>1, DecideOK DEF Bootstrap
    <2>3. env.action \notin ReassignActions
      BY <2>2, OutageForbids DEF ReassignPremiseActions
    <2> HIDE DEF env
    <2>4. ~ Emits("call_tool_chain", effects)
      BY <2>2, <2>3, RoutedOK
    <2> QED
      BY <2>4 DEF Init
  <1>2. IInv /\ NoDispatchDuringOutage /\ [Next]_vars => NoDispatchDuringOutage'
    <2> SUFFICES ASSUME IInv, NoDispatchDuringOutage, [Next]_vars,
                        {"R3", "R4"} \subseteq SuppressedRules(overrides')
                 PROVE  inFlight' = 0
      BY DEF NoDispatchDuringOutage
    <2>1. CASE Event
      <3>1. HandlerOK /\ Live /\ RunEffects(inFlight)
        BY <2>1, EventOK DEF Event
      <3>2. overrides' = overrides /\ inFlight = 0
        BY <3>1 DEF HandlerOK, NoDispatchDuringOutage
      <3>3. ~ Emits("call_tool_chain", effects')
        BY <3>1, OutageForbids DEF HandlerOK, EffectsOK, AwaitedDispatchIsPermitted
      <3> QED
        BY <3>2, <3>1, <3>3 DEF RunEffects
    <2>2. CASE LateEvent
      BY <2>2 DEF LateEvent, Inert, sessionVars, context, NoDispatchDuringOutage
    <2>3. CASE ToolReturns
      <3>1. overrides' = overrides /\ inFlight # 0
        BY <2>3 DEF ToolReturns, ToolResult, Inert, sessionVars, context
      <3> QED
        BY <3>1 DEF NoDispatchDuringOutage
    <2>4. CASE UNCHANGED vars
      BY <2>4 DEF vars, sessionVars, context, NoDispatchDuringOutage
    <2> QED
      BY <2>1, <2>2, <2>3, <2>4 DEF Next
  <1> QED
    BY <1>1, <1>2, Inductive, PTL DEF Spec

\* Without Gold's standing permission a chain is dispatched only by a message that
\* consents, at any point of the conversation.
THEOREM Consent ==
  ASSUME OnlyGoldIsAutomatic
  PROVE  Spec => ReassignmentNeedsConsent
  <1>1. ASSUME IInv, Next, tier # "Gold", Emits("call_tool_chain", effects')
        PROVE  Message /\ \A flags \in Intents : MerchantMessage(flags) => Consents(flags)
    <2>1. Message
      BY <1>1, OthersDoNotDispatch DEF Next, Event
    <2>2. Intents \subseteq SUBSET Flags
      BY SessionAssumption
    <2> QED
      BY <1>1, <2>1, <2>2, DispatchingMessageConsents
  <1>2. IInv /\ [Next]_vars =>
          [tier # "Gold" /\ Emits("call_tool_chain", effects')
             => /\ Message
                /\ \A flags \in Intents : MerchantMessage(flags) => Consents(flags)]_vars
    BY <1>1
  <1> QED
    BY <1>2, Inductive, PTL DEF Spec, ReassignmentNeedsConsent

-----------------------------------------------------------------------------
(* No order past the threshold is left with the agent.                         *)

PastThreshold(t, d) ==
  \E i \in DOMAIN Rules : Matches(i, t, d) /\ Rules[i].action = "escalate_immediate"

\* Every open session has been judged at its present lateness, and found below the
\* threshold.
BelowThreshold ==
  /\ delay \in Delays
  /\ Live => ~ PastThreshold(tier, delay)

\* The engine escalates an order past the threshold, whatever the overrides, the
\* pushes and the message.
LEMMA PastThresholdEscalates ==
  ASSUME ImmediateRulesPrevail, NEW t \in Tiers, NEW d \in Delays, NEW o, NEW p, NEW f,
         PastThreshold(t, d)
  PROVE  Decide(t, d, o, p, f).action = "escalate"
  <1> DEFINE rule == MatchedRule(t, d)
  <1>1. PICK i \in DOMAIN Rules : Matches(i, t, d) /\ Rules[i].action = "escalate_immediate"
    BY DEF PastThreshold
  <1>2. CASE rule = None
    BY <1>2 DEF Decide, Handoff, Envelope
  <1>3. CASE rule # None
    <2>1. PICK j \in DOMAIN Rules : rule = Rules[j] /\ Matches(j, t, d)
      BY <1>3, MatchedRow
    <2>2. rule.action = "escalate_immediate"
      BY <1>1, <2>1 DEF ImmediateRulesPrevail
    <2>3. rule.id \notin SuppressedRules(o)
      BY <2>1, <2>2 DEF ImmediateRulesPrevail, SuppressedRules
    <2>4. ApplyRule(rule, f, p, o).action = "escalate"
      BY <2>2 DEF ApplyRule, Handoff, Envelope
    <2> QED
      BY <1>3, <2>3, <2>4 DEF Decide, Handoff, Envelope
  <1> QED
    BY <1>2, <1>3

\* Routing an escalation closes the session.
LEMMA EscalationCloses ==
  ASSUME NEW env, NEW e, Route(env, e), env.action = "escalate"
  PROVE  ~ Live'
  BY DEF Route, RoutedFsm, ReassignActions, Live, TerminalStates

\* An event that changes the lateness judges the order anew, in flight or not.
LEMMA NewLatenessIsJudged ==
  ASSUME ImmediateRulesPrevail, IInv, NEW d \in Delays, NEW c, OnAsyncEvent(d, c)
  PROVE  BelowThreshold'
  <1> DEFINE env == Decide(tier, d, overrides, pushCount, None)
  <1>1. tier' = tier /\ delay' = d /\ tier \in Tiers
    BY DEF OnAsyncEvent, context, IInv, FieldsOK
  <1>2. ASSUME PastThreshold(tier, d) PROVE ~ Live'
    <2>1. env.action = "escalate"
      BY <1>1, <1>2, PastThresholdEscalates
    <2>2. Route(env, epoch + 1)
      BY <2>1 DEF OnAsyncEvent, ReassignPremiseActions, ReassignActions
    <2> HIDE DEF env
    <2> QED
      BY <2>1, <2>2, EscalationCloses
  <1> QED
    BY <1>1, <1>2 DEF BelowThreshold, PastThreshold

\* Every other step leaves the lateness as it is and reopens nothing.
LEMMA SameLateness ==
  ASSUME BelowThreshold, UNCHANGED <<tier, delay>>, Live' => Live
  PROVE  BelowThreshold'
  BY DEF BelowThreshold, PastThreshold

\* With a pack whose immediate escalations prevail, an order past the threshold is
\* never left with the agent, however it got there and whatever is in flight.
THEOREM NoneLeftPastThreshold ==
  ASSUME ImmediateRulesPrevail
  PROVE  Spec => []NoOpenSessionPastThreshold
  <1>1. Init => BelowThreshold
    <2> SUFFICES ASSUME Init PROVE BelowThreshold
      OBVIOUS
    <2>1. PICK t \in Tiers, d \in InitialDelays, c \in Captains \cup {None}, o \in OverrideLists :
            Bootstrap(t, d, c, o)
      BY DEF Init
    <2> DEFINE env == Decide(t, d, o, 0, None)
    <2>2. tier = t /\ delay = d /\ fsm = RoutedFsm(env.action) /\ d \in Delays
      BY <2>1 DEF Bootstrap, Delays
    <2>3. PastThreshold(t, d) => env.action = "escalate"
      BY <2>2, PastThresholdEscalates
    <2> HIDE DEF env
    <2> QED
      BY <2>2, <2>3 DEF BelowThreshold, RoutedFsm, ReassignActions, Live, TerminalStates
  <1>2. IInv /\ BelowThreshold /\ [Next]_vars => BelowThreshold'
    <2> SUFFICES ASSUME IInv, BelowThreshold, [Next]_vars PROVE BelowThreshold'
      OBVIOUS
    <2>1. CASE Message
      BY <2>1, SameLateness DEF Message, MerchantMessage, context, data
    <2>2. CASE CaptainCancelled
      BY <2>2, NewLatenessIsJudged DEF CaptainCancelled, BelowThreshold
    <2>3. CASE \E eta \in EtaUpdates : EtaUpdated(eta)
      <3>1. PICK eta \in EtaUpdates : EtaUpdated(eta)
        BY <2>3
      <3>2. CASE eta = None
        BY <3>1, <3>2, NewLatenessIsJudged DEF EtaUpdated, BelowThreshold
      <3>3. CASE eta # None
        <4>1. Max2(0, eta) \in Delays
          BY <3>3 DEF Delays
        <4> QED
          BY <3>1, <3>3, <4>1, NewLatenessIsJudged DEF EtaUpdated
      <3> QED
        BY <3>2, <3>3
    <2>4. CASE PrepCompleted
      BY <2>4, SameLateness DEF PrepCompleted, context, data
    <2>5. CASE Timer
      BY <2>5, SameLateness DEF Timer, ReplyTimeout, ToolTimeout, Reevaluate, context, data
    <2>6. CASE ClassifierUnavailable
      BY <2>6, SameLateness DEF ClassifierUnavailable, context, data
    <2>7. CASE \E outcome \in Outcomes, c \in Captains : ToolResult(outcome, c)
      BY <2>7, SameLateness DEF ToolResult, context
    <2>8. CASE UNCHANGED sessionVars
      BY <2>8, SameLateness DEF sessionVars, context, data, routed, Live
    <2> QED
      BY <2>1, <2>2, <2>3, <2>4, <2>5, <2>6, <2>7, <2>8
      DEF Next, Event, Async, LateEvent, ToolReturns, Inert, vars
  <1>3. BelowThreshold => NoOpenSessionPastThreshold
    BY DEF BelowThreshold, PastThreshold, NoOpenSessionPastThreshold
  <1> QED
    BY <1>1, <1>2, <1>3, Inductive, PTL DEF Spec

-----------------------------------------------------------------------------
(* The two loop guards bound each other.                                       *)

\* Beyond its own threshold the agent-side guard lets a reply pass only while the
\* merchant-side count keeps up with it, and that count is bounded.
GuardsAgree ==
  Live =>
    /\ stalls <= LoopGuardThreshold - 1 + pushCount
    /\ pushCount <= LoopGuardThreshold
    /\ lastEmitted # "clarify" => pushCount = 0
    /\ lastEmitted = "clarify" => repeats >= 1

\* The engine asks again only below the threshold.
LEMMA ClarifyBelowThreshold ==
  ASSUME NEW t, NEW d, NEW o, NEW p \in Nat, NEW flags \in SUBSET Flags,
         Decide(t, d, o, p, flags).action = "clarify"
  PROVE  p < LoopGuardThreshold
  <1> DEFINE rule == MatchedRule(t, d)
  <1>1. \A a, id, r : Envelope(a, id, r, o).action = a /\ Handoff(id, r, o).action = "escalate"
    BY DEF Envelope, Handoff
  <1>2. \A id : ClarifyOrLoopGuard(id, p, o).action = "clarify" => p < LoopGuardThreshold
    BY <1>1, PolicyAssumption DEF ClarifyOrLoopGuard
  <1>3. ApplyRule(rule, flags, p, o).action = "clarify"
    BY <1>1 DEF Decide, ApplyOverride
  <1>4. \/ ReactiveR2(rule.id, flags, p, o).action = "clarify"
        \/ ReactiveR4(rule.id, flags, p, o).action = "clarify"
    BY <1>1, <1>3 DEF ApplyRule
  <1>5. ReactiveR2(rule.id, flags, p, o).action = "clarify" => p < LoopGuardThreshold
    BY <1>1, <1>2 DEF ReactiveR2
  <1>6. ReactiveR4(rule.id, flags, p, o).action = "clarify" => p < LoopGuardThreshold
    BY <1>1, <1>2 DEF ReactiveR4
  <1> QED
    BY <1>4, <1>5, <1>6

\* An answered message keeps the guards in agreement.
LEMMA AnswerKeepsGuards ==
  ASSUME IInv, GuardsAgree, Live, NEW flags \in SUBSET Flags, AnswerMessage(flags)
  PROVE  GuardsAgree'
  <1> DEFINE env    == Decide(tier, delay, overrides, pushCount, flags)
             pushes == NextPushes(env, flags)
             reps   == NextRepeats(env)
             stall  == NextStalls(env)
             stuck  == Stuck(env, pushes, reps, stall)
             out    == IF stuck THEN EscalateForRepetition(env) ELSE env
  <1> USE PolicyAssumption
  <1>1. /\ pushCount \in Nat /\ repeats \in Nat /\ stalls \in Nat
        /\ stalls <= LoopGuardThreshold - 1 + pushCount /\ pushCount <= LoopGuardThreshold
        /\ lastEmitted # "clarify" => pushCount = 0
        /\ lastEmitted = "clarify" => repeats >= 1
    BY DEF IInv, FieldsOK, GuardsAgree
  <1>2. /\ pushCount' = pushes /\ lastEmitted' = env.action /\ repeats' = reps /\ stalls' = stall
        /\ Route(out, epoch)
    BY DEF AnswerMessage
  <1>3. EnvelopeOK(env, overrides)
    BY DecideOK
  <1>4. Live' => ~ stuck
    <2>1. EscalateForRepetition(env).action = "escalate"
      BY <1>3, RepetitionOK
    <2> HIDE DEF env, stuck
    <2> QED
      BY <1>2, <2>1 DEF Route, RoutedFsm, ReassignActions, Live, TerminalStates
  <1>5. env.action = "clarify" => pushCount < LoopGuardThreshold
    BY <1>1, ClarifyBelowThreshold
  <1>6. /\ reps = IF env.action = lastEmitted THEN repeats + 1 ELSE 1
        /\ stall = IF env.action \in StallActions THEN stalls + 1 ELSE 0
        /\ env.action # "clarify" => pushes = 0
        /\ env.action = "clarify" => pushes = pushCount + 1 \/ pushes = 1
    BY DEF NextRepeats, NextStalls, NextPushes
  <1>7. ~ stuck => ~ (pushes < reps /\ stall >= LoopGuardThreshold)
    BY DEF Stuck
  <1> HIDE DEF env, pushes, reps, stall, stuck
  <1>8. CASE env.action = "clarify"
    BY <1>1, <1>2, <1>4, <1>5, <1>6, <1>7, <1>8 DEF GuardsAgree, StallActions
  <1>9. CASE env.action # "clarify"
    BY <1>1, <1>2, <1>4, <1>6, <1>7, <1>9 DEF GuardsAgree
  <1> QED
    BY <1>8, <1>9

\* Any other step leaves the counters alone.
LEMMA OthersKeepGuards ==
  ASSUME GuardsAgree, UNCHANGED counters, Live' => Live
  PROVE  GuardsAgree'
  BY DEF GuardsAgree, counters, Live

\* The merchant gets at most so many consecutive replies that get nowhere.
THEOREM StallBound == Spec => []StallIsBounded
  <1>1. Init => GuardsAgree
    BY PolicyAssumption, NoneAssumption DEF Init, Bootstrap, GuardsAgree, ActionTypes
  <1>2. IInv /\ GuardsAgree /\ [Next]_vars => GuardsAgree'
    <2> SUFFICES ASSUME IInv, GuardsAgree, [Next]_vars PROVE GuardsAgree'
      OBVIOUS
    <2>1. CASE Message
      <3>1. PICK flags \in Intents : MerchantMessage(flags)
        BY <2>1 DEF Message
      <3>2. flags \in SUBSET Flags /\ Live
        BY <3>1, SessionAssumption DEF MerchantMessage
      <3>3. CASE AnswerMessage(flags)
        BY <3>2, <3>3, AnswerKeepsGuards
      <3>4. CASE MessageInFlight(flags)
        BY <3>2, <3>4, OthersKeepGuards DEF MessageInFlight
      <3> QED
        BY <3>1, <3>3, <3>4 DEF MerchantMessage
    <2>2. CASE Async
      BY <2>2, OthersKeepGuards DEF Async, CaptainCancelled, EtaUpdated, OnAsyncEvent, PrepCompleted
    <2>3. CASE Timer
      BY <2>3, OthersKeepGuards DEF Timer, ReplyTimeout, ToolTimeout, Reevaluate
    <2>4. CASE ClassifierUnavailable
      BY <2>4, OthersKeepGuards DEF ClassifierUnavailable
    <2>5. CASE \E outcome \in Outcomes, c \in Captains : ToolResult(outcome, c)
      BY <2>5, OthersKeepGuards DEF ToolResult
    <2>6. CASE UNCHANGED sessionVars
      BY <2>6, OthersKeepGuards DEF sessionVars, routed, Live
    <2> QED
      BY <2>1, <2>2, <2>3, <2>4, <2>5, <2>6 DEF Next, Event, LateEvent, ToolReturns, Inert, vars
  <1>3. IInv /\ GuardsAgree => StallIsBounded
    BY PolicyAssumption DEF IInv, FieldsOK, GuardsAgree, StallIsBounded
  <1> QED
    BY <1>1, <1>2, <1>3, Inductive, PTL DEF Spec

=============================================================================
