------------------------------ MODULE Reducer -------------------------------
(* The session reducer, src/src/care_agent/core/reducer.py, over the record of *)
(* core/session.py: one action per event handler of reduce(session, event).    *)
(* An action is the whole handler: the counters it advances, the policy        *)
(* decision it asks for and the routing of that decision are one step.         *)
(*                                                                             *)
(* effects holds what the last step returned.  The idempotency key of a        *)
(* dispatch is order:reassign:e<epoch>, so within one order the epoch stands   *)
(* for the key, and pending is the epoch of the dispatch being awaited.        *)
(* history, texts and the context snapshot are left out: no decision reads     *)
(* them.  Modules CareSession and CareAgent add what runs the effects.         *)
EXTENDS Policy

CONSTANTS
  Captains,        \* captain ids the dispatch backend may hand out
  MaxEpoch,        \* bound on the session epoch
  MaxRepeats       \* bound on the repetition counter of one reply

VARIABLES
  tier, overrides,                 \* SessionState fields that never change
  delay, captain, unresponsive,    \* SessionState fields the reducer updates
  fsm, epoch, pending, lastAction, terminalReason,
  pushCount, lastSignature,        \* merchant-side loop guard
  lastEmitted, repeats, stalls,    \* agent-side repetition guard
  effects                          \* the effects the last step returned

context  == <<tier, overrides>>
data     == <<delay, captain, unresponsive>>
routed   == <<fsm, pending, lastAction, terminalReason>>
counters == <<pushCount, lastSignature, lastEmitted, repeats, stalls>>
sessionVars == <<context, data, epoch, routed, counters>>

FsmStates == {"MONITORING", "AWAITING_MERCHANT_REPLY", "AWAITING_TOOL_RESULT",
              "ESCALATED", "RESOLVED"}
TerminalStates == {"ESCALATED", "RESOLVED"}

\* "Policy still permits reassigning": the premise of a dispatch in flight.
ReassignPremiseActions == ReassignActions \cup {"ask_reassign_or_wait"}

NonProgressingActions == {"clarify", "acknowledge_wait", "degraded_mode_notice",
                          "notify_confirm_eta", "ask_reassign_or_wait"}
StallActions == {"clarify", "acknowledge_wait", "degraded_mode_notice"}

ASSUME ReducerAssumption == MaxEpoch \in Nat /\ MaxRepeats \in Nat

Max2(a, b) == IF a >= b THEN a ELSE b

-----------------------------------------------------------------------------
(* Effects.                                                                    *)

Log               == [kind |-> "log"]
Reconciled        == [kind |-> "reconcile"]
Send(action)      == [kind |-> "send_message", action |-> action]
CallToolChain(e)  == [kind |-> "call_tool_chain", epoch |-> e]
Escalation(reason, mode) == [kind |-> "escalate", reason |-> reason, mode |-> mode]
Resolution(reason) == [kind |-> "resolve", reason |-> reason]

Emits(kind, fx) == \E i \in DOMAIN fx : fx[i].kind = kind

-----------------------------------------------------------------------------
(* _route and _escalate.                                                       *)

RoutedFsm(action) ==
  CASE action \in {"notify_confirm_eta", "ask_reassign_or_wait", "clarify"} ->
         "AWAITING_MERCHANT_REPLY"
    [] action \in ReassignActions          -> "AWAITING_TOOL_RESULT"
    [] action = "resolve_eta_confirmed"    -> "RESOLVED"
    [] action = "escalate"                 -> "ESCALATED"
    [] OTHER                               -> "MONITORING"

\* Dispatch mutant: the state awaits a tool chain nobody was asked to run.
RoutedEffectsNoCall(env, e) ==
  IF env.action = "escalate" THEN << Escalation(env.reason, env.mode) >> ELSE << Log >>

RoutedEffects(env, e) ==
  CASE env.action = "log_only"              -> << Log >>
    [] env.action \in ReassignActions       -> << CallToolChain(e) >>
    [] env.action = "resolve_eta_confirmed" -> << Send(env.action), Resolution(env.reason) >>
    [] env.action = "escalate"              -> << Escalation(env.reason, env.mode) >>
    [] OTHER                                -> << Send(env.action) >>

RoutedPending(env, e) == IF env.action \in ReassignActions THEN e ELSE None

RoutedReason(env) ==
  IF RoutedFsm(env.action) \in TerminalStates THEN env.reason ELSE None

Decision(env) == [action |-> env.action, rule |-> env.rule, reason |-> env.reason]

Route(env, e) ==
  /\ fsm' = RoutedFsm(env.action)
  /\ pending' = RoutedPending(env, e)
  /\ lastAction' = Decision(env)
  /\ terminalReason' = RoutedReason(env)
  /\ effects' = RoutedEffects(env, e)

\* Reset mutant: the handoff leaves the awaited dispatch behind.
EscalateKeepsPending(reason) ==
  /\ fsm' = "ESCALATED"
  /\ terminalReason' = reason
  /\ UNCHANGED <<pending, lastAction>>
  /\ effects' = << Escalation(reason, EscalationModeFor(overrides)) >>

\* Outage mutant: a handoff outside decide opens a ticket of its own.
EscalatePerOrder(reason) ==
  /\ fsm' = "ESCALATED"
  /\ pending' = None
  /\ terminalReason' = reason
  /\ UNCHANGED lastAction
  /\ effects' = << Escalation(reason, "per_order") >>

\* A handoff that does not originate from decide: timeouts, tool failures.
Escalate(reason) ==
  /\ fsm' = "ESCALATED"
  /\ pending' = None
  /\ terminalReason' = reason
  /\ UNCHANGED lastAction
  /\ effects' = << Escalation(reason, EscalationModeFor(overrides)) >>

-----------------------------------------------------------------------------
(* bootstrap: the turn-0 decision is taken before any event.                   *)

Bootstrap(t, d, c, ovs) ==
  LET env == Decide(t, d, ovs, 0, None)
  IN  /\ tier = t /\ delay = d /\ captain = c /\ overrides = ovs
      /\ unresponsive = 0 /\ epoch = 0
      /\ fsm = RoutedFsm(env.action)
      /\ pending = RoutedPending(env, 0)
      /\ lastAction = Decision(env)
      /\ terminalReason = RoutedReason(env)
      /\ effects = RoutedEffects(env, 0)
      /\ pushCount = 0 /\ lastSignature = None
      /\ lastEmitted = None /\ repeats = 0 /\ stalls = 0

Live == fsm \notin TerminalStates

-----------------------------------------------------------------------------
(* Merchant messages.                                                          *)

Signature(flags) == flags \ {"requests_human"}

\* While a tool is in flight only a human request acts.
MessageInFlight(flags) ==
  /\ fsm = "AWAITING_TOOL_RESULT"
  /\ IF "requests_human" \in flags
       THEN /\ Route(Decide(tier, delay, overrides, pushCount, flags), epoch)
            /\ UNCHANGED epoch
       ELSE /\ epoch < MaxEpoch
            /\ epoch' = epoch + 1
            /\ effects' = << Log >>
            /\ UNCHANGED routed
  /\ UNCHANGED counters

\* The counters after a reply env to a message: signature, pushes, repeats, stalls.
NextSignature(env, flags) ==
  IF env.action = "clarify" THEN Signature(flags) ELSE None

NextPushes(env, flags) ==
  CASE env.action # "clarify"                                          -> 0
    [] env.action = "clarify" /\ Signature(flags) = lastSignature      -> pushCount + 1
    [] OTHER                                                           -> 1

NextRepeats(env) == IF env.action = lastEmitted THEN repeats + 1 ELSE 1

NextStalls(env) == IF env.action \in StallActions THEN stalls + 1 ELSE 0

\* Loop mutant: a run of different useless replies is never noticed.
StuckOnIdenticalOnly(env, pushes, reps, stall) ==
  /\ pushes < reps
  /\ env.action \in NonProgressingActions /\ reps >= AgentRepetitionThreshold

\* The agent-side guards defer to the merchant-side one while its count keeps up.
Stuck(env, pushes, reps, stall) ==
  /\ pushes < reps
  /\ \/ env.action \in NonProgressingActions /\ reps >= AgentRepetitionThreshold
     \/ stall >= LoopGuardThreshold

AnswerMessage(flags) ==
  LET env    == Decide(tier, delay, overrides, pushCount, flags)
      pushes == NextPushes(env, flags)
      reps   == NextRepeats(env)
      stall  == NextStalls(env)
  IN  /\ fsm # "AWAITING_TOOL_RESULT"
      /\ repeats < MaxRepeats
      /\ pushCount' = pushes /\ lastSignature' = NextSignature(env, flags)
      /\ lastEmitted' = env.action /\ repeats' = reps /\ stalls' = stall
      /\ Route(IF Stuck(env, pushes, reps, stall) THEN EscalateForRepetition(env) ELSE env,
               epoch)
      /\ UNCHANGED epoch

\* R6 mutant: every message is buffered while a tool is in flight.
MerchantMessageBuffersAll(flags) ==
  /\ Live
  /\ \/ AnswerMessage(flags)
     \/ MessageInFlight(flags \ {"requests_human"})
  /\ UNCHANGED <<context, data>>

MerchantMessage(flags) ==
  /\ Live
  /\ MessageInFlight(flags) \/ AnswerMessage(flags)
  /\ UNCHANGED <<context, data>>

-----------------------------------------------------------------------------
(* Tool results.                                                               *)

Outcomes == {"reassigned", "partial_failure", "no_captain", "failed"}

Assigning(outcome) == outcome \in {"reassigned", "partial_failure"}

AwaitingResult == fsm = "AWAITING_TOOL_RESULT" /\ pending # None

\* Retry mutant: a failed chain is dispatched again instead of handed off.
ApplyToolResultRedispatches(outcome, c) ==
  /\ AwaitingResult
  /\ captain' = IF Assigning(outcome) THEN c ELSE captain
  /\ CASE outcome = "reassigned" ->
            /\ fsm' = "MONITORING"
            /\ pending' = None
            /\ lastAction' = [action |-> "notify_reassigned",
                              rule |-> lastAction.rule, reason |-> "reassigned"]
            /\ terminalReason' = None
            /\ effects' = << Send("notify_reassigned") >>
       [] outcome = "partial_failure" -> Escalate("partial_failure")
       [] OTHER -> UNCHANGED routed /\ effects' = << CallToolChain(pending) >>

\* The result is the awaited one as far as the reducer can tell: the epoch it was
\* dispatched under is not compared.  The broker reports no other outcome.
ApplyToolResult(outcome, c) ==
  /\ AwaitingResult
  /\ captain' = IF Assigning(outcome) THEN c ELSE captain
  /\ CASE outcome = "reassigned" ->
            /\ fsm' = "MONITORING"
            /\ pending' = None
            /\ lastAction' = [action |-> "notify_reassigned",
                              rule |-> lastAction.rule, reason |-> "reassigned"]
            /\ terminalReason' = None
            /\ effects' = << Send("notify_reassigned") >>
       [] outcome = "partial_failure" -> Escalate("partial_failure")
       [] OTHER -> Escalate("tool_fail_or_no_captain")

\* The session moved on: a late success is still recorded.
ReconcileToolResult(outcome, c) ==
  /\ ~ AwaitingResult
  /\ captain' = IF Assigning(outcome) THEN c ELSE captain
  /\ effects' = << Reconciled >>
  /\ UNCHANGED routed

ToolResult(outcome, c) ==
  /\ Live
  /\ ApplyToolResult(outcome, c) \/ ReconcileToolResult(outcome, c)
  /\ UNCHANGED <<context, delay, unresponsive, epoch, counters>>

-----------------------------------------------------------------------------
(* Asynchronous events.                                                        *)

\* Premise mutant: while a tool is in flight every event keeps awaiting it.
OnAsyncEventKeepsAwaiting(newDelay, newCaptain) ==
  LET env == Decide(tier, newDelay, overrides, pushCount, None)
  IN  /\ Live
      /\ epoch < MaxEpoch
      /\ epoch' = epoch + 1
      /\ delay' = newDelay /\ captain' = newCaptain
      /\ IF fsm = "AWAITING_TOOL_RESULT"
           THEN effects' = << Log >> /\ UNCHANGED routed
           ELSE Route(env, epoch + 1)
      /\ UNCHANGED <<context, unresponsive, counters>>

OnAsyncEvent(newDelay, newCaptain) ==
  LET env == Decide(tier, newDelay, overrides, pushCount, None)
  IN  /\ Live
      /\ epoch < MaxEpoch
      /\ epoch' = epoch + 1
      /\ delay' = newDelay /\ captain' = newCaptain
      /\ IF fsm = "AWAITING_TOOL_RESULT" /\ env.action \in ReassignPremiseActions
           THEN effects' = << Log >> /\ UNCHANGED routed
           ELSE Route(env, epoch + 1)
      /\ UNCHANGED <<context, unresponsive, counters>>

CaptainCancelled == OnAsyncEvent(delay, None)

\* Payload mutant: a lateness before the promised time is taken as it is.
EtaUpdatedUnclamped(newEta) ==
  OnAsyncEvent(IF newEta = None THEN delay ELSE newEta, captain)

\* new_eta is the updated lateness; an event without one changes no data.
EtaUpdated(newEta) ==
  OnAsyncEvent(IF newEta = None THEN delay ELSE Max2(0, newEta), captain)

\* The order is ready: supersedes any dispatch in flight.
PrepCompleted ==
  /\ Live
  /\ epoch < MaxEpoch
  /\ epoch' = epoch + 1
  /\ fsm' = "RESOLVED" /\ pending' = None /\ terminalReason' = "prep_completed"
  /\ effects' = << Resolution("prep_completed") >>
  /\ UNCHANGED <<context, data, lastAction, counters>>

-----------------------------------------------------------------------------
(* Timers, the tick and an unreadable message.                                 *)

\* Only an unanswered question counts; elsewhere the timer is a late one.
ReplyTimeout ==
  /\ Live
  /\ IF fsm # "AWAITING_MERCHANT_REPLY"
       THEN effects' = << Log >> /\ UNCHANGED <<unresponsive, routed>>
       ELSE /\ unresponsive' = unresponsive + 1
            /\ IF unresponsive + 1 >= UnresponsiveAttempts
                 THEN Escalate("unresponsive")
                 ELSE Route(Decide(tier, delay, overrides, pushCount, None), epoch)
  /\ UNCHANGED <<context, delay, captain, epoch, counters>>

ToolTimeout ==
  /\ Live
  /\ IF fsm # "AWAITING_TOOL_RESULT"
       THEN effects' = << Log >> /\ UNCHANGED routed
       ELSE Escalate("tool_timeout")
  /\ UNCHANGED <<context, data, epoch, counters>>

ClassifierUnavailable ==
  /\ Live
  /\ Escalate("classifier_unavailable")
  /\ UNCHANGED <<context, data, epoch, counters>>

\* Latch mutant: the tick is acted on in a closed session as well.
ReevaluateAlways ==
  /\ Route(Decide(tier, delay, overrides, pushCount, None), epoch)
  /\ UNCHANGED <<context, data, epoch, counters>>

\* TICK and SESSION_IDLE_TIMEOUT run the pipeline again.
Reevaluate ==
  /\ Live
  /\ Route(Decide(tier, delay, overrides, pushCount, None), epoch)
  /\ UNCHANGED <<context, data, epoch, counters>>

-----------------------------------------------------------------------------
(* Terminal states are inert: late input is logged or reconciled.              *)

Inert(kind) ==
  /\ ~ Live
  /\ effects' = << [kind |-> kind] >>
  /\ UNCHANGED sessionVars

=============================================================================
