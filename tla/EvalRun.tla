------------------------------- MODULE EvalRun ------------------------------
(* The evaluation harness, src/src/care_agent/eval: run_once drives one agent   *)
(* through one scenario (runner.py), a persona plays the merchant               *)
(* (simulator.py), and score_run grades the run (metrics.py).                   *)
(*                                                                              *)
(* A shipped run faces one of three personas.  Here the persona is any merchant *)
(* and any model reading it: a message is every set of flags the classifier may *)
(* return, or its failure.  The judge and the report are left out.              *)
EXTENDS CareAgent

CONSTANT Scenarios     \* the suite: what ScenarioSuite's records hold

VARIABLES
  scenario,       \* the scenario being run
  status,         \* where run_once is
  round,          \* merchant messages sent so far
  due,            \* scripted events of this round not yet applied
  taken,          \* actions of the trajectory
  dispatches      \* reassign chains started

harnessVars == <<scenario, status, round, due, taken, dispatches>>
evalVars == <<vars, harnessVars>>

-----------------------------------------------------------------------------
(* What a scenario scripts.                                                    *)

\* inject_before_tool_result and inject_before_generate.
Script(s, at) ==
  LET chosen == SelectSeq(s.events, LAMBDA entry : entry.at = at)
  IN  [i \in DOMAIN chosen |-> chosen[i].event]

\* _apply_events(after_turn = k).
ScriptAfter(s, k) ==
  LET chosen == SelectSeq(s.events,
                          LAMBDA entry : entry.at = "after_turn" /\ entry.turn = k)
  IN  [i \in DOMAIN chosen |-> chosen[i].event]

\* A scenario scripts injectable events and configures what the broker can report.
ASSUME EvalAssumption ==
  \A s \in Scenarios :
    /\ s.max_turns \in Nat
    /\ s.outcomes \subseteq Outcomes
    /\ \A at \in {"tool_flight", "generation"} : Script(s, at) \in Seq(InjectedEvents)
    /\ Len(Script(s, "tool_flight")) + Len(Script(s, "generation")) <= MaxArmed
    /\ \A k \in 0 .. s.max_turns : ScriptAfter(s, k) \in Seq(InjectedEvents)

\* The trajectory entries a step adds: a dispatch is known by the action that
\* decided it.
Actions(fx, decided) ==
  {fx[i].action : i \in {k \in DOMAIN fx : fx[k].kind = "send_message"}} \cup
  {"escalate" : i \in {k \in DOMAIN fx : fx[k].kind = "escalate"}} \cup
  {decided.action : i \in {k \in DOMAIN fx : fx[k].kind = "call_tool_chain"}}

Taking == taken' = taken \cup Actions(effects', lastAction')

-----------------------------------------------------------------------------

EvalInit ==
  /\ scenario \in Scenarios
  /\ Init
  /\ tier = scenario.tier /\ delay = scenario.delay /\ overrides = scenario.overrides
  /\ status = "opening" /\ round = 0 /\ due = << >>
  /\ taken = Actions(effects, lastAction) /\ dispatches = 0

\* Once start() has returned, the events that land inside a turn are queued and
\* those of round 0 are applied.
QueueInjections ==
  /\ status = "opening" /\ Idle
  /\ status' = "running"
  /\ injectTool' = Script(scenario, "tool_flight")
  /\ injectGen' = Script(scenario, "generation")
  /\ armed' = armed + Len(injectTool') + Len(injectGen')
  /\ due' = ScriptAfter(scenario, 0)
  /\ UNCHANGED <<sessionVars, effects, stack, returning, cache, tickets, turns,
                 scenario, round, taken, dispatches>>

\* The rest of a round's script is dropped when the session has closed.
ApplyScripted ==
  /\ status = "running" /\ Idle /\ Live /\ due # << >>
  /\ SendEvent(Head(due)) /\ Taking
  /\ due' = Tail(due)
  /\ UNCHANGED <<scenario, status, round, dispatches>>

\* A ladder of scripted turns or a model playing the persona: any message.
MerchantSays == \E flags \in Intents : SendMessage(flags)

Converse ==
  /\ status = "running" /\ Idle /\ Live /\ due = << >>
  /\ round < scenario.max_turns
  /\ MerchantSays
  /\ Taking
  /\ round' = round + 1
  /\ due' = ScriptAfter(scenario, round + 1)
  /\ UNCHANGED <<scenario, status, dispatches>>

Collect ==
  /\ status = "running" /\ Idle
  /\ ~ Live \/ (due = << >> /\ round = scenario.max_turns)
  /\ status' = "collected"
  /\ UNCHANGED <<vars, scenario, round, due, taken, dispatches>>

\* The scenario's tool configuration decides how every chain ends.
ToolChain ==
  /\ \E outcome \in scenario.outcomes, c \in Captains : RunChain(outcome, c)
  /\ dispatches' = dispatches + 1
  /\ UNCHANGED <<scenario, status, round, due, taken>>

AgentDecides ==
  /\ InjectMidFlight \/ DeliverResult \/ DispatchNested
  /\ Taking
  /\ UNCHANGED <<scenario, status, round, due, dispatches>>

AgentActs ==
  /\ Say \/ OpenTicket \/ Record \/ QueueDone
  /\ UNCHANGED harnessVars

EvalNext == \/ QueueInjections \/ ApplyScripted \/ Converse \/ Collect
            \/ ToolChain \/ AgentDecides \/ AgentActs

\* run_once is one loop on one thread.
EvalSpec == EvalInit /\ [][EvalNext]_evalVars /\ WF_evalVars(EvalNext)

-----------------------------------------------------------------------------
(* score_run.  The opening action is bootstrap's decision by definition; money  *)
(* tools, availability first and the retry cap belong to ToolBroker, where the  *)
(* calls of a chain are visible; promises belong to Conversation.               *)

PolicyChecks ==
  /\ scenario.expect.must_escalate => fsm = "ESCALATED"
  /\ taken \cap scenario.expect.forbidden = {}
  /\ scenario.expect.mode # None /\ tickets # << >> =>
       tickets[1].mode = scenario.expect.mode

TrajectoryChecks ==
  /\ scenario.expect.state # None => fsm = scenario.expect.state
  /\ scenario.expect.reason # None => terminalReason = scenario.expect.reason
  /\ scenario.expect.tool_order => dispatches > 0

IdempotencyObserved == Cardinality(cache) <= dispatches

Passed == PolicyChecks /\ TrajectoryChecks /\ IdempotencyObserved

-----------------------------------------------------------------------------
(* Properties.                                                                 *)

\* Every shipped scenario passes every deterministic check of score_run, not for
\* the three shipped personas only but whatever the merchant says, however it is
\* read and even when the classifier fails.
SuiteHoldsForEveryMerchant == status = "collected" => Passed

\* A scenario that schedules an event for the composing of a reply exercises it:
\* no merchant can make a run end, or pass, without the event having landed.
GenerationEventsLand ==
  status = "collected" /\ scenario.max_turns > 0 => injectGen = << >>

-----------------------------------------------------------------------------
(* What a scenario must be like for the two invariants to follow, under any pack *)
(* and with any merchant; the harness does not check it.                        *)

\* The turn-0 decision, which no merchant has a part in.
Opening(s) == Decide(s.tier, s.delay, s.overrides, 0, None)

Talking == {"notify_confirm_eta", "ask_reassign_or_wait", "degraded_mode_notice"}

\* What it injects while a reply is composed is all it scripts of the first round,
\* and the merchant has something to answer.
TalksFirst(s) ==
  /\ Opening(s).action \in Talking
  /\ Script(s, "tool_flight") = << >> /\ ScriptAfter(s, 0) = << >>

GenerationScriptsTalk ==
  \A s \in Scenarios : Script(s, "generation") # << >> => TalksFirst(s)

\* An event that takes the order where policy hands it off, for this reason.
Crosses(s, ev, reason) ==
  /\ ev.type = "SYSTEM_ETA_UPDATED" /\ ev.eta # None
  /\ LET env == Decide(s.tier, Max2(0, ev.eta), s.overrides, 0, None)
     IN  env.action = "escalate" /\ env.reason = reason

\* The dispatch of turn 0 is bound to fail.
ChainFails(s, reason) ==
  /\ Opening(s).action \in ReassignActions
  /\ \A outcome \in s.outcomes :
       reason = CASE outcome = "reassigned"      -> None
                  [] outcome = "partial_failure" -> "partial_failure"
                  [] OTHER                       -> "tool_fail_or_no_captain"

\* The opening question is left unanswered as often as the policy allows.
GoesUnanswered(s, reason) ==
  /\ RoutedFsm(Opening(s).action) = "AWAITING_MERCHANT_REPLY"
  /\ Script(s, "generation") = << >>
  /\ \A i \in 1 .. UnresponsiveAttempts :
       i \in DOMAIN ScriptAfter(s, 0) /\ ScriptAfter(s, 0)[i].type = "merchant_reply_timeout"
  /\ reason = "unresponsive"

\* The first thing that happens to an open session takes it over the threshold.
CrossesAtOnce(s, reason) ==
  /\ Opening(s).action \in Talking \cup {"log_only"}
  /\ ScriptAfter(s, 0) # << >> /\ Crosses(s, ScriptAfter(s, 0)[1], reason)

HandedOffFor(s, reason) ==
  ChainFails(s, reason) \/ GoesUnanswered(s, reason) \/ CrossesAtOnce(s, reason)

\* The order is taken over the threshold by what lands with the first reply, and no
\* reply before that can close the session in another way.
CrossesWhileReplying(s) ==
  /\ TalksFirst(s) /\ Opening(s).action # "notify_confirm_eta"
  /\ s.max_turns > 0
  /\ Script(s, "generation") # << >>
  /\ \E reason \in Reasons : Crosses(s, Script(s, "generation")[1], reason)

\* How late the suite can make the order.
Latenesses(s) == {s.delay} \cup {Max2(0, eta) : eta \in InjectedEtas \ {None}}

\* At none of them may it be reassigned.
NeverReassigns(s) ==
  \A d \in Latenesses(s) :
    Decide(s.tier, d, s.overrides, 0, None).action \notin ReassignPremiseActions

\* Nothing is said, and nobody says anything.
StaysSilent(s) ==
  /\ Opening(s).action = "log_only" /\ s.max_turns = 0
  /\ Script(s, "tool_flight") = << >> /\ Script(s, "generation") = << >>
  /\ ScriptAfter(s, 0) = << >>

\* What a scenario expects of every run is what its script makes of every run.
Justified(s) ==
  /\ s.expect.must_escalate =>
       CrossesWhileReplying(s) \/ \E reason \in Reasons : HandedOffFor(s, reason)
  /\ s.expect.state # None =>
       /\ s.expect.state = "ESCALATED"
       /\ CrossesWhileReplying(s) \/ \E reason \in Reasons : HandedOffFor(s, reason)
  /\ s.expect.reason # None => HandedOffFor(s, s.expect.reason)
  /\ \/ s.expect.forbidden = {}
     \/ s.expect.forbidden \subseteq ReassignActions /\ NeverReassigns(s)
     \/ StaysSilent(s)
  /\ s.expect.mode # None => s.expect.mode = EscalationModeFor(s.overrides)
  /\ s.expect.tool_order => Opening(s).action \in ReassignActions

SuiteIsJustified == \A s \in Scenarios : Justified(s)

-----------------------------------------------------------------------------
(* Liveness.                                                                   *)

\* Every run ends: no merchant, script or tool outcome keeps run_once busy.
RunsEnd == <>(status = "collected")
=============================================================================
