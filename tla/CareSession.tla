---------------------------- MODULE CareSession -----------------------------
(* One order's session: the reducer, driven one event at a time by Runtime and *)
(* the mailbox, together with what runs its effects.  A dispatched tool chain  *)
(* is in flight until its result comes back as an event; any number of other   *)
(* events may be applied in between, which is the ordering the reducer is      *)
(* written for and the agent reproduces by injecting events mid-flight.  Calls *)
(* are never cancelled.  The reducer does not compare the epoch of a result,   *)
(* so of the chains out only the number is kept: they may return in any order. *)
(* Tickets are the escalations opened so far.                                  *)
EXTENDS Reducer, FiniteSets

CONSTANTS
  InitialDelays,    \* lateness of the order when the session opens
  OverrideLists,    \* active_system_overrides of the order
  EtaUpdates,       \* payloads of SYSTEM_ETA_UPDATED, None for a missing one
  Intents,          \* the sets of classifier flags a message may carry
  MaxInFlight       \* bound on the chains in flight

VARIABLES
  inFlight,         \* the number of dispatched chains that have not returned
  tickets           \* handoffs opened, in order

vars == <<sessionVars, effects, inFlight, tickets>>

ASSUME SessionAssumption ==
  /\ None \notin Captains
  /\ InitialDelays \subseteq Nat
  /\ EtaUpdates \subseteq Int \cup {None}
  /\ Intents \subseteq SUBSET Flags
  /\ MaxInFlight \in Nat

-----------------------------------------------------------------------------

TicketOf(fx) ==
  LET i == CHOOSE i \in DOMAIN fx : fx[i].kind = "escalate"
  IN  [reason |-> fx[i].reason, mode |-> fx[i].mode]

\* Run the effects of the step, with "rest" chains still out.  A dispatch
\* needs room in flight; that bound is the model's, not the code's.
RunEffects(rest) ==
  /\ Emits("call_tool_chain", effects') => rest < MaxInFlight
  /\ inFlight' = IF Emits("call_tool_chain", effects') THEN rest + 1 ELSE rest
  /\ tickets' = IF Emits("escalate", effects') THEN Append(tickets, TicketOf(effects')) ELSE tickets

Init ==
  /\ \E t \in Tiers, d \in InitialDelays, c \in Captains \cup {None}, o \in OverrideLists :
       Bootstrap(t, d, c, o)
  /\ inFlight = IF Emits("call_tool_chain", effects) THEN 1 ELSE 0
  /\ tickets = IF Emits("escalate", effects) THEN << TicketOf(effects) >> ELSE << >>

Message == \E flags \in Intents : MerchantMessage(flags)

Async == \/ CaptainCancelled
         \/ PrepCompleted
         \/ \E eta \in EtaUpdates : EtaUpdated(eta)

Timer == ReplyTimeout \/ ToolTimeout \/ Reevaluate

Event == /\ Message \/ Async \/ Timer \/ ClassifierUnavailable
         /\ RunEffects(inFlight)

LateEvent == Inert("log") /\ UNCHANGED <<inFlight, tickets>>

\* A chain returns, to a session in whatever state it is by now.
ToolReturns ==
  /\ inFlight # 0
  /\ \/ \E outcome \in Outcomes, c \in Captains : ToolResult(outcome, c)
     \/ Inert("reconcile")
  /\ RunEffects(inFlight - 1)

Next == Event \/ LateEvent \/ ToolReturns

Spec == Init /\ [][Next]_vars

\* The broker always returns a result: its chain is a bounded loop without waits.
FairSpec == Spec /\ WF_vars(ToolReturns)

-----------------------------------------------------------------------------
(* Types.                                                                      *)

RuleIds == {Rules[i].id : i \in DOMAIN Rules} \cup {"R6", None}

\* Every field of the session record holds a value of its declared type.
TypeOK ==
  /\ tier \in Tiers
  /\ delay \in Nat
  /\ captain \in Captains \cup {None}
  /\ unresponsive \in Nat
  /\ fsm \in FsmStates
  /\ epoch \in Nat
  /\ pending \in Nat \cup {None}
  /\ lastAction.action \in ActionTypes
  /\ pushCount \in Nat /\ repeats \in Nat /\ stalls \in Nat
  /\ terminalReason \in Reasons \cup {None}
  /\ lastSignature \in (SUBSET Flags) \cup {None}
  /\ lastEmitted \in ActionTypes \cup {None}
  /\ inFlight \in Nat

-----------------------------------------------------------------------------
(* Safety: one state of the session record never contradicts another.          *)

\* A dispatch is remembered exactly while its result is awaited: no handler
\* leaves the waiting state with the old dispatch behind, or enters it without.
PendingIffAwaiting == (pending # None) <=> (fsm = "AWAITING_TOOL_RESULT")

\* The agent and the server read "closed" off terminal_reason, the reducer off
\* the FSM state; the two never disagree.
TerminalAgreement == (terminalReason # None) <=> (fsm \in TerminalStates)

\* Both at once: macro-state, awaited dispatch and closing reason tell one story.
RecordIsConsistent == PendingIffAwaiting /\ TerminalAgreement

\* A session opens one ticket if it is handed off and none otherwise, whatever
\* timers, failures and late results come, and the ticket names the closing reason.
OneTicketPerHandoff ==
  /\ Len(tickets) = IF fsm = "ESCALATED" THEN 1 ELSE 0
  /\ fsm = "ESCALATED" => tickets[1].reason = terminalReason

\* The three code paths that choose an escalation mode (decide, the repetition
\* guard, timeouts and tool failures) agree: a handoff during an outage is
\* attached to the incident, any other is a ticket of its own.
TicketModeFollowsOverrides ==
  \A i \in DOMAIN tickets : tickets[i].mode = EscalationModeFor(overrides)

\* While a reassignment is awaited, policy still permits reassigning this order
\* at its present lateness: no sequence of events leaves a dispatch waiting
\* whose premise has died.
AwaitedDispatchIsPermitted ==
  fsm = "AWAITING_TOOL_RESULT" =>
    Decide(tier, delay, overrides, pushCount, None).action \in ReassignPremiseActions

\* Whoever waits for a tool result is owed one.
AwaitedResultIsInFlight == fsm = "AWAITING_TOOL_RESULT" => inFlight # 0

\* An order past the immediate-escalation threshold is never left with the
\* agent, not even while a tool is in flight or the merchant is being waited for.
NoOpenSessionPastThreshold ==
  Live => \A i \in DOMAIN Rules :
            Matches(i, tier, delay) => Rules[i].action # "escalate_immediate"

\* During an override that suppresses both reassignment rules no chain is ever
\* dispatched, whatever the tier and whatever the merchant agrees to.
NoDispatchDuringOutage ==
  {"R3", "R4"} \subseteq SuppressedRules(overrides) => inFlight = 0

\* A conversation does not stall: the merchant gets at most so many consecutive
\* replies that leave them where they were, under every mix of the two guards.
StallIsBounded == Live => stalls <= 2 * LoopGuardThreshold - 1

-----------------------------------------------------------------------------
(* What a pack must be like for the two properties on dispatching, and the one *)
(* on the threshold, to hold of every run; the loader does not check it.       *)

\* R3 and R4 are the rules that lead to a reassignment.
ReassignmentRulesAreKnown ==
  \A i \in DOMAIN Rules :
    Rules[i].action \in {"auto_reassign", "ask_reassign_or_wait"} => Rules[i].id \in {"R3", "R4"}

\* Only Gold has given its permission in advance.
OnlyGoldIsAutomatic ==
  \A i \in DOMAIN Rules : Rules[i].action = "auto_reassign" => Rules[i].tiers \subseteq {"Gold"}

\* The latenesses an order can come to have.
Delays == InitialDelays \cup {Max2(0, eta) : eta \in EtaUpdates \ {None}}

\* No override silences an immediate escalation, and no row of another action
\* holds where one does.
ImmediateRulesPrevail ==
  \A i \in DOMAIN Rules : Rules[i].action = "escalate_immediate" =>
    /\ \A name \in DOMAIN OverrideMap : Rules[i].id \notin OverrideMap[name].suppressed
    /\ \A j \in DOMAIN Rules, t \in Tiers, d \in Delays :
         Matches(i, t, d) /\ Matches(j, t, d) => Rules[j].action = "escalate_immediate"

-----------------------------------------------------------------------------
(* Action properties.                                                          *)

\* A handoff or a resolution is final: nothing about the session changes after
\* it, no further chain is dispatched and no further ticket opened.
TerminalLatch ==
  [][~ Live => /\ UNCHANGED <<sessionVars, tickets>>
               /\ ~ Emits("call_tool_chain", effects')
               /\ ~ Emits("send_message", effects')]_vars

\* R6 is sacred: a message that asks for a human hands an open session off, at
\* any point, a tool in flight included.
HumanRequestIsSacred ==
  [][\A flags \in Intents :
       MerchantMessage(flags) /\ "requests_human" \in flags => fsm' = "ESCALATED"]_vars

\* A message that cancels the order hands it off, in an outage and with whatever
\* else it says; only inside the grace band, where the agent answers nothing, and
\* during a dispatch, where the message is buffered, the session stays open.
CancellationEscalates ==
  [][\A flags \in Intents :
       MerchantMessage(flags) /\ "requests_cancellation" \in flags =>
         \/ fsm' = "ESCALATED"
         \/ fsm = "AWAITING_TOOL_RESULT"
         \/ lastAction'.action = "log_only"]_vars

Consents(flags) ==
  /\ "accepts_reassignment" \in flags
  /\ flags \cap {"prefers_to_wait", "requests_cancellation", "requests_human"} = {}

\* Without Gold's standing permission a chain is dispatched only by a message, and
\* by none but one that accepts, and neither prefers to wait, cancels nor asks for
\* a human: no event, tick or timeout dispatches on the merchant's behalf.
ReassignmentNeedsConsent ==
  [][tier # "Gold" /\ Emits("call_tool_chain", effects')
       => /\ Message
          /\ \A flags \in Intents : MerchantMessage(flags) => Consents(flags)]_vars

-----------------------------------------------------------------------------
(* Liveness.                                                                   *)

\* The session does not await a tool result for ever.
ToolWaitEnds == fsm = "AWAITING_TOOL_RESULT" ~> fsm # "AWAITING_TOOL_RESULT"

=============================================================================
