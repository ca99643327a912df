----------------------------- MODULE CareAgent ------------------------------
(* One agent, src/src/care_agent/agent.py: the reducer wired to the synchronous *)
(* effect loop, the tool broker, the idempotency store and the ticket desk.     *)
(*                                                                              *)
(* _dispatch runs a queue of effects; a tool chain runs inside its handler, and *)
(* what its result decides is appended to the end of that queue.  Events        *)
(* injected mid-flight are applied between the chain and its result; events     *)
(* injected mid-generation are dispatched, nested, after the reply being        *)
(* composed has gone out.  The stack of queues below is the call stack of       *)
(* _dispatch and _say.  A chain is one step here; ToolBroker opens it up.       *)
EXTENDS Reducer, FiniteSets

CONSTANTS
  MerchantTiers, OriginalCaptain, InitialDelays, OverrideLists, Intents,
  InjectedEvents,   \* events a run may inject, see Apply
  MaxArmed,         \* bound on the events injected in a behaviour
  MaxTurns          \* bound on the inputs fed to the agent

VARIABLES
  stack,            \* queues of pending work, innermost first
  injectTool, injectGen,   \* inject_before_tool_result, inject_before_generate
  returning,        \* the finished chain whose result is not yet delivered
  cache,            \* idempotency store: keys with a cached success
  tickets,          \* tickets opened, with the rule they are attributed to
  armed, turns

\* The events Apply knows.
EventTypes == {"SYSTEM_ETA_UPDATED", "CAPTAIN_CANCELLED_MID_CALL", "ORDER_PREP_COMPLETED",
               "merchant_reply_timeout", "tool_timeout", "tick"}

ASSUME AgentAssumption ==
  /\ MerchantTiers \subseteq Tiers /\ InitialDelays \subseteq Nat
  /\ None \notin Captains \cup {OriginalCaptain}
  /\ Intents \subseteq SUBSET Flags
  /\ MaxArmed \in Nat /\ MaxTurns \in Nat
  /\ \A ev \in InjectedEvents :
       /\ ev.type \in EventTypes
       /\ ev.type = "SYSTEM_ETA_UPDATED" => ev.eta \in Int \cup {None}
  /\ \A outcome \in Outcomes, c \in Captains : [outcome |-> outcome, captain |-> c] # None

agentVars == <<stack, injectTool, injectGen, returning, cache,
               tickets, armed, turns>>
vars == <<sessionVars, effects, agentVars>>

-----------------------------------------------------------------------------

Idle == stack = << >> /\ returning = None

Top == Head(stack)
Next1 == Head(Top)

\* The handler about to run an effect of this kind.
Handling(kind) ==
  returning = None /\ stack # << >> /\ Top # << >> /\ Next1.kind = kind

\* The stack once the first item of the innermost queue is taken.
Rest == << Tail(Top) >> \o Tail(stack)

\* One event through the mailbox and the reducer.
Apply(ev) ==
  \/ CASE ev.type = "SYSTEM_ETA_UPDATED"         -> EtaUpdated(ev.eta)
       [] ev.type = "CAPTAIN_CANCELLED_MID_CALL" -> CaptainCancelled
       [] ev.type = "ORDER_PREP_COMPLETED"       -> PrepCompleted
       [] ev.type = "merchant_reply_timeout"     -> ReplyTimeout
       [] ev.type = "tool_timeout"               -> ToolTimeout
       [] ev.type = "tick"                       -> Reevaluate
  \/ Inert("log")

Init ==
  /\ \E t \in MerchantTiers, d \in InitialDelays, o \in OverrideLists :
       Bootstrap(t, d, OriginalCaptain, o)
  /\ stack = << effects >>
  /\ injectTool = << >> /\ injectGen = << >> /\ returning = None
  /\ cache = {} /\ tickets = << >>
  /\ armed = 0 /\ turns = 0

-----------------------------------------------------------------------------
(* Inputs, taken between turns.                                                *)

\* The test harness queues an event to land inside a later turn.
Arm(ev) ==
  /\ Idle /\ armed < MaxArmed
  /\ armed' = armed + 1
  /\ \/ injectTool' = Append(injectTool, ev) /\ UNCHANGED injectGen
     \/ injectGen' = Append(injectGen, ev) /\ UNCHANGED injectTool
  /\ UNCHANGED <<sessionVars, effects, stack, returning, cache, tickets, turns>>

\* The effects of an input become the work of a new turn.
BeginTurn ==
  /\ Idle /\ turns < MaxTurns
  /\ turns' = turns + 1
  /\ stack' = << effects' >>
  /\ UNCHANGED <<injectTool, injectGen, returning, cache, tickets, armed>>

SendMessage(flags) ==
  (MerchantMessage(flags) \/ ClassifierUnavailable \/ Inert("log")) /\ BeginTurn

SendEvent(ev) == Apply(ev) /\ BeginTurn

-----------------------------------------------------------------------------
(* Work inside a turn.                                                         *)

\* Hook mutant: what was injected before generation stays queued.
SayThenUnhooked(rest) == stack' = rest /\ UNCHANGED injectGen

\* Phrase and send; events injected before generation are dispatched after it,
\* in a queue of their own, before the rest of this one.
SayThen(rest) ==
  /\ stack' = IF injectGen = << >> THEN rest
              ELSE << [i \in DOMAIN injectGen |-> [kind |-> "event", event |-> injectGen[i]]] >>
                   \o rest
  /\ injectGen' = << >>

Say ==
  /\ Handling("send_message")
  /\ SayThen(Rest)
  /\ UNCHANGED <<sessionVars, effects, injectTool, returning, cache, tickets, armed,
                 turns>>

OpenTicket ==
  /\ Handling("escalate")
  /\ tickets' = Append(tickets, [reason |-> Next1.reason, mode |-> Next1.mode,
                                 rule |-> lastAction.rule])
  /\ SayThen(Rest)
  /\ UNCHANGED <<sessionVars, effects, injectTool, returning, cache, armed, turns>>

Record ==
  /\ Handling("log") \/ Handling("resolve") \/ Handling("reconcile")
  /\ stack' = Rest
  /\ UNCHANGED <<sessionVars, effects, injectTool, injectGen, returning, cache,
                 tickets, armed, turns>>

RunChain(outcome, c) ==
  /\ Handling("call_tool_chain")
  /\ cache' = IF Assigning(outcome) THEN cache \cup {Next1.epoch} ELSE cache
  /\ returning' = [outcome |-> outcome, captain |-> c]
  /\ stack' = Rest
  /\ UNCHANGED <<sessionVars, effects, injectTool, injectGen, tickets, armed, turns>>

\* Queue mutant: the queue is replaced, so what was still waiting in it is lost.
FollowUpReplaces == stack' = << effects' >> \o Tail(stack)

\* What an event decides while a chain's handler runs waits at the queue's end.
FollowUp == stack' = << Top \o effects' >> \o Tail(stack)

\* Reset mutant: the events of one chain are not taken off the list.
InjectMidFlightKeeps ==
  /\ returning # None /\ injectTool # << >>
  /\ Apply(Head(injectTool))
  /\ FollowUp
  /\ UNCHANGED <<injectTool, injectGen, returning, cache, tickets, armed, turns>>

InjectMidFlight ==
  /\ returning # None /\ injectTool # << >>
  /\ Apply(Head(injectTool))
  /\ injectTool' = Tail(injectTool)
  /\ FollowUp
  /\ UNCHANGED <<injectGen, returning, cache, tickets, armed, turns>>

DeliverResult ==
  /\ returning # None /\ injectTool = << >>
  /\ \/ ToolResult(returning.outcome, returning.captain)
     \/ Inert("reconcile")
  /\ returning' = None
  /\ FollowUp
  /\ UNCHANGED <<injectTool, injectGen, cache, tickets, armed, turns>>

DispatchNested ==
  /\ Handling("event")
  /\ Apply(Next1.event)
  /\ stack' = << effects' >> \o Rest
  /\ UNCHANGED <<injectTool, injectGen, returning, cache, tickets, armed, turns>>

QueueDone ==
  /\ returning = None /\ stack # << >> /\ Top = << >>
  /\ stack' = Tail(stack)
  /\ UNCHANGED <<sessionVars, effects, injectTool, injectGen, returning, cache,
                 tickets, armed, turns>>

Work == \/ Say \/ OpenTicket \/ Record \/ QueueDone
        \/ \E outcome \in Outcomes, c \in Captains : RunChain(outcome, c)
        \/ InjectMidFlight \/ DeliverResult \/ DispatchNested

Input == \/ \E flags \in Intents : SendMessage(flags)
         \/ \E ev \in InjectedEvents : SendEvent(ev) \/ Arm(ev)

Next == Work \/ Input

Spec == Init /\ [][Next]_vars

\* The effect loop is a plain while loop on the calling thread.
FairSpec == Spec /\ WF_vars(Work)

-----------------------------------------------------------------------------

\* A turn never returns to its caller with the session waiting for a tool
\* result: nobody would be left to deliver it.
NoTurnEndsAwaiting == Idle => fsm # "AWAITING_TOOL_RESULT"

\* A completed turn leaves one ticket behind if the order was handed off and none
\* otherwise, whatever was injected while it ran; and the ticket is the handoff's:
\* for the reason the session closed with, in the mode its overrides ask for.
TicketsMatchHandoff ==
  Idle => /\ Len(tickets) = IF fsm = "ESCALATED" THEN 1 ELSE 0
          /\ \A i \in DOMAIN tickets : /\ tickets[i].reason = terminalReason
                                       /\ tickets[i].mode = EscalationModeFor(overrides)

\* Every turn comes to an end: no cascade of results, follow-ups and injected
\* events feeds itself.
TurnsEnd == ~ Idle ~> Idle

-----------------------------------------------------------------------------
(* What the loop promises: to be a session whose effects are run.  Its call     *)
(* stack is a way of running them, and nothing of it shows in the session.      *)

\* The places of a call stack where an effect of this kind is pending.
Waiting(st, kind) ==
  UNION {{<< i, j >> : j \in {k \in DOMAIN st[i] : st[i][k].kind = kind}} : i \in DOMAIN st}

\* Chains asked for whose result has not been delivered.
ChainsOut ==
  Cardinality(Waiting(stack, "call_tool_chain")) + IF returning = None THEN 0 ELSE 1

\* What a ticket says of a handoff, without the rule it is attributed to.
HandoffOf(x) == [reason |-> x.reason, mode |-> x.mode]

\* The handoffs decided on a call stack whose ticket is not yet opened.
Due(st) == {HandoffOf(st[p[1]][p[2]]) : p \in Waiting(st, "escalate")}

\* The handoffs whose tickets are opened, and the one that is due.
Listed(opened, due) ==
  [i \in DOMAIN opened |-> HandoffOf(opened[i])] \o
  IF due = {} THEN << >> ELSE << CHOOSE t \in due : TRUE >>

Handoffs == Listed(tickets, Due(stack))

InjectedEtas == {ev.eta : ev \in {e \in InjectedEvents : e.type = "SYSTEM_ETA_UPDATED"}}

Session == INSTANCE CareSession WITH
  inFlight <- ChainsOut, tickets <- Handoffs, EtaUpdates <- InjectedEtas,
  Captains <- Captains \cup {OriginalCaptain}, MaxInFlight <- 1 + MaxArmed + MaxTurns

(* Every turn of the loop is a run of the session CareSession describes: events  *)
(* nested in replies, results held back behind injected events and follow-ups    *)
(* queued at the end amount to events applied one at a time, one ticket for a    *)
(* handoff and one result for a dispatch.                                        *)
ImplementsSession == Session!Spec

-----------------------------------------------------------------------------
(* What the code's documentation says of it, and a run refutes.                *)

\* "Distinct across genuinely new attempts": no chain runs under the key of an
\* attempt that has already succeeded.
NewAttemptHasFreshKey ==
  [][\A outcome \in Outcomes, c \in Captains :
       RunChain(outcome, c) => Next1.epoch \notin cache]_vars
=============================================================================
