# Verification of care-agent in TLA+

care-agent is a delivery-delay agent for merchants: a deterministic policy
engine and a session state machine decide, a model on each side only reads and
words messages, and a tool broker assigns captains. This directory holds TLA+
modules translated from that code, TLC configurations that check them on small
instances, and TLAPS proofs of what matters most for every instance. Paths below
are relative to `src/src/care_agent/` unless they start with `src/`.

Contents: [1 The system](#1-the-system) · [2 Plan](#2-plan) ·
[3 Modules](#3-modules-and-the-code) · [4 Runs](#4-runs) ·
[5 Fairness](#5-fairness) · [6 Proofs](#6-proofs) ·
[7 Disagreements](#7-where-the-code-and-its-documentation-disagree) ·
[8 Limits](#8-what-is-not-modelled)

Checking: `tlc -config X.cfg M` for each run of `PROJECT.json`, and
`tlapm M_proofs.tla` for each proof module. Runs listed as `violation`
are meant to fail: each shows one disagreement between the code and what is
written about it (section 7).

## 1 The system

| component | code | state | operations |
|---|---|---|---|
| policy engine | `policy/engine.py`, `src/policy/policy.json` | none (pure) | `decide`, `escalation_mode_for`, `escalate_for_repetition` |
| policy loader | `policy/loader.py` | the pinned pack | `load_policy`, `check_invariants` |
| session reducer | `core/reducer.py`, `core/session.py`, `guardrails/loop_guard.py` | the session record: macro-state, epoch, awaited dispatch, counters of both loop guards | `bootstrap`, `reduce` with one handler per event |
| mailbox | `core/mailbox.py` | queue per order, orders being drained | `send` |
| stores | `core/stores.py` | session records, event log, idempotency cache | get, put, append |
| agent | `agent.py` | call stack of effect queues, injected events, tickets, transcript, reply language | `start`, `send_message`, `send_event` |
| tool broker | `tools/broker.py`, `tools/idempotency.py`, `tools/stubs.py` | idempotency cache, what the backend carried out | `run_reassign_chain`, `cancel_order`, `issue_merchant_credit`, `escalate` |
| model edges | `llm/classifier.py`, `llm/generator.py`, `llm/client.py`, `guardrails/promise_guard.py` | none beyond a call log | `classify`, `generate`, `check_promise` |
| session server | `server/sessions.py` | registry, caps, a lock and a pending-event count per session | `start`, `send_message`, `accept_event`, `trigger_event`, `get_trace`, `list_sessions` |
| front ends | `server/web.py`, `server/mcp_server.py`, `server/render.py` | none of their own | start, message, event, trace, lists: refuse, call, render |
| evaluation | `eval/`, `src/eval/scenarios/` | one run: its scenario, turn and script, and what it collects | `run_once`, `score_run` |

How they interact. A front end calls the session server, whose threads take a
session's lock and call its agent. The agent classifies a message, sends the
event through the mailbox to the reducer, and runs the effects it gets back from
a queue. The reducer asks the engine for a decision. The evaluation drives one agent through
a scripted scenario, with a persona as the merchant, and grades what it collects. A tool chain runs inside
its effect's handler; its result is an event, sent back through the mailbox,
whose effects go to the end of the same queue. Phrasing a reply may dispatch
further events in a queue nested inside the current one. Everything under a
session is shared only through the agent; the server's registry and counters are
shared by all threads without a lock.

What is hard, and the property that makes each part correct (the full list, with
lines, is `hazards` in `PROJECT.json`):

- *reducer*: events arrive while a tool is in flight and the call is never
  cancelled, so results are late, premises die, and a handoff must stay final.
  The record must never contradict itself; a handoff opens one ticket, in the
  right mode, from each of three code paths; no dispatch outlives its premise or
  skips consent; a request for a human wins at any point.
- *loop guards*: two guards, keyed on different things, defer to each other. The
  number of useless replies must be bounded all the same.
- *agent*: events land between a chain and its result and while a reply is being
  composed, nested to any depth the injections allow. Every turn must end, never
  with the session waiting, with tickets and announcements in step.
- *broker*: retries, replays and a confirmation that fails after the commit. One
  side effect per key, and a report that is true of the backend.
- *mailbox*: reentrancy and exceptions. Arrival order, one drain, no lost effect.
- *loader*: what is pinned must give the engine an unambiguous, gap-free table.
- *model edges*: anything may fail or answer anything. A plain request for a
  human needs no model; every handoff is announced; cost is bounded by input.
- *server*: checks made outside the lock, threads without order, eviction; answers
  and traces read from an agent that other threads change. What was heard is kept,
  an answer shows its own turn, a trace shows an announced handoff only with its
  decision, state and ticket.
- *evaluation*: what a scenario expects must come of it whatever the merchant says,
  and a scripted event must really have happened.

## 2 Plan

Done, in this order, most important behaviour first:

1. `Policy`, `PolicyFile`: the engine as operators, the shipped pack.
2. `Reducer`: one action per handler; `CareSession` composes it with the tools
   and tickets; `CareSession_proofs`.
3. `CareAgent`: the reducer inside the synchronous effect loop, and the mapping under
   which it implements `CareSession`; `CareAgent_proofs`.
4. `ToolBroker` and the abstract `CaptainDesk` it implements.
5. `SessionServer`: threads, locks, caps, eviction; `SessionServer_proofs`.
6. `PolicyLoader` over `Policy`; `PolicyLoader_proofs`.
7. `Mailbox`; `Mailbox_proofs`.
8. `Conversation`: `CareAgent` with both model edges.
9. `EvalRun` over `CareAgent`, with the shipped scenarios in `ScenarioSuite`;
   `AgentLayers_proofs` is about both layers.
10. `LiveSession`: one session opened up, with both front ends; `LiveSession_proofs`.
11. The financial tools in `ToolBroker`, a stronger `CaptainDesk`; `ToolBroker_proofs`.

What could be added:

- Model: the shape validation of `PolicyLoader`'s candidates; the event log.
- Abstractions: an ordered single-writer service that `Mailbox` implements, and
  one that `SessionServer` implements for its sessions.

## 3 Modules and the code

`PROJECT.json` maps every definition to its lines. An operator whose comment
says *mutant* is a plausible bug in the definition below it; no specification
uses it, it exists to show that a property notices.

**Policy** is `engine.py`. A message is the set of its true classifier flags,
`None` a proactive turn. The pack is a parameter, so the proofs are about every
pack. Rule ids keep their names because the engine gives `R3`, `R4` and `R5`
special boundaries. `MatchedRule` is the first hit of the loop; `SuppressedRules`,
`ActiveOverrides` and `EscalationModeFor` are `_resolve_overrides`. An envelope
keeps action, rule, reason, overrides and mode; variables and tool names go.
The reason of a suppressed rule is one value, without the override's name.

**PolicyFile** is the shipped `policy.json`.

**Reducer** is `reduce`. Variables are the fields of `Session` and `SessionState`
that a decision reads, under the code's names where they are short; `effects` is
the list the handler returns. The idempotency key is order and epoch
(`reducer.py:114`), so within an order the epoch stands for it and `pending` is
the epoch of `pending_tool`. `AnswerMessage` does all of `_on_merchant_message`
in one step: decide, the merchant-side counter, the agent-side counters, the
backstop, routing. Two branches no caller reaches are left out: an unknown tool
outcome (the broker reports four) and an unknown action.

**CareSession** adds what runs the effects: `inFlight`, the number of dispatched
chains whose result is out (a result does not say which dispatch it answers, for
its epoch is never compared), and `tickets`. Here tools are asynchronous, which is the ordering the
reducer is written for: any events may be applied between a dispatch and its
result. `CareAgent` shows what the synchronous build makes of it.

**CareAgent** is `agent.py`. `stack` is the call stack of `_dispatch`, innermost
queue first, each item an effect or an injected event; `Rest` is `queue.pop(0)`.
`RunChain`, `InjectMidFlight` and `DeliverResult` are the three parts of the
tool-chain handler, with `returning` the result in hand; what they produce goes
to the end of the queue (`FollowUp`), as `queue.extend` does. `SayThen` is the
end of `_say`: pending injections are taken out at once and become a nested
queue. Chains are single steps with the outcomes `ToolBroker` justifies; `cache`
holds the keys the idempotency store has a success for. `ImplementsSession` reads the
loop as `CareSession`: the chains out are those on any queue of the call stack and
the result in hand (`ChainsOut`), and a ticket counts from the decision that made it
due (`Handoffs`), opened or still on the stack.

**ToolBroker** opens the chain: every call of `run_reassign_chain` and
`_reassign_with_retries` is a step, and the backend answers as it likes. The stub
backend acts exactly when it reports success; a transient failure never does.
`cancel_order` and `issue_merchant_credit` go through `IdempotentExecutor.run`,
which has the same lookup, call and cache without retries or confirmation, so the
same actions stand for both (`Chain` tells them apart). A key is what `make_key`
makes of it within an order: a purpose and an epoch. **CaptainDesk** is what the
broker promises: at most one side effect per key, success reported only for a key
that has one, failure only of a call that made none.

**SessionServer** is `server/sessions.py`: `Clients` are the threads the web
server runs requests on, `Events` the threads `accept_event` starts (a
`trigger_event` uses one as well, with its client waiting). Each unlocked check is
a step of its own, because another thread may run between them. `closed` is
`is_terminal`. An agent's turn is one step under the lock and may close the
session. The eviction loop is the check, the choice of the oldest and the pop;
`KeyError` and `StopIteration` both end in `start_failed`. A `+= 1` on a counter is
one step: CPython 3.12, which the Dockerfile pins, checks for a thread switch only
at calls and backward jumps.

**LiveSession** is one session with everything that touches it. `SessionServer`
takes a turn as one step; here the steps of a turn that another thread can see are
separate: the entry heard, the two halves of tagging it (`agent.py:119`), the decision,
each reply, the ticket, the announcement, the report. Messages, events and readers
are requests with a thread each; each arrives by HTTP or MCP, with what that front
end refuses (an empty message, an unknown session, a type `_parse_event` does not
take) or lets raise. Whatever `SessionServer` decides (a cap, an eviction) may
happen here at any time. What a turn decides is any of the outcomes `CareAgent` shows
it can have. A message to a closed session takes the unlocked path (`Note`), and
`get_trace` reads field after field; of a field only whether the handoff shows in
it is kept. An entry is its speaker, the request it is of, and the one whose
language it is in; None is the default, "en". `language` is the agent's own: the one of
the message classified last (`agent.py:118`). A message is heard in that (109), a
reply is composed in it, and only the tag puts a message in its own. `AllDone` is stuttering, so that the check for deadlock
finds a request left waiting.

**PolicyLoader** reads one candidate pack, evaluates the six semantic checks and
pins or refuses it. `P(pack)` is module `Policy` over that pack, so the
properties say what the *engine's* matching does with a pack the *loader's*
checks accepted. Candidates have the shape the JSON schema requires, with whole
minutes as edges.

**Mailbox** is `send` with its callers: an `apply` may send again, to the same
order or another, and may raise. `calls` is the stack of drains, `queues` and
`draining` are `_queues` and `_draining`. In this build `Runtime.apply` never sends;
the module covers the contract of the class.

**Conversation** extends `CareAgent` with both edges. A text is what they tell
apart of it: whether it plainly asks for a human, the language that dominates it,
the one merely present. Every model call may fail, refuse or answer any value.

**EvalRun** extends `CareAgent` with `run_once`: it waits for `start` to return,
queues the events that land inside a turn, applies those of round 0, then sends up
to `max_turns` messages with each round's events after them, and collects when
the session has closed or the turns are used up. The merchant is any persona, and
the reading of a message any set of flags or a failure. `Passed` is `score_run`. Its
section of hypotheses says what makes a suite's expectations follow from its scripts;
`MCEvalRun` has TLC evaluate them for the shipped suite (`ShippedSuiteFits`).
**ScenarioSuite** is the eleven scenario files: order, chain outcomes, events, turns,
expectations. `must_escalate: null` and `false` both assert nothing, as in the code.

The `MC*` modules give constants their values for TLC. `*_proofs` hold proofs.

## 4 Runs

All runs use the shipped pack (`PolicyFile`) and its thresholds (loop guard 3,
repetition 2, unresponsive 2, retries 2) unless the pack is what varies.
`CHECK_DEADLOCK FALSE` stands where a behaviour ends because its inputs are used
up (`MaxTurns`, `MaxRequests`, `MaxSends`, `MaxChains`-style bounds) or because a
pack is loaded once; the session runs check deadlock.

| run | shows | bounds and why they are enough |
|---|---|---|
| `session_events` | record consistency, final and single handoffs, no dispatch past its premise, in an outage or without consent, R6 and cancellations honoured | every tier; delays 9, 10, 20, 40, 41, which are all band edges and one value inside the lowest band; payloads below zero and missing; with and without an outage; 7 messages, one per branch of the engine; 2 epochs and 2 chains in flight, enough for an abandoned dispatch beside an awaited one |
| `session_loops` | `StallIsBounded`, `ToolWaitEnds` | all 32 flag sets, the two bands a conversation happens in, 6 repetitions of one reply (past every threshold and the sum of the two guards), 2 chains in flight, fairness of the tools |
| `agent_turns` | turns end, never waiting, with matching tickets; the loop implements the session | Gold and Silver in the band where they differ, ETA updates into all other bands, 8 kinds of event injected at either point, 2 injections and 2 inputs: enough for an injection inside the turn another one started |
| `broker` | retry cap, at most one side effect per key, every call reports, refinement of the desk | 2 epochs of 3 purposes, 4 calls, so each key is replayed and interleaved with others |
| `mailbox` | arrival order, one drain, effects reach one caller | 2 orders, 5 sends: nested sends to the same and the other order, and an exception with leftovers that a later send drains |
| `loader_pin` | what a pinned pack guarantees | every table of up to 2 rules, and of 3 rules that starts at 0, over 5 bands, 3 tier sets and 3 ids with all four inclusivities, and the shipped pack with one field spoilt or one cap missing; delays on and between all edges |
| `conversation_edges` | R6 without a model, one announcement per handoff, replies in the dominant language, cost bounded by input | 3 texts that differ in request and language, 3 model answers, 2 injections, 2 turns, each of 4 drafts at every reply |
| `eval_suite` | the suite's expectations hold for every merchant; scripted generation events land; runs end | all eleven scenarios, all 32 flag sets and a failing classifier at every turn; the bounds (3 epochs, 4 repetitions, 6 inputs, 1 event injected in a turn) reach or exceed what any scenario's script and turns can use, so they never bite |
| `server_threads` | bounded overshoot, exact pending count, every accepted event applied | 2 request threads, 2 event threads, 3 sessions over a cap of 1, turn cap 2, budget 2, 5 requests: a start and the four messages it takes to pass either cap by one too many; an unused id or event thread stands for all unused ones, since they are alike |
| `live_session` | heard messages are kept, in their own language once tagged; answers show their own turn, traces an announced handoff with its cause, no request is left waiting | 2 messages, an event and a reader: a turn under way, a second one waiting, heard in the language of the first, and a third party that closes the session; 4 transcript entries let a turn go on after its first reply |

Notes on the properties:

- `AwaitedDispatchIsPermitted` is the safety property of the in-flight rules: the
  code keeps waiting only when the *re-evaluated* decision still is, or could
  become, a reassignment. Its converse for late results does not hold
  (section 7).
- `StallIsBounded`: each guard defers to the other, so that neither threshold
  bounds the run of useless replies alone; twice the loop-guard threshold less
  one does, and mixing intents reaches the bound.
- `NoOpenSessionPastThreshold` covers waiting states too: an ETA of 41 minutes
  during tool flight hands the order off at once.
- `CancellationEscalates` names the two places where the code does not escalate a
  cancellation (section 7); everywhere else it does, an outage included.
- `RepliesFollowDominance`: only the announcement of a handoff the merchant asked
  for may follow a script that is merely present.
- `CapOvershootIsBounded` says how far the unlocked checks may be passed
  together, both caps and the registry's: by the number of other request threads
  and no more.
- `HeardMessagesAreKept` is about messages the agent heard. For messages recorded on
  a closed session the same does not hold (`live_lost_note`). That a message is there
  once and in its own language is claimed while the session is open: a turn that
  was waiting for the lock when it closed may tag such a recorded message as its own.
  Its own language is claimed from the tag on. Until the classifier has answered, the
  entry is in the language of a message before it, which another thread can read; when
  the classifier fails it stays so, but the session closes in that same turn.
- `ReportIsOwnTurn` is about answers of turns. The answer to a message recorded on a
  closed session is composed without the lock and may show replies or a ticket of a
  turn that is still ending.
- `TraceShowsCauseWithEffect` holds by the order of the reads alone: the transcript,
  which shows the announcement, is read before the history, the state and the tickets.
  It is about those effects and no others: the tickets are read last, so a trace may
  show a ticket whose decision came too late for its history.
- `ImplementsDesk` covers partial failure: a chain whose confirmation fails has
  assigned, and the desk may not answer failure to that.
- `SuiteHoldsForEveryMerchant`: the code runs the suite against three personas. In
  the model the required escalations, forbidden actions, modes, states and reasons
  come out whatever is said. `GenerationEventsLand` says that SCN_11 cannot pass
  without its event having happened. The same does not hold of SCN_08: its event
  lands in a chain, and a merchant who never consents starts none.
- `DeclaredEdgeHasOneOwner`: whichever side the pack gives 40 minutes to, a table
  whose edge at 40 lies between R3/R4 and R5, and whose bands name every tier, matches
  every order exactly once.

Every property of a passing run has a mutant of the code in `PROJECT.json` under
which TLC finds it violated.

## 5 Fairness

- `CareSession!FairSpec`: weak fairness of `ToolReturns`. The broker's chain is a
  loop of at most `retry_cap` calls that each return; a chain that was dispatched
  produces a result.
- `CareAgent!FairSpec`: weak fairness of the work inside a turn, a `while` loop on
  the calling thread. Nothing is assumed of inputs.
- `EvalRun!EvalSpec`: weak fairness of the whole loop, one thread that runs until it
  has collected.
- `ToolBroker!FairSpec`: weak fairness of the chain's steps, blocking calls of
  local stubs.
- `SessionServer!FairSpec`: weak fairness of each thread. `threading.Lock` gives
  its waiters no order, so no strong fairness is assumed; holders release the
  lock, and the requests that could overtake a waiter are finitely many.

## 6 Proofs

TLAPS proves, for every value of the constants that satisfies the named
assumptions:

| theorem | statement |
|---|---|
| `CareSession_proofs!Inductive` | `Spec => []IInv` |
| `Types` | `[]TypeOK` |
| `RecordConsistent` | `[]RecordIsConsistent` |
| `OneTicket` | `[](OneTicketPerHandoff /\ TicketModeFollowsOverrides)` |
| `AwaitedDispatch` | `[](AwaitedDispatchIsPermitted /\ AwaitedResultIsInFlight)` |
| `Latch` | `TerminalLatch` |
| `HumanRequest` | `HumanRequestIsSacred` |
| `TicketMode`, `StallBound` | `[]TicketModeFollowsOverrides`, `[]StallIsBounded` |
| `OutageStopsDispatch` | `ReassignmentRulesAreKnown` gives `[]NoDispatchDuringOutage` |
| `Consent` | `OnlyGoldIsAutomatic` gives `ReassignmentNeedsConsent` |
| `Cancellation` | `CancellationEscalates` |
| `NoneLeftPastThreshold` | `ImmediateRulesPrevail` gives `[]NoOpenSessionPastThreshold` |
| `CareAgent_proofs!AgentInductive`, `LoopInductive` | `[]AgentInv`, `[]LoopInv` |
| `NoneLeftAwaiting`, `OneTicketPerTurn` | `[]NoTurnEndsAwaiting`, `[]TicketsMatchHandoff` |
| `LoopIsSession` | `Spec => ImplementsSession`: the loop implements `CareSession` |
| `LoopIsConsistent` | `TypeOK`, `RecordIsConsistent`, `OneTicketPerHandoff`, `TicketModeFollowsOverrides`, `AwaitedDispatchIsPermitted`, `AwaitedResultIsInFlight`, `StallIsBounded` of `CareSession` always hold of the agent |
| `LoopKeepsPromises` | so do `TerminalLatch`, `HumanRequestIsSacred`, `CancellationEscalates` |
| `LoopNeedsConsent` | `OnlyGoldIsAutomatic` gives `ReassignmentNeedsConsent` of the agent |
| `AgentLayers_proofs!EdgeInductive`, `HandoffAnnounced`, `CostBounded` | `ConversationSpec` implies `[]EdgeInv`, `[]HandoffIsAnnounced`, `[]ReplyCostIsBounded` |
| `RequestObeyed`, `DominanceFollowed` | `PlainRequestNeedsNoModel`, `RepliesFollowDominance` |
| `EdgesAddNothing` | `ConversationSpec => CareAgent!Spec`, if a plain request is a reading the model may give |
| `ConversationIsSession` | under the same condition, `ConversationSpec` implies `ImplementsSession`, `[]NoTurnEndsAwaiting`, `[]TicketsMatchHandoff`, `TerminalLatch`, `HumanRequestIsSacred` |
| `HarnessInductive`, `HarnessDrivesAgent` | `EvalSpec => []EvalInv`, `EvalSpec => ImplementsSession` |
| `GradedRunIsClosed` | `EvalSpec => [](NoTurnEndsAwaiting /\ TicketsMatchHandoff)` |
| `GenerationLands` | `GenerationScriptsTalk` gives `EvalSpec => []GenerationEventsLand` |
| `SuiteHolds` | `SuiteIsJustified` gives `EvalSpec => []SuiteHoldsForEveryMerchant` |
| `PolicyLoader_proofs!Unambiguous`, `Coverage` | `[]PinnedTableIsUnambiguous`, `[]PinnedTableCoversDelays` |
| `OneOwner`, `FirstAnswer` | `[]DeclaredEdgeHasOneOwner`, `[]FirstUnclearMessageIsAnswered` |
| `ToolBroker_proofs!Inductive`, `Types`, `OneEffectPerKey` | `[]IInv`, `[]TypeOK`, `[]AtMostOneEffectPerKey` |
| `ToolBroker_proofs!Refinement` | `Spec => ImplementsDesk` |
| `SessionServer_proofs!Inductive`, `Overshoot`, `PendingCount` | `[]IInv`, `[]CapOvershootIsBounded`, `[]PendingEventsIsExact` |
| `LiveSession_proofs!Inductive`, `HeardMessages`, `TraceOrder` | `[]IInv`, `[]HeardMessagesAreKept`, `[]TraceShowsCauseWithEffect` |
| `OwnReport` | `[]ReportIsOwnTurn` |
| `Mailbox_proofs!Inductive`, `ArrivalOrder`, `OneDrain` | `[]IInv`, `[]AppliedInArrivalOrder`, `[]OneDrainPerOrder` |
| `Holding`, `OneCaller` | `[]Inv` (`IInv` and `EffectsAreHeld`), `[]EffectsReachOneCaller` |

*CareSession.* Assumptions: `PolicyAssumption` (the shape of a pack, which the
loader enforces), `NoneAssumption` (None is no other value), `SessionAssumption`
(types of the inputs). The pack, the delays, overrides, messages and payloads are
arbitrary; so are the bounds. The invariant `IInv` has typed fields, a consistent
record, the awaited dispatch permitted and its result in flight, and
`tickets = Ledger`: the tickets are a *function* of the record. That last part is
why it is inductive. `OneTicketPerHandoff` alone says nothing about the reason and
mode of the ticket that is about to be opened, and `PendingIffAwaiting` needs
`TerminalAgreement` for the inert states. The argument: every decision of the
engine is a well-formed envelope (`DecideOK`, `RepetitionOK`); routing one leaves
state, dispatch, reason and effects in agreement (`RoutedOK`); each handler
therefore establishes `HandlerOK`; running its effects restores the invariant
(`RunEffectsOK`). `DecidePermits` is the fact behind `AwaitedDispatch`: a message
makes the engine reassign only an order it could reassign without that message.
`StallBound` rests on a second invariant, `GuardsAgree`: beyond its threshold the
agent-side guard lets only a clarification pass, and only while the merchant-side count
keeps up, which is itself bounded. `Cancellation` needs nothing of the pack: a
cancelling message is escalated or, in the grace band, logged, and neither counter
turns an escalation into anything else.

Three theorems need something of the pack that the loader does not check and the
shipped one has: that no rule but R3 and R4 leads to a reassignment
(`OutageStopsDispatch`), that only Gold is reassigned unasked (`Consent`), and that
no override silences an immediate escalation and no other row holds where one does
(`NoneLeftPastThreshold`). They are hypotheses of those theorems; TLC evaluates them
for the shipped pack (`ShippedPackFits` in `MCCareSession`). The third theorem's
invariant is `BelowThreshold`, which says that an open session's order has not
passed the threshold at its *present* delay: whatever changes the delay
re-decides, and what else re-decides keeps it.

*PolicyLoader.* Assumption: `LoaderAssumption` (rows of the schema's shape); that
every threshold is given is what `check_scalars_and_precedence` adds. Bands are totally ordered by the sort
(`SortIsTotal`); the coverage check makes distinct bands disjoint
(`BandsDoNotOverlap`); within a band the tiers are (`SameBandDisjoint`); off the
edges the engine matches a rule only strictly inside its band (`MatchesInside`),
whatever the inclusivity says. For `Coverage`, a delay below the open last
band lies in the band that ends at the least lower edge above it, for the check
lets no band begin where none ends (`EveryDelayIsInside`). `OneOwner` moves a delay
on the edge to the side that owns it (`Owned`) and argues there as inside a band.

The theorem `FirstAnswer` is about a property no run checks: under every pinned
pack the first unclear message is answered, because every cap is at least one.

*CareAgent.* Assumption: `AgentAssumption` (types of the inputs; what may be injected
is one of the event types the reducer knows; None is no captain and no result). Neither property is inductive: in the
middle of a turn a session does wait and a handoff has no ticket yet. `AgentInv`
counts what the call stack still owes. `TicketOwed`: tickets opened and escalations
anywhere on the stack add up to one for a handed-off session and to none for any
other. `ResultOwed`: while a session waits, its chain is on the stack or a result is in
hand. `RecordOK` and `ShapesOK` give the record and the queues the
form these need. At the end of a turn the stack is empty, so nothing is owed. The
lemmas before it say how each way of moving items between queues changes
the counts (`HereTail`, `HereJoin` and their like for the stack), so that each
action of the loop is arithmetic.

*The loop as a session.* `LoopIsSession` is why `CareSession`, where tools are
asynchronous and effects run at once, says something about this build, where a chain
runs inside its handler, its result waits behind what was injected meanwhile, and a
reply may nest further events. The mapping is in section 3. A decided event is a
step of the session, whose effects "run" when they are put on the stack: they add to
`ChainsOut` and `Handoffs` what `RunEffects` adds to `inFlight` and `tickets`
(`EffectsRun`). Everything else the loop does moves work about, and must leave both
mapped values alone: a chain that starts becomes a result in hand, a ticket that is opened
was due, a nested queue adds only events (`QuietSteps`). That is the *count over the
call stack* again, for what is due as well as for how often (`DueTail`, `DuePush`,
`SayThenDue`). Three things make the proof need more than `AgentInv`. `Listed` picks the one
handoff that is due, so there must be at most one, and none once a ticket is
opened (`TicketOwed`). A result must be one the session lets a tool return, hence the
outcomes in `LoopInv`. And `CareSession` bounds the chains out, so the loop's work must be
paid for by its inputs: each item that can end in a chain is charged to the turn or the
injection it came from (`Owed`). The theorems about `CareSession` then hold of the
agent through `Facts`, an instance of `CareSession_proofs` at the same mapping;
`FactsApply` shows that its assumptions are met. `OneTicketPerTurn` needs both halves:
the count says that no ticket is still due between turns, the session what the
ticket says.

*Conversation.* `EdgeInv` adds to `AgentInv` what is said and paid for. `Announced`
is an equality of two counts that every step keeps, because a ticket and its
announcement are one handler. `CostOK` bounds replies worded *and owed*
by the inputs: every item of the stack that can end in a reply, a chain's result and
every event waiting to be injected is charged to the turn or injection it came from.
`LanguageOK` says when the tag may differ from the dominant language: the
session is closed, no reply is queued, and a queued escalation is the merchant's own
request. `EdgesAddNothing` maps each step of a conversation to one of the agent
alone, or to a stutter. Its hypothesis is there because the guard reads a
plain request as those flags whatever `Intents` offers the classifier.
`ConversationIsSession` follows: the two implementations compose.

*EvalRun.* Assumption: `EvalAssumption` (scripts of known events, no more of them inside
a turn than `MaxArmed`, outcomes the broker knows). `EvalInv` keeps `LoopInv`, what of the
scenario nobody can change (order, overrides, the delays it can reach), that a script
is queued whole or not at all, that a graded agent is idle, and that the store
holds no more keys than chains were dispatched. Each step of the harness is a step of
the agent or none, so `LoopSteps` maps it on to the session (`HarnessDrivesAgent`).

`SuiteHolds` is about a suite, so it needs to say which suites. What a scenario
expects of every run must be what its script makes of every run, and `Justified` names
the ways the code offers: the dispatch of turn 0 is bound to fail (`ChainFails`), the
opening question goes unanswered as often as the policy allows (`GoesUnanswered`),
an event takes the order over the threshold before anything else happens (`CrossesAtOnce`) or
while the first reply is composed (`CrossesWhileReplying`); an action is forbidden
because no delay the suite can reach leads to it (`NeverReassigns`) or because
nothing is ever said (`StaysSilent`). None of them speaks of a run: each is a fact about
the pack and the scenario file, decided without executing anything, and TLC evaluates
them for the shipped suite under the shipped pack (`ShippedSuiteFits`). `VerdictInv`
carries each from the opening to the grading, one conjunct for each way: `Opens`
says that nothing has happened to a session until `start` returns; `GivesUp` counts
nudges against the timeouts still scripted; `Lands` and `LandsAndCrosses` follow a
reply from the first message, through anything a chain may return, to the point where
the script lands with it. A merchant cannot break them, which is what the theorem
says: what the grader asserts of this suite tests the code and not the personas.
`Restrained` alone needs what a handler decides to be the engine's decision at
a delay the suite can reach; no reading of a message brings a reassignment that the engine
would not consider without it.

*ToolBroker.* Assumption: `BrokerAssumption` (at least one try; None is no key and no
outcome). `AtMostOneEffectPerKey` is not inductive: a repetition is prevented by the
lookup two steps earlier. `StoreMatchesBackend` carries it over: the cache is exactly
the keys the backend acted under, and a call about to act has a key outside it. The
refinement maps the submission to `Ask`, the commit to `Act` and every report to
`Answer`; lookups and retried failures are stutters.

*SessionServer.* Assumption: `ServerAssumption` (finitely many threads, caps of at least
one, ids of different kinds are different). A bound on `turns` alone is not inductive,
because the check is made long before the count. The invariant bounds what is used
plus what has passed the check and is on its way (`PastTurnsCheck`, `PastBudgetCheck`,
`PastRoomCheck`); a check passes only below the limit, so at most all clients but one are
over it. `Crossings` says once, for every action, who may join those sets and which
step moves a count. `CountIsExact` has one case per action that touches an event.

*LiveSession.* Assumption: `LiveAssumption` (requests of different kinds are different).
`HeardMessagesAreKept` is not inductive: tagging copies the last entry and later
overwrites whatever is last by then. `LockMeansTurn` says that only the holder of the
lock is in a turn; `Kept` gives the entry being tagged a position behind every message
heard before it, so that an overwrite can lose only what nobody has heard;
`OpenInOrder` adds that in an open session it is last, and nothing can come behind it.
`Languages` says what the agent speaks: nobody's language or that of a message on
record, hence of one before any entry still to come; only a tag gets a message past
tagging while the session stays open, since a failed classification closes it.
`CauseBeforeEffect` follows a handoff from decision to ticket to announcement,
including an announcement held in a tag's copy. `TraceInOrder` is one disjunct for each
number of fields still to be read. `OwnTurn` is why an answer is its own: since a turn
marked where it began, no other has spoken or opened a ticket, for that takes the
lock; what others record meanwhile are merchant entries (`TagsMerchant`: a tag's
copy is one too), which no answer shows. One step per action; `GrowingKeeps` and
`HandoffStays` settle those that only add.

*Mailbox.* Assumption: `MailboxAssumption`. The invariant adds to the two stated
properties the shape of the stack and of the queues; a drain that ends, by return
or by exception, is always the last of the stack, so the others keep their orders.
`EffectsAreHeld` says where the effects of the events taken are: returned, or held
by the order's one drain, in order; when no drain is left they have been returned.

Every safety invariant and action property of the passing runs is proved. Only
model-checked: liveness (`ToolWaitEnds`, `TurnsEnd`, `CallsReport`,
`ArrivedEventIsApplied`, `RunsEnd`), which this prover does not do under fairness.
`LoopIsSession` is about `Spec`, without fairness, for the same reason. That
`PolicyFile` and `ScenarioSuite` satisfy the hypotheses above is a finite evaluation,
and TLC does it.

## 7 Where the code and its documentation disagree

Each of these is a `violation` run, checked under `Spec` (each is a safety
property); `findings` in `PROJECT.json` quotes both sides.

| run | what TLC shows |
|---|---|
| `agent_stale_key` | a second reassignment decided without an epoch bump has the key of the first, and is answered from the cache |
| `live_lost_note` | a message recorded on a session that closed meanwhile is overwritten by the language tag of a turn still under way |

Other disagreements met while modelling. The models contain them; the properties
above are stated so as to say how far each one goes.

- *Late captains.* A captain assigned for a session that has closed is not recorded:
  the result goes to `_inert`, which notes it (`core/reducer.py:353` against "a late
  *success* is recorded rather than dropped", 337-339).
- *Turn cap.* Two messages pass the unlocked check together (`server/sessions.py:185`
  against `src/tests/test_server.py:3-4`, caps "actually bind"):
  `CapOvershootIsBounded` says by how much.
- *Closed sessions and caps.* Both caps are compared before the terminal check, so a
  session at its cap refuses the message it should record (`server/sessions.py:185`
  against 193).
- *Unrequired escalations.* `must_escalate: false` asserts nothing, where the comment
  says "(or did not happen when not required)" (`eval/metrics.py:90`).
- *Late results.* The result of an abandoned dispatch is applied to the one awaited
  now: `dispatch_epoch` is carried and never compared (`core/reducer.py:248` against
  `core/session.py:79`, "log/compensate, don't apply").
- *Cancellation.* `domain/models.py:26-28` says it "always escalates to a human".
  It is buffered while a tool is in flight (`core/reducer.py:189`) and answered
  `log_only` in the grace band (`policy/engine.py:280`): `CancellationEscalates`.
- *Ticks.* A `TICK` while a consented Silver reassignment is in flight re-decides
  without the message, drops the dispatch and asks for the same consent again
  (`core/reducer.py:333` against the comment at 54-57).
- *Queued chains.* A chain queued behind a reply runs although an event injected
  while that reply was composed has handed the order off (`agent.py:160` against
  "no zombie actions after a human handoff", `core/reducer.py:9-10`).
- *Tiers.* The coverage check never looks at tiers, so a pack whose bands leave one
  out is pinned (`policy/loader.py:213` against `policy/engine.py:255`):
  `PinnedTableCoversDelays` names the exception.
- *Reply language.* On the backstop path it is a presence test
  (`llm/classifier.py:226` against the reason given at 179): `RepliesFollowDominance`.
- *Event order.* Each accepted event has a thread of its own and a lock promises
  its waiters no order, so two events of an order may be applied in reverse
  (`server/sessions.py:255` against `core/mailbox.py:3`, which holds of the mailbox
  itself).
- *Closed sessions.* `is_terminal` is read before the lock, so a message may still
  be classified in a session closed meanwhile (`server/sessions.py:192` against 196).
- *Eviction.* Two starts may evict the same session; the second raises `KeyError`
  (`server/sessions.py:142` against 138).
- *Spend.* Opening a session and applying an event run the agent, which may phrase
  a message, and neither asks or counts the turn budget (`server/sessions.py:162`
  against 140).

## 8 What is not modelled

- *Text.* Matching, normalising and wording are abstracted to what they decide.
  Whether the marker lists recognise a phrase is a question for tests.
- *Schema validation and freezing* of the pack: library calls and immutability.
- *History notes, context snapshots, traces, the event log*: written and never
  read by a decision. State and log are in-memory, so nothing is persisted and no
  crash is recovered from.
- *Of the front ends*, the token check, rendering, and the handlers of start, of the
  lists and of the documentation: they add nothing to the operations they call.
  `list_sessions`, which `/health` calls too, walks the registry while a start may
  change it; Python answers with a `RuntimeError`, and no state is touched.
- *Command line, scripts*: parsing and printing around the modelled operations.
- Of the *evaluation*, the judge and the report: a model call and formatting.
- *A registry that changes size between `iter` and `next`*, a `RuntimeError` in
  `start`, is merged with the other failures of the eviction loop.
