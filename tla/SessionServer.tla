--------------------------- MODULE SessionServer ----------------------------
(* The remote surface, src/src/care_agent/server/sessions.py: request threads  *)
(* of the web server's pool and the event threads accept_event spawns, over    *)
(* the shared session registry, the two caps and one lock per session.         *)
(*                                                                             *)
(* An agent's turn is one step, taken under the session's lock (CareAgent      *)
(* opens it up); here only whether it closes the session matters.  A counter   *)
(* increment is one step: CPython does not switch threads inside one.          *)
EXTENDS Integers, Sequences, FiniteSets, SequencesExt

CONSTANTS
  Clients,          \* request threads
  SessionIds,       \* session ids, in the order uuid4 may hand them out
  Events,           \* backend events, each with the thread that applies it
  MaxSessions, MaxTurns, MaxTotalTurns,
  MaxRequests,      \* bound on the requests served in a behaviour
  None

VARIABLES
  registry,         \* _sessions: ids in insertion order
  created,          \* ids ever handed out
  closed,           \* agent.is_terminal, per session
  lock,             \* holder of the session's lock
  turns, served,    \* turns of a session, turns of the process
  pendingEvents,    \* accepted, not yet applied, per session
  arrived, applied, \* events of a session in order of arrival and of application
  pc,               \* where each thread is
  target,           \* the session a thread works on
  victim,           \* the session a start is about to evict
  waiter,           \* the client waiting for an event, None for a receipt
  requests          \* requests served so far

vars == <<registry, created, closed, lock, turns, served, pendingEvents,
          arrived, applied, pc, target, victim, waiter, requests>>

Threads == Clients \cup Events

ASSUME ServerAssumption ==
  /\ MaxSessions \in Nat \ {0} /\ MaxTurns \in Nat \ {0} /\ MaxTotalTurns \in Nat \ {0}
  /\ IsFiniteSet(Clients) /\ IsFiniteSet(Events) /\ Clients \cap Events = {}
  /\ None \notin Threads \cup SessionIds

Init ==
  /\ registry = << >> /\ created = {}
  /\ closed = [s \in SessionIds |-> FALSE]
  /\ lock = [s \in SessionIds |-> None]
  /\ turns = [s \in SessionIds |-> 0] /\ served = 0
  /\ pendingEvents = [s \in SessionIds |-> 0]
  /\ arrived = [s \in SessionIds |-> << >>] /\ applied = [s \in SessionIds |-> << >>]
  /\ pc = [t \in Threads |-> "idle"]
  /\ target = [t \in Threads |-> None]
  /\ victim = [t \in Clients |-> None]
  /\ waiter = [e \in Events |-> None]
  /\ requests = 0

Goto(t, label) == pc' = [pc EXCEPT ![t] = label]

Known == ToSet(registry)

\* A free thread of the pool takes a request.
Request(t) ==
  /\ pc[t] = "idle"
  /\ requests < MaxRequests
  /\ requests' = requests + 1

-----------------------------------------------------------------------------
(* start: make room, build the agent, register it.                             *)

StartSession(t) ==
  /\ Request(t)
  /\ Goto(t, "make_room")
  /\ UNCHANGED <<registry, created, closed, lock, turns, served, pendingEvents,
                 arrived, applied, target, victim, waiter>>

RoomLeft == Len(registry) < MaxSessions

SeeFull(t) ==
  /\ pc[t] = "make_room" /\ ~ RoomLeft
  /\ Goto(t, "pick")
  /\ UNCHANGED <<registry, created, closed, lock, turns, served, pendingEvents,
                 arrived, applied, target, victim, waiter, requests>>

\* next(iter(...)) raises StopIteration when other starts have emptied the registry.
PickOldest(t) ==
  /\ pc[t] = "pick"
  /\ IF registry = << >>
       THEN Goto(t, "start_failed") /\ UNCHANGED victim
       ELSE Goto(t, "evict") /\ victim' = [victim EXCEPT ![t] = Head(registry)]
  /\ UNCHANGED <<registry, created, closed, lock, turns, served, pendingEvents,
                 arrived, applied, target, waiter, requests>>

\* Popping an id another start has evicted in the meantime raises KeyError.
Evict(t) ==
  /\ pc[t] = "evict"
  /\ \/ /\ \E i \in DOMAIN registry :
             registry[i] = victim[t] /\ registry' = RemoveAt(registry, i)
        /\ Goto(t, "make_room")
     \/ /\ victim[t] \notin Known
        /\ Goto(t, "start_failed")
        /\ UNCHANGED registry
  /\ UNCHANGED <<created, closed, lock, turns, served, pendingEvents,
                 arrived, applied, target, victim, waiter, requests>>

FailStart(t) ==
  /\ pc[t] = "start_failed"
  /\ Goto(t, "idle")
  /\ UNCHANGED <<registry, created, closed, lock, turns, served, pendingEvents,
                 arrived, applied, target, victim, waiter, requests>>

BuildAgent(t) ==
  /\ pc[t] = "make_room" /\ RoomLeft
  /\ Goto(t, "register")
  /\ UNCHANGED <<registry, created, closed, lock, turns, served, pendingEvents,
                 arrived, applied, target, victim, waiter, requests>>

\* Ids and event threads are new and otherwise alike: any unused one stands for all.
IsFreshId(s) == s \notin created /\ s = CHOOSE u \in SessionIds : u \notin created

\* The turn-0 decision may already have closed the session.
Register(t, s) ==
  /\ pc[t] = "register" /\ IsFreshId(s)
  /\ registry' = Append(registry, s)
  /\ created' = created \cup {s}
  /\ \E over \in BOOLEAN : closed' = [closed EXCEPT ![s] = over]
  /\ Goto(t, "idle")
  /\ UNCHANGED <<lock, turns, served, pendingEvents, arrived, applied, target,
                 victim, waiter, requests>>

-----------------------------------------------------------------------------
(* send_message: three checks without the lock, then the turn under it.        *)

SendMessage(t, s) ==
  /\ s \in Known
  /\ Request(t)
  /\ target' = [target EXCEPT ![t] = s]
  /\ Goto(t, "check_turns")
  /\ UNCHANGED <<registry, created, closed, lock, turns, served, pendingEvents,
                 arrived, applied, victim, waiter>>

\* Cap mutant: the limit itself is let through.
WithinOffByOne(count, limit) == count <= limit

Within(count, limit) == count < limit

CheckTurns(t) ==
  /\ pc[t] = "check_turns"
  /\ Goto(t, IF Within(turns[target[t]], MaxTurns) THEN "check_budget" ELSE "idle")
  /\ UNCHANGED <<registry, created, closed, lock, turns, served, pendingEvents,
                 arrived, applied, target, victim, waiter, requests>>

CheckBudget(t) ==
  /\ pc[t] = "check_budget"
  /\ Goto(t, IF Within(served, MaxTotalTurns) THEN "check_closed" ELSE "idle")
  /\ UNCHANGED <<registry, created, closed, lock, turns, served, pendingEvents,
                 arrived, applied, target, victim, waiter, requests>>

\* A closed session only records the message.
CheckClosed(t) ==
  /\ pc[t] = "check_closed"
  /\ Goto(t, IF closed[target[t]] THEN "idle" ELSE "lock_turn")
  /\ UNCHANGED <<registry, created, closed, lock, turns, served, pendingEvents,
                 arrived, applied, target, victim, waiter, requests>>

Acquire(t, label) ==
  /\ lock[target[t]] = None
  /\ lock' = [lock EXCEPT ![target[t]] = t]
  /\ Goto(t, label)
  /\ UNCHANGED <<registry, created, closed, turns, served, pendingEvents,
                 arrived, applied, target, victim, waiter, requests>>

LockTurn(t) == pc[t] = "lock_turn" /\ Acquire(t, "turn")

\* A session that is closed stays closed; an open one may be closed by the turn.
MayClose(s) ==
  \E over \in {TRUE, closed[s]} : closed' = [closed EXCEPT ![s] = over]

Turn(t) ==
  /\ pc[t] = "turn"
  /\ MayClose(target[t])
  /\ Goto(t, "count")
  /\ UNCHANGED <<registry, created, lock, turns, served, pendingEvents,
                 arrived, applied, target, victim, waiter, requests>>

CountTurn(t) ==
  /\ pc[t] = "count"
  /\ turns' = [turns EXCEPT ![target[t]] = @ + 1]
  /\ served' = served + 1
  /\ lock' = [lock EXCEPT ![target[t]] = None]
  /\ Goto(t, "idle")
  /\ UNCHANGED <<registry, created, closed, pendingEvents, arrived, applied,
                 target, victim, waiter, requests>>

-----------------------------------------------------------------------------
(* accept_event answers at once and leaves the work to a thread of its own;    *)
(* trigger_event waits for the lock and the outcome.                           *)

IsFreshEvent(e) == pc[e] = "idle" /\ e = CHOOSE u \in Events : pc[u] = "idle"

TakeEvent(t, s, e) ==
  /\ s \in Known /\ IsFreshEvent(e)
  /\ Request(t)
  /\ target' = [target EXCEPT ![e] = s]
  /\ arrived' = [arrived EXCEPT ![s] = Append(@, e)]

AcceptEvent(t, s, e) ==
  /\ TakeEvent(t, s, e)
  /\ pendingEvents' = [pendingEvents EXCEPT ![s] = @ + 1]
  /\ Goto(e, "lock_event")
  /\ UNCHANGED <<registry, created, closed, lock, turns, served, applied, victim, waiter>>

TriggerEvent(t, s, e) ==
  /\ TakeEvent(t, s, e)
  /\ waiter' = [waiter EXCEPT ![e] = t]
  /\ pc' = [pc EXCEPT ![t] = "waiting", ![e] = "lock_event"]
  /\ UNCHANGED <<registry, created, closed, lock, turns, served, pendingEvents, applied, victim>>

\* Liveness mutant: an event that finds the session busy is dropped.
LockEventOrDrop(e) ==
  /\ pc[e] = "lock_event"
  /\ lock' = IF lock[target[e]] = None THEN [lock EXCEPT ![target[e]] = e] ELSE lock
  /\ Goto(e, IF lock[target[e]] = None THEN "apply" ELSE "finish")
  /\ UNCHANGED <<registry, created, closed, turns, served, pendingEvents,
                 arrived, applied, target, victim, waiter, requests>>

LockEvent(e) == pc[e] = "lock_event" /\ Acquire(e, "apply")

ApplyEvent(e) ==
  /\ pc[e] = "apply"
  /\ MayClose(target[e])
  /\ applied' = [applied EXCEPT ![target[e]] = Append(@, e)]
  /\ lock' = [lock EXCEPT ![target[e]] = None]
  /\ Goto(e, "finish")
  /\ UNCHANGED <<registry, created, turns, served, pendingEvents, arrived,
                 target, victim, waiter, requests>>

\* Counter mutant: a triggered event is taken off a count it was never on.
FinishEventCountsAll(e) ==
  /\ pc[e] = "finish"
  /\ pendingEvents' = [pendingEvents EXCEPT ![target[e]] = @ - 1]
  /\ pc' = [t \in Threads |-> IF t = e THEN "done" ELSE IF t = waiter[e] THEN "idle" ELSE pc[t]]
  /\ UNCHANGED <<registry, created, closed, lock, turns, served, arrived, applied,
                 target, victim, waiter, requests>>

FinishEvent(e) ==
  /\ pc[e] = "finish"
  /\ pendingEvents' = IF waiter[e] = None
                        THEN [pendingEvents EXCEPT ![target[e]] = @ - 1]
                        ELSE pendingEvents
  /\ pc' = [t \in Threads |-> IF t = e THEN "done" ELSE IF t = waiter[e] THEN "idle" ELSE pc[t]]
  /\ UNCHANGED <<registry, created, closed, lock, turns, served, arrived, applied,
                 target, victim, waiter, requests>>

-----------------------------------------------------------------------------

ClientStep(t) ==
  \/ SeeFull(t) \/ PickOldest(t) \/ Evict(t) \/ FailStart(t) \/ BuildAgent(t)
  \/ \E s \in SessionIds : Register(t, s)
  \/ CheckTurns(t) \/ CheckBudget(t) \/ CheckClosed(t)
  \/ LockTurn(t) \/ Turn(t) \/ CountTurn(t)

ClientRequest(t) ==
  \/ StartSession(t)
  \/ \E s \in SessionIds : SendMessage(t, s)
  \/ \E s \in SessionIds, e \in Events : AcceptEvent(t, s, e) \/ TriggerEvent(t, s, e)

EventStep(e) == LockEvent(e) \/ ApplyEvent(e) \/ FinishEvent(e)

Next == \/ \E t \in Clients : ClientRequest(t) \/ ClientStep(t)
        \/ \E e \in Events : EventStep(e)

Spec == Init /\ [][Next]_vars

\* A thread that can run eventually runs.  threading.Lock promises no order among
\* its waiters; every holder releases it, and the requests of a behaviour are finite.
FairSpec == /\ Spec
            /\ \A t \in Clients : WF_vars(ClientStep(t))
            /\ \A e \in Events : WF_vars(EventStep(e))

-----------------------------------------------------------------------------

\* The caps are checked before the lock is taken and the registry is trimmed
\* without one, so all three may be exceeded, but never by more than the requests
\* that were past the check together.
CapOvershootIsBounded ==
  /\ \A s \in SessionIds : turns[s] <= MaxTurns + Cardinality(Clients) - 1
  /\ served <= MaxTotalTurns + Cardinality(Clients) - 1
  /\ Len(registry) <= MaxSessions + Cardinality(Clients) - 1

\* The reported count of pending events is exactly the receipts not yet honoured.
PendingEventsIsExact ==
  \A s \in SessionIds :
    pendingEvents[s] = Cardinality({e \in Events : /\ target[e] = s /\ waiter[e] = None
                                                   /\ pc[e] \in {"lock_event", "apply", "finish"}})

\* Every event taken for a session is eventually applied to it, even when the
\* session is evicted or closed before its turn comes.
ArrivedEventIsApplied ==
  \A s \in SessionIds, e \in Events :
    e \in ToSet(arrived[s]) ~> e \in ToSet(applied[s])
=============================================================================
