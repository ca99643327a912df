------------------------------ MODULE Mailbox -------------------------------
(* The per-order mailbox, src/src/care_agent/core/mailbox.py: every input of an *)
(* order passes through send(), which drains the order's queue through the      *)
(* runtime.  Applying an event may send again, to the same order or another,    *)
(* and may raise; calls then nest, and calls is the stack of active drains.     *)
(* The events of a behaviour are numbered as they are sent.                     *)
EXTENDS Integers, Sequences

CONSTANTS
  Orders,
  MaxSends,       \* bound on the events sent
  None

VARIABLES
  queues,         \* _queues: per order, what was sent and not yet popped
  draining,       \* _draining
  calls,          \* the drains under way, outermost first
  sends,          \* events sent so far
  arrived, taken, \* per order, the events in order of arrival and of application
  returned,       \* per order, the events whose effects a caller of send() got
  raised          \* some apply() raised

vars == <<queues, draining, calls, sends, arrived, taken, returned, raised>>

ASSUME MailboxAssumption == MaxSends \in Nat /\ None \notin Nat

Drain(o) == [order |-> o, event |-> None, produced |-> << >>]

Depth == Len(calls)
Top   == calls[Depth]

\* The top drain now applies event e and has gathered the effects out.
TopBecomes(e, out) ==
  calls' = [calls EXCEPT ![Depth] = [order |-> Top.order, event |-> e, produced |-> out]]

Init ==
  /\ queues = [o \in Orders |-> << >>] /\ draining = {}
  /\ calls = << >> /\ sends = 0
  /\ arrived = [o \in Orders |-> << >>] /\ taken = [o \in Orders |-> << >>]
  /\ returned = [o \in Orders |-> << >>]
  /\ raised = FALSE

-----------------------------------------------------------------------------
\* A call comes from outside, or from the apply() on top of the stack.
MaySend == Depth > 0 => Top.event # None

Enqueue(o) ==
  /\ MaySend /\ sends < MaxSends
  /\ sends' = sends + 1
  /\ queues' = [queues EXCEPT ![o] = Append(@, sends + 1)]
  /\ arrived' = [arrived EXCEPT ![o] = Append(@, sends + 1)]
  /\ UNCHANGED <<taken, returned, raised>>

\* Reentrancy mutant: a nested send drains the order a second time.
SendAlwaysDrains(o) ==
  /\ Enqueue(o)
  /\ calls' = Append(calls, Drain(o)) /\ draining' = draining \cup {o}

\* send up to the loop: reentrant for an order being drained, it only enqueues.
Send(o) ==
  /\ Enqueue(o)
  /\ IF o \in draining
       THEN UNCHANGED <<calls, draining>>
       ELSE calls' = Append(calls, Drain(o)) /\ draining' = draining \cup {o}

\* Order mutant: the newest event is taken first.
PopNewest ==
  /\ Depth > 0 /\ Top.event = None /\ queues[Top.order] # << >>
  /\ LET q == queues[Top.order]
     IN  /\ TopBecomes(q[Len(q)], Top.produced)
         /\ queues' = [queues EXCEPT ![Top.order] = SubSeq(@, 1, Len(q) - 1)]
         /\ taken' = [taken EXCEPT ![Top.order] = Append(@, q[Len(q)])]
  /\ UNCHANGED <<draining, sends, arrived, returned, raised>>

\* popleft, and the call of apply().
Pop ==
  /\ Depth > 0 /\ Top.event = None /\ queues[Top.order] # << >>
  /\ TopBecomes(Head(queues[Top.order]), Top.produced)
  /\ queues' = [queues EXCEPT ![Top.order] = Tail(@)]
  /\ taken' = [taken EXCEPT ![Top.order] = Append(@, Head(queues[Top.order]))]
  /\ UNCHANGED <<draining, sends, arrived, returned, raised>>

\* apply() returns: its effects join those of the drain.
Applied ==
  /\ Depth > 0 /\ Top.event # None
  /\ TopBecomes(None, Append(Top.produced, Top.event))
  /\ UNCHANGED <<queues, draining, sends, arrived, taken, returned, raised>>

Leave ==
  /\ calls' = SubSeq(calls, 1, Depth - 1)
  /\ draining' = draining \ {Top.order}
  /\ UNCHANGED <<queues, sends, arrived, taken>>

\* Loop mutant: one event a call, the rest left to whoever sends next.
ReturnAfterOne ==
  /\ Depth > 0 /\ Top.event = None /\ Top.produced # << >>
  /\ returned' = [returned EXCEPT ![Top.order] = @ \o Top.produced]
  /\ Leave
  /\ UNCHANGED raised

\* The queue is empty: send() hands its caller the effects it gathered.
Return ==
  /\ Depth > 0 /\ Top.event = None /\ queues[Top.order] = << >>
  /\ returned' = [returned EXCEPT ![Top.order] = @ \o Top.produced]
  /\ Leave
  /\ UNCHANGED raised

\* apply() raises: the finally clause runs, the gathered effects are lost and
\* what is still queued stays queued.
Raise ==
  /\ Depth > 0 /\ Top.event # None
  /\ raised' = TRUE
  /\ Leave
  /\ UNCHANGED returned

Next == (\E o \in Orders : Send(o)) \/ Pop \/ Applied \/ Return \/ Raise

Spec == Init /\ [][Next]_vars

-----------------------------------------------------------------------------
(* Properties.                                                                 *)

(* mailbox.py:3: the inputs of an order are applied in arrival order, whoever   *)
(* sent them, however deeply nested, and though some of them raised.            *)
AppliedInArrivalOrder ==
  \A o \in Orders : arrived[o] = taken[o] \o queues[o]

(* mailbox.py:5-7: an event sent while its order is being drained never         *)
(* interleaves with the one being applied: an order has one drain at a time,    *)
(* and _draining names exactly the orders that have one.                        *)
OneDrainPerOrder ==
  /\ \A i, j \in DOMAIN calls : calls[i].order = calls[j].order => i = j
  /\ draining = {calls[i].order : i \in DOMAIN calls}

(* Once every call has returned and none raised, no event is left behind and    *)
(* the effects of each went to exactly one caller, in order of arrival: the     *)
(* empty list a reentrant send() returns loses nothing.                         *)
EffectsReachOneCaller ==
  calls = << >> /\ ~ raised => \A o \in Orders : returned[o] = arrived[o]
=============================================================================
