------------------------- MODULE SessionServer_proofs -------------------------
(* How far the unlocked checks can be passed together, and that the count of   *)
(* pending events is exact, for any number of threads, sessions and events.    *)
EXTENDS SessionServer, FiniteSetTheorems, TLAPS

PastTurnsLabels == {"check_budget", "check_closed", "lock_turn", "turn", "count"}
PastBudgetLabels == {"check_closed", "lock_turn", "turn", "count"}
OwedLabels == {"lock_event", "apply", "finish"}

\* The requests that have passed a check and not yet used what it let them have.
PastTurnsCheck(s) == {t \in Clients : target[t] = s /\ pc[t] \in PastTurnsLabels}
PastBudgetCheck == {t \in Clients : pc[t] \in PastBudgetLabels}
PastRoomCheck == {t \in Clients : pc[t] = "register"}

Owed(s) == {e \in Events : target[e] = s /\ waiter[e] = None /\ pc[e] \in OwedLabels}

Types ==
  /\ DOMAIN pc = Threads /\ DOMAIN target = Threads /\ DOMAIN waiter = Events
  /\ turns \in [SessionIds -> Nat] /\ served \in Nat /\ registry \in Seq(SessionIds)
  /\ pendingEvents \in [SessionIds -> Int]
  /\ \A e \in Events : /\ pc[e] \in {"idle", "done"} \cup OwedLabels
                       /\ waiter[e] \in Clients \cup {None}
                       /\ pc[e] = "idle" => waiter[e] = None

\* What is used and what is on its way to be used stay within the limit plus
\* the requests but the one that passes the check last.
Room(limit) == limit + Cardinality(Clients) - 1

TurnsBound == \A s \in SessionIds : turns[s] + Cardinality(PastTurnsCheck(s)) <= Room(MaxTurns)
BudgetBound == served + Cardinality(PastBudgetCheck) <= Room(MaxTotalTurns)
RegistryBound == Len(registry) + Cardinality(PastRoomCheck) <= Room(MaxSessions)
CountIsExact == \A s \in SessionIds : pendingEvents[s] = Cardinality(Owed(s))

IInv == Types /\ TurnsBound /\ BudgetBound /\ RegistryBound /\ CountIsExact

-----------------------------------------------------------------------------

\* Some of the clients are no more than all of them.
LEMMA SomeClients ==
  ASSUME NEW T \in SUBSET Clients
  PROVE  IsFiniteSet(T) /\ Cardinality(T) \in Nat /\ Cardinality(T) <= Cardinality(Clients)
         /\ Cardinality(Clients) \in Nat
  BY FS_Subset, FS_CardinalityType, ServerAssumption

\* Fewer of them are no more than more of them.
LEMMA FewerClients ==
  ASSUME NEW T \in SUBSET Clients, NEW U \in SUBSET T
  PROVE  Cardinality(U) <= Cardinality(T)
  BY SomeClients, FS_Subset

\* One of them leaves.
LEMMA OneLess ==
  ASSUME NEW T \in SUBSET Clients, NEW t \in T, NEW U \in SUBSET (T \ {t})
  PROVE  Cardinality(U) <= Cardinality(T) - 1
<1>1. Cardinality(T \ {t}) = Cardinality(T) - 1
  BY SomeClients, FS_RemoveElement
<1>2. T \ {t} \in SUBSET Clients
  OBVIOUS
<1> QED BY <1>1, <1>2, FewerClients

\* A registry without one of its sessions is one shorter.
LEMMA RemoveAtFacts ==
  ASSUME NEW S, NEW seq \in Seq(S), NEW i \in DOMAIN seq
  PROVE  RemoveAt(seq, i) \in Seq(S) /\ Len(RemoveAt(seq, i)) = Len(seq) - 1
<1>1. i \in 1 .. Len(seq) /\ Len(seq) \in Nat
  OBVIOUS
<1>2. /\ SubSeq(seq, 1, i - 1) \in Seq(S) /\ Len(SubSeq(seq, 1, i - 1)) = i - 1
      /\ SubSeq(seq, i + 1, Len(seq)) \in Seq(S)
      /\ Len(SubSeq(seq, i + 1, Len(seq))) = Len(seq) - i
  BY <1>1
<1>3. \A a, b \in Seq(S) : a \o b \in Seq(S) /\ Len(a \o b) = Len(a) + Len(b)
  OBVIOUS
<1>4. RemoveAt(seq, i) = SubSeq(seq, 1, i - 1) \o SubSeq(seq, i + 1, Len(seq))
  BY DEF RemoveAt
<1> HIDE DEF RemoveAt
<1>5. RemoveAt(seq, i) \in Seq(S)
  BY <1>2, <1>3, <1>4
<1>6. Len(RemoveAt(seq, i)) = (i - 1) + (Len(seq) - i)
  BY <1>2, <1>3, <1>4
<1> QED BY <1>1, <1>5, <1>6

-----------------------------------------------------------------------------
\* Every step keeps the types.
LEMMA StepTypes == Types /\ Next => Types'
<1> SUFFICES ASSUME Types, Next PROVE Types'
  OBVIOUS
<1> USE ServerAssumption DEF Types, Threads, Goto, OwedLabels
<1>1. ASSUME NEW t \in Clients, StartSession(t) PROVE Types'
  BY <1>1 DEF StartSession, Request
<1>2. ASSUME NEW t \in Clients, SeeFull(t) PROVE Types'
  BY <1>2 DEF SeeFull
<1>3. ASSUME NEW t \in Clients, PickOldest(t) PROVE Types'
  BY <1>3 DEF PickOldest
<1>4. ASSUME NEW t \in Clients, Evict(t) PROVE Types'
  BY <1>4, RemoveAtFacts DEF Evict
<1>5. ASSUME NEW t \in Clients, FailStart(t) PROVE Types'
  BY <1>5 DEF FailStart
<1>6. ASSUME NEW t \in Clients, BuildAgent(t) PROVE Types'
  BY <1>6 DEF BuildAgent
<1>7. ASSUME NEW t \in Clients, NEW s \in SessionIds, Register(t, s) PROVE Types'
  BY <1>7 DEF Register
<1>8. ASSUME NEW t \in Clients, NEW s \in SessionIds, SendMessage(t, s) PROVE Types'
  BY <1>8 DEF SendMessage, Request
<1>9. ASSUME NEW t \in Clients, CheckTurns(t) PROVE Types'
  BY <1>9 DEF CheckTurns
<1>10. ASSUME NEW t \in Clients, CheckBudget(t) PROVE Types'
  BY <1>10 DEF CheckBudget
<1>11. ASSUME NEW t \in Clients, CheckClosed(t) PROVE Types'
  BY <1>11 DEF CheckClosed
<1>12. ASSUME NEW t \in Clients, LockTurn(t) PROVE Types'
  BY <1>12 DEF LockTurn, Acquire
<1>13. ASSUME NEW t \in Clients, Turn(t) PROVE Types'
  BY <1>13 DEF Turn, MayClose
<1>14. ASSUME NEW t \in Clients, CountTurn(t) PROVE Types'
  <2>1. turns' \in [SessionIds -> Nat]
    <3>1. CASE target[t] \in SessionIds
      BY <1>14, <3>1 DEF CountTurn
    <3>2. CASE target[t] \notin SessionIds
      BY <1>14, <3>2 DEF CountTurn
    <3> QED BY <3>1, <3>2
  <2>2. /\ DOMAIN pc' = Threads /\ served' \in Nat
        /\ \A e \in Events : pc'[e] = pc[e]
        /\ UNCHANGED <<target, waiter, registry, pendingEvents>>
    BY <1>14 DEF CountTurn
  <2> QED BY <2>1, <2>2
<1>15. ASSUME NEW t \in Clients, NEW s \in SessionIds, NEW e \in Events, AcceptEvent(t, s, e) PROVE Types'
  BY <1>15 DEF AcceptEvent, TakeEvent, Request, IsFreshEvent
<1>16. ASSUME NEW t \in Clients, NEW s \in SessionIds, NEW e \in Events, TriggerEvent(t, s, e) PROVE Types'
  BY <1>16 DEF TriggerEvent, TakeEvent, Request, IsFreshEvent
<1>17. ASSUME NEW e \in Events, LockEvent(e) PROVE Types'
  BY <1>17 DEF LockEvent, Acquire
<1>18. ASSUME NEW e \in Events, ApplyEvent(e) PROVE Types'
  BY <1>18 DEF ApplyEvent, MayClose
<1>19. ASSUME NEW e \in Events, FinishEvent(e) PROVE Types'
  <2>1. pendingEvents' \in [SessionIds -> Int]
    <3>1. CASE target[e] \in SessionIds
      BY <1>19, <3>1 DEF FinishEvent
    <3>2. CASE target[e] \notin SessionIds
      BY <1>19, <3>2 DEF FinishEvent
    <3> QED BY <3>1, <3>2
  <2>2. DOMAIN pc' = Threads /\ \A u \in Events : pc'[u] = IF u = e THEN "done" ELSE pc[u]
    BY <1>19 DEF FinishEvent
  <2> QED BY <1>19, <2>1, <2>2 DEF FinishEvent
<1> QED BY <1>1, <1>2, <1>3, <1>4, <1>5, <1>6, <1>7, <1>8, <1>9, <1>10,
           <1>11, <1>12, <1>13, <1>14, <1>15, <1>16, <1>17, <1>18, <1>19
       DEF Next, ClientRequest, ClientStep, EventStep

\* Who passes a check does so in that check's step, and where a request has passed
\* one its session stays the same.  A count moves only in its own step.
Crossings ==
  /\ \A t \in Clients :
       /\ pc'[t] \in PastTurnsLabels /\ pc[t] \notin PastTurnsLabels => CheckTurns(t)
       /\ pc'[t] \in PastTurnsLabels => target'[t] = target[t]
       /\ pc'[t] \in PastBudgetLabels /\ pc[t] \notin PastBudgetLabels => CheckBudget(t)
       /\ pc'[t] = "register" /\ pc[t] # "register" => BuildAgent(t)
  /\ turns' # turns \/ served' # served => \E t \in Clients : CountTurn(t)
  /\ registry' # registry =>
       \E t \in Clients : Evict(t) \/ \E s \in SessionIds : Register(t, s)

LEMMA StepCrossings == Types /\ Next => Crossings
<1> SUFFICES ASSUME Types, Next PROVE Crossings
  OBVIOUS
<1> USE ServerAssumption DEF Types, Threads, Goto, OwedLabels, PastTurnsLabels, PastBudgetLabels, Crossings
<1>1. ASSUME NEW t \in Clients, StartSession(t) PROVE Crossings
  BY <1>1 DEF StartSession, Request
<1>2. ASSUME NEW t \in Clients, SeeFull(t) PROVE Crossings
  BY <1>2 DEF SeeFull
<1>3. ASSUME NEW t \in Clients, PickOldest(t) PROVE Crossings
  BY <1>3 DEF PickOldest
<1>4. ASSUME NEW t \in Clients, Evict(t) PROVE Crossings
  BY <1>4 DEF Evict
<1>5. ASSUME NEW t \in Clients, FailStart(t) PROVE Crossings
  BY <1>5 DEF FailStart
<1>6. ASSUME NEW t \in Clients, BuildAgent(t) PROVE Crossings
  BY <1>6 DEF BuildAgent
<1>7. ASSUME NEW t \in Clients, NEW s \in SessionIds, Register(t, s) PROVE Crossings
  BY <1>7 DEF Register
<1>8. ASSUME NEW t \in Clients, NEW s \in SessionIds, SendMessage(t, s) PROVE Crossings
  BY <1>8 DEF SendMessage, Request
<1>9. ASSUME NEW t \in Clients, CheckTurns(t) PROVE Crossings
  BY <1>9 DEF CheckTurns
<1>10. ASSUME NEW t \in Clients, CheckBudget(t) PROVE Crossings
  BY <1>10 DEF CheckBudget
<1>11. ASSUME NEW t \in Clients, CheckClosed(t) PROVE Crossings
  BY <1>11 DEF CheckClosed
<1>12. ASSUME NEW t \in Clients, LockTurn(t) PROVE Crossings
  BY <1>12 DEF LockTurn, Acquire
<1>13. ASSUME NEW t \in Clients, Turn(t) PROVE Crossings
  BY <1>13 DEF Turn, MayClose
<1>14. ASSUME NEW t \in Clients, CountTurn(t) PROVE Crossings
  BY <1>14 DEF CountTurn
<1>15. ASSUME NEW t \in Clients, NEW s \in SessionIds, NEW e \in Events, AcceptEvent(t, s, e) PROVE Crossings
  BY <1>15 DEF AcceptEvent, TakeEvent, Request, IsFreshEvent
<1>16. ASSUME NEW t \in Clients, NEW s \in SessionIds, NEW e \in Events, TriggerEvent(t, s, e) PROVE Crossings
  BY <1>16 DEF TriggerEvent, TakeEvent, Request, IsFreshEvent
<1>17. ASSUME NEW e \in Events, LockEvent(e) PROVE Crossings
  BY <1>17 DEF LockEvent, Acquire
<1>18. ASSUME NEW e \in Events, ApplyEvent(e) PROVE Crossings
  BY <1>18 DEF ApplyEvent, MayClose
<1>19. ASSUME NEW e \in Events, FinishEvent(e) PROVE Crossings
  BY <1>19 DEF FinishEvent
<1> QED BY <1>1, <1>2, <1>3, <1>4, <1>5, <1>6, <1>7, <1>8, <1>9, <1>10,
           <1>11, <1>12, <1>13, <1>14, <1>15, <1>16, <1>17, <1>18, <1>19
       DEF Next, ClientRequest, ClientStep, EventStep

\* The turns of a session.
LEMMA StepTurns == Types /\ Types' /\ TurnsBound /\ Next => TurnsBound'
<1> SUFFICES ASSUME Types, Types', TurnsBound, Crossings, NEW s \in SessionIds
             PROVE  (turns[s] + Cardinality(PastTurnsCheck(s)) <= Room(MaxTurns))'
  BY StepCrossings DEF TurnsBound
<1> USE ServerAssumption DEF Room
<1>1. /\ PastTurnsCheck(s) \in SUBSET Clients /\ PastTurnsCheck(s)' \in SUBSET Clients
      /\ turns[s] \in Nat /\ turns'[s] \in Nat
      /\ turns[s] + Cardinality(PastTurnsCheck(s)) <= Room(MaxTurns)
  BY DEF Types, TurnsBound, PastTurnsCheck
<1>2. /\ Cardinality(PastTurnsCheck(s)) \in Nat /\ Cardinality(PastTurnsCheck(s)') \in Nat
      /\ Cardinality(Clients) \in Nat /\ Cardinality(PastTurnsCheck(s)') <= Cardinality(Clients)
  BY <1>1, SomeClients
<1>3. ASSUME NEW t \in Clients, CountTurn(t), target[t] = s
      PROVE  (turns[s] + Cardinality(PastTurnsCheck(s)) <= Room(MaxTurns))'
  <2>1. turns'[s] = turns[s] + 1
    BY <1>3 DEF CountTurn, Types
  <2>2. t \in PastTurnsCheck(s) /\ PastTurnsCheck(s)' \in SUBSET (PastTurnsCheck(s) \ {t})
    BY <1>3 DEF CountTurn, Types, Threads, Goto, PastTurnsCheck, PastTurnsLabels
  <2>3. Cardinality(PastTurnsCheck(s)') <= Cardinality(PastTurnsCheck(s)) - 1
    BY <1>1, <2>2, OneLess
  <2> QED BY <1>1, <1>2, <2>1, <2>3
<1>4. ASSUME NEW t \in Clients, CheckTurns(t), target[t] = s, pc'[t] \in PastTurnsLabels
      PROVE  (turns[s] + Cardinality(PastTurnsCheck(s)) <= Room(MaxTurns))'
  <2>1. turns'[s] = turns[s] /\ turns[s] < MaxTurns
    BY <1>4 DEF CheckTurns, Types, Threads, Goto, Within, PastTurnsLabels
  <2> QED BY <1>1, <1>2, <2>1
<1>5. ASSUME \A t \in Clients : ~ (CountTurn(t) /\ target[t] = s),
             \A t \in Clients : ~ (CheckTurns(t) /\ target[t] = s /\ pc'[t] \in PastTurnsLabels)
      PROVE  (turns[s] + Cardinality(PastTurnsCheck(s)) <= Room(MaxTurns))'
  <2>1. turns'[s] = turns[s]
    <3>1. CASE turns' = turns
      BY <3>1
    <3>2. ASSUME NEW t \in Clients, CountTurn(t) PROVE turns'[s] = turns[s]
      BY <1>5, <3>2 DEF CountTurn, Types
    <3> QED BY <3>1, <3>2 DEF Crossings
  <2>2. PastTurnsCheck(s)' \in SUBSET PastTurnsCheck(s)
    BY <1>5 DEF Crossings, PastTurnsCheck
  <2>3. Cardinality(PastTurnsCheck(s)') <= Cardinality(PastTurnsCheck(s))
    BY <1>1, <2>2, FewerClients
  <2> QED BY <1>1, <1>2, <2>1, <2>3
<1> QED BY <1>3, <1>4, <1>5

\* The turns of the process.
LEMMA StepBudget == Types /\ Types' /\ BudgetBound /\ Next => BudgetBound'
<1> SUFFICES ASSUME Types, Types', BudgetBound, Crossings PROVE BudgetBound'
  BY StepCrossings
<1> USE ServerAssumption DEF Room, BudgetBound
<1>1. /\ PastBudgetCheck \in SUBSET Clients /\ PastBudgetCheck' \in SUBSET Clients
      /\ served \in Nat /\ served' \in Nat
  BY DEF Types, PastBudgetCheck
<1>2. /\ Cardinality(PastBudgetCheck) \in Nat /\ Cardinality(PastBudgetCheck') \in Nat
      /\ Cardinality(Clients) \in Nat /\ Cardinality(PastBudgetCheck') <= Cardinality(Clients)
  BY <1>1, SomeClients
<1>3. ASSUME NEW t \in Clients, CountTurn(t) PROVE BudgetBound'
  <2>1. served' = served + 1
    BY <1>3 DEF CountTurn
  <2>2. t \in PastBudgetCheck /\ PastBudgetCheck' \in SUBSET (PastBudgetCheck \ {t})
    BY <1>3 DEF CountTurn, Types, Threads, Goto, PastBudgetCheck, PastBudgetLabels
  <2>3. Cardinality(PastBudgetCheck') <= Cardinality(PastBudgetCheck) - 1
    BY <1>1, <2>2, OneLess
  <2> QED BY <1>1, <1>2, <2>1, <2>3
<1>4. ASSUME NEW t \in Clients, CheckBudget(t), pc'[t] \in PastBudgetLabels PROVE BudgetBound'
  <2>1. served' = served /\ served < MaxTotalTurns
    BY <1>4 DEF CheckBudget, Types, Threads, Goto, Within, PastBudgetLabels
  <2> QED BY <1>1, <1>2, <2>1
<1>5. ASSUME \A t \in Clients : ~ CountTurn(t),
             \A t \in Clients : ~ (CheckBudget(t) /\ pc'[t] \in PastBudgetLabels)
      PROVE  BudgetBound'
  <2>1. served' = served /\ PastBudgetCheck' \in SUBSET PastBudgetCheck
    BY <1>5 DEF Crossings, PastBudgetCheck
  <2>2. Cardinality(PastBudgetCheck') <= Cardinality(PastBudgetCheck)
    BY <1>1, <2>1, FewerClients
  <2> QED BY <1>1, <1>2, <2>1, <2>2
<1> QED BY <1>3, <1>4, <1>5

\* The sessions in the registry.
LEMMA StepRegistry == Types /\ Types' /\ RegistryBound /\ Next => RegistryBound'
<1> SUFFICES ASSUME Types, Types', RegistryBound, Crossings PROVE RegistryBound'
  BY StepCrossings
<1> USE ServerAssumption DEF Room, RegistryBound
<1>1. /\ PastRoomCheck \in SUBSET Clients /\ PastRoomCheck' \in SUBSET Clients
      /\ Len(registry) \in Nat /\ Len(registry') \in Nat
  BY DEF Types, PastRoomCheck
<1>2. /\ Cardinality(PastRoomCheck) \in Nat /\ Cardinality(PastRoomCheck') \in Nat
      /\ Cardinality(Clients) \in Nat /\ Cardinality(PastRoomCheck') <= Cardinality(Clients)
  BY <1>1, SomeClients
<1>3. ASSUME NEW t \in Clients, NEW s \in SessionIds, Register(t, s) PROVE RegistryBound'
  <2>1. Len(registry') = Len(registry) + 1
    BY <1>3 DEF Register, Types
  <2>2. t \in PastRoomCheck /\ PastRoomCheck' \in SUBSET (PastRoomCheck \ {t})
    BY <1>3 DEF Register, Types, Threads, Goto, PastRoomCheck
  <2>3. Cardinality(PastRoomCheck') <= Cardinality(PastRoomCheck) - 1
    BY <1>1, <2>2, OneLess
  <2> QED BY <1>1, <1>2, <2>1, <2>3
<1>4. ASSUME NEW t \in Clients, BuildAgent(t) PROVE RegistryBound'
  <2>1. registry' = registry /\ Len(registry) < MaxSessions
    BY <1>4 DEF BuildAgent, RoomLeft
  <2> QED BY <1>1, <1>2, <2>1
<1>5. ASSUME \A t \in Clients, s \in SessionIds : ~ Register(t, s),
             \A t \in Clients : ~ BuildAgent(t)
      PROVE  RegistryBound'
  <2>1. Len(registry') <= Len(registry)
    <3>1. CASE registry' = registry
      BY <1>1, <3>1
    <3>2. ASSUME NEW t \in Clients, Evict(t) PROVE Len(registry') <= Len(registry)
      BY <1>1, <3>2, RemoveAtFacts DEF Evict, Types
    <3> QED BY <1>5, <3>1, <3>2 DEF Crossings
  <2>2. PastRoomCheck' \in SUBSET PastRoomCheck
    BY <1>5 DEF Crossings, PastRoomCheck
  <2>3. Cardinality(PastRoomCheck') <= Cardinality(PastRoomCheck)
    BY <1>1, <2>2, FewerClients
  <2> QED BY <1>1, <1>2, <2>1, <2>3
<1> QED BY <1>3, <1>4, <1>5

\* The events still owed.
LEMMA StepCount == Types /\ CountIsExact /\ Next => CountIsExact'
<1> SUFFICES ASSUME Types, CountIsExact, Next PROVE CountIsExact'
  OBVIOUS
<1> USE ServerAssumption DEF Types, Threads, Goto, OwedLabels, CountIsExact
<1>a. \A s \in SessionIds : IsFiniteSet(Owed(s)) /\ Cardinality(Owed(s)) \in Nat
  <2>1. \A s \in SessionIds : Owed(s) \in SUBSET Events
    BY DEF Owed
  <2> QED BY <2>1, FS_Subset, FS_CardinalityType
<1>1. ASSUME NEW t \in Clients, StartSession(t) PROVE CountIsExact'
  <2>1. pendingEvents' = pendingEvents /\ \A u \in SessionIds : Owed(u)' = Owed(u)
    BY <1>1 DEF StartSession, Request, Owed
  <2> QED BY <2>1
<1>2. ASSUME NEW t \in Clients, SeeFull(t) PROVE CountIsExact'
  <2>1. pendingEvents' = pendingEvents /\ \A u \in SessionIds : Owed(u)' = Owed(u)
    BY <1>2 DEF SeeFull, Owed
  <2> QED BY <2>1
<1>3. ASSUME NEW t \in Clients, PickOldest(t) PROVE CountIsExact'
  <2>1. pendingEvents' = pendingEvents /\ \A u \in SessionIds : Owed(u)' = Owed(u)
    BY <1>3 DEF PickOldest, Owed
  <2> QED BY <2>1
<1>4. ASSUME NEW t \in Clients, Evict(t) PROVE CountIsExact'
  <2>1. pendingEvents' = pendingEvents /\ \A u \in SessionIds : Owed(u)' = Owed(u)
    BY <1>4 DEF Evict, Owed
  <2> QED BY <2>1
<1>5. ASSUME NEW t \in Clients, FailStart(t) PROVE CountIsExact'
  <2>1. pendingEvents' = pendingEvents /\ \A u \in SessionIds : Owed(u)' = Owed(u)
    BY <1>5 DEF FailStart, Owed
  <2> QED BY <2>1
<1>6. ASSUME NEW t \in Clients, BuildAgent(t) PROVE CountIsExact'
  <2>1. pendingEvents' = pendingEvents /\ \A u \in SessionIds : Owed(u)' = Owed(u)
    BY <1>6 DEF BuildAgent, Owed
  <2> QED BY <2>1
<1>7. ASSUME NEW t \in Clients, NEW s \in SessionIds, Register(t, s) PROVE CountIsExact'
  <2>1. pendingEvents' = pendingEvents /\ \A u \in SessionIds : Owed(u)' = Owed(u)
    BY <1>7 DEF Register, Owed
  <2> QED BY <2>1
<1>8. ASSUME NEW t \in Clients, NEW s \in SessionIds, SendMessage(t, s) PROVE CountIsExact'
  <2>1. pendingEvents' = pendingEvents /\ \A u \in SessionIds : Owed(u)' = Owed(u)
    BY <1>8 DEF SendMessage, Request, Owed
  <2> QED BY <2>1
<1>9. ASSUME NEW t \in Clients, CheckTurns(t) PROVE CountIsExact'
  <2>1. pendingEvents' = pendingEvents /\ \A u \in SessionIds : Owed(u)' = Owed(u)
    BY <1>9 DEF CheckTurns, Owed
  <2> QED BY <2>1
<1>10. ASSUME NEW t \in Clients, CheckBudget(t) PROVE CountIsExact'
  <2>1. pendingEvents' = pendingEvents /\ \A u \in SessionIds : Owed(u)' = Owed(u)
    BY <1>10 DEF CheckBudget, Owed
  <2> QED BY <2>1
<1>11. ASSUME NEW t \in Clients, CheckClosed(t) PROVE CountIsExact'
  <2>1. pendingEvents' = pendingEvents /\ \A u \in SessionIds : Owed(u)' = Owed(u)
    BY <1>11 DEF CheckClosed, Owed
  <2> QED BY <2>1
<1>12. ASSUME NEW t \in Clients, LockTurn(t) PROVE CountIsExact'
  <2>1. pendingEvents' = pendingEvents /\ \A u \in SessionIds : Owed(u)' = Owed(u)
    BY <1>12 DEF LockTurn, Acquire, Owed
  <2> QED BY <2>1
<1>13. ASSUME NEW t \in Clients, Turn(t) PROVE CountIsExact'
  <2>1. pendingEvents' = pendingEvents /\ \A u \in SessionIds : Owed(u)' = Owed(u)
    BY <1>13 DEF Turn, MayClose, Owed
  <2> QED BY <2>1
<1>14. ASSUME NEW t \in Clients, CountTurn(t) PROVE CountIsExact'
  <2>1. pendingEvents' = pendingEvents /\ \A u \in SessionIds : Owed(u)' = Owed(u)
    BY <1>14 DEF CountTurn, Owed
  <2> QED BY <2>1
<1>15. ASSUME NEW t \in Clients, NEW s \in SessionIds, NEW e \in Events, AcceptEvent(t, s, e) PROVE CountIsExact'
  <2>1. /\ e \notin Owed(s) /\ Owed(s)' = Owed(s) \cup {e}
        /\ \A u \in SessionIds \ {s} : Owed(u)' = Owed(u)
    BY <1>15 DEF AcceptEvent, TakeEvent, Request, IsFreshEvent, Owed
  <2>2. /\ pendingEvents'[s] = pendingEvents[s] + 1
        /\ \A u \in SessionIds \ {s} : pendingEvents'[u] = pendingEvents[u]
    BY <1>15 DEF AcceptEvent
  <2>3. Cardinality(Owed(s) \cup {e}) = Cardinality(Owed(s)) + 1
    BY <1>a, <2>1, FS_AddElement
  <2> QED BY <2>1, <2>2, <2>3
<1>16. ASSUME NEW t \in Clients, NEW s \in SessionIds, NEW e \in Events, TriggerEvent(t, s, e) PROVE CountIsExact'
  <2>1. pendingEvents' = pendingEvents /\ \A u \in SessionIds : Owed(u)' = Owed(u)
    BY <1>16 DEF TriggerEvent, TakeEvent, Request, IsFreshEvent, Owed
  <2> QED BY <2>1
<1>17. ASSUME NEW e \in Events, LockEvent(e) PROVE CountIsExact'
  <2>1. pendingEvents' = pendingEvents /\ \A u \in SessionIds : Owed(u)' = Owed(u)
    BY <1>17 DEF LockEvent, Acquire, Owed
  <2> QED BY <2>1
<1>18. ASSUME NEW e \in Events, ApplyEvent(e) PROVE CountIsExact'
  <2>1. pendingEvents' = pendingEvents /\ \A u \in SessionIds : Owed(u)' = Owed(u)
    BY <1>18 DEF ApplyEvent, MayClose, Owed
  <2> QED BY <2>1
<1>19. ASSUME NEW e \in Events, FinishEvent(e) PROVE CountIsExact'
  <2>1. CASE waiter[e] # None
    <3>1. pendingEvents' = pendingEvents /\ \A u \in SessionIds : Owed(u)' = Owed(u)
      BY <1>19, <2>1 DEF FinishEvent, Owed
    <3> QED BY <3>1
  <2>2. CASE waiter[e] = None
    <3>1. \A u \in SessionIds : /\ Owed(u)' = Owed(u) \ {e}
                                /\ e \in Owed(u) <=> target[e] = u
      BY <1>19, <2>2 DEF FinishEvent, Owed
    <3>2. \A u \in SessionIds :
            pendingEvents'[u] = IF target[e] = u THEN pendingEvents[u] - 1 ELSE pendingEvents[u]
      BY <1>19, <2>2 DEF FinishEvent
    <3>3. \A u \in SessionIds : Cardinality(Owed(u) \ {e}) =
            IF e \in Owed(u) THEN Cardinality(Owed(u)) - 1 ELSE Cardinality(Owed(u))
      BY <1>a, FS_RemoveElement
    <3>4. ASSUME NEW u \in SessionIds PROVE pendingEvents'[u] = Cardinality(Owed(u)')
      BY <1>a, <3>1, <3>2, <3>3
    <3> QED BY <3>4
  <2> QED BY <2>1, <2>2
<1> QED BY <1>1, <1>2, <1>3, <1>4, <1>5, <1>6, <1>7, <1>8, <1>9, <1>10,
           <1>11, <1>12, <1>13, <1>14, <1>15, <1>16, <1>17, <1>18, <1>19
       DEF Next, ClientRequest, ClientStep, EventStep

-----------------------------------------------------------------------------

\* Nothing is used at the start, and every limit is at least one.
LEMMA InitInductive == Init => IInv
<1> SUFFICES ASSUME Init PROVE IInv
  OBVIOUS
<1>1. Types
  BY ServerAssumption DEF Init, Types, Threads
<1>2. /\ \A s \in SessionIds : PastTurnsCheck(s) = {} /\ Owed(s) = {}
      /\ PastBudgetCheck = {} /\ PastRoomCheck = {}
  BY DEF Init, Threads, PastTurnsCheck, PastBudgetCheck, PastRoomCheck, Owed,
         PastTurnsLabels, PastBudgetLabels, OwedLabels
<1>3. Cardinality({}) = 0 /\ Cardinality(Clients) \in Nat
  BY FS_EmptySet, FS_CardinalityType, ServerAssumption
<1>4. /\ Room(MaxTurns) \in Nat /\ Room(MaxTotalTurns) \in Nat /\ Room(MaxSessions) \in Nat
      /\ \A s \in SessionIds : turns[s] = 0 /\ pendingEvents[s] = 0
      /\ served = 0 /\ Len(registry) = 0
  BY <1>3, ServerAssumption DEF Init, Room
<1>5. \A s \in SessionIds : Cardinality(PastTurnsCheck(s)) = 0 /\ Cardinality(Owed(s)) = 0
  BY <1>2, <1>3
<1>6. TurnsBound /\ CountIsExact
  BY <1>4, <1>5 DEF TurnsBound, CountIsExact
<1>7. BudgetBound /\ RegistryBound
  BY <1>2, <1>3, <1>4 DEF BudgetBound, RegistryBound
<1> QED BY <1>1, <1>7, <1>6 DEF IInv

\* Each part of the invariant survives each step.
LEMMA StepInductive == IInv /\ [Next]_vars => IInv'
<1>1. ASSUME IInv, Next PROVE IInv'
  BY <1>1, StepTypes, StepTurns, StepBudget, StepRegistry, StepCount DEF IInv
<1>2. ASSUME IInv, UNCHANGED vars PROVE IInv'
  BY <1>2 DEF IInv, vars, Types, TurnsBound, BudgetBound, RegistryBound, CountIsExact,
     PastTurnsCheck, PastBudgetCheck, PastRoomCheck, Owed
<1> QED BY <1>1, <1>2

\* Uses and those on their way are within bounds in every reachable state.
THEOREM Inductive == Spec => []IInv
  BY InitInductive, StepInductive, PTL DEF Spec

\* A cap is exceeded at most by the requests but one that passed its check together.
THEOREM Overshoot == Spec => []CapOvershootIsBounded
<1>1. IInv => CapOvershootIsBounded
  <2> SUFFICES ASSUME IInv PROVE CapOvershootIsBounded
    OBVIOUS
  <2>1. /\ \A s \in SessionIds : Cardinality(PastTurnsCheck(s)) \in Nat
        /\ Cardinality(PastBudgetCheck) \in Nat /\ Cardinality(PastRoomCheck) \in Nat
        /\ Cardinality(Clients) \in Nat
    BY SomeClients DEF PastTurnsCheck, PastBudgetCheck, PastRoomCheck
  <2>2. Len(registry) \in Nat /\ served \in Nat /\ \A s \in SessionIds : turns[s] \in Nat
    BY DEF IInv, Types
  <2> QED BY <2>1, <2>2, ServerAssumption DEF IInv, TurnsBound, BudgetBound, RegistryBound, Room,
             CapOvershootIsBounded
<1> QED BY Inductive, <1>1, PTL

\* The reported count is exactly the receipts not yet honoured.
THEOREM PendingCount == Spec => []PendingEventsIsExact
<1>1. IInv => PendingEventsIsExact
  BY DEF IInv, CountIsExact, Owed, OwedLabels, PendingEventsIsExact
<1> QED BY Inductive, <1>1, PTL
=============================================================================
