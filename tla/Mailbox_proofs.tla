--------------------------- MODULE Mailbox_proofs ----------------------------
(* The mailbox, for every set of orders, every number of sends, every nesting   *)
(* of calls and with apply() raising at any point: inputs are applied in        *)
(* arrival order, an order has one drain at a time, and the effects of every    *)
(* event reach one caller unless an apply() raised.                             *)
EXTENDS Mailbox, SequenceTheorems, TLAPS

Numbers == Seq(Nat)

Drains == [order : Orders, event : Nat \cup {None}, produced : Numbers]

FieldsOK ==
  /\ queues \in [Orders -> Numbers] /\ arrived \in [Orders -> Numbers]
  /\ taken \in [Orders -> Numbers] /\ returned \in [Orders -> Numbers]
  /\ calls \in Seq(Drains)
  /\ sends \in Nat

\* What a drain has taken up and not yet returned.
Held(d) == d.produced \o IF d.event = None THEN << >> ELSE << d.event >>

\* Every event taken up was returned to a caller or is held by its order's drain,
\* and no event waits without a drain; an exception breaks both.
EffectsAreHeld ==
  ~ raised =>
    /\ \A o \in Orders \ draining : queues[o] = << >> /\ taken[o] = returned[o]
    /\ \A i \in DOMAIN calls :
         taken[calls[i].order] = returned[calls[i].order] \o Held(calls[i])

IInv == FieldsOK /\ AppliedInArrivalOrder /\ OneDrainPerOrder

Inv == IInv /\ EffectsAreHeld

\* Taking the head of the queue moves one event from the waiting to the applied.
LEMMA HeadMoves ==
  ASSUME NEW t \in Numbers, NEW q \in Numbers, q # << >>
  PROVE  Append(t, Head(q)) \o Tail(q) = t \o q
  OBVIOUS

\* An event that arrives joins the waiting ones.
LEMMA ArrivalWaits ==
  ASSUME NEW t \in Numbers, NEW q \in Numbers, NEW n \in Nat
  PROVE  Append(t \o q, n) = t \o Append(q, n)
  OBVIOUS

\* The last drain leaves: the others keep their places, and its order is freed.
LEMMA LeaveKeepsOneDrain ==
  ASSUME calls \in Seq(Drains), OneDrainPerOrder, Depth > 0, Leave
  PROVE  calls' \in Seq(Drains) /\ OneDrainPerOrder'
  <1>1. Depth \in Nat /\ Depth >= 1
    BY DEF Depth
  <1>2. calls' = SubSeq(calls, 1, Depth - 1)
    BY DEF Leave
  <1>3. /\ calls' \in Seq(Drains)
        /\ DOMAIN calls' = 1 .. Depth - 1
        /\ \A k \in 1 .. Depth - 1 : calls'[k] = calls[k]
    BY <1>1, <1>2, SubSeqProperties DEF Depth
  <1>4. DOMAIN calls = 1 .. Depth
    BY DEF Depth
  <1>5. \A i, j \in DOMAIN calls' : calls'[i].order = calls'[j].order => i = j
    BY <1>1, <1>3, <1>4 DEF OneDrainPerOrder
  <1>6. draining' = {calls'[i].order : i \in DOMAIN calls'}
    <2>1. \A i \in 1 .. Depth - 1 : calls[i].order # Top.order
      BY <1>1, <1>4 DEF OneDrainPerOrder, Top
    <2>2. draining' = {calls[i].order : i \in 1 .. Depth - 1}
      BY <1>1, <1>4, <2>1 DEF OneDrainPerOrder, Leave, Top
    <2>. QED  BY <1>3, <2>2
  <1>. QED  BY <1>3, <1>5, <1>6 DEF OneDrainPerOrder

\* The drain on top has its fields.
LEMMA TopFields ==
  ASSUME calls \in Seq(Drains), Depth > 0
  PROVE  /\ Depth \in DOMAIN calls
         /\ Top.order \in Orders /\ Top.event \in Nat \cup {None} /\ Top.produced \in Numbers
  <1>1. Depth \in DOMAIN calls /\ Top \in Drains
    BY DEF Depth, Top
  <1>. QED  BY <1>1 DEF Drains

\* Every drain serves one of the orders.
LEMMA DrainOrder ==
  ASSUME calls \in Seq(Drains), NEW i \in DOMAIN calls
  PROVE  calls[i].order \in Orders
  <1>1. calls[i] \in Drains
    OBVIOUS
  <1>. QED  BY <1>1 DEF Drains

\* Changing the event or the effects of the top drain moves no drain.
LEMMA TopKeepsOneDrain ==
  ASSUME calls \in Seq(Drains), OneDrainPerOrder, Depth > 0,
         NEW e \in Nat \cup {None}, NEW out \in Numbers,
         TopBecomes(e, out), draining' = draining
  PROVE  calls' \in Seq(Drains) /\ OneDrainPerOrder'
  <1>. DEFINE new == [order |-> Top.order, event |-> e, produced |-> out]
  <1>1. Depth \in DOMAIN calls /\ new \in Drains /\ new.order = calls[Depth].order
    BY TopFields DEF Drains, Top
  <1>2. calls' = [calls EXCEPT ![Depth] = new]
    BY DEF TopBecomes
  <1>. HIDE DEF new
  <1>3. /\ calls' \in Seq(Drains)
        /\ DOMAIN calls' = DOMAIN calls
        /\ \A i \in DOMAIN calls : calls'[i].order = calls[i].order
    BY <1>1, <1>2
  <1>. QED  BY <1>3 DEF OneDrainPerOrder

-----------------------------------------------------------------------------
(* One lemma per action.                                                       *)

\* The empty mailbox.
LEMMA InitOK == Init => IInv
  BY DEF Init, IInv, FieldsOK, Numbers, AppliedInArrivalOrder, OneDrainPerOrder

\* An event arrives, and a drain starts unless the order has one.
LEMMA SendOK ==
  ASSUME IInv, NEW o \in Orders, Send(o)
  PROVE  IInv'
  <1>1. sends + 1 \in Nat /\ sends' = sends + 1
    BY DEF IInv, FieldsOK, Send, Enqueue
  <1>2. /\ queues' \in [Orders -> Numbers] /\ arrived' \in [Orders -> Numbers]
        /\ taken' \in [Orders -> Numbers] /\ returned' \in [Orders -> Numbers]
    BY <1>1 DEF IInv, FieldsOK, Numbers, Send, Enqueue
  <1>3. AppliedInArrivalOrder'
    <2>. SUFFICES ASSUME NEW x \in Orders PROVE arrived'[x] = taken'[x] \o queues'[x]
      BY DEF AppliedInArrivalOrder
    <2>1. CASE x = o
      <3>1. /\ arrived'[x] = Append(arrived[x], sends + 1)
            /\ queues'[x] = Append(queues[x], sends + 1)
            /\ taken'[x] = taken[x]
        BY <2>1 DEF IInv, FieldsOK, Send, Enqueue
      <3>2. arrived[x] = taken[x] \o queues[x] /\ taken[x] \in Numbers /\ queues[x] \in Numbers
        BY DEF IInv, FieldsOK, AppliedInArrivalOrder
      <3>. QED  BY <1>1, <3>1, <3>2, ArrivalWaits
    <2>2. CASE x # o
      BY <2>2 DEF IInv, FieldsOK, AppliedInArrivalOrder, Send, Enqueue
    <2>. QED  BY <2>1, <2>2
  <1>4. calls' \in Seq(Drains) /\ OneDrainPerOrder'
    <2>1. CASE o \in draining
      BY <2>1 DEF IInv, FieldsOK, OneDrainPerOrder, Send
    <2>2. CASE o \notin draining
      <3>1. Drain(o) \in Drains /\ Drain(o).order = o
        BY DEF Drain, Drains, Numbers
      <3>2. /\ calls' = Append(calls, Drain(o)) /\ draining' = draining \cup {o}
            /\ calls \in Seq(Drains)
        BY <2>2 DEF Send, IInv, FieldsOK
      <3>3. /\ calls' \in Seq(Drains)
            /\ DOMAIN calls' = DOMAIN calls \cup {Len(calls) + 1}
            /\ \A i \in DOMAIN calls : calls'[i] = calls[i]
            /\ calls'[Len(calls) + 1] = Drain(o)
        BY <3>1, <3>2
      <3>4. \A i \in DOMAIN calls : calls[i].order # o
        BY <2>2 DEF IInv, OneDrainPerOrder
      <3>. QED  BY <3>1, <3>2, <3>3, <3>4 DEF IInv, OneDrainPerOrder
    <2>. QED  BY <2>1, <2>2
  <1>. QED  BY <1>1, <1>2, <1>3, <1>4 DEF IInv, FieldsOK

\* The oldest waiting event is taken up.
LEMMA PopOK ==
  ASSUME IInv, Pop
  PROVE  IInv'
  <1>1. Depth > 0 /\ Top.order \in Orders /\ Top.produced \in Numbers
    BY TopFields DEF IInv, FieldsOK, Pop
  <1>. DEFINE o == Top.order
              n == Head(queues[o])
  <1>2. queues[o] \in Numbers /\ queues[o] # << >> /\ taken[o] \in Numbers /\ n \in Nat
    BY <1>1 DEF IInv, FieldsOK, Numbers, Pop
  <1>3. /\ queues' = [queues EXCEPT ![o] = Tail(queues[o])]
        /\ taken' = [taken EXCEPT ![o] = Append(taken[o], n)]
        /\ UNCHANGED <<draining, sends, arrived, returned>>
    BY DEF Pop
  <1>4. queues' \in [Orders -> Numbers] /\ taken' \in [Orders -> Numbers]
    BY <1>1, <1>2, <1>3 DEF IInv, FieldsOK, Numbers
  <1>5. AppliedInArrivalOrder'
    <2>. SUFFICES ASSUME NEW x \in Orders PROVE arrived'[x] = taken'[x] \o queues'[x]
      BY DEF AppliedInArrivalOrder
    <2>1. CASE x = o
      BY <1>1, <1>2, <1>3, <2>1, HeadMoves DEF IInv, FieldsOK, AppliedInArrivalOrder
    <2>2. CASE x # o
      BY <1>3, <2>2 DEF IInv, FieldsOK, AppliedInArrivalOrder
    <2>. QED  BY <2>1, <2>2
  <1>6. calls' \in Seq(Drains) /\ OneDrainPerOrder'
    BY <1>1, <1>2, <1>3, TopKeepsOneDrain DEF IInv, FieldsOK, Pop
  <1>. QED  BY <1>3, <1>4, <1>5, <1>6 DEF IInv, FieldsOK

\* An event has been applied.
LEMMA AppliedOK ==
  ASSUME IInv, Applied
  PROVE  IInv'
  <1>1. Top.produced \in Numbers /\ Top.event \in Nat
    BY TopFields DEF IInv, FieldsOK, Applied
  <1>2. Append(Top.produced, Top.event) \in Numbers
    BY <1>1 DEF Numbers
  <1>3. calls' \in Seq(Drains) /\ OneDrainPerOrder'
    BY <1>2, TopKeepsOneDrain DEF IInv, FieldsOK, Applied
  <1>. QED  BY <1>3 DEF IInv, FieldsOK, AppliedInArrivalOrder, Applied

\* A drain ends, by its return or by the exception of an apply().
LEMMA EndOK ==
  ASSUME IInv, Return \/ Raise
  PROVE  IInv'
  <1>1. Depth > 0 /\ Leave
    BY DEF Return, Raise
  <1>2. calls' \in Seq(Drains) /\ OneDrainPerOrder'
    BY <1>1, LeaveKeepsOneDrain DEF IInv, FieldsOK
  <1>3. returned' \in [Orders -> Numbers]
    <2>1. Top.order \in Orders /\ Top.produced \in Numbers
      BY <1>1, TopFields DEF IInv, FieldsOK
    <2>2. returned[Top.order] \o Top.produced \in Numbers
      BY <2>1 DEF IInv, FieldsOK, Numbers
    <2>. QED  BY <2>1, <2>2 DEF IInv, FieldsOK, Return, Raise
  <1>. QED  BY <1>1, <1>2, <1>3 DEF IInv, FieldsOK, AppliedInArrivalOrder, Leave

-----------------------------------------------------------------------------
(* What was taken up is held or returned.                                      *)

\* The event taken up is the last of those its drain answers for.
LEMMA Gathering ==
  ASSUME NEW r \in Numbers, NEW p \in Numbers, NEW n \in Nat
  PROVE  Append(r \o p, n) = r \o (p \o << n >>)
  <1>1. p \o << n >> = Append(p, n)
    BY DEF Numbers
  <1>. QED  BY <1>1, ArrivalWaits

\* Concatenation, as far as the held effects need it.
LEMMA Joining ==
  ASSUME NEW r \in Numbers, NEW p \in Numbers, NEW n \in Nat
  PROVE  /\ r \o << >> = r /\ << >> \o r = r
         /\ p \o << >> = p
         /\ Append(p, n) \o << >> = p \o << n >>
         /\ p \o << n >> \in Numbers /\ r \o p \in Numbers
  <1>. USE DEF Numbers
  <1>1. r \o << >> = r /\ << >> \o r = r /\ p \o << >> = p
    OBVIOUS
  <1>2. p \o << n >> \in Numbers /\ r \o p \in Numbers
    OBVIOUS
  <1>3. Append(p, n) \o << >> = p \o << n >>
    <2>1. Append(p, n) \in Seq(Nat)
      OBVIOUS
    <2>2. Append(p, n) \o << >> = Append(p, n)
      BY <2>1
    <2>3. p \o << n >> = Append(p, n)
      OBVIOUS
    <2>. QED  BY <2>2, <2>3
  <1>. QED  BY <1>1, <1>2, <1>3

\* A drain that starts holds nothing: its order had nothing outstanding.
LEMMA SendHolds ==
  ASSUME Inv, NEW o \in Orders, Send(o)
  PROVE  EffectsAreHeld'
  <1>. SUFFICES ASSUME ~ raised' PROVE EffectsAreHeld'
    BY DEF EffectsAreHeld
  <1>1. ~ raised /\ UNCHANGED <<taken, returned>>
    BY DEF Send, Enqueue
  <1>2. \A x \in Orders : x # o => queues'[x] = queues[x]
    BY DEF Inv, IInv, FieldsOK, Send, Enqueue
  <1>3. CASE o \in draining
    BY <1>1, <1>2, <1>3 DEF Inv, EffectsAreHeld, Send
  <1>4. CASE o \notin draining
    <2>1. calls' = Append(calls, Drain(o)) /\ draining' = draining \cup {o} /\ calls \in Seq(Drains)
      BY <1>4 DEF Send, Inv, IInv, FieldsOK
    <2>2. \A x \in Orders \ draining' : queues'[x] = << >> /\ taken'[x] = returned'[x]
      BY <1>1, <1>2, <2>1 DEF Inv, EffectsAreHeld
    <2>3. taken'[o] = returned'[o] \o Held(Drain(o))
      <3>1. taken[o] = returned[o] /\ returned[o] \in Numbers
        BY <1>1, <1>4 DEF Inv, IInv, FieldsOK, EffectsAreHeld
      <3>2. Held(Drain(o)) = << >>
        BY DEF Held, Drain
      <3>. QED  BY <1>1, <3>1, <3>2, Joining DEF Numbers
    <2>4. Drain(o) \in Drains /\ Drain(o).order = o
      BY DEF Drain, Drains, Numbers
    <2>5. /\ DOMAIN calls' = DOMAIN calls \cup {Len(calls) + 1}
          /\ \A i \in DOMAIN calls : calls'[i] = calls[i]
          /\ calls'[Len(calls) + 1] = Drain(o)
      BY <2>1, <2>4
    <2>6. \A i \in DOMAIN calls' :
            taken'[calls'[i].order] = returned'[calls'[i].order] \o Held(calls'[i])
      BY <1>1, <2>3, <2>4, <2>5 DEF Inv, EffectsAreHeld
    <2>. QED  BY <2>2, <2>6 DEF EffectsAreHeld
  <1>. QED  BY <1>3, <1>4

\* A step of the top drain that leaves the others alone: it is enough that the
\* top holds what it took up.
LEMMA TopHolds ==
  ASSUME Inv, ~ raised, Depth > 0, NEW e \in Nat \cup {None}, NEW out \in Numbers,
         TopBecomes(e, out), UNCHANGED <<draining, returned>>,
         \A x \in Orders \ {Top.order} : queues'[x] = queues[x] /\ taken'[x] = taken[x],
         taken'[Top.order] = returned[Top.order] \o Held([order |-> Top.order, event |-> e,
                                                          produced |-> out])
  PROVE  EffectsAreHeld'
  <1>. DEFINE new == [order |-> Top.order, event |-> e, produced |-> out]
  <1>1. /\ Depth \in DOMAIN calls /\ Top = calls[Depth] /\ Top.order \in Orders
        /\ \A i \in DOMAIN calls : calls[i].order \in Orders
    BY TopFields, DrainOrder DEF Inv, IInv, FieldsOK, Top
  <1>2. calls' = [calls EXCEPT ![Depth] = new] /\ new.order = Top.order
    BY DEF TopBecomes
  <1>3. taken'[Top.order] = returned'[Top.order] \o Held(new)
    OBVIOUS
  <1>. HIDE DEF new
  <1>4. DOMAIN calls' = DOMAIN calls
    BY <1>2
  <1>5. ASSUME NEW i \in DOMAIN calls
        PROVE  taken'[calls'[i].order] = returned'[calls'[i].order] \o Held(calls'[i])
    <2>1. CASE i = Depth
      BY <1>1, <1>2, <1>3, <2>1
    <2>2. CASE i # Depth
      <3>1. calls'[i] = calls[i] /\ calls[i].order \in Orders \ {Top.order}
        BY <1>1, <1>2, <2>2 DEF Inv, IInv, OneDrainPerOrder
      <3>. QED  BY <3>1 DEF Inv, EffectsAreHeld
    <2>. QED  BY <2>1, <2>2
  <1>6. Top.order \in draining
    BY <1>1 DEF Inv, IInv, OneDrainPerOrder
  <1>7. \A x \in Orders \ draining' : queues'[x] = << >> /\ taken'[x] = returned'[x]
    BY <1>6 DEF Inv, EffectsAreHeld
  <1>. QED  BY <1>4, <1>5, <1>7 DEF EffectsAreHeld

\* The event taken up is held by its drain, first as the one being applied and
\* then among the produced.
LEMMA PopAppliedHold ==
  ASSUME Inv, Pop \/ Applied
  PROVE  EffectsAreHeld'
  <1>. SUFFICES ASSUME ~ raised' PROVE EffectsAreHeld'
    BY DEF EffectsAreHeld
  <1>. DEFINE o == Top.order
              p == Top.produced
  <1>1. Depth > 0 /\ ~ raised /\ UNCHANGED <<draining, returned>>
    BY DEF Pop, Applied
  <1>2. /\ Depth \in DOMAIN calls /\ Top = calls[Depth]
        /\ o \in Orders /\ p \in Numbers /\ Top.event \in Nat \cup {None}
    BY <1>1, TopFields DEF Inv, IInv, FieldsOK, Top
  <1>3. taken[o] = returned[o] \o Held(Top)
    BY <1>1, <1>2 DEF Inv, EffectsAreHeld
  <1>4. returned[o] \in Numbers /\ taken[o] \in Numbers /\ queues[o] \in Numbers
    BY <1>2 DEF Inv, IInv, FieldsOK
  <1>5. CASE Pop
    <2>. DEFINE n == Head(queues[o])
    <2>1. /\ TopBecomes(n, p) /\ Top.event = None /\ n \in Nat
          /\ queues' = [queues EXCEPT ![o] = Tail(@)]
          /\ taken' = [taken EXCEPT ![o] = Append(taken[o], n)]
      BY <1>4, <1>5 DEF Pop, Numbers
    <2>2. taken'[o] = Append(taken[o], n)
      BY <1>2, <2>1 DEF Inv, IInv, FieldsOK
    <2>3. Held(Top) = p
      BY <1>2, <2>1, Joining DEF Held
    <2>4. Held([order |-> o, event |-> n, produced |-> p]) = p \o << n >>
      BY <2>1, MailboxAssumption DEF Held
    <2>. HIDE DEF n, o, p
    <2>5. taken'[o] = returned[o] \o Held([order |-> o, event |-> n, produced |-> p])
      <3>1. Append(returned[o] \o p, n) = returned[o] \o (p \o << n >>)
        BY <1>2, <1>4, <2>1, Gathering
      <3>. QED  BY <1>3, <2>2, <2>3, <2>4, <3>1
    <2>6. \A x \in Orders \ {o} : queues'[x] = queues[x] /\ taken'[x] = taken[x]
      BY <2>1 DEF Inv, IInv, FieldsOK
    <2>. QED  BY <1>1, <1>2, <2>1, <2>5, <2>6, TopHolds DEF o
  <1>6. CASE Applied
    <2>. DEFINE n == Top.event
    <2>1. /\ TopBecomes(None, Append(p, n)) /\ n \in Nat
          /\ UNCHANGED <<queues, taken>>
      BY <1>2, <1>6 DEF Applied
    <2>2. Held(Top) = p \o << n >>
      BY <2>1, MailboxAssumption DEF Held
    <2>3. Held([order |-> o, event |-> None, produced |-> Append(p, n)]) = Append(p, n) \o << >>
      BY DEF Held
    <2>4. Append(p, n) \in Numbers
      BY <1>2, <2>1 DEF Numbers
    <2>. HIDE DEF n, o, p
    <2>5. taken'[o] = returned[o] \o Held([order |-> o, event |-> None, produced |-> Append(p, n)])
      <3>1. Append(p, n) \o << >> = p \o << n >>
        BY <1>2, <2>1, Joining
      <3>. QED  BY <1>3, <2>1, <2>2, <2>3, <3>1
    <2>. QED  BY <1>1, <1>2, <2>1, <2>4, <2>5, TopHolds DEF o
  <1>. QED  BY <1>5, <1>6

\* A drain that returns hands over all it held, and its queue is empty.
LEMMA ReturnHolds ==
  ASSUME Inv, Return
  PROVE  EffectsAreHeld'
  <1>. SUFFICES ASSUME ~ raised PROVE EffectsAreHeld'
    BY DEF EffectsAreHeld, Return
  <1>. DEFINE o == Top.order
              p == Top.produced
  <1>1. Depth > 0 /\ Leave /\ UNCHANGED <<queues, taken>>
    BY DEF Return, Leave
  <1>2. /\ Depth \in DOMAIN calls /\ Top = calls[Depth] /\ DOMAIN calls = 1 .. Depth
        /\ o \in Orders /\ p \in Numbers /\ Depth \in Nat
    BY <1>1, TopFields DEF Inv, IInv, FieldsOK, Top, Depth
  <1>3. taken[o] = returned[o] \o p
    <2>1. taken[o] = returned[o] \o Held(Top)
      BY <1>2 DEF Inv, EffectsAreHeld
    <2>2. Held(Top) = p
      BY <1>2, Joining DEF Held, Return
    <2>. QED  BY <2>1, <2>2
  <1>4. returned' = [returned EXCEPT ![o] = returned[o] \o p]
    BY DEF Return
  <1>5. /\ returned'[o] = taken'[o]
        /\ \A x \in Orders : x # o => returned'[x] = returned[x]
    BY <1>1, <1>2, <1>3, <1>4 DEF Inv, IInv, FieldsOK
  <1>6. queues[o] = << >>
    BY DEF Return
  <1>7. draining' = draining \ {o}
    BY <1>1 DEF Leave
  <1>. HIDE DEF p
  <1>8. \A x \in Orders \ draining' : queues'[x] = << >> /\ taken'[x] = returned'[x]
    BY <1>1, <1>5, <1>6, <1>7 DEF Inv, EffectsAreHeld
  <1>9. /\ DOMAIN calls' = 1 .. Depth - 1
        /\ \A k \in 1 .. Depth - 1 : calls'[k] = calls[k]
    BY <1>1, <1>2, SubSeqProperties DEF Inv, IInv, FieldsOK, Depth, Leave
  <1>10. \A k \in 1 .. Depth - 1 : calls[k].order \in Orders \ {o} /\ k \in DOMAIN calls
    <2>. SUFFICES ASSUME NEW k \in 1 .. Depth - 1
                  PROVE  calls[k].order \in Orders \ {o} /\ k \in DOMAIN calls
      OBVIOUS
    <2>1. k \in DOMAIN calls /\ k # Depth
      BY <1>2
    <2>. QED  BY <1>2, <2>1, DrainOrder DEF Inv, IInv, FieldsOK, OneDrainPerOrder
  <1>11. \A i \in DOMAIN calls' :
           taken'[calls'[i].order] = returned'[calls'[i].order] \o Held(calls'[i])
    <2>. SUFFICES ASSUME NEW k \in 1 .. Depth - 1
                  PROVE  taken'[calls'[k].order] = returned'[calls'[k].order] \o Held(calls'[k])
      BY <1>9
    <2>1. taken[calls[k].order] = returned[calls[k].order] \o Held(calls[k])
      BY <1>10 DEF Inv, EffectsAreHeld
    <2>. QED  BY <1>1, <1>5, <1>9, <1>10, <2>1
  <1>. QED  BY <1>8, <1>11 DEF EffectsAreHeld

-----------------------------------------------------------------------------
\* The strengthened invariant holds throughout.
THEOREM Inductive == Spec => []IInv
  <1>1. IInv /\ [Next]_vars => IInv'
    <2>. SUFFICES ASSUME IInv, [Next]_vars PROVE IInv'
      OBVIOUS
    <2>1. CASE \E o \in Orders : Send(o)
      BY <2>1, SendOK
    <2>2. CASE Pop
      BY <2>2, PopOK
    <2>3. CASE Applied
      BY <2>3, AppliedOK
    <2>4. CASE Return \/ Raise
      BY <2>4, EndOK
    <2>5. CASE UNCHANGED vars
      BY <2>5 DEF IInv, FieldsOK, AppliedInArrivalOrder, OneDrainPerOrder, vars
    <2>. QED  BY <2>1, <2>2, <2>3, <2>4, <2>5 DEF Next
  <1>. QED  BY InitOK, <1>1, PTL DEF Spec

(* mailbox.py:3, "applied one at a time by a single consumer, in arrival        *)
(* order": what was taken up followed by what waits is what arrived.            *)
THEOREM ArrivalOrder == Spec => []AppliedInArrivalOrder
  BY Inductive, PTL DEF IInv

(* mailbox.py:5-7, "never interleaved": an order has at most one drain, and     *)
(* the set _draining is exact, after exceptions too.                            *)
THEOREM OneDrain == Spec => []OneDrainPerOrder
  BY Inductive, PTL DEF IInv

\* What is held or returned, with the invariant it rests on.
THEOREM Holding == Spec => []Inv
  <1>1. Init => Inv
    <2>1. Init => EffectsAreHeld
      BY DEF Init, EffectsAreHeld
    <2>. QED  BY <2>1, InitOK DEF Inv
  <1>2. IInv' /\ Inv /\ [Next]_vars => Inv'
    <2>. SUFFICES ASSUME Inv, [Next]_vars PROVE EffectsAreHeld'
      BY DEF Inv
    <2>1. CASE \E o \in Orders : Send(o)
      BY <2>1, SendHolds
    <2>2. CASE Pop \/ Applied
      BY <2>2, PopAppliedHold
    <2>3. CASE Return
      BY <2>3, ReturnHolds
    <2>4. CASE Raise
      BY <2>4 DEF EffectsAreHeld, Raise
    <2>5. CASE UNCHANGED vars
      BY <2>5 DEF Inv, EffectsAreHeld, vars
    <2>. QED  BY <2>1, <2>2, <2>3, <2>4, <2>5 DEF Next
  <1>. QED  BY <1>1, <1>2, Inductive, PTL DEF Spec

(* The empty list a reentrant send() returns loses nothing: with every call     *)
(* back and no exception, what was returned is what arrived, in that order.     *)
THEOREM OneCaller == Spec => []EffectsReachOneCaller
  <1>1. Inv => EffectsReachOneCaller
    <2>. SUFFICES ASSUME Inv, calls = << >>, ~ raised, NEW o \in Orders
                  PROVE  returned[o] = arrived[o]
      BY DEF EffectsReachOneCaller
    <2>1. draining = {}
      BY DEF Inv, IInv, OneDrainPerOrder
    <2>2. queues[o] = << >> /\ taken[o] = returned[o]
      BY <2>1 DEF Inv, EffectsAreHeld
    <2>3. arrived[o] = taken[o] \o << >> /\ taken[o] \in Numbers
      BY <2>2 DEF Inv, IInv, FieldsOK, AppliedInArrivalOrder
    <2>. QED  BY <2>2, <2>3, Joining DEF Numbers
  <1>. QED  BY <1>1, Holding, PTL

=============================================================================
