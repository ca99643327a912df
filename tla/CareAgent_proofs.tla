-------------------------- MODULE CareAgent_proofs ---------------------------
(* The effect loop, for every pack, any messages, and any events injected at    *)
(* any point of any turn: a turn that is over leaves no result awaited and one  *)
(* ticket for a handoff.  The argument counts pending effects by kind over the  *)
(* whole call stack of _dispatch.                                               *)
EXTENDS CareAgent, FiniteSetTheorems, SequenceTheorems, TLAPS

-----------------------------------------------------------------------------
(* Counting: the items of some kinds in a queue, and in a stack of queues.     *)

Here(q, kinds) == {j \in DOMAIN q : q[j].kind \in kinds}

Places(st, kinds) ==
  {p \in Nat \X Nat : p[1] \in DOMAIN st /\ p[2] \in Here(st[p[1]], kinds)}

InQueue(q, kinds)  == Cardinality(Here(q, kinds))
Count(st, kinds) == Cardinality(Places(st, kinds))

\* An event waiting to be dispatched may be injected, and a reply is no handoff.
ItemOK(x) ==
  /\ x.kind = "event" => x.event \in InjectedEvents
  /\ x.kind = "send_message" => x.action # "escalate"

\* A queue: a finite sequence of such items.
QueueOK(q) ==
  /\ \E S : q \in Seq(S)
  /\ \A j \in DOMAIN q : ItemOK(q[j])

\* A stack of such queues, with countably many items of every kind: finitely many.
StackOK(st) ==
  /\ \E S : st \in Seq(Seq(S))
  /\ \A i \in DOMAIN st : QueueOK(st[i])
  /\ \A kinds : IsFiniteSet(Places(st, kinds))

One(kind, kinds) == IF kind \in kinds THEN 1 ELSE 0

\* f moves A onto B, one to one.
Moves(f, A, B) ==
  /\ f \in [A -> B]
  /\ \A x, y \in A : f[x] = f[y] => x = y
  /\ \A y \in B : \E x \in A : f[x] = y

\* A set moved by a one-to-one map keeps its size.
LEMMA Moved ==
  ASSUME NEW A, NEW B, IsFiniteSet(A), NEW f, Moves(f, A, B)
  PROVE  IsFiniteSet(B) /\ Cardinality(B) = Cardinality(A)
  <1>1. f \in Bijection(A, B)
    BY DEF Moves, Bijection, Injection, Surjection, IsInjective
  <1>. QED  BY <1>1, FS_Bijection DEF ExistsBijection

\* A queue has finitely many items of any kind.
LEMMA HereFinite ==
  ASSUME NEW S, NEW q \in Seq(S), NEW kinds
  PROVE  IsFiniteSet(Here(q, kinds)) /\ InQueue(q, kinds) \in Nat
  <1>1. IsFiniteSet(1 .. Len(q)) /\ Here(q, kinds) \in SUBSET (1 .. Len(q))
    BY FS_Interval DEF Here
  <1>. QED  BY <1>1, FS_Subset, FS_CardinalityType DEF InQueue

\* Taking the first item of a queue.
LEMMA HereTail ==
  ASSUME NEW S, NEW q \in Seq(S), q # << >>, NEW kinds
  PROVE  InQueue(Tail(q), kinds) = InQueue(q, kinds) - One(Head(q).kind, kinds)
  <1>. DEFINE A == Here(Tail(q), kinds)
              B == Here(q, kinds) \ {1}
              f == [j \in A |-> j + 1]
  <1>1. /\ Tail(q) \in Seq(S) /\ Len(Tail(q)) = Len(q) - 1 /\ Len(q) \in Nat \ {0}
        /\ DOMAIN q = 1 .. Len(q) /\ DOMAIN Tail(q) = 1 .. Len(q) - 1
        /\ \A i \in 1 .. Len(q) - 1 : Tail(q)[i] = q[i + 1]
        /\ Head(q) = q[1]
    OBVIOUS
  <1>2. IsFiniteSet(A) /\ IsFiniteSet(Here(q, kinds)) /\ InQueue(q, kinds) \in Nat
    BY <1>1, HereFinite
  <1>3. f \in [A -> B] /\ \A x, y \in A : f[x] = f[y] => x = y
    BY <1>1 DEF Here
  <1>4. ASSUME NEW y \in B PROVE \E x \in A : f[x] = y
    <2>1. y - 1 \in A /\ (y - 1) + 1 = y
      BY <1>1 DEF Here
    <2>. QED  BY <2>1
  <1>5. Cardinality(B) = Cardinality(A)
    <2>1. Moves(f, A, B)
      BY <1>3, <1>4 DEF Moves
    <2>. HIDE DEF A, B, f
    <2>. QED  BY <1>2, <2>1, Moved
  <1>6. Cardinality(B) = IF 1 \in Here(q, kinds) THEN InQueue(q, kinds) - 1 ELSE InQueue(q, kinds)
    BY <1>2, FS_RemoveElement DEF InQueue
  <1>7. 1 \in Here(q, kinds) <=> Head(q).kind \in kinds
    BY <1>1 DEF Here
  <1>. QED  BY <1>2, <1>5, <1>6, <1>7 DEF InQueue, One

\* Two disjoint sets, the second moved there from elsewhere.
LEMMA Added ==
  ASSUME NEW A, NEW B, NEW C, NEW U, IsFiniteSet(A), IsFiniteSet(B),
         NEW f, Moves(f, B, C), U = A \cup C, A \cap C = {}
  PROVE  IsFiniteSet(U) /\ Cardinality(U) = Cardinality(A) + Cardinality(B)
  <1>1. IsFiniteSet(C) /\ Cardinality(C) = Cardinality(B)
    BY Moved
  <1>2. Cardinality(A \cap C) = 0 /\ Cardinality(A) \in Nat /\ Cardinality(C) \in Nat
    BY <1>1, FS_EmptySet, FS_CardinalityType
  <1>3. /\ IsFiniteSet(A \cup C)
        /\ Cardinality(A \cup C) = Cardinality(A) + Cardinality(C) - Cardinality(A \cap C)
    BY <1>1, FS_Union
  <1>. QED  BY <1>1, <1>2, <1>3

\* Joining two queues.
LEMMA HereJoin ==
  ASSUME NEW S, NEW q \in Seq(S), NEW r \in Seq(S), NEW kinds
  PROVE  InQueue(q \o r, kinds) = InQueue(q, kinds) + InQueue(r, kinds)
  <1>. DEFINE n == Len(q)
              A == Here(q, kinds)
              B == Here(r, kinds)
              C == {n + j : j \in B}
              U == Here(q \o r, kinds)
              f == [j \in B |-> n + j]
  <1>1. /\ n \in Nat /\ Len(r) \in Nat
        /\ DOMAIN q = 1 .. n /\ DOMAIN r = 1 .. Len(r) /\ DOMAIN (q \o r) = 1 .. n + Len(r)
        /\ \A i \in 1 .. n : (q \o r)[i] = q[i]
        /\ \A j \in 1 .. Len(r) : (q \o r)[n + j] = r[j]
    OBVIOUS
  <1>2. IsFiniteSet(A) /\ IsFiniteSet(B)
    BY HereFinite
  <1>3. A \subseteq 1 .. n /\ B \subseteq 1 .. Len(r)
    BY <1>1 DEF Here
  <1>. HIDE DEF n
  <1>4. U = A \cup C
    <2>1. ASSUME NEW k \in U, k \notin A PROVE k \in C
      <3>1. k \in 1 .. n + Len(r) /\ (q \o r)[k].kind \in kinds
        BY <1>1 DEF Here
      <3>2. ~ (k <= n)
        BY <1>1, <2>1, <3>1 DEF Here
      <3>3. k - n \in 1 .. Len(r) /\ n + (k - n) = k
        BY <1>1, <3>1, <3>2
      <3>4. k - n \in B
        BY <1>1, <3>1, <3>3 DEF Here
      <3>. QED  BY <3>3, <3>4
    <2>2. A \subseteq U
      BY <1>1 DEF Here
    <2>3. ASSUME NEW j \in B PROVE n + j \in U
      BY <1>1 DEF Here
    <2>. QED  BY <2>1, <2>2, <2>3
  <1>5. A \cap C = {}
    BY <1>1, <1>3
  <1>6. Moves(f, B, C)
    BY <1>1, <1>3 DEF Moves
  <1>. HIDE DEF A, B, C, U, f
  <1>7. Cardinality(U) = Cardinality(A) + Cardinality(B)
    BY <1>2, <1>4, <1>5, <1>6, Added
  <1>. QED  BY <1>7 DEF A, B, U, InQueue

\* A queue on top of a stack: its items join those of the stack.
LEMMA CountPush ==
  ASSUME NEW S, NEW st \in Seq(Seq(S)), NEW q \in Seq(S), NEW kinds,
         IsFiniteSet(Places(st, kinds))
  PROVE  /\ IsFiniteSet(Places(<< q >> \o st, kinds))
         /\ Count(<< q >> \o st, kinds) = InQueue(q, kinds) + Count(st, kinds)
  <1>. DEFINE new == << q >> \o st
              H == Here(q, kinds)
              A == {<< 1, j >> : j \in H}
              B == Places(st, kinds)
              C == {<< p[1] + 1, p[2] >> : p \in B}
              U == Places(new, kinds)
              f == [p \in B |-> << p[1] + 1, p[2] >>]
              g == [j \in H |-> << 1, j >>]
  <1>1. /\ Len(st) \in Nat /\ DOMAIN st = 1 .. Len(st) /\ DOMAIN new = 1 .. Len(st) + 1
        /\ new[1] = q
        /\ \A i \in 1 .. Len(st) : new[i + 1] = st[i]
    OBVIOUS
  <1>2. H \subseteq Nat
    BY DEF Here
  <1>3. B \subseteq (1 .. Len(st)) \X Nat
    BY <1>1 DEF Places
  <1>. HIDE DEF new
  <1>4. U = A \cup C
    <2>1. ASSUME NEW p \in U, p[1] # 1 PROVE p \in C
      <3>1. p \in Nat \X Nat /\ p[1] \in 1 .. Len(st) + 1 /\ p[2] \in Here(new[p[1]], kinds)
        BY <1>1 DEF Places
      <3>2. p[1] - 1 \in 1 .. Len(st) /\ (p[1] - 1) + 1 = p[1]
        BY <1>1, <2>1, <3>1
      <3>3. << p[1] - 1, p[2] >> \in B
        BY <1>1, <3>1, <3>2 DEF Places
      <3>4. p = << (p[1] - 1) + 1, p[2] >>
        BY <3>1, <3>2
      <3>. QED  BY <3>3, <3>4
    <2>2. ASSUME NEW p \in U, p[1] = 1 PROVE p \in A
      BY <1>1, <2>2 DEF Places
    <2>3. ASSUME NEW j \in H PROVE << 1, j >> \in U
      BY <1>1, <1>2 DEF Places
    <2>4. ASSUME NEW p \in B PROVE << p[1] + 1, p[2] >> \in U
      <3>1. p \in Nat \X Nat /\ p[1] \in 1 .. Len(st) /\ p[2] \in Here(st[p[1]], kinds)
        BY <1>1 DEF Places
      <3>2. p[1] + 1 \in DOMAIN new /\ new[p[1] + 1] = st[p[1]]
        BY <1>1, <3>1
      <3>. QED  BY <3>1, <3>2 DEF Places
    <2>. QED  BY <2>1, <2>2, <2>3, <2>4
  <1>5. A \cap C = {}
    <2>1. ASSUME NEW p \in B PROVE p[1] + 1 # 1
      BY <1>3
    <2>. QED  BY <2>1
  <1>6. Moves(f, B, C)
    <2>1. ASSUME NEW x \in B, NEW y \in B, f[x] = f[y] PROVE x = y
      BY <1>3, <2>1
    <2>. QED  BY <2>1 DEF Moves
  <1>7. Moves(g, H, A)
    BY DEF Moves
  <1>8. IsFiniteSet(H) /\ IsFiniteSet(B)
    BY HereFinite
  <1>. HIDE DEF A, B, C, U, f, g, H
  <1>9. IsFiniteSet(A) /\ Cardinality(A) = Cardinality(H)
    BY <1>7, <1>8, Moved
  <1>10. IsFiniteSet(U) /\ Cardinality(U) = Cardinality(A) + Cardinality(B)
    BY <1>4, <1>5, <1>6, <1>8, <1>9, Added
  <1>. QED  BY <1>9, <1>10 DEF new, H, B, U, InQueue, Count

-----------------------------------------------------------------------------
(* The operations of the loop on its stack.                                    *)

\* What is left of a queue is a queue.
LEMMA QueueTail ==
  ASSUME NEW q, QueueOK(q), q # << >>
  PROVE  /\ QueueOK(Tail(q))
         /\ \A kinds : InQueue(Tail(q), kinds) = InQueue(q, kinds) - One(Head(q).kind, kinds)
  <1>1. PICK S : q \in Seq(S)
    BY DEF QueueOK
  <1>2. /\ Tail(q) \in Seq(S) /\ DOMAIN Tail(q) = 1 .. Len(q) - 1 /\ DOMAIN q = 1 .. Len(q)
        /\ Len(q) \in Nat
        /\ \A i \in 1 .. Len(q) - 1 : Tail(q)[i] = q[i + 1] /\ i + 1 \in 1 .. Len(q)
    BY <1>1
  <1>3. QueueOK(Tail(q))
    BY <1>2 DEF QueueOK
  <1>. QED  BY <1>1, <1>3, HereTail

\* Two queues, one behind the other.
LEMMA QueueJoin ==
  ASSUME NEW q, QueueOK(q), NEW r, QueueOK(r)
  PROVE  /\ QueueOK(q \o r)
         /\ \A kinds : InQueue(q \o r, kinds) = InQueue(q, kinds) + InQueue(r, kinds)
  <1>1. PICK S : q \in Seq(S)
    BY DEF QueueOK
  <1>2. PICK T : r \in Seq(T)
    BY DEF QueueOK
  <1>3. q \in Seq(S \cup T) /\ r \in Seq(S \cup T)
    BY <1>1, <1>2, SeqMonotonic
  <1>4. /\ q \o r \in Seq(S \cup T)
        /\ DOMAIN (q \o r) = 1 .. Len(q) + Len(r)
        /\ DOMAIN q = 1 .. Len(q) /\ DOMAIN r = 1 .. Len(r)
        /\ Len(q) \in Nat /\ Len(r) \in Nat
        /\ \A i \in 1 .. Len(q) + Len(r) :
             (q \o r)[i] = IF i <= Len(q) THEN q[i] ELSE r[i - Len(q)]
    BY <1>3
  <1>5. ASSUME NEW i \in 1 .. Len(q) + Len(r)
        PROVE  ItemOK((q \o r)[i])
    <2>1. CASE i <= Len(q)
      BY <1>4, <2>1 DEF QueueOK
    <2>2. CASE ~ (i <= Len(q))
      <3>1. i - Len(q) \in 1 .. Len(r) /\ (q \o r)[i] = r[i - Len(q)]
        BY <1>4, <2>2
      <3>. QED  BY <1>4, <3>1 DEF QueueOK
    <2>. QED  BY <2>1, <2>2
  <1>6. QueueOK(q \o r)
    BY <1>4, <1>5 DEF QueueOK
  <1>. QED  BY <1>3, <1>6, HereJoin

\* A call is entered: a queue on top of the stack.
LEMMA StackPush ==
  ASSUME NEW st, StackOK(st), NEW q, QueueOK(q)
  PROVE  /\ StackOK(<< q >> \o st) /\ << q >> \o st # << >>
         /\ \A kinds : Count(<< q >> \o st, kinds) = InQueue(q, kinds) + Count(st, kinds)
  <1>1. PICK S : st \in Seq(Seq(S))
    BY DEF StackOK
  <1>2. PICK T : q \in Seq(T)
    BY DEF QueueOK
  <1>3. q \in Seq(S \cup T)
    BY <1>2, SeqMonotonic
  <1>4. st \in Seq(Seq(S \cup T))
    <2>1. Seq(S) \subseteq Seq(S \cup T)
      BY SeqMonotonic
    <2>. QED  BY <1>1, <2>1, SeqMonotonic
  <1>. DEFINE Q == Seq(S \cup T)
              new == << q >> \o st
  <1>5. q \in Q /\ st \in Seq(Q)
    BY <1>3, <1>4
  <1>6. /\ new \in Seq(Q) /\ new # << >>
        /\ DOMAIN new = 1 .. Len(st) + 1 /\ DOMAIN st = 1 .. Len(st) /\ Len(st) \in Nat
        /\ new[1] = q
        /\ \A i \in 1 .. Len(st) + 1 : i # 1 => i - 1 \in 1 .. Len(st) /\ new[i] = st[i - 1]
    <2>. HIDE DEF Q
    <2>. QED  BY <1>5
  <1>. HIDE DEF new
  <1>7. \A i \in DOMAIN new : QueueOK(new[i])
    BY <1>6 DEF StackOK
  <1>8. \A kinds : IsFiniteSet(Places(st, kinds))
    BY DEF StackOK
  <1>9. \A kinds : /\ IsFiniteSet(Places(new, kinds))
                   /\ Count(new, kinds) = InQueue(q, kinds) + Count(st, kinds)
    BY <1>3, <1>4, <1>8, CountPush DEF new
  <1>10. StackOK(new)
    BY <1>6, <1>7, <1>9 DEF StackOK
  <1>. QED  BY <1>6, <1>9, <1>10 DEF new

\* A call is left, or its queue looked at: the stack is its top over the others.
LEMMA StackTail ==
  ASSUME NEW st, StackOK(st), st # << >>
  PROVE  /\ QueueOK(Head(st)) /\ StackOK(Tail(st))
         /\ \A kinds : Count(st, kinds) = InQueue(Head(st), kinds) + Count(Tail(st), kinds)
  <1>1. PICK S : st \in Seq(Seq(S))
    BY DEF StackOK
  <1>. DEFINE Q == Seq(S)
  <1>2. st \in Seq(Q)
    BY <1>1
  <1>3. /\ Tail(st) \in Seq(Q) /\ Len(st) \in Nat /\ 1 \in DOMAIN st /\ Head(st) = st[1]
        /\ Head(st) \in Q
        /\ DOMAIN Tail(st) = 1 .. Len(st) - 1 /\ DOMAIN st = 1 .. Len(st)
        /\ \A i \in 1 .. Len(st) - 1 : Tail(st)[i] = st[i + 1] /\ i + 1 \in 1 .. Len(st)
        /\ st = << Head(st) >> \o Tail(st)
    <2>. HIDE DEF Q
    <2>. QED  BY <1>2
  <1>4. QueueOK(Head(st)) /\ \A i \in DOMAIN Tail(st) : QueueOK(Tail(st)[i])
    BY <1>3 DEF StackOK
  <1>5. ASSUME NEW kinds PROVE IsFiniteSet(Places(Tail(st), kinds))
    <2>. DEFINE A == Places(Tail(st), kinds)
                B == Places(st, kinds)
                f == [p \in A |-> << p[1] + 1, p[2] >>]
    <2>1. A \subseteq Nat \X Nat
      BY DEF Places
    <2>2. ASSUME NEW p \in A PROVE << p[1] + 1, p[2] >> \in B
      <3>1. p \in Nat \X Nat /\ p[1] \in 1 .. Len(st) - 1 /\ p[2] \in Here(Tail(st)[p[1]], kinds)
        BY <1>3 DEF Places
      <3>2. p[1] + 1 \in DOMAIN st /\ Tail(st)[p[1]] = st[p[1] + 1]
        BY <1>3, <3>1
      <3>. QED  BY <3>1, <3>2 DEF Places
    <2>3. ASSUME NEW x \in A, NEW y \in A, f[x] = f[y] PROVE x = y
      BY <2>1, <2>3
    <2>4. f \in [A -> B]
      BY <2>2
    <2>5. f \in Injection(A, B)
      <3>. HIDE DEF f, A, B
      <3>. QED  BY <2>3, <2>4 DEF Injection, IsInjective
    <2>6. IsFiniteSet(B)
      BY DEF StackOK
    <2>. HIDE DEF f, B
    <2>. QED  BY <2>5, <2>6, FS_Injection
  <1>6. StackOK(Tail(st))
    BY <1>3, <1>4, <1>5 DEF StackOK
  <1>7. \A kinds : Count(st, kinds) = InQueue(Head(st), kinds) + Count(Tail(st), kinds)
    BY <1>3, <1>4, <1>6, StackPush, Zenon
  <1>. QED  BY <1>4, <1>6, <1>7

\* Counts are numbers.
LEMMA CountsAreNat ==
  /\ \A q : QueueOK(q) => \A kinds : InQueue(q, kinds) \in Nat
  /\ \A st : StackOK(st) => \A kinds : Count(st, kinds) \in Nat
  BY HereFinite, FS_CardinalityType DEF QueueOK, StackOK, Count

\* Nothing is pending in an empty queue or on an empty stack.
LEMMA NothingThere ==
  /\ QueueOK(<< >>) /\ \A kinds : InQueue(<< >>, kinds) = 0
  /\ StackOK(<< >>) /\ \A kinds : Count(<< >>, kinds) = 0
  <1>1. \A kinds : Here(<< >>, kinds) = {} /\ Places(<< >>, kinds) = {}
    BY DEF Here, Places
  <1>2. \A S : << >> \in Seq(S)
    OBVIOUS
  <1>3. QueueOK(<< >>)
    BY <1>2 DEF QueueOK
  <1>4. StackOK(<< >>)
    BY <1>1, <1>2, FS_EmptySet DEF StackOK
  <1>. QED  BY <1>1, <1>3, <1>4, FS_EmptySet DEF InQueue, Count

\* A handler takes its item: the count of the item's kind goes down by one.
LEMMA TakeWork ==
  ASSUME StackOK(stack), NEW kind, Handling(kind)
  PROVE  /\ StackOK(Rest) /\ Rest # << >>
         /\ \A kinds : Count(Rest, kinds) = Count(stack, kinds) - One(kind, kinds)
  <1>. DEFINE q == Head(stack)
              st == Tail(stack)
  <1>1. stack # << >> /\ q # << >> /\ Head(q).kind = kind /\ Rest = << Tail(q) >> \o st
    BY DEF Handling, Rest, Top, Next1
  <1>2. /\ QueueOK(q) /\ StackOK(st)
        /\ \A kinds : Count(stack, kinds) = InQueue(q, kinds) + Count(st, kinds)
    BY <1>1, StackTail
  <1>. HIDE DEF q, st
  <1>3. /\ QueueOK(Tail(q))
        /\ \A kinds : InQueue(Tail(q), kinds) = InQueue(q, kinds) - One(kind, kinds)
    BY <1>1, <1>2, QueueTail
  <1>4. /\ StackOK(Rest) /\ Rest # << >>
        /\ \A kinds : Count(Rest, kinds) = InQueue(Tail(q), kinds) + Count(st, kinds)
    BY <1>1, <1>2, <1>3, StackPush
  <1>5. \A kinds : /\ InQueue(q, kinds) \in Nat /\ Count(st, kinds) \in Nat
                   /\ One(kind, kinds) \in Nat
    BY <1>2, CountsAreNat DEF One
  <1>. QED  BY <1>2, <1>3, <1>4, <1>5

\* Follow-ups go to the end of the innermost queue.
LEMMA FollowUpWork ==
  ASSUME StackOK(stack), stack # << >>, QueueOK(effects'), FollowUp
  PROVE  /\ StackOK(stack') /\ stack' # << >>
         /\ \A kinds : Count(stack', kinds) = Count(stack, kinds) + InQueue(effects', kinds)
  <1>. DEFINE q == Head(stack)
              st == Tail(stack)
  <1>1. PICK fx : fx = effects'
    OBVIOUS
  <1>2. stack' = << q \o fx >> \o st /\ QueueOK(fx)
    BY <1>1 DEF FollowUp, Top
  <1>3. /\ QueueOK(q) /\ StackOK(st)
        /\ \A kinds : Count(stack, kinds) = InQueue(q, kinds) + Count(st, kinds)
    BY StackTail
  <1>. HIDE DEF q, st
  <1>4. /\ QueueOK(q \o fx)
        /\ \A kinds : InQueue(q \o fx, kinds) = InQueue(q, kinds) + InQueue(fx, kinds)
    BY <1>2, <1>3, QueueJoin
  <1>5. /\ StackOK(<< q \o fx >> \o st) /\ << q \o fx >> \o st # << >>
        /\ \A kinds : Count(<< q \o fx >> \o st, kinds) = InQueue(q \o fx, kinds) + Count(st, kinds)
    BY <1>3, <1>4, StackPush
  <1>6. \A kinds : /\ InQueue(q, kinds) \in Nat /\ Count(st, kinds) \in Nat
                   /\ InQueue(fx, kinds) \in Nat
    BY <1>2, <1>3, CountsAreNat
  <1>7. \A kinds : Count(<< q \o fx >> \o st, kinds) = Count(stack, kinds) + InQueue(fx, kinds)
    <2>. SUFFICES ASSUME NEW kinds
                  PROVE  Count(<< q \o fx >> \o st, kinds) = Count(stack, kinds) + InQueue(fx, kinds)
      OBVIOUS
    <2>1. /\ Count(<< q \o fx >> \o st, kinds) = InQueue(q \o fx, kinds) + Count(st, kinds)
          /\ InQueue(q \o fx, kinds) = InQueue(q, kinds) + InQueue(fx, kinds)
          /\ Count(stack, kinds) = InQueue(q, kinds) + Count(st, kinds)
      BY <1>3, <1>4, <1>5
    <2>2. InQueue(q, kinds) \in Nat /\ Count(st, kinds) \in Nat /\ InQueue(fx, kinds) \in Nat
      BY <1>6
    <2>. QED  BY <2>1, <2>2
  <1>. QED  BY <1>1, <1>2, <1>5, <1>7

\* The queue of the events injected before a reply was worded.
LEMMA EventQueue ==
  ASSUME NEW list \in Seq(InjectedEvents)
  PROVE  LET q == [i \in DOMAIN list |-> [kind |-> "event", event |-> list[i]]]
         IN  /\ QueueOK(q)
             /\ \A kinds : InQueue(q, kinds) = IF "event" \in kinds THEN Len(list) ELSE 0
  <1>. DEFINE q == [i \in DOMAIN list |-> [kind |-> "event", event |-> list[i]]]
  <1>1. /\ Len(list) \in Nat /\ DOMAIN list = 1 .. Len(list) /\ DOMAIN q = 1 .. Len(list)
        /\ \A i \in 1 .. Len(list) : list[i] \in InjectedEvents
    OBVIOUS
  <1>2. \A i \in 1 .. Len(list) : q[i].kind = "event" /\ q[i].event \in InjectedEvents
    BY <1>1
  <1>3. q \in Seq({[kind |-> "event", event |-> e] : e \in InjectedEvents})
    BY <1>1
  <1>. HIDE DEF q
  <1>4. QueueOK(q)
    BY <1>1, <1>2, <1>3 DEF QueueOK, ItemOK
  <1>5. ASSUME NEW kinds PROVE InQueue(q, kinds) = IF "event" \in kinds THEN Len(list) ELSE 0
    <2>1. Here(q, kinds) = IF "event" \in kinds THEN 1 .. Len(list) ELSE {}
      BY <1>1, <1>2 DEF Here
    <2>2. Cardinality(1 .. Len(list)) = Len(list)
      BY <1>1, FS_Interval
    <2>. QED  BY <2>1, <2>2, FS_EmptySet DEF InQueue
  <1>. QED  BY <1>4, <1>5 DEF q

\* A reply goes out: what was injected meanwhile is dispatched before the rest.
LEMMA SayThenWork ==
  ASSUME NEW rest, StackOK(rest), injectGen \in Seq(InjectedEvents), SayThen(rest)
  PROVE  /\ StackOK(stack') /\ (rest # << >> => stack' # << >>) /\ injectGen' = << >>
         /\ \A kinds : Count(stack', kinds) =
              Count(rest, kinds) + IF "event" \in kinds THEN Len(injectGen) ELSE 0
  <1>. DEFINE q == [i \in DOMAIN injectGen |-> [kind |-> "event", event |-> injectGen[i]]]
  <1>1. \A kinds : Count(rest, kinds) \in Nat
    BY CountsAreNat
  <1>2. /\ QueueOK(q)
        /\ \A kinds : InQueue(q, kinds) = IF "event" \in kinds THEN Len(injectGen) ELSE 0
    BY EventQueue
  <1>3. CASE injectGen = << >>
    <2>1. stack' = rest /\ Len(injectGen) = 0
      BY <1>3 DEF SayThen
    <2>. QED  BY <1>1, <2>1 DEF SayThen
  <1>4. CASE injectGen # << >>
    <2>1. stack' = << q >> \o rest
      BY <1>4 DEF SayThen
    <2>. HIDE DEF q
    <2>2. /\ StackOK(<< q >> \o rest) /\ << q >> \o rest # << >>
          /\ \A kinds : Count(<< q >> \o rest, kinds) = InQueue(q, kinds) + Count(rest, kinds)
      BY <1>2, StackPush
    <2>3. Len(injectGen) \in Nat
      OBVIOUS
    <2>4. \A kinds : Count(stack', kinds) =
                       Count(rest, kinds) + IF "event" \in kinds THEN Len(injectGen) ELSE 0
      BY <1>1, <1>2, <2>1, <2>2, <2>3
    <2>. QED  BY <2>1, <2>2, <2>4 DEF SayThen
  <1>. QED  BY <1>3, <1>4

-----------------------------------------------------------------------------
(* What one event of the reducer leaves to be done.                            *)

EffectKinds == {"log", "reconcile", "send_message", "call_tool_chain", "escalate", "resolve"}

\* The effects that lead to a reply, now or when the chain is back.
Asking == {"send_message", "escalate", "call_tool_chain"}

\* A handler returns one effect, or a message and the closing of the session.
Shaped(fx) ==
  \/ \E x : fx = << x >> /\ x.kind \in EffectKinds /\ ItemOK(x)
  \/ \E x, y : fx = << x, y >> /\ x.kind = "send_message" /\ y.kind = "resolve" /\ ItemOK(x)

\* Such effects are a queue, and ask for at most one reply.
LEMMA ShapedQueue ==
  ASSUME NEW fx, Shaped(fx)
  PROVE  /\ QueueOK(fx)
         /\ InQueue(fx, {"escalate"}) = IF Emits("escalate", fx) THEN 1 ELSE 0
         /\ InQueue(fx, {"send_message"}) = IF Emits("send_message", fx) THEN 1 ELSE 0
         /\ InQueue(fx, {"call_tool_chain"}) = IF Emits("call_tool_chain", fx) THEN 1 ELSE 0
         /\ InQueue(fx, Asking \cup {"event"}) = IF \E k \in Asking : Emits(k, fx) THEN 1 ELSE 0
  <1>1. ASSUME NEW x, fx = << x >>, x.kind \in EffectKinds, ItemOK(x)
        PROVE  /\ QueueOK(fx) /\ \A kinds : InQueue(fx, kinds) = One(x.kind, kinds)
               /\ \A k : Emits(k, fx) <=> x.kind = k
    <2>1. DOMAIN fx = {1} /\ fx[1] = x /\ fx \in Seq({x})
      BY <1>1
    <2>2. QueueOK(fx)
      BY <1>1, <2>1 DEF QueueOK
    <2>3. ASSUME NEW kinds PROVE InQueue(fx, kinds) = One(x.kind, kinds)
      <3>1. Here(fx, kinds) = IF x.kind \in kinds THEN {1} ELSE {}
        BY <2>1 DEF Here
      <3>. QED  BY <3>1, FS_Singleton, FS_EmptySet DEF InQueue, One
    <2>. QED  BY <2>1, <2>2, <2>3 DEF Emits
  <1>2. ASSUME NEW x, NEW y, fx = << x, y >>, x.kind = "send_message", y.kind = "resolve", ItemOK(x)
        PROVE  /\ QueueOK(fx) /\ \A kinds : InQueue(fx, kinds) = One("send_message", kinds) + One("resolve", kinds)
               /\ \A k : Emits(k, fx) <=> k \in {"send_message", "resolve"}
    <2>1. DOMAIN fx = {1, 2} /\ fx[1] = x /\ fx[2] = y /\ fx \in Seq({x, y})
      BY <1>2
    <2>2. QueueOK(fx)
      BY <1>2, <2>1 DEF QueueOK, ItemOK
    <2>3. ASSUME NEW kinds
          PROVE  InQueue(fx, kinds) = One("send_message", kinds) + One("resolve", kinds)
      <3>. DEFINE A == IF "send_message" \in kinds THEN {1} ELSE {}
      <3>1. Here(fx, kinds) = IF "resolve" \in kinds THEN A \cup {2} ELSE A
        BY <1>2, <2>1 DEF Here
      <3>2. IsFiniteSet(A) /\ Cardinality(A) = One("send_message", kinds) /\ 2 \notin A
        <4>1. IsFiniteSet({1}) /\ Cardinality({1}) = 1 /\ IsFiniteSet({}) /\ Cardinality({}) = 0
          BY FS_Singleton, FS_EmptySet
        <4>2. CASE "send_message" \in kinds
          BY <4>1, <4>2 DEF One
        <4>3. CASE "send_message" \notin kinds
          BY <4>1, <4>3 DEF One
        <4>. QED  BY <4>2, <4>3
      <3>. HIDE DEF A
      <3>3. Cardinality(A \cup {2}) = Cardinality(A) + 1
        BY <3>2, FS_AddElement
      <3>4. One("send_message", kinds) \in Nat
        BY DEF One
      <3>. QED  BY <3>1, <3>2, <3>3, <3>4 DEF InQueue, One
    <2>. QED  BY <1>2, <2>1, <2>2, <2>3 DEF Emits
  <1>3. CASE \E x : fx = << x >> /\ x.kind \in EffectKinds /\ ItemOK(x)
    <2>1. PICK x : fx = << x >> /\ x.kind \in EffectKinds /\ ItemOK(x)
      BY <1>3
    <2>2. /\ QueueOK(fx) /\ \A kinds : InQueue(fx, kinds) = One(x.kind, kinds)
          /\ \A k : Emits(k, fx) <=> x.kind = k
      BY <1>1, <2>1
    <2>3. (\E k \in Asking : Emits(k, fx)) <=> x.kind \in Asking
      BY <2>2
    <2>4. x.kind \in Asking \cup {"event"} <=> x.kind \in Asking
      BY <2>1 DEF Asking, EffectKinds
    <2>. QED  BY <2>2, <2>3, <2>4 DEF One
  <1>4. CASE \E x, y : fx = << x, y >> /\ x.kind = "send_message" /\ y.kind = "resolve" /\ ItemOK(x)
    <2>1. PICK x, y : fx = << x, y >> /\ x.kind = "send_message" /\ y.kind = "resolve" /\ ItemOK(x)
      BY <1>4
    <2>2. /\ QueueOK(fx)
          /\ \A kinds : InQueue(fx, kinds) = One("send_message", kinds) + One("resolve", kinds)
          /\ \A k : Emits(k, fx) <=> k \in {"send_message", "resolve"}
      BY <1>2, <2>1
    <2>. QED  BY <2>2 DEF One, Asking
  <1>. QED  BY <1>3, <1>4 DEF Shaped

-----------------------------------------------------------------------------
(* One event through the reducer: what it asks for agrees with what it does to  *)
(* the record.                                                                 *)

\* Enough of the record for a result to find its dispatch.
RecordOK ==
  /\ epoch \in Nat
  /\ fsm = "AWAITING_TOOL_RESULT" => pending # None

\* A handler hands over exactly when it escalates, dispatches whenever it starts
\* to wait, and asks for nothing in a closed session, which it leaves as it is.
Fits ==
  /\ RecordOK'
  /\ Shaped(effects')
  /\ Emits("escalate", effects') <=> Live /\ fsm' = "ESCALATED"
  /\ fsm' = "AWAITING_TOOL_RESULT" =>
       fsm = "AWAITING_TOOL_RESULT" \/ Emits("call_tool_chain", effects')
  /\ ~ Live => /\ UNCHANGED <<fsm, terminalReason>>
               /\ \A k \in Asking : ~ Emits(k, effects')

\* Routing a decision: a handoff and nothing else escalates, and a session that is
\* to wait is given a dispatch to wait for.
LEMMA RoutedFits ==
  ASSUME NEW env, NEW e \in Nat
  PROVE  LET fx == RoutedEffects(env, e)
             to == RoutedFsm(env.action)
         IN  /\ Shaped(fx)
             /\ Emits("escalate", fx) <=> to = "ESCALATED"
             /\ to = "AWAITING_TOOL_RESULT" =>
                  Emits("call_tool_chain", fx) /\ RoutedPending(env, e) # None
  <1>. DEFINE fx == RoutedEffects(env, e)
              to == RoutedFsm(env.action)
  <1>1. \A k, x : Emits(k, << x >>) <=> x.kind = k
    BY DEF Emits
  <1>2. \A k, x, y : Emits(k, << x, y >>) <=> x.kind = k \/ y.kind = k
    BY DEF Emits
  <1>3. CASE env.action \in ReassignActions
    <2>1. /\ fx = << CallToolChain(e) >> /\ to = "AWAITING_TOOL_RESULT"
          /\ RoutedPending(env, e) = e
      BY <1>3 DEF RoutedEffects, RoutedFsm, RoutedPending, ReassignActions
    <2>2. Shaped(fx)
      BY <2>1 DEF Shaped, ItemOK, CallToolChain, EffectKinds
    <2>3. Emits("call_tool_chain", fx) /\ ~ Emits("escalate", fx)
      BY <1>1, <2>1 DEF CallToolChain
    <2>. QED  BY <2>1, <2>2, <2>3, NoneAssumption
  <1>4. CASE env.action = "escalate"
    <2>1. fx = << Escalation(env.reason, env.mode) >> /\ to = "ESCALATED"
      BY <1>4 DEF RoutedEffects, RoutedFsm, ReassignActions
    <2>2. Shaped(fx)
      BY <2>1 DEF Shaped, ItemOK, Escalation, EffectKinds
    <2>3. Emits("escalate", fx)
      BY <1>1, <2>1 DEF Escalation
    <2>. QED  BY <2>1, <2>2, <2>3
  <1>5. CASE env.action = "resolve_eta_confirmed"
    <2>1. fx = << Send(env.action), Resolution(env.reason) >> /\ to = "RESOLVED"
      BY <1>5 DEF RoutedEffects, RoutedFsm, ReassignActions
    <2>2. Shaped(fx)
      BY <1>5, <2>1 DEF Shaped, ItemOK, Send, Resolution
    <2>3. ~ Emits("escalate", fx)
      BY <1>2, <2>1 DEF Send, Resolution
    <2>. QED  BY <2>1, <2>2, <2>3
  <1>6. CASE env.action \notin ReassignActions \cup {"escalate", "resolve_eta_confirmed"}
    <2>1. fx = << Log >> \/ fx = << Send(env.action) >>
      BY <1>6 DEF RoutedEffects
    <2>2. to \in {"AWAITING_MERCHANT_REPLY", "MONITORING"}
      BY <1>6 DEF RoutedFsm
    <2>3. Shaped(fx)
      BY <1>6, <2>1 DEF Shaped, ItemOK, Log, Send, EffectKinds
    <2>4. ~ Emits("escalate", fx)
      BY <1>1, <2>1 DEF Log, Send
    <2>. QED  BY <2>2, <2>3, <2>4
  <1>. QED  BY <1>3, <1>4, <1>5, <1>6

\* A decision routed in an open session.
LEMMA RouteFits ==
  ASSUME Live, NEW env, NEW e \in Nat, Route(env, e), epoch' \in Nat
  PROVE  Fits
  BY RoutedFits DEF Route, Fits, RecordOK

\* A handoff outside the engine.
LEMMA EscalateFits ==
  ASSUME Live, NEW reason, Escalate(reason), epoch' \in Nat
  PROVE  Fits /\ fsm' = "ESCALATED"
  <1>1. effects' = << Escalation(reason, EscalationModeFor(overrides)) >> /\ fsm' = "ESCALATED"
    BY DEF Escalate
  <1>2. Shaped(effects') /\ Emits("escalate", effects')
    BY <1>1 DEF Shaped, ItemOK, Emits, Escalation, EffectKinds
  <1>. QED  BY <1>1, <1>2 DEF Fits, RecordOK

\* An event that is only logged or reconciled.
LEMMA QuietFits ==
  ASSUME RecordOK, NEW kind \in {"log", "reconcile"}, effects' = << [kind |-> kind] >>,
         UNCHANGED routed, epoch' \in Nat
  PROVE  Fits
  <1>1. Shaped(effects')
    BY DEF Shaped, ItemOK, EffectKinds
  <1>2. \A k \in Asking : ~ Emits(k, effects')
    BY DEF Emits, Asking
  <1>3. ~ Emits("escalate", effects')
    BY <1>2 DEF Asking
  <1>. QED  BY <1>1, <1>2, <1>3 DEF Fits, RecordOK, routed, Live, TerminalStates

\* Late input to a closed session.
LEMMA InertFits ==
  ASSUME RecordOK, NEW kind \in {"log", "reconcile"}, Inert(kind)
  PROVE  Fits
  BY QuietFits DEF Inert, sessionVars, RecordOK

\* A message, read or not.
LEMMA MessageFits ==
  ASSUME RecordOK, NEW flags, MerchantMessage(flags) \/ ClassifierUnavailable \/ Inert("log")
  PROVE  Fits
  <1>1. CASE MerchantMessage(flags) /\ MessageInFlight(flags)
    <2>1. CASE "requests_human" \in flags
      BY <1>1, <2>1, RouteFits DEF MerchantMessage, MessageInFlight, RecordOK
    <2>2. CASE "requests_human" \notin flags
      <3>1. epoch' \in Nat /\ effects' = << [kind |-> "log"] >> /\ UNCHANGED routed
        BY <1>1, <2>2 DEF MessageInFlight, RecordOK, Log
      <3>. QED  BY <3>1, QuietFits
    <2>. QED  BY <2>1, <2>2
  <1>2. CASE MerchantMessage(flags) /\ AnswerMessage(flags)
    <2>1. Live /\ epoch' \in Nat /\ epoch \in Nat /\ \E env : Route(env, epoch)
      BY <1>2 DEF MerchantMessage, AnswerMessage, RecordOK
    <2>. QED  BY <2>1, RouteFits
  <1>3. CASE ClassifierUnavailable
    BY <1>3, EscalateFits DEF ClassifierUnavailable, RecordOK
  <1>4. CASE Inert("log")
    BY <1>4, InertFits
  <1>. QED  BY <1>1, <1>2, <1>3, <1>4 DEF MerchantMessage

\* An event that changes the order.
LEMMA AsyncFits ==
  ASSUME RecordOK, NEW d, NEW c, OnAsyncEvent(d, c)
  PROVE  Fits
  <1>. DEFINE env == Decide(tier, d, overrides, pushCount, None)
  <1>1. Live /\ epoch' = epoch + 1 /\ epoch' \in Nat /\ epoch + 1 \in Nat
    BY DEF OnAsyncEvent, RecordOK
  <1>2. \/ effects' = << Log >> /\ UNCHANGED routed
        \/ Route(env, epoch + 1)
    BY DEF OnAsyncEvent
  <1>. HIDE DEF env
  <1>3. CASE effects' = << Log >> /\ UNCHANGED routed
    BY <1>1, <1>3, QuietFits DEF Log
  <1>4. CASE Route(env, epoch + 1)
    BY <1>1, <1>4, RouteFits
  <1>. QED  BY <1>2, <1>3, <1>4

\* A timer, or the order ready.
LEMMA TimerFits ==
  ASSUME RecordOK, PrepCompleted \/ ReplyTimeout \/ ToolTimeout \/ Reevaluate
  PROVE  Fits
  <1>1. Live /\ epoch \in Nat /\ epoch' \in Nat
    BY DEF RecordOK, PrepCompleted, ReplyTimeout, ToolTimeout, Reevaluate
  <1>2. CASE PrepCompleted
    <2>1. effects' = << Resolution("prep_completed") >> /\ fsm' = "RESOLVED"
      BY <1>2 DEF PrepCompleted
    <2>2. Shaped(effects') /\ ~ Emits("escalate", effects')
      BY <2>1 DEF Shaped, ItemOK, Emits, Resolution, EffectKinds
    <2>. QED  BY <1>1, <2>1, <2>2 DEF Fits, RecordOK
  <1>3. CASE ReplyTimeout
    <2>1. \/ effects' = << [kind |-> "log"] >> /\ UNCHANGED routed
          \/ Escalate("unresponsive")
          \/ Route(Decide(tier, delay, overrides, pushCount, None), epoch)
      BY <1>3 DEF ReplyTimeout, Log
    <2>. QED  BY <1>1, <2>1, QuietFits, EscalateFits, RouteFits
  <1>4. CASE ToolTimeout
    <2>1. \/ effects' = << [kind |-> "log"] >> /\ UNCHANGED routed
          \/ Escalate("tool_timeout")
      BY <1>4 DEF ToolTimeout, Log
    <2>. QED  BY <1>1, <2>1, QuietFits, EscalateFits
  <1>5. CASE Reevaluate
    BY <1>1, <1>5, RouteFits DEF Reevaluate
  <1>. QED  BY <1>2, <1>3, <1>4, <1>5

\* Any event the loop may apply.
LEMMA ApplyFits ==
  ASSUME RecordOK, NEW ev \in InjectedEvents, Apply(ev)
  PROVE  Fits
  <1>1. ev.type \in EventTypes
    BY AgentAssumption
  <1>2. \/ EtaUpdated(ev.eta) \/ CaptainCancelled \/ PrepCompleted
        \/ ReplyTimeout \/ ToolTimeout \/ Reevaluate \/ Inert("log")
    BY <1>1 DEF Apply, EventTypes
  <1>3. CASE EtaUpdated(ev.eta) \/ CaptainCancelled
    BY <1>3, AsyncFits DEF EtaUpdated, CaptainCancelled
  <1>4. CASE PrepCompleted \/ ReplyTimeout \/ ToolTimeout \/ Reevaluate
    BY <1>4, TimerFits
  <1>5. CASE Inert("log")
    BY <1>5, InertFits
  <1>. QED  BY <1>2, <1>3, <1>4, <1>5

\* The result of a chain, after which nothing is awaited.
LEMMA ResultFits ==
  ASSUME RecordOK, NEW outcome, NEW c, ToolResult(outcome, c) \/ Inert("reconcile")
  PROVE  Fits /\ fsm' # "AWAITING_TOOL_RESULT"
  <1>1. CASE Inert("reconcile")
    BY <1>1, InertFits DEF Inert, sessionVars, routed, Live, TerminalStates
  <1>2. CASE ToolResult(outcome, c) /\ ApplyToolResult(outcome, c)
    <2>1. Live /\ epoch' \in Nat
      BY <1>2 DEF ToolResult, RecordOK
    <2>2. CASE outcome = "reassigned"
      <3>1. fsm' = "MONITORING" /\ effects' = << Send("notify_reassigned") >>
        BY <1>2, <2>2 DEF ApplyToolResult
      <3>2. Shaped(effects') /\ ~ Emits("escalate", effects')
        BY <3>1 DEF Shaped, ItemOK, Emits, Send, EffectKinds
      <3>. QED  BY <2>1, <3>1, <3>2 DEF Fits, RecordOK
    <2>3. CASE outcome # "reassigned"
      <3>1. Escalate("partial_failure") \/ Escalate("tool_fail_or_no_captain")
        BY <1>2, <2>3 DEF ApplyToolResult
      <3>. QED  BY <2>1, <3>1, EscalateFits
    <2>. QED  BY <2>2, <2>3
  <1>3. CASE ToolResult(outcome, c) /\ ReconcileToolResult(outcome, c)
    <2>1. effects' = << [kind |-> "reconcile"] >> /\ UNCHANGED routed /\ epoch' \in Nat
      BY <1>3 DEF ToolResult, ReconcileToolResult, Reconciled, RecordOK
    <2>2. fsm' # "AWAITING_TOOL_RESULT"
      BY <1>3, <2>1 DEF ReconcileToolResult, AwaitingResult, RecordOK, routed
    <2>. QED  BY <2>1, <2>2, QuietFits
  <1>. QED  BY <1>1, <1>2, <1>3 DEF ToolResult

-----------------------------------------------------------------------------
(* The invariant of the loop.                                                  *)

\* A handoff is an escalation still pending or a ticket, and never both.
TicketOwed ==
  Len(tickets) + Count(stack, {"escalate"}) = IF fsm = "ESCALATED" THEN 1 ELSE 0

\* Who waits for a result has a chain to run, or a result to be delivered.
ResultOwed ==
  fsm = "AWAITING_TOOL_RESULT" => returning # None \/ Count(stack, {"call_tool_chain"}) >= 1

ShapesOK ==
  /\ StackOK(stack)
  /\ injectTool \in Seq(InjectedEvents) /\ injectGen \in Seq(InjectedEvents)
  /\ \E S : tickets \in Seq(S)
  /\ returning # None => stack # << >>

AgentInv == RecordOK /\ ShapesOK /\ TicketOwed /\ ResultOwed

\* A single queue as the whole stack.
LEMMA OnlyQueue ==
  ASSUME NEW q, QueueOK(q)
  PROVE  StackOK(<< q >>) /\ << q >> # << >> /\ \A kinds : Count(<< q >>, kinds) = InQueue(q, kinds)
  <1>1. << q >> \o << >> = << q >>
    OBVIOUS
  <1>2. /\ StackOK(<< q >> \o << >>)
        /\ \A kinds : Count(<< q >> \o << >>, kinds) = InQueue(q, kinds) + Count(<< >>, kinds)
    BY NothingThere, StackPush
  <1>3. \A kinds : InQueue(q, kinds) \in Nat /\ Count(<< >>, kinds) = 0
    BY CountsAreNat, NothingThere
  <1>. QED  BY <1>1, <1>2, <1>3

\* The length of the desk's list is a number.
LEMMA TicketsLen ==
  ASSUME ShapesOK
  PROVE  /\ Len(tickets) \in Nat /\ Count(stack, {"escalate"}) \in Nat
         /\ Count(stack, {"call_tool_chain"}) \in Nat
  <1>1. PICK S : tickets \in Seq(S)
    BY DEF ShapesOK
  <1>. QED  BY <1>1, CountsAreNat DEF ShapesOK

\* An event that fits the record keeps the ticket owed, when its effects are queued.
LEMMA TicketStaysOwed ==
  ASSUME ShapesOK, TicketOwed, Fits, tickets' = tickets,
         Count(stack', {"escalate"}) =
           Count(stack, {"escalate"}) + IF Emits("escalate", effects') THEN 1 ELSE 0
  PROVE  TicketOwed'
  BY TicketsLen DEF TicketOwed, Fits, Live, TerminalStates

\* The session opens and its turn-0 decision is queued.
LEMMA AgentInitOK == Init => AgentInv /\ Shaped(effects)
  <1>. SUFFICES ASSUME Init PROVE AgentInv /\ Shaped(effects)
    OBVIOUS
  <1>1. PICK t \in MerchantTiers, d \in InitialDelays, o \in OverrideLists :
          Bootstrap(t, d, OriginalCaptain, o)
    BY DEF Init
  <1>2. PICK env : /\ fsm = RoutedFsm(env.action) /\ pending = RoutedPending(env, 0)
                   /\ effects = RoutedEffects(env, 0) /\ epoch = 0
    BY <1>1 DEF Bootstrap
  <1>3. /\ Shaped(effects)
        /\ Emits("escalate", effects) <=> fsm = "ESCALATED"
        /\ fsm = "AWAITING_TOOL_RESULT" => Emits("call_tool_chain", effects) /\ pending # None
    BY <1>2, RoutedFits
  <1>4. /\ QueueOK(effects)
        /\ InQueue(effects, {"escalate"}) = IF Emits("escalate", effects) THEN 1 ELSE 0
        /\ InQueue(effects, {"call_tool_chain"}) = IF Emits("call_tool_chain", effects) THEN 1 ELSE 0
    BY <1>3, ShapedQueue
  <1>5. StackOK(stack) /\ \A kinds : Count(stack, kinds) = InQueue(effects, kinds)
    BY <1>4, OnlyQueue DEF Init
  <1>6. tickets = << >> /\ injectTool = << >> /\ injectGen = << >> /\ returning = None
    BY DEF Init
  <1>7. ShapesOK
    <2>1. << >> \in Seq(InjectedEvents)
      OBVIOUS
    <2>. QED  BY <1>5, <1>6, <2>1 DEF ShapesOK
  <1>8. TicketOwed
    <2>1. Len(tickets) = 0
      BY <1>6
    <2>. QED  BY <1>3, <1>4, <1>5, <2>1 DEF TicketOwed
  <1>9. ResultOwed
    BY <1>3, <1>4, <1>5 DEF ResultOwed
  <1>. QED  BY <1>2, <1>3, <1>7, <1>8, <1>9 DEF AgentInv, RecordOK

\* An input starts a turn.
LEMMA BeginTurnOK ==
  ASSUME AgentInv, Fits, BeginTurn
  PROVE  AgentInv'
  <1>1. PICK fx : fx = effects'
    OBVIOUS
  <1>2. /\ stack = << >> /\ returning = None /\ stack' = << fx >>
        /\ UNCHANGED <<injectTool, injectGen, returning, tickets>>
    BY <1>1 DEF BeginTurn, Idle
  <1>3. /\ QueueOK(fx)
        /\ InQueue(fx, {"escalate"}) = IF Emits("escalate", fx) THEN 1 ELSE 0
        /\ InQueue(fx, {"call_tool_chain"}) = IF Emits("call_tool_chain", fx) THEN 1 ELSE 0
    BY <1>1, ShapedQueue DEF Fits
  <1>4. StackOK(stack') /\ stack' # << >> /\ \A kinds : Count(stack', kinds) = InQueue(fx, kinds)
    BY <1>2, <1>3, OnlyQueue
  <1>5. \A kinds : Count(stack, kinds) = 0
    BY <1>2, NothingThere
  <1>6. ShapesOK'
    BY <1>2, <1>4 DEF AgentInv, ShapesOK
  <1>7. TicketOwed'
    <2>1. Count(stack', {"escalate"}) =
            Count(stack, {"escalate"}) + IF Emits("escalate", effects') THEN 1 ELSE 0
      BY <1>1, <1>3, <1>4, <1>5
    <2>. QED  BY <1>2, <2>1, TicketStaysOwed DEF AgentInv
  <1>8. ResultOwed'
    BY <1>1, <1>2, <1>3, <1>4, <1>5 DEF AgentInv, ResultOwed, Fits
  <1>. QED  BY <1>6, <1>7, <1>8 DEF AgentInv, Fits

\* A handler that touches neither the record nor the desk.
LEMMA HandlerOK ==
  ASSUME AgentInv, NEW kind \in {"send_message", "log", "resolve", "reconcile"}, Handling(kind),
         UNCHANGED <<sessionVars, returning, tickets, injectTool>>,
         (stack' = Rest /\ UNCHANGED injectGen) \/ SayThen(Rest)
  PROVE  AgentInv'
  <1>1. /\ StackOK(Rest) /\ Rest # << >>
        /\ Count(Rest, {"escalate"}) = Count(stack, {"escalate"})
        /\ Count(Rest, {"call_tool_chain"}) = Count(stack, {"call_tool_chain"})
    BY TakeWork, TicketsLen DEF AgentInv, ShapesOK, One
  <1>2. /\ StackOK(stack') /\ stack' # << >> /\ injectGen' \in Seq(InjectedEvents)
        /\ Count(stack', {"escalate"}) = Count(stack, {"escalate"})
        /\ Count(stack', {"call_tool_chain"}) = Count(stack, {"call_tool_chain"})
    <2>1. CASE stack' = Rest /\ UNCHANGED injectGen
      BY <1>1, <2>1 DEF AgentInv, ShapesOK
    <2>2. CASE SayThen(Rest)
      <3>1. /\ StackOK(stack') /\ stack' # << >> /\ injectGen' = << >>
            /\ \A kinds : Count(stack', kinds) =
                 Count(Rest, kinds) + IF "event" \in kinds THEN Len(injectGen) ELSE 0
        BY <1>1, <2>2, SayThenWork DEF AgentInv, ShapesOK
      <3>. QED  BY <1>1, <3>1, TicketsLen DEF AgentInv
    <2>. QED  BY <2>1, <2>2
  <1>3. UNCHANGED <<fsm, epoch, pending>>
    BY DEF sessionVars, routed
  <1>. QED  BY <1>2, <1>3 DEF AgentInv, RecordOK, ShapesOK, TicketOwed, ResultOwed

\* The ticket owed is opened.
LEMMA OpenTicketOK ==
  ASSUME AgentInv, OpenTicket
  PROVE  AgentInv'
  <1>. DEFINE ticket == [reason |-> Next1.reason, mode |-> Next1.mode, rule |-> lastAction.rule]
  <1>1. /\ Handling("escalate") /\ SayThen(Rest) /\ tickets' = Append(tickets, ticket)
        /\ UNCHANGED <<sessionVars, returning, injectTool>>
    BY DEF OpenTicket
  <1>. HIDE DEF ticket
  <1>2. /\ StackOK(Rest) /\ Rest # << >>
        /\ Count(Rest, {"escalate"}) = Count(stack, {"escalate"}) - 1
        /\ Count(Rest, {"call_tool_chain"}) = Count(stack, {"call_tool_chain"})
    BY <1>1, TakeWork, TicketsLen DEF AgentInv, ShapesOK, One
  <1>3. /\ StackOK(stack') /\ stack' # << >> /\ injectGen' = << >>
        /\ Count(stack', {"escalate"}) = Count(stack, {"escalate"}) - 1
        /\ Count(stack', {"call_tool_chain"}) = Count(stack, {"call_tool_chain"})
    <2>1. \A kinds : Count(stack', kinds) =
            Count(Rest, kinds) + IF "event" \in kinds THEN Len(injectGen) ELSE 0
      BY <1>1, <1>2, SayThenWork DEF AgentInv, ShapesOK
    <2>2. StackOK(stack') /\ stack' # << >> /\ injectGen' = << >>
      BY <1>1, <1>2, SayThenWork DEF AgentInv, ShapesOK
    <2>. QED  BY <1>2, <2>1, <2>2, TicketsLen DEF AgentInv
  <1>4. PICK S : tickets \in Seq(S)
    BY DEF AgentInv, ShapesOK
  <1>5. /\ tickets' \in Seq(S \cup {ticket}) /\ Len(tickets') = Len(tickets) + 1
        /\ Len(tickets) \in Nat
    <2>1. tickets \in Seq(S \cup {ticket})
      BY <1>4, SeqMonotonic
    <2>. QED  BY <1>1, <2>1
  <1>6. UNCHANGED <<fsm, epoch, pending>>
    BY <1>1 DEF sessionVars, routed
  <1>7. << >> \in Seq(InjectedEvents)
    OBVIOUS
  <1>8. ShapesOK'
    BY <1>1, <1>3, <1>5, <1>7 DEF AgentInv, ShapesOK
  <1>9. TicketOwed'
    BY <1>3, <1>5, <1>6, TicketsLen DEF AgentInv, TicketOwed
  <1>. QED  BY <1>1, <1>3, <1>6, <1>8, <1>9 DEF AgentInv, RecordOK, ResultOwed

\* A chain runs: the result it owes is now the one being returned.
LEMMA RunChainOK ==
  ASSUME AgentInv, NEW outcome \in Outcomes, NEW c \in Captains, RunChain(outcome, c)
  PROVE  AgentInv'
  <1>1. /\ Handling("call_tool_chain") /\ stack' = Rest
        /\ UNCHANGED <<sessionVars, tickets, injectTool, injectGen>>
    BY DEF RunChain
  <1>2. returning' # None
    BY AgentAssumption DEF RunChain
  <1>3. /\ StackOK(Rest) /\ Rest # << >>
        /\ Count(Rest, {"escalate"}) = Count(stack, {"escalate"})
    BY <1>1, TakeWork, TicketsLen DEF AgentInv, ShapesOK, One
  <1>4. UNCHANGED <<fsm, epoch, pending>>
    BY <1>1 DEF sessionVars, routed
  <1>5. StackOK(stack') /\ stack' # << >> /\ Count(stack', {"escalate"}) = Count(stack, {"escalate"})
    BY <1>1, <1>3
  <1>. QED  BY <1>1, <1>2, <1>4, <1>5 DEF AgentInv, RecordOK, ShapesOK, TicketOwed, ResultOwed

\* An event, or the result, is applied while the handler of a chain runs.
LEMMA MidFlightOK ==
  ASSUME AgentInv, Fits, returning # None, FollowUp, UNCHANGED <<tickets, injectGen>>,
         injectTool' \in Seq(InjectedEvents),
         returning' # None \/ fsm' # "AWAITING_TOOL_RESULT"
  PROVE  AgentInv'
  <1>1. PICK fx : fx = effects'
    OBVIOUS
  <1>2. QueueOK(effects') /\ InQueue(effects', {"escalate"}) = IF Emits("escalate", effects') THEN 1 ELSE 0
    BY <1>1, ShapedQueue DEF Fits
  <1>3. /\ StackOK(stack') /\ stack' # << >>
        /\ Count(stack', {"escalate"}) = Count(stack, {"escalate"}) + InQueue(effects', {"escalate"})
    BY <1>2, FollowUpWork DEF AgentInv, ShapesOK
  <1>4. TicketOwed'
    BY <1>2, <1>3, TicketStaysOwed DEF AgentInv
  <1>5. ShapesOK'
    BY <1>3 DEF AgentInv, ShapesOK
  <1>. QED  BY <1>4, <1>5 DEF AgentInv, ResultOwed, Fits

\* What a handler takes is an item of a queue.
LEMMA NextItem ==
  ASSUME StackOK(stack), NEW kind, Handling(kind)
  PROVE  ItemOK(Next1)
  <1>1. QueueOK(Top) /\ Top # << >> /\ Next1 = Head(Top)
    BY StackTail DEF Handling, Top, Next1
  <1>2. PICK S : Top \in Seq(S)
    BY <1>1 DEF QueueOK
  <1>3. 1 \in DOMAIN Top /\ Head(Top) = Top[1]
    BY <1>1, <1>2
  <1>. QED  BY <1>1, <1>3 DEF QueueOK

\* What is applied while the handler of a chain runs fits the record.
LEMMA LandedFits ==
  ASSUME AgentInv, InjectMidFlight \/ DeliverResult
  PROVE  Fits
  <1>1. CASE InjectMidFlight
    <2>1. Head(injectTool) \in InjectedEvents /\ Apply(Head(injectTool))
      BY <1>1 DEF InjectMidFlight, AgentInv, ShapesOK
    <2>. QED  BY <2>1, ApplyFits DEF AgentInv
  <1>2. CASE DeliverResult
    BY <1>2, ResultFits DEF DeliverResult, AgentInv
  <1>. QED  BY <1>1, <1>2

\* So does an event injected before a reply.
LEMMA NestedFits ==
  ASSUME AgentInv, DispatchNested
  PROVE  Fits
  <1>1. Handling("event") /\ Apply(Next1.event)
    BY DEF DispatchNested
  <1>2. ItemOK(Next1) /\ Next1.kind = "event"
    BY <1>1, NextItem DEF AgentInv, ShapesOK, Handling
  <1>. QED  BY <1>1, <1>2, ApplyFits DEF AgentInv, ItemOK

\* An event injected before a reply is dispatched in a call of its own.
LEMMA DispatchNestedOK ==
  ASSUME AgentInv, DispatchNested
  PROVE  AgentInv'
  <1>1. /\ Handling("event") /\ returning = None
        /\ UNCHANGED <<tickets, injectTool, injectGen, returning>>
    BY DEF DispatchNested, Handling
  <1>2. Fits
    BY NestedFits
  <1>3. PICK fx : fx = effects'
    OBVIOUS
  <1>4. stack' = << fx >> \o Rest
    BY <1>3 DEF DispatchNested
  <1>5. /\ QueueOK(fx)
        /\ InQueue(fx, {"escalate"}) = IF Emits("escalate", fx) THEN 1 ELSE 0
        /\ InQueue(fx, {"call_tool_chain"}) = IF Emits("call_tool_chain", fx) THEN 1 ELSE 0
    BY <1>2, <1>3, ShapedQueue DEF Fits
  <1>6. /\ StackOK(Rest)
        /\ Count(Rest, {"escalate"}) = Count(stack, {"escalate"})
        /\ Count(Rest, {"call_tool_chain"}) = Count(stack, {"call_tool_chain"})
    BY <1>1, TakeWork, TicketsLen DEF AgentInv, ShapesOK, One
  <1>7. /\ StackOK(stack') /\ stack' # << >>
        /\ Count(stack', {"escalate"}) = InQueue(fx, {"escalate"}) + Count(stack, {"escalate"})
        /\ Count(stack', {"call_tool_chain"}) =
             InQueue(fx, {"call_tool_chain"}) + Count(stack, {"call_tool_chain"})
    BY <1>4, <1>5, <1>6, StackPush
  <1>8. TicketOwed'
    <2>1. Count(stack', {"escalate"}) =
            Count(stack, {"escalate"}) + IF Emits("escalate", effects') THEN 1 ELSE 0
      BY <1>3, <1>5, <1>7, TicketsLen DEF AgentInv
    <2>. QED  BY <1>1, <1>2, <2>1, TicketStaysOwed DEF AgentInv
  <1>9. ResultOwed'
    BY <1>1, <1>2, <1>3, <1>5, <1>7, TicketsLen DEF AgentInv, ResultOwed, Fits
  <1>10. ShapesOK'
    BY <1>1, <1>7 DEF AgentInv, ShapesOK
  <1>. QED  BY <1>2, <1>8, <1>9, <1>10 DEF AgentInv, Fits

\* A call of _dispatch returns.
LEMMA QueueDoneOK ==
  ASSUME AgentInv, QueueDone
  PROVE  AgentInv'
  <1>1. /\ stack # << >> /\ Head(stack) = << >> /\ stack' = Tail(stack) /\ returning = None
        /\ UNCHANGED <<sessionVars, injectTool, injectGen, returning, tickets>>
    BY DEF QueueDone, Top
  <1>2. /\ StackOK(Tail(stack))
        /\ \A kinds : Count(stack, kinds) = 0 + Count(Tail(stack), kinds)
    BY <1>1, StackTail, NothingThere DEF AgentInv, ShapesOK
  <1>3. \A kinds : Count(Tail(stack), kinds) \in Nat
    BY <1>2, CountsAreNat
  <1>4. StackOK(stack') /\ \A kinds : Count(stack', kinds) = Count(stack, kinds)
    BY <1>1, <1>2, <1>3
  <1>5. UNCHANGED <<fsm, epoch, pending>>
    BY <1>1 DEF sessionVars, routed
  <1>. QED  BY <1>1, <1>4, <1>5 DEF AgentInv, RecordOK, ShapesOK, TicketOwed, ResultOwed

\* An event is queued for injection.
LEMMA ArmOK ==
  ASSUME AgentInv, NEW ev \in InjectedEvents, Arm(ev)
  PROVE  AgentInv'
  <1>1. UNCHANGED <<stack, tickets, returning, fsm, epoch, pending>>
    BY DEF Arm, sessionVars, routed
  <1>2. injectTool \in Seq(InjectedEvents) /\ injectGen \in Seq(InjectedEvents)
    BY DEF AgentInv, ShapesOK
  <1>3. Append(injectTool, ev) \in Seq(InjectedEvents) /\ Append(injectGen, ev) \in Seq(InjectedEvents)
    BY <1>2
  <1>4. injectTool' \in Seq(InjectedEvents) /\ injectGen' \in Seq(InjectedEvents)
    BY <1>2, <1>3 DEF Arm
  <1>. QED  BY <1>1, <1>4 DEF AgentInv, RecordOK, ShapesOK, TicketOwed, ResultOwed

\* Every step of the loop keeps the invariant.
LEMMA WorkOK ==
  ASSUME AgentInv, Work
  PROVE  AgentInv'
  <1>1. CASE Say
    BY <1>1, HandlerOK DEF Say
  <1>2. CASE Record
    BY <1>2, HandlerOK DEF Record
  <1>3. CASE InjectMidFlight
    <2>1. injectTool' \in Seq(InjectedEvents)
      BY <1>3 DEF InjectMidFlight, AgentInv, ShapesOK
    <2>2. Fits
      BY <1>3, LandedFits
    <2>. QED  BY <1>3, <2>1, <2>2, MidFlightOK DEF InjectMidFlight
  <1>4. CASE DeliverResult
    <2>1. Fits /\ fsm' # "AWAITING_TOOL_RESULT"
      BY <1>4, ResultFits DEF DeliverResult, AgentInv
    <2>. QED  BY <1>4, <2>1, MidFlightOK DEF DeliverResult, AgentInv, ShapesOK
  <1>. QED  BY <1>1, <1>2, <1>3, <1>4, OpenTicketOK, QueueDoneOK, RunChainOK, DispatchNestedOK DEF Work

\* Every input keeps it.
LEMMA InputOK ==
  ASSUME AgentInv, Input
  PROVE  AgentInv'
  <1>1. ASSUME NEW flags \in Intents, SendMessage(flags) PROVE AgentInv'
    BY <1>1, MessageFits, BeginTurnOK DEF SendMessage, AgentInv
  <1>2. ASSUME NEW ev \in InjectedEvents, SendEvent(ev) PROVE AgentInv'
    BY <1>2, ApplyFits, BeginTurnOK DEF SendEvent, AgentInv
  <1>. QED  BY <1>1, <1>2, ArmOK DEF Input

\* Nothing changes when nothing happens.
LEMMA AgentStutterOK ==
  ASSUME AgentInv, UNCHANGED vars
  PROVE  AgentInv'
  <1>1. UNCHANGED <<stack, injectTool, injectGen, returning, tickets, fsm, epoch, pending>>
    BY DEF vars, agentVars, sessionVars, routed
  <1>. QED  BY <1>1 DEF AgentInv, RecordOK, ShapesOK, TicketOwed, ResultOwed

-----------------------------------------------------------------------------
(* The work ahead: every reply, result and injected event is paid for by an     *)
(* input.                                                                       *)

\* What ends in a reply: the items of the stack that ask for one, the chain being
\* returned, and the events that wait to be injected.
Replying == Asking \cup {"event"}

Owed == Count(stack, Replying) + (IF returning # None THEN 1 ELSE 0)
        + Len(injectTool) + Len(injectGen)

\* All counts the invariant speaks of are numbers.
LEMMA OwedIsNat ==
  ASSUME ShapesOK
  PROVE  /\ Count(stack, Replying) \in Nat /\ Count(stack, {"send_message"}) \in Nat
         /\ Count(stack, {"escalate"}) \in Nat
         /\ Len(injectTool) \in Nat /\ Len(injectGen) \in Nat
  BY CountsAreNat DEF ShapesOK

\* What the reducer returns asks for one reply at most, and for none in a closed
\* session.
LEMMA EventAsksOnce ==
  ASSUME Fits
  PROVE  /\ QueueOK(effects')
         /\ InQueue(effects', Replying) \in {0, 1}
         /\ InQueue(effects', {"send_message"}) \in Nat /\ InQueue(effects', {"escalate"}) \in Nat
         /\ ~ Live => InQueue(effects', {"send_message"}) = 0 /\ InQueue(effects', {"escalate"}) = 0
  <1>1. PICK fx : fx = effects'
    OBVIOUS
  <1>2. Shaped(fx) /\ (~ Live => \A k \in Asking : ~ Emits(k, fx))
    BY <1>1 DEF Fits
  <1>3. /\ QueueOK(fx)
        /\ InQueue(fx, {"escalate"}) = IF Emits("escalate", fx) THEN 1 ELSE 0
        /\ InQueue(fx, {"send_message"}) = IF Emits("send_message", fx) THEN 1 ELSE 0
        /\ InQueue(fx, Replying) = IF \E k \in Asking : Emits(k, fx) THEN 1 ELSE 0
    BY <1>2, ShapedQueue DEF Replying
  <1>4. "send_message" \in Asking /\ "escalate" \in Asking
    BY DEF Asking
  <1>. QED  BY <1>1, <1>2, <1>3, <1>4

\* What was owed before a step, and what is owed after it, in plain numbers.
LEMMA OwedBefore ==
  ASSUME ShapesOK
  PROVE  \E w, r, i, j \in Nat :
           /\ w = Count(stack, Replying) /\ r = (IF returning # None THEN 1 ELSE 0)
           /\ i = Len(injectTool) /\ j = Len(injectGen)
           /\ Owed = w + r + i + j
  BY OwedIsNat DEF Owed

\* A turn begins: it owes one reply at most.
LEMMA TurnOwes ==
  ASSUME AgentInv, Fits, BeginTurn
  PROVE  /\ Owed \in Nat /\ \E owed \in Nat : Owed' = owed /\ owed <= Owed + 1
         /\ \A kinds : Count(stack, kinds) = 0 /\ Count(stack', kinds) = InQueue(effects', kinds)
  <1>1. /\ stack = << >> /\ returning = None
        /\ UNCHANGED <<injectTool, injectGen, returning>>
    BY DEF BeginTurn, Idle
  <1>2. /\ InQueue(effects', Replying) \in {0, 1}
        /\ \A kinds : Count(stack', kinds) = InQueue(effects', kinds)
    <2>1. PICK fx : fx = effects'
      OBVIOUS
    <2>2. stack' = << fx >> /\ QueueOK(fx)
      BY <2>1, EventAsksOnce DEF BeginTurn
    <2>3. \A kinds : Count(stack', kinds) = InQueue(fx, kinds)
      BY <2>2, OnlyQueue
    <2>. QED  BY <2>1, <2>3, EventAsksOnce
  <1>3. \A kinds : Count(stack, kinds) = 0
    BY <1>1, NothingThere
  <1>4. Len(injectTool) \in Nat /\ Len(injectGen) \in Nat
    BY OwedIsNat DEF AgentInv
  <1>5. PICK a \in {0, 1} : Owed' = a + 0 + Len(injectTool) + Len(injectGen)
    BY <1>1, <1>2 DEF Owed
  <1>6. Owed = 0 + 0 + Len(injectTool) + Len(injectGen)
    BY <1>1, <1>3 DEF Owed
  <1>. QED  BY <1>2, <1>3, <1>4, <1>5, <1>6

\* An event is queued for injection: it may ask for a reply when it lands.
LEMMA ArmOwes ==
  ASSUME AgentInv, NEW ev \in InjectedEvents, Arm(ev)
  PROVE  Owed \in Nat /\ Owed' = Owed + 1
  <1>1. UNCHANGED <<stack, returning>>
    BY DEF Arm
  <1>2. injectTool \in Seq(InjectedEvents) /\ injectGen \in Seq(InjectedEvents)
    BY DEF AgentInv, ShapesOK
  <1>3. /\ Len(Append(injectTool, ev)) = Len(injectTool) + 1
        /\ Len(Append(injectGen, ev)) = Len(injectGen) + 1
    BY <1>2
  <1>4. PICK w, r, i, j \in Nat :
          /\ w = Count(stack, Replying) /\ r = (IF returning # None THEN 1 ELSE 0)
          /\ i = Len(injectTool) /\ j = Len(injectGen)
          /\ Owed = w + r + i + j
    BY OwedBefore DEF AgentInv
  <1>5. CASE injectTool' = Append(injectTool, ev) /\ injectGen' = injectGen
    <2>1. Owed' = w + r + (i + 1) + j
      BY <1>1, <1>3, <1>4, <1>5 DEF Owed
    <2>. QED  BY <1>4, <2>1
  <1>6. CASE injectGen' = Append(injectGen, ev) /\ injectTool' = injectTool
    <2>1. Owed' = w + r + i + (j + 1)
      BY <1>1, <1>3, <1>4, <1>6 DEF Owed
    <2>. QED  BY <1>4, <2>1
  <1>. QED  BY <1>5, <1>6 DEF Arm

\* A reply goes out and the work goes on: one reply less is owed, and the events
\* that waited for it are queued.
LEMMA ReplyPays ==
  ASSUME AgentInv, AgentInv', NEW kind \in {"send_message", "escalate"}, Handling(kind),
         SayThen(Rest), UNCHANGED <<injectTool, returning>>
  PROVE  /\ Owed \in Nat /\ \E owed \in Nat : Owed' = owed /\ owed + 1 = Owed
         /\ \A k \in {"send_message", "escalate"} :
              Count(stack', {k}) = Count(stack, {k}) - IF k = kind THEN 1 ELSE 0
  <1>1. StackOK(stack) /\ injectGen \in Seq(InjectedEvents)
    BY DEF AgentInv, ShapesOK
  <1>2. StackOK(Rest) /\ \A kinds : Count(Rest, kinds) = Count(stack, kinds) - One(kind, kinds)
    BY <1>1, TakeWork
  <1>3. /\ injectGen' = << >>
        /\ \A kinds : Count(stack', kinds) =
             Count(Rest, kinds) + IF "event" \in kinds THEN Len(injectGen) ELSE 0
    BY <1>1, <1>2, SayThenWork
  <1>4. One(kind, Replying) = 1 /\ "event" \in Replying
    BY DEF One, Replying, Asking
  <1>5. /\ Count(stack, Replying) \in Nat /\ Len(injectTool) \in Nat /\ Len(injectGen) \in Nat
        /\ Count(stack', Replying) \in Nat
    BY OwedIsNat, CountsAreNat DEF AgentInv, ShapesOK
  <1>6. Count(stack', Replying) = Count(stack, Replying) - 1 + Len(injectGen) /\ Len(injectGen') = 0
    <2>1. Count(Rest, Replying) = Count(stack, Replying) - 1
      BY <1>2, <1>4
    <2>2. Count(stack', Replying) = Count(Rest, Replying) + Len(injectGen)
      BY <1>3, <1>4
    <2>. QED  BY <1>3, <2>1, <2>2
  <1>7. Owed \in Nat /\ \E owed \in Nat : Owed' = owed /\ owed + 1 = Owed
    <2>1. PICK r \in {0, 1} : r = (IF returning # None THEN 1 ELSE 0)
      OBVIOUS
    <2>2. PICK n \in Nat : n = Count(stack', Replying) /\ n = Count(stack, Replying) - 1 + Len(injectGen)
      BY <1>5, <1>6
    <2>3. Owed = Count(stack, Replying) + r + Len(injectTool) + Len(injectGen)
      BY <2>1 DEF Owed
    <2>4. Owed' = n + r + Len(injectTool) + 0
      BY <1>6, <2>1, <2>2 DEF Owed
    <2>. DEFINE owed == n + r + Len(injectTool) + 0
    <2>5. owed \in Nat /\ owed + 1 = Owed /\ Owed \in Nat
      <3>1. n = Count(stack, Replying) - 1 + Len(injectGen)
        BY <2>2
      <3>2. Count(stack, Replying) \in Nat /\ Len(injectTool) \in Nat /\ Len(injectGen) \in Nat
        BY <1>5
      <3>3. r = 0 \/ r = 1
        BY <2>1
      <3>4. n \in Nat
        BY <2>2
      <3>5. owed + 1 = Owed /\ owed \in Nat
        BY <2>3, <3>1, <3>2, <3>3, <3>4
      <3>. QED  BY <3>5
    <2>6. Owed' = owed
      BY <2>4
    <2>. HIDE DEF owed
    <2>. QED  BY <2>5, <2>6
  <1>8. ASSUME NEW k \in {"send_message", "escalate"}
        PROVE  Count(stack', {k}) = Count(stack, {k}) - IF k = kind THEN 1 ELSE 0
    <2>1. Count(Rest, {k}) = Count(stack, {k}) - One(kind, {k}) /\ "event" \notin {k}
      BY <1>2
    <2>2. Count(stack', {k}) = Count(Rest, {k}) + 0
      BY <1>3, <2>1
    <2>3. Count(stack, {k}) \in Nat
      BY <1>1, CountsAreNat
    <2>. QED  BY <2>1, <2>2, <2>3 DEF One
  <1>. QED  BY <1>7, <1>8

\* An item that asks for no reply is done with, or a call of _dispatch returns.
LEMMA SilentOwes ==
  ASSUME AgentInv, Record \/ QueueDone
  PROVE  /\ \E owed \in Nat : Owed = owed /\ Owed' = owed
         /\ \A k \in {"send_message", "escalate", "call_tool_chain"} :
              Count(stack', {k}) = Count(stack, {k})
  <1>1. UNCHANGED <<injectTool, injectGen, returning>>
    BY DEF Record, QueueDone
  <1>2. StackOK(stack) /\ ShapesOK
    BY DEF AgentInv, ShapesOK
  <1>3. \A kinds : kinds \cap {"log", "resolve", "reconcile"} = {} =>
          Count(stack', kinds) = Count(stack, kinds)
    <2>1. CASE Record
      <3>1. PICK kind \in {"log", "resolve", "reconcile"} : Handling(kind) /\ stack' = Rest
        BY <2>1 DEF Record
      <3>2. \A kinds : Count(stack', kinds) = Count(stack, kinds) - One(kind, kinds)
        BY <1>2, <3>1, TakeWork
      <3>3. \A kinds : Count(stack, kinds) \in Nat
        BY <1>2, CountsAreNat
      <3>. QED  BY <3>2, <3>3 DEF One
    <2>2. CASE QueueDone
      <3>1. stack # << >> /\ Head(stack) = << >> /\ stack' = Tail(stack)
        BY <2>2 DEF QueueDone, Top
      <3>2. /\ StackOK(Tail(stack))
            /\ \A kinds : Count(stack, kinds) = 0 + Count(Tail(stack), kinds)
        BY <1>2, <3>1, StackTail, NothingThere
      <3>3. \A kinds : Count(Tail(stack), kinds) \in Nat
        BY <3>2, CountsAreNat
      <3>. QED  BY <3>1, <3>2, <3>3
    <2>. QED  BY <2>1, <2>2
  <1>4. Replying \cap {"log", "resolve", "reconcile"} = {}
    BY DEF Replying, Asking
  <1>5. Owed' = Owed
    BY <1>1, <1>3, <1>4 DEF Owed
  <1>6. \E owed \in Nat : Owed = owed
    BY <1>2, OwedBefore
  <1>. QED  BY <1>3, <1>5, <1>6

\* A chain runs: what it may ask for is now asked for by its result.
LEMMA ChainOwes ==
  ASSUME AgentInv, NEW outcome \in Outcomes, NEW c \in Captains, RunChain(outcome, c)
  PROVE  /\ \E owed \in Nat : Owed = owed /\ Owed' = owed
         /\ \A k \in {"send_message", "escalate"} : Count(stack', {k}) = Count(stack, {k})
         /\ Count(stack, {"call_tool_chain"}) = Count(stack', {"call_tool_chain"}) + 1
  <1>1. /\ Handling("call_tool_chain") /\ returning = None /\ stack' = Rest
        /\ UNCHANGED <<injectTool, injectGen>>
    BY DEF RunChain, Handling
  <1>2. returning' # None
    BY AgentAssumption DEF RunChain
  <1>3. StackOK(stack) /\ ShapesOK
    BY DEF AgentInv, ShapesOK
  <1>4. \A kinds : Count(stack', kinds) = Count(stack, kinds) - One("call_tool_chain", kinds)
    BY <1>1, <1>3, TakeWork
  <1>5. \A kinds : Count(stack, kinds) \in Nat
    BY <1>3, CountsAreNat
  <1>6. Count(stack', Replying) = Count(stack, Replying) - 1
    BY <1>4 DEF One, Replying, Asking
  <1>7. PICK w, i, j \in Nat : /\ w = Count(stack, Replying) /\ i = Len(injectTool)
                               /\ j = Len(injectGen) /\ Owed = w + 0 + i + j
    BY <1>1, <1>3, OwedBefore
  <1>8. Owed' = (w - 1) + 1 + i + j
    BY <1>1, <1>2, <1>6, <1>7 DEF Owed
  <1>9. \E owed \in Nat : Owed = owed /\ Owed' = owed
    <2>1. w + 0 + i + j \in Nat /\ (w - 1) + 1 + i + j = w + 0 + i + j
      BY <1>7
    <2>. QED  BY <1>7, <1>8, <2>1
  <1>10. /\ \A k \in {"send_message", "escalate"} : One("call_tool_chain", {k}) = 0
         /\ One("call_tool_chain", {"call_tool_chain"}) = 1
    BY DEF One
  <1>11. /\ \A k \in {"send_message", "escalate"} : Count(stack', {k}) = Count(stack, {k})
         /\ Count(stack, {"call_tool_chain"}) = Count(stack', {"call_tool_chain"}) + 1
    BY <1>4, <1>5, <1>10
  <1>. QED  BY <1>9, <1>11

\* An event or a result is applied while the handler of a chain runs: it takes the
\* place of what it was owed as.
LEMMA LandedOwes ==
  ASSUME AgentInv, Fits, InjectMidFlight \/ DeliverResult
  PROVE  /\ \E before, after \in Nat : Owed = before /\ Owed' = after /\ after <= before
         /\ \A kinds : Count(stack', kinds) = Count(stack, kinds) + InQueue(effects', kinds)
  <1>1. /\ returning # None /\ FollowUp /\ UNCHANGED injectGen
    BY DEF InjectMidFlight, DeliverResult
  <1>2. StackOK(stack) /\ ShapesOK /\ stack # << >> /\ injectTool \in Seq(InjectedEvents)
    BY <1>1 DEF AgentInv, ShapesOK
  <1>3. /\ InQueue(effects', Replying) \in {0, 1}
        /\ \A kinds : Count(stack', kinds) = Count(stack, kinds) + InQueue(effects', kinds)
    BY <1>1, <1>2, EventAsksOnce, FollowUpWork
  <1>4. PICK w, i, j \in Nat : /\ w = Count(stack, Replying) /\ i = Len(injectTool)
                               /\ j = Len(injectGen) /\ Owed = w + 1 + i + j
    BY <1>1, <1>2, OwedBefore
  <1>5. PICK a \in Nat : InQueue(effects', Replying) = a /\ a <= 1
    BY <1>3
  <1>6. Count(stack', Replying) = w + a /\ Len(injectGen') = j
    BY <1>1, <1>3, <1>4, <1>5
  <1>. DEFINE before == w + 1 + i + j
              after == w + a + i + j
  <1>7. before \in Nat /\ after \in Nat /\ after <= before
    BY <1>4, <1>5
  <1>8. Owed' = after
    <2>1. CASE InjectMidFlight
      <3>1. returning' # None /\ injectTool # << >> /\ injectTool' = Tail(injectTool)
        BY <1>1, <2>1 DEF InjectMidFlight
      <3>2. Len(injectTool') = i - 1
        BY <1>2, <1>4, <3>1
      <3>3. Owed' = (w + a) + 1 + (i - 1) + j
        BY <1>6, <3>1, <3>2 DEF Owed
      <3>4. (w + a) + 1 + (i - 1) + j = after
        OBVIOUS
      <3>. QED  BY <3>3, <3>4
    <2>2. CASE DeliverResult
      <3>1. returning' = None /\ injectTool' = injectTool
        BY <2>2 DEF DeliverResult
      <3>2. Owed' = (w + a) + 0 + i + j
        BY <1>4, <1>6, <3>1 DEF Owed
      <3>3. (w + a) + 0 + i + j = after
        BY <1>4, <1>5
      <3>. QED  BY <3>2, <3>3
    <2>. QED  BY <2>1, <2>2
  <1>9. Owed = before
    BY <1>4
  <1>. HIDE DEF before, after
  <1>. QED  BY <1>3, <1>7, <1>8, <1>9

\* An event injected before a reply is dispatched in a call of its own.
LEMMA NestedOwes ==
  ASSUME AgentInv, Fits, DispatchNested
  PROVE  /\ \E before, after \in Nat : Owed = before /\ Owed' = after /\ after <= before
         /\ \A k \in {"send_message", "escalate", "call_tool_chain"} :
              Count(stack', {k}) = Count(stack, {k}) + InQueue(effects', {k})
  <1>1. Handling("event") /\ UNCHANGED <<injectTool, injectGen, returning>>
    BY DEF DispatchNested
  <1>2. StackOK(stack) /\ ShapesOK
    BY DEF AgentInv, ShapesOK
  <1>3. PICK fx : fx = effects' /\ stack' = << fx >> \o Rest
    BY DEF DispatchNested
  <1>4. QueueOK(fx) /\ InQueue(fx, Replying) \in {0, 1}
    BY <1>3, EventAsksOnce
  <1>5. StackOK(Rest) /\ \A kinds : Count(Rest, kinds) = Count(stack, kinds) - One("event", kinds)
    BY <1>1, <1>2, TakeWork
  <1>6. \A kinds : Count(stack', kinds) = InQueue(fx, kinds) + Count(Rest, kinds)
    BY <1>3, <1>4, <1>5, StackPush
  <1>7. ASSUME NEW k \in {"send_message", "escalate", "call_tool_chain"}
        PROVE  Count(stack', {k}) = Count(stack, {k}) + InQueue(effects', {k})
    <2>1. One("event", {k}) = 0
      BY DEF One
    <2>2. Count(stack, {k}) \in Nat /\ InQueue(fx, {k}) \in Nat
      BY <1>2, <1>4, CountsAreNat
    <2>. QED  BY <1>3, <1>5, <1>6, <2>1, <2>2
  <1>8. PICK w, r, i, j \in Nat :
           /\ w = Count(stack, Replying) /\ r = (IF returning # None THEN 1 ELSE 0)
           /\ i = Len(injectTool) /\ j = Len(injectGen) /\ Owed = w + r + i + j
    BY <1>2, OwedBefore
  <1>9. PICK a \in {0, 1} : InQueue(fx, Replying) = a
    BY <1>4
  <1>10. Count(Rest, Replying) = w - 1
    BY <1>5, <1>8 DEF One, Replying
  <1>11. Count(stack', Replying) = a + (w - 1) /\ w - 1 \in Nat
    BY <1>5, <1>6, <1>9, <1>10, CountsAreNat
  <1>. DEFINE before == w + r + i + j
              after == (a + (w - 1)) + r + i + j
  <1>12. before \in Nat /\ after \in Nat /\ after <= before
    BY <1>8, <1>9, <1>11
  <1>13. Owed' = after
    BY <1>1, <1>8, <1>11 DEF Owed
  <1>14. Owed = before
    BY <1>8
  <1>. HIDE DEF before, after
  <1>. QED  BY <1>7, <1>12, <1>13, <1>14

-----------------------------------------------------------------------------
(* What the stack holds, and which handoffs are due.                           *)

\* The places of a kind are those the effect loop's specification speaks of.
LEMMA WaitingPlaces ==
  ASSUME NEW st, StackOK(st), NEW kind
  PROVE  Waiting(st, kind) = Places(st, {kind})
  <1>1. PICK S : st \in Seq(Seq(S))
    BY DEF StackOK
  <1>2. /\ DOMAIN st \subseteq Nat
        /\ \A i \in DOMAIN st : DOMAIN st[i] \subseteq Nat
    BY <1>1
  <1>. QED  BY <1>2 DEF Waiting, Places, Here

\* The handoffs in a queue.
DueIn(q) == {HandoffOf(q[j]) : j \in Here(q, {"escalate"})}

\* A handoff is due exactly where an escalation is pending.
LEMMA DueOfStack ==
  ASSUME NEW st, StackOK(st)
  PROVE  /\ Due(st) = UNION {DueIn(st[i]) : i \in DOMAIN st}
         /\ Due(st) = {} <=> Count(st, {"escalate"}) = 0
  <1>1. Due(st) = {HandoffOf(st[p[1]][p[2]]) : p \in Places(st, {"escalate"})}
    BY WaitingPlaces DEF Due
  <1>2. PICK S : st \in Seq(Seq(S))
    BY DEF StackOK
  <1>3. \A i \in DOMAIN st : i \in Nat /\ \A j \in DOMAIN st[i] : j \in Nat
    BY <1>2
  <1>4. Due(st) = UNION {DueIn(st[i]) : i \in DOMAIN st}
    <2>1. ASSUME NEW i \in DOMAIN st, NEW j \in Here(st[i], {"escalate"})
          PROVE  HandoffOf(st[i][j]) \in Due(st)
      <3>1. << i, j >> \in Places(st, {"escalate"})
        BY <1>3 DEF Places, Here
      <3>. QED  BY <1>1, <3>1
    <2>2. ASSUME NEW p \in Places(st, {"escalate"})
          PROVE  p[1] \in DOMAIN st /\ HandoffOf(st[p[1]][p[2]]) \in DueIn(st[p[1]])
      BY DEF Places, DueIn
    <2>. QED  BY <1>1, <2>1, <2>2 DEF DueIn
  <1>5. IsFiniteSet(Places(st, {"escalate"}))
    BY DEF StackOK
  <1>6. Places(st, {"escalate"}) = {} <=> Count(st, {"escalate"}) = 0
    BY <1>5, FS_EmptySet DEF Count
  <1>. QED  BY <1>1, <1>4, <1>6

\* Taking the first item of a queue, joining two, and one on top of a stack.
LEMMA DueTail ==
  ASSUME NEW q, QueueOK(q), q # << >>
  PROVE  DueIn(q) = DueIn(Tail(q)) \cup
                    IF Head(q).kind = "escalate" THEN {HandoffOf(Head(q))} ELSE {}
  <1>1. PICK S : q \in Seq(S)
    BY DEF QueueOK
  <1>2. /\ DOMAIN Tail(q) = 1 .. Len(q) - 1 /\ DOMAIN q = 1 .. Len(q) /\ Len(q) \in Nat \ {0}
        /\ \A i \in 1 .. Len(q) - 1 : Tail(q)[i] = q[i + 1] /\ i + 1 \in 1 .. Len(q)
        /\ \A k \in 1 .. Len(q) : k # 1 => k - 1 \in 1 .. Len(q) - 1 /\ Tail(q)[k - 1] = q[k]
        /\ Head(q) = q[1] /\ 1 \in 1 .. Len(q)
    BY <1>1
  <1>3. ASSUME NEW k \in Here(q, {"escalate"}), k # 1
        PROVE  HandoffOf(q[k]) \in DueIn(Tail(q))
    <2>1. k - 1 \in Here(Tail(q), {"escalate"}) /\ Tail(q)[k - 1] = q[k]
      BY <1>2, <1>3 DEF Here
    <2>. QED  BY <2>1 DEF DueIn
  <1>4. ASSUME NEW i \in Here(Tail(q), {"escalate"})
        PROVE  HandoffOf(Tail(q)[i]) \in DueIn(q)
    <2>1. i + 1 \in Here(q, {"escalate"}) /\ Tail(q)[i] = q[i + 1]
      BY <1>2 DEF Here
    <2>. QED  BY <2>1 DEF DueIn
  <1>5. 1 \in Here(q, {"escalate"}) <=> Head(q).kind = "escalate"
    BY <1>2 DEF Here
  <1>. QED  BY <1>2, <1>3, <1>4, <1>5 DEF DueIn

\* What is due in two queues, one behind the other.
LEMMA DueJoin ==
  ASSUME NEW q, QueueOK(q), NEW r, QueueOK(r)
  PROVE  DueIn(q \o r) = DueIn(q) \cup DueIn(r)
  <1>1. PICK S, T : q \in Seq(S) /\ r \in Seq(T)
    BY DEF QueueOK
  <1>2. /\ Len(q) \in Nat /\ Len(r) \in Nat
        /\ DOMAIN q = 1 .. Len(q) /\ DOMAIN r = 1 .. Len(r)
        /\ DOMAIN (q \o r) = 1 .. Len(q) + Len(r)
        /\ \A i \in 1 .. Len(q) : (q \o r)[i] = q[i] /\ i \in 1 .. Len(q) + Len(r)
        /\ \A j \in 1 .. Len(r) : (q \o r)[Len(q) + j] = r[j] /\ Len(q) + j \in 1 .. Len(q) + Len(r)
        /\ \A k \in 1 .. Len(q) + Len(r) :
             k \notin 1 .. Len(q) => k - Len(q) \in 1 .. Len(r) /\ (q \o r)[k] = r[k - Len(q)]
    BY <1>1
  <1>3. ASSUME NEW k \in Here(q \o r, {"escalate"})
        PROVE  HandoffOf((q \o r)[k]) \in DueIn(q) \cup DueIn(r)
    <2>1. CASE k \in 1 .. Len(q)
      BY <1>2, <2>1 DEF Here, DueIn
    <2>2. CASE k \notin 1 .. Len(q)
      <3>1. k - Len(q) \in Here(r, {"escalate"}) /\ (q \o r)[k] = r[k - Len(q)]
        BY <1>2, <2>2 DEF Here
      <3>. QED  BY <3>1 DEF DueIn
    <2>. QED  BY <2>1, <2>2
  <1>4. ASSUME NEW i \in Here(q, {"escalate"})
        PROVE  HandoffOf(q[i]) \in DueIn(q \o r)
    <2>1. i \in Here(q \o r, {"escalate"}) /\ (q \o r)[i] = q[i]
      BY <1>2 DEF Here
    <2>. QED  BY <2>1 DEF DueIn
  <1>5. ASSUME NEW j \in Here(r, {"escalate"})
        PROVE  HandoffOf(r[j]) \in DueIn(q \o r)
    <2>1. Len(q) + j \in Here(q \o r, {"escalate"}) /\ (q \o r)[Len(q) + j] = r[j]
      BY <1>2 DEF Here
    <2>. QED  BY <2>1 DEF DueIn
  <1>. QED  BY <1>3, <1>4, <1>5 DEF DueIn

\* A queue on top of a stack: what is due in it joins the rest.
LEMMA DuePush ==
  ASSUME NEW st, StackOK(st), NEW q, QueueOK(q)
  PROVE  Due(<< q >> \o st) = DueIn(q) \cup Due(st)
  <1>1. StackOK(<< q >> \o st)
    BY StackPush
  <1>2. PICK S : st \in Seq(Seq(S))
    BY DEF StackOK
  <1>3. /\ Len(st) \in Nat /\ DOMAIN st = 1 .. Len(st) /\ DOMAIN (<< q >> \o st) = 1 .. Len(st) + 1
        /\ (<< q >> \o st)[1] = q
        /\ \A i \in 1 .. Len(st) : (<< q >> \o st)[i + 1] = st[i] /\ i + 1 \in 1 .. Len(st) + 1
        /\ \A i \in 1 .. Len(st) + 1 :
             i # 1 => i - 1 \in 1 .. Len(st) /\ (<< q >> \o st)[i] = st[i - 1]
    BY <1>2
  <1>4. /\ Due(<< q >> \o st) = UNION {DueIn((<< q >> \o st)[i]) : i \in DOMAIN (<< q >> \o st)}
        /\ Due(st) = UNION {DueIn(st[i]) : i \in DOMAIN st}
    BY <1>1, DueOfStack
  <1>. DEFINE new == << q >> \o st
  <1>. HIDE DEF new
  <1>5. ASSUME NEW x, NEW i \in DOMAIN st, x \in DueIn(st[i])
        PROVE  \E k \in DOMAIN new : x \in DueIn(new[k])
    <2>1. i + 1 \in DOMAIN new /\ new[i + 1] = st[i]
      BY <1>3 DEF new
    <2>. QED  BY <1>5, <2>1
  <1>6. ASSUME NEW x, NEW k \in DOMAIN new, x \in DueIn(new[k])
        PROVE  x \in DueIn(q) \/ \E i \in DOMAIN st : x \in DueIn(st[i])
    <2>1. CASE k = 1
      BY <1>3, <1>6, <2>1 DEF new
    <2>2. CASE k # 1
      <3>1. k - 1 \in DOMAIN st /\ new[k] = st[k - 1]
        BY <1>3, <2>2 DEF new
      <3>. QED  BY <1>6, <3>1
    <2>. QED  BY <2>1, <2>2
  <1>7. 1 \in DOMAIN new /\ new[1] = q
    BY <1>3 DEF new
  <1>8. Due(new) = UNION {DueIn(new[i]) : i \in DOMAIN new}
    BY <1>4 DEF new
  <1>9. Due(new) = DueIn(q) \cup Due(st)
    BY <1>4, <1>5, <1>6, <1>7, <1>8
  <1>. QED  BY <1>9 DEF new

\* A stack seen as its top over the others.
LEMMA DuePop ==
  ASSUME NEW st, StackOK(st), st # << >>
  PROVE  Due(st) = DueIn(Head(st)) \cup Due(Tail(st))
  <1>1. QueueOK(Head(st)) /\ StackOK(Tail(st))
    BY StackTail
  <1>2. st = << Head(st) >> \o Tail(st)
    BY DEF StackOK
  <1>3. Due(<< Head(st) >> \o Tail(st)) = DueIn(Head(st)) \cup Due(Tail(st))
    BY <1>1, DuePush
  <1>. QED  BY <1>2, <1>3

\* A handler takes its item.
LEMMA TakeDue ==
  ASSUME StackOK(stack), NEW kind, Handling(kind)
  PROVE  /\ kind # "escalate" => Due(stack) = Due(Rest)
         /\ kind = "escalate" => Due(stack) = Due(Rest) \cup {HandoffOf(Next1)}
  <1>. DEFINE q == Head(stack)
              st == Tail(stack)
  <1>1. stack # << >> /\ q # << >> /\ Head(q) = Next1 /\ Next1.kind = kind /\ Rest = << Tail(q) >> \o st
    BY DEF Handling, Rest, Top, Next1
  <1>2. QueueOK(q) /\ StackOK(st) /\ Due(stack) = DueIn(q) \cup Due(st)
    BY <1>1, StackTail, DuePop
  <1>. HIDE DEF q, st
  <1>3. /\ QueueOK(Tail(q))
        /\ DueIn(q) = DueIn(Tail(q)) \cup IF kind = "escalate" THEN {HandoffOf(Next1)} ELSE {}
    BY <1>1, <1>2, QueueTail, DueTail
  <1>4. Due(Rest) = DueIn(Tail(q)) \cup Due(st)
    BY <1>1, <1>2, <1>3, DuePush
  <1>. QED  BY <1>2, <1>3, <1>4

\* Follow-ups go to the end of the innermost queue.
LEMMA FollowUpDue ==
  ASSUME StackOK(stack), stack # << >>, QueueOK(effects'), FollowUp
  PROVE  Due(stack') = Due(stack) \cup DueIn(effects')
  <1>1. PICK fx : fx = effects'
    OBVIOUS
  <1>2. PICK q, st : q = Head(stack) /\ st = Tail(stack)
    OBVIOUS
  <1>3. stack' = << q \o fx >> \o st /\ QueueOK(fx)
    BY <1>1, <1>2 DEF FollowUp, Top
  <1>4. QueueOK(q) /\ StackOK(st) /\ Due(stack) = DueIn(q) \cup Due(st)
    BY <1>2, StackTail, DuePop
  <1>5. QueueOK(q \o fx) /\ DueIn(q \o fx) = DueIn(q) \cup DueIn(fx)
    BY <1>3, <1>4, QueueJoin, DueJoin
  <1>6. Due(<< q \o fx >> \o st) = DueIn(q \o fx) \cup Due(st)
    BY <1>4, <1>5, DuePush
  <1>. QED  BY <1>1, <1>3, <1>4, <1>5, <1>6

\* A reply goes out: events that waited for it are no handoffs.
LEMMA SayThenDue ==
  ASSUME NEW rest, StackOK(rest), injectGen \in Seq(InjectedEvents), SayThen(rest)
  PROVE  Due(stack') = Due(rest)
  <1>. DEFINE q == [i \in DOMAIN injectGen |-> [kind |-> "event", event |-> injectGen[i]]]
  <1>1. CASE injectGen = << >>
    BY <1>1 DEF SayThen
  <1>2. CASE injectGen # << >>
    <2>1. stack' = << q >> \o rest
      BY <1>2 DEF SayThen
    <2>2. QueueOK(q)
      BY EventQueue
    <2>3. DueIn(q) = {}
      BY DEF DueIn, Here
    <2>. HIDE DEF q
    <2>. QED  BY <2>1, <2>2, <2>3, DuePush
  <1>. QED  BY <1>1, <1>2

\* A handoff is listed as the first, while it is due and once it is opened.
LEMMA ListedFirst ==
  /\ Listed(<< >>, {}) = << >>
  /\ \A t : Listed(<< >>, {t}) = << t >>
  /\ \A x : Listed(<< x >>, {}) = << HandoffOf(x) >>
  <1>1. \A opened : Listed(opened, {}) = [i \in DOMAIN opened |-> HandoffOf(opened[i])] \o << >>
    BY DEF Listed
  <1>2. [i \in DOMAIN << >> |-> HandoffOf(<< >>[i])] = << >>
    OBVIOUS
  <1>3. ASSUME NEW x
        PROVE  [i \in DOMAIN << x >> |-> HandoffOf(<< x >>[i])] = << HandoffOf(x) >>
    <2>1. DOMAIN << x >> = {1} /\ << x >>[1] = x /\ DOMAIN << HandoffOf(x) >> = {1}
      OBVIOUS
    <2>. QED  BY <2>1
  <1>4. ASSUME NEW t PROVE Listed(<< >>, {t}) = << t >>
    <2>1. (CHOOSE u \in {t} : TRUE) = t
      OBVIOUS
    <2>2. Listed(<< >>, {t}) = << >> \o << t >>
      BY <1>2, <2>1 DEF Listed
    <2>3. << >> \o << t >> = << t >>
      OBVIOUS
    <2>. QED  BY <2>2, <2>3
  <1>5. ASSUME NEW x PROVE Listed(<< x >>, {}) = << HandoffOf(x) >>
    <2>1. Listed(<< x >>, {}) = << HandoffOf(x) >> \o << >>
      BY <1>1, <1>3
    <2>2. \A y : << y >> \o << >> = << y >>
      OBVIOUS
    <2>. QED  BY <2>1, <2>2
  <1>6. Listed(<< >>, {}) = << >>
    <2>1. << >> \o << >> = << >>
      OBVIOUS
    <2>. QED  BY <1>1, <1>2, <2>1
  <1>. QED  BY <1>4, <1>5, <1>6

\* What the reducer returns makes at most one handoff due: the one its ticket is of.
LEMMA DueOfEvent ==
  ASSUME NEW fx, Shaped(fx)
  PROVE  DueIn(fx) = IF Emits("escalate", fx) THEN {Session!TicketOf(fx)} ELSE {}
  <1>1. CASE ~ Emits("escalate", fx)
    BY <1>1 DEF Emits, DueIn, Here
  <1>2. CASE Emits("escalate", fx)
    <2>1. PICK x : fx = << x >>
      <3>1. \A x, y : x.kind = "send_message" /\ y.kind = "resolve" => ~ Emits("escalate", << x, y >>)
        BY DEF Emits
      <3>. QED  BY <1>2, <3>1 DEF Shaped
    <2>2. DOMAIN fx = {1} /\ fx[1] = x /\ x.kind = "escalate"
      BY <1>2, <2>1 DEF Emits
    <2>3. Here(fx, {"escalate"}) = {1} /\ DueIn(fx) = {HandoffOf(x)}
      BY <2>2 DEF Here, DueIn
    <2>4. (CHOOSE i \in DOMAIN fx : fx[i].kind = "escalate") = 1
      BY <2>2
    <2>5. Session!TicketOf(fx) = HandoffOf(x)
      BY <2>2, <2>4 DEF Session!TicketOf, HandoffOf
    <2>. QED  BY <1>2, <2>3, <2>5
  <1>. QED  BY <1>1, <1>2

-----------------------------------------------------------------------------
(* The work ahead is bounded by the input taken.                               *)

\* What a chain returns is one of the broker's outcomes, and the inputs pay for
\* the work ahead.
LoopInv ==
  /\ AgentInv
  /\ returning # None => returning.outcome \in Outcomes /\ returning.captain \in Captains
  /\ turns \in 0 .. MaxTurns /\ armed \in 0 .. MaxArmed
  /\ Owed \in Nat /\ Owed <= 1 + turns + armed

\* The session opens with one reply owed at most.
LEMMA LoopInitOK == Init => LoopInv
  <1>. SUFFICES ASSUME Init PROVE LoopInv
    OBVIOUS
  <1>1. /\ AgentInv /\ Shaped(effects)
        /\ stack = << effects >> /\ injectTool = << >> /\ injectGen = << >> /\ returning = None
        /\ armed = 0 /\ turns = 0
    BY AgentInitOK DEF Init
  <1>2. QueueOK(effects) /\ InQueue(effects, Replying) \in {0, 1}
    BY <1>1, ShapedQueue DEF Replying
  <1>3. Count(stack, Replying) \in {0, 1}
    BY <1>1, <1>2, OnlyQueue
  <1>4. PICK a \in {0, 1} : Owed = a + 0 + 0 + 0
    <2>1. Len(injectTool) = 0 /\ Len(injectGen) = 0
      BY <1>1
    <2>. QED  BY <1>1, <1>3, <2>1 DEF Owed
  <1>. QED  BY <1>1, <1>4, AgentAssumption DEF LoopInv

\* Every step keeps the bound.
LEMMA LoopNextOK ==
  ASSUME LoopInv, [Next]_vars
  PROVE  LoopInv'
  <1>1. /\ AgentInv /\ AgentInv'
        /\ turns \in 0 .. MaxTurns /\ armed \in 0 .. MaxArmed
        /\ Owed \in Nat /\ Owed <= 1 + turns + armed
        /\ MaxArmed \in Nat /\ MaxTurns \in Nat
    BY WorkOK, InputOK, AgentStutterOK, AgentAssumption DEF LoopInv, Next
  <1>2. returning' # None => returning'.outcome \in Outcomes /\ returning'.captain \in Captains
    <2>1. CASE \E outcome \in Outcomes, c \in Captains : RunChain(outcome, c)
      BY <2>1 DEF RunChain
    <2>2. CASE UNCHANGED returning \/ returning' = None
      BY <2>2 DEF LoopInv
    <2>. QED
      BY <2>1, <2>2 DEF Next, Work, Input, Say, OpenTicket, Record, QueueDone, InjectMidFlight,
         DeliverResult, DispatchNested, SendMessage, SendEvent, BeginTurn, Arm, vars, agentVars
  <1>3. CASE \E ev \in InjectedEvents : Arm(ev)
    <2>1. armed < MaxArmed /\ armed' = armed + 1 /\ UNCHANGED turns
      BY <1>3 DEF Arm
    <2>2. Owed' = Owed + 1
      BY <1>1, <1>3, ArmOwes
    <2>. QED  BY <1>1, <1>2, <2>1, <2>2 DEF LoopInv
  <1>4. CASE Fits /\ BeginTurn
    <2>1. turns < MaxTurns /\ turns' = turns + 1 /\ UNCHANGED armed
      BY <1>4 DEF BeginTurn
    <2>2. PICK owed \in Nat : Owed' = owed /\ owed <= Owed + 1
      BY <1>1, <1>4, TurnOwes
    <2>. QED  BY <1>1, <1>2, <2>1, <2>2 DEF LoopInv
  <1>5. ASSUME NEW owed \in Nat, Owed' = owed, owed <= Owed, UNCHANGED <<turns, armed>>
        PROVE  LoopInv'
    BY <1>1, <1>2, <1>5 DEF LoopInv
  <1>6. CASE Say \/ OpenTicket
    <2>1. PICK kind \in {"send_message", "escalate"} :
            Handling(kind) /\ SayThen(Rest) /\ UNCHANGED <<injectTool, returning, turns, armed>>
      BY <1>6 DEF Say, OpenTicket
    <2>. QED  BY <1>1, <1>5, <2>1, ReplyPays
  <1>7. CASE Record \/ QueueDone
    <2>1. UNCHANGED <<turns, armed>>
      BY <1>7 DEF Record, QueueDone
    <2>2. PICK owed \in Nat : Owed = owed /\ Owed' = owed
      BY <1>1, <1>7, SilentOwes
    <2>. QED  BY <1>5, <2>1, <2>2
  <1>8. CASE \E outcome \in Outcomes, c \in Captains : RunChain(outcome, c)
    <2>1. UNCHANGED <<turns, armed>>
      BY <1>8 DEF RunChain
    <2>2. PICK owed \in Nat : Owed = owed /\ Owed' = owed
      BY <1>1, <1>8, ChainOwes
    <2>. QED  BY <1>5, <2>1, <2>2
  <1>9. CASE InjectMidFlight \/ DeliverResult
    <2>1. UNCHANGED <<turns, armed>>
      BY <1>9 DEF InjectMidFlight, DeliverResult
    <2>. QED  BY <1>1, <1>5, <1>9, <2>1, LandedFits, LandedOwes
  <1>10. CASE DispatchNested
    <2>1. UNCHANGED <<turns, armed>>
      BY <1>10 DEF DispatchNested
    <2>. QED  BY <1>1, <1>5, <1>10, <2>1, NestedFits, NestedOwes
  <1>11. CASE UNCHANGED vars
    <2>1. UNCHANGED <<turns, armed>> /\ Owed' = Owed
      BY <1>11 DEF vars, agentVars, Owed
    <2>. QED  BY <1>1, <1>5, <2>1
  <1>12. CASE Input
    <2>1. ASSUME NEW flags \in Intents, SendMessage(flags) PROVE Fits /\ BeginTurn
      BY <1>1, <2>1, MessageFits DEF SendMessage, AgentInv
    <2>2. ASSUME NEW ev \in InjectedEvents, SendEvent(ev) PROVE Fits /\ BeginTurn
      BY <1>1, <2>2, ApplyFits DEF SendEvent, AgentInv
    <2>. QED  BY <1>3, <1>4, <1>12, <2>1, <2>2 DEF Input
  <1>. QED  BY <1>6, <1>7, <1>8, <1>9, <1>10, <1>11, <1>12 DEF Next, Work

\* No more chains are out than work is ahead.
LEMMA ChainsFitWork ==
  ASSUME NEW st, StackOK(st)
  PROVE  /\ Cardinality(Waiting(st, "call_tool_chain")) = Count(st, {"call_tool_chain"})
         /\ Count(st, {"call_tool_chain"}) \in Nat /\ Count(st, Replying) \in Nat
         /\ Count(st, {"call_tool_chain"}) <= Count(st, Replying)
  <1>1. Places(st, {"call_tool_chain"}) \subseteq Places(st, Replying)
    BY DEF Places, Here, Replying, Asking
  <1>2. IsFiniteSet(Places(st, Replying))
    BY DEF StackOK
  <1>. QED  BY <1>1, <1>2, FS_Subset, WaitingPlaces, CountsAreNat DEF Count

-----------------------------------------------------------------------------
(* The session the loop is mapped to is driven by the same reducer: each of its *)
(* handlers, instantiated there, takes the same step.                          *)

\* The engine's matching, overrides and modes.
LEMMA SameMatching ==
  /\ \A t, d : Session!MatchedRule(t, d) = MatchedRule(t, d)
  /\ \A o : Session!ActiveOverrides(o) = ActiveOverrides(o)
  /\ \A o : Session!SuppressedRules(o) = SuppressedRules(o)
  /\ \A o : Session!EscalationModeFor(o) = EscalationModeFor(o)
  <1>1. \A t, d : Session!MatchedRule(t, d) = MatchedRule(t, d)
    BY Zenon DEF Session!MatchedRule, MatchedRule, Session!Matches, Matches,
       Session!DelayMatches, DelayMatches
  <1>2. \A o : Session!ActiveOverrides(o) = ActiveOverrides(o)
    BY Zenon DEF Session!ActiveOverrides, ActiveOverrides
  <1>3. \A o : Session!SuppressedRules(o) = SuppressedRules(o)
    BY DEF Session!SuppressedRules, SuppressedRules
  <1>4. \A o : Session!EscalationModeFor(o) = EscalationModeFor(o)
    BY <1>2 DEF Session!EscalationModeFor, EscalationModeFor
  <1>. QED  BY <1>1, <1>2, <1>3, <1>4

\* The engine's envelopes and branches.
LEMMA SameEnvelopes ==
  /\ \A a, r, c, o : Session!Envelope(a, r, c, o) = Envelope(a, r, c, o)
  /\ \A r, c, o : Session!Handoff(r, c, o) = Handoff(r, c, o)
  /\ \A env : Session!EscalateForRepetition(env) = EscalateForRepetition(env)
  /\ \A f, x : Session!Asks(f, x) <=> Asks(f, x)
  <1>1. \A a, r, c, o : Session!Envelope(a, r, c, o) = Envelope(a, r, c, o)
    BY SameMatching DEF Session!Envelope, Envelope
  <1>2. \A r, c, o : Session!Handoff(r, c, o) = Handoff(r, c, o)
    BY <1>1 DEF Session!Handoff, Handoff
  <1>3. \A env : Session!EscalateForRepetition(env) = EscalateForRepetition(env)
    BY DEF Session!EscalateForRepetition, EscalateForRepetition
  <1>4. \A f, x : Session!Asks(f, x) <=> Asks(f, x)
    BY DEF Session!Asks, Asks
  <1>. QED  BY <1>1, <1>2, <1>3, <1>4

\* a rule and an override branch alike,
LEMMA SameBranches ==
  /\ \A r, f, p, o : Session!ApplyRule(r, f, p, o) = ApplyRule(r, f, p, o)
  /\ \A r, f, o : Session!ApplyOverride(r, f, o) = ApplyOverride(r, f, o)
  <1>1. \A r, p, o : Session!ClarifyOrLoopGuard(r, p, o) = ClarifyOrLoopGuard(r, p, o)
    BY SameEnvelopes DEF Session!ClarifyOrLoopGuard, ClarifyOrLoopGuard
  <1>2. \A r, f, p, o : Session!ReactiveR2(r, f, p, o) = ReactiveR2(r, f, p, o)
    BY <1>1, SameEnvelopes DEF Session!ReactiveR2, ReactiveR2
  <1>3. \A r, f, p, o : Session!ReactiveR4(r, f, p, o) = ReactiveR4(r, f, p, o)
    BY <1>1, SameEnvelopes DEF Session!ReactiveR4, ReactiveR4
  <1>4. \A r, f, p, o : Session!ApplyRule(r, f, p, o) = ApplyRule(r, f, p, o)
    BY <1>2, <1>3, SameEnvelopes DEF Session!ApplyRule, ApplyRule
  <1>5. \A r, f, o : Session!ApplyOverride(r, f, o) = ApplyOverride(r, f, o)
    BY SameEnvelopes DEF Session!ApplyOverride, ApplyOverride
  <1>. QED  BY <1>4, <1>5

\* One engine decides in both.
LEMMA SameDecision ==
  \A t, d, o, p, f : Session!Decide(t, d, o, p, f) = Decide(t, d, o, p, f)
  BY SameMatching, SameEnvelopes, SameBranches DEF Session!Decide, Decide

\* One record.
LEMMA SameRecord ==
  /\ Session!Live <=> Live
  /\ context' = context => Session!context' = Session!context
  /\ data' = data => Session!data' = Session!data
  /\ routed' = routed => Session!routed' = Session!routed
  /\ counters' = counters => Session!counters' = Session!counters
  /\ sessionVars' = sessionVars => Session!sessionVars' = Session!sessionVars
  BY DEF Session!Live, Live, Session!TerminalStates, TerminalStates,
     Session!context, context, Session!data, data, Session!routed, routed,
     Session!counters, counters, Session!sessionVars, sessionVars

\* One routing.
LEMMA SameRouting ==
  /\ \A a : Session!RoutedFsm(a) = RoutedFsm(a)
  /\ \A env, e : /\ Session!RoutedPending(env, e) = RoutedPending(env, e)
                 /\ Session!RoutedEffects(env, e) = RoutedEffects(env, e)
  /\ \A env : /\ Session!RoutedReason(env) = RoutedReason(env)
              /\ Session!Decision(env) = Decision(env)
  /\ \A k, fx : Session!Emits(k, fx) <=> Emits(k, fx)
  /\ Session!Log = Log
  <1>1. /\ \A a : Session!RoutedFsm(a) = RoutedFsm(a)
        /\ \A env, e : Session!RoutedPending(env, e) = RoutedPending(env, e)
        /\ \A env : Session!Decision(env) = Decision(env)
        /\ \A k, fx : Session!Emits(k, fx) <=> Emits(k, fx)
        /\ Session!Log = Log
    BY DEF Session!RoutedFsm, RoutedFsm, Session!RoutedPending, RoutedPending,
       Session!Decision, Decision, Session!ReassignActions, ReassignActions,
       Session!Emits, Emits, Session!Log, Log
  <1>2. \A env : Session!RoutedReason(env) = RoutedReason(env)
    BY <1>1 DEF Session!RoutedReason, RoutedReason, Session!TerminalStates, TerminalStates
  <1>3. \A env, e : Session!RoutedEffects(env, e) = RoutedEffects(env, e)
    BY <1>1 DEF Session!RoutedEffects, RoutedEffects, Session!ReassignActions, ReassignActions,
       Session!Send, Send, Session!CallToolChain, CallToolChain, Session!Escalation, Escalation,
       Session!Resolution, Resolution
  <1>. QED  BY <1>1, <1>2, <1>3

\* A decision is routed alike,
LEMMA SameRoute == \A env, e : Route(env, e) => Session!Route(env, e)
  BY SameRouting DEF Route, Session!Route

\* a handoff outside the engine is alike,
LEMMA SameEscalate == \A reason : Escalate(reason) => Session!Escalate(reason)
  BY SameMatching DEF Escalate, Session!Escalate, Session!Escalation, Escalation

\* a message,
LEMMA SameMessage ==
  ASSUME NEW flags, MerchantMessage(flags)
  PROVE  Session!MerchantMessage(flags)
  BY SameRecord, SameDecision, SameRoute, SameRouting, SameEnvelopes
     DEF MerchantMessage, Session!MerchantMessage, MessageInFlight, Session!MessageInFlight,
         AnswerMessage, Session!AnswerMessage, NextPushes, Session!NextPushes,
         NextSignature, Session!NextSignature, NextRepeats, Session!NextRepeats,
         NextStalls, Session!NextStalls, Stuck, Session!Stuck, Signature, Session!Signature,
         StallActions, Session!StallActions, NonProgressingActions, Session!NonProgressingActions

\* an event during a call,
LEMMA SameAsyncEvent ==
  ASSUME NEW d, NEW c, OnAsyncEvent(d, c)
  PROVE  Session!OnAsyncEvent(d, c)
  BY SameRecord, SameDecision, SameRoute, SameRouting
     DEF OnAsyncEvent, Session!OnAsyncEvent, ReassignPremiseActions,
         Session!ReassignPremiseActions, ReassignActions, Session!ReassignActions

\* a new estimate,
LEMMA SameEta ==
  ASSUME NEW eta, EtaUpdated(eta)
  PROVE  Session!EtaUpdated(eta)
  BY SameAsyncEvent DEF EtaUpdated, Session!EtaUpdated, Max2, Session!Max2

\* a captain who gives up,
LEMMA SameCancelled == CaptainCancelled => Session!CaptainCancelled
  BY SameAsyncEvent DEF CaptainCancelled, Session!CaptainCancelled

\* an order that is ready,
LEMMA SamePrepCompleted == PrepCompleted => Session!PrepCompleted
  BY SameRecord DEF PrepCompleted, Session!PrepCompleted, Resolution, Session!Resolution

\* the timers and the tick,
LEMMA SameTimers ==
  ASSUME ReplyTimeout \/ ToolTimeout \/ Reevaluate
  PROVE  Session!Timer
  <1>1. ReplyTimeout => Session!ReplyTimeout
    BY SameRecord, SameEscalate, SameRoute, SameRouting, SameDecision
       DEF ReplyTimeout, Session!ReplyTimeout
  <1>2. ToolTimeout => Session!ToolTimeout
    BY SameRecord, SameEscalate, SameRouting DEF ToolTimeout, Session!ToolTimeout
  <1>3. Reevaluate => Session!Reevaluate
    BY SameRecord, SameRoute, SameDecision DEF Reevaluate, Session!Reevaluate
  <1>. QED  BY <1>1, <1>2, <1>3 DEF Session!Timer

\* a message nothing could read,
LEMMA SameUnavailable == ClassifierUnavailable => Session!ClassifierUnavailable
  BY SameRecord, SameEscalate DEF ClassifierUnavailable, Session!ClassifierUnavailable

\* the result of a chain,
LEMMA SameResult ==
  ASSUME NEW outcome, NEW c, ToolResult(outcome, c)
  PROVE  Session!ToolResult(outcome, c)
  BY SameRecord, SameEscalate
     DEF ToolResult, Session!ToolResult, ApplyToolResult, Session!ApplyToolResult,
         ReconcileToolResult, Session!ReconcileToolResult, AwaitingResult,
         Session!AwaitingResult, Assigning, Session!Assigning, Send, Session!Send,
         Reconciled, Session!Reconciled

\* what reaches a closed session,
LEMMA SameInert ==
  ASSUME NEW kind, Inert(kind)
  PROVE  Session!Inert(kind)
  BY SameRecord DEF Inert, Session!Inert

\* and the turn-0 decision.
LEMMA SameBootstrap ==
  ASSUME NEW t, NEW d, NEW c, NEW o, Bootstrap(t, d, c, o)
  PROVE  Session!Bootstrap(t, d, c, o)
  BY SameDecision, SameRouting DEF Bootstrap, Session!Bootstrap

-----------------------------------------------------------------------------
(* Every step of the loop is a step of the session, or none.                   *)

\* An event handled by the reducer, when what it asks for is queued and nothing
\* else: n chains were out beside it.
LEMMA EffectsRun ==
  ASSUME LoopInv, LoopInv', Fits, UNCHANGED tickets, NEW n \in Nat,
         Due(stack') = Due(stack) \cup DueIn(effects'),
         ChainsOut' = n + InQueue(effects', {"call_tool_chain"})
  PROVE  /\ Session!RunEffects(n)
         /\ ~ Live => ChainsOut' = n /\ Handoffs' = Handoffs
  <1>1. PICK fx : fx = effects'
    OBVIOUS
  <1>2. Shaped(fx) /\ (Emits("escalate", fx) <=> Live /\ fsm' = "ESCALATED")
        /\ (~ Live => \A k \in Asking : ~ Emits(k, fx))
    BY <1>1 DEF Fits
  <1>3. ChainsOut' = IF Emits("call_tool_chain", fx) THEN n + 1 ELSE n
    BY <1>1, <1>2, ShapedQueue
  <1>4. DueIn(fx) = IF Emits("escalate", fx) THEN {Session!TicketOf(fx)} ELSE {}
    BY <1>2, DueOfEvent
  <1>5. ChainsOut' <= 1 + MaxArmed + MaxTurns
    <2>1. /\ Owed' \in Nat /\ Owed' <= 1 + turns' + armed'
          /\ turns' \in 0 .. MaxTurns /\ armed' \in 0 .. MaxArmed /\ ShapesOK'
      BY DEF LoopInv, AgentInv
    <2>2. MaxTurns \in Nat /\ MaxArmed \in Nat
      BY AgentAssumption
    <2>3. /\ Count(stack', {"call_tool_chain"}) \in Nat /\ Count(stack', Replying) \in Nat
          /\ Count(stack', {"call_tool_chain"}) <= Count(stack', Replying)
          /\ Cardinality(Waiting(stack', "call_tool_chain")) = Count(stack', {"call_tool_chain"})
      BY <2>1, ChainsFitWork DEF ShapesOK
    <2>4. Len(injectTool') \in Nat /\ Len(injectGen') \in Nat
      BY <2>1 DEF ShapesOK
    <2>5. PICK r \in {0, 1} : r = IF returning' = None THEN 0 ELSE 1
      OBVIOUS
    <2>6. /\ Owed' = Count(stack', Replying) + r + Len(injectTool') + Len(injectGen')
          /\ ChainsOut' = Count(stack', {"call_tool_chain"}) + r
      BY <2>3, <2>5 DEF Owed, ChainsOut
    <2>. QED  BY <2>1, <2>2, <2>3, <2>4, <2>5, <2>6
  <1>6. Handoffs' = IF Emits("escalate", fx) THEN Append(Handoffs, Session!TicketOf(fx)) ELSE Handoffs
    <2>1. CASE ~ Emits("escalate", fx)
      <3>1. Due(stack') = Due(stack)
        BY <1>1, <1>4, <2>1
      <3>. QED  BY <2>1, <3>1 DEF Handoffs
    <2>2. CASE Emits("escalate", fx)
      <3>1. ShapesOK /\ TicketOwed /\ fsm # "ESCALATED"
        BY <1>2, <2>2 DEF LoopInv, AgentInv, Live, TerminalStates
      <3>2. Len(tickets) = 0 /\ Count(stack, {"escalate"}) = 0
        BY <3>1, TicketsLen DEF TicketOwed
      <3>3. tickets = << >> /\ Due(stack) = {}
        <4>1. PICK S : tickets \in Seq(S)
          BY <3>1 DEF ShapesOK
        <4>. QED  BY <3>1, <3>2, <4>1, DueOfStack DEF ShapesOK
      <3>4. Due(stack') = {Session!TicketOf(fx)}
        BY <1>1, <1>4, <2>2, <3>3
      <3>5. Handoffs = << >> /\ Handoffs' = << Session!TicketOf(fx) >>
        BY <3>3, <3>4, ListedFirst DEF Handoffs
      <3>. QED  BY <2>2, <3>5
    <2>. QED  BY <2>1, <2>2
  <1>7. Session!RunEffects(n)
    <2>1. \A k : Session!Emits(k, effects') <=> Emits(k, fx)
      BY <1>1, SameRouting
    <2>2. Emits("call_tool_chain", fx) => n < 1 + MaxArmed + MaxTurns
      BY <1>3, <1>5, AgentAssumption
    <2>3. Handoffs' = IF Emits("escalate", fx) THEN Append(Handoffs, Session!TicketOf(effects'))
                      ELSE Handoffs
      BY <1>1, <1>6
    <2>. QED  BY <1>3, <2>1, <2>2, <2>3, Zenon DEF Session!RunEffects
  <1>8. ~ Live => ~ Emits("call_tool_chain", fx) /\ ~ Emits("escalate", fx)
    BY <1>2 DEF Asking
  <1>. QED  BY <1>3, <1>6, <1>7, <1>8


\* The session opens.
LEMMA SessionInitOK == Init => Session!Init
  <1>. SUFFICES ASSUME Init PROVE Session!Init
    OBVIOUS
  <1>1. PICK t \in MerchantTiers, d \in InitialDelays, o \in OverrideLists :
          Bootstrap(t, d, OriginalCaptain, o)
    BY DEF Init
  <1>2. t \in Session!Tiers
    BY AgentAssumption DEF Session!Tiers, Tiers
  <1>3. Session!Bootstrap(t, d, OriginalCaptain, o)
    BY <1>1, SameBootstrap
  <1>4. /\ Shaped(effects) /\ tickets = << >> /\ returning = None
        /\ stack = << effects >> /\ QueueOK(effects) /\ StackOK(stack)
        /\ \A kinds : Count(stack, kinds) = InQueue(effects, kinds)
    <2>1. Shaped(effects) /\ tickets = << >> /\ returning = None /\ stack = << effects >>
      BY AgentInitOK DEF Init
    <2>. QED  BY <2>1, ShapedQueue, OnlyQueue
  <1>5. ChainsOut = IF Emits("call_tool_chain", effects) THEN 1 ELSE 0
    <2>1. ChainsOut = InQueue(effects, {"call_tool_chain"}) + 0
      BY <1>4, ChainsFitWork DEF ChainsOut
    <2>. QED  BY <1>4, <2>1, ShapedQueue
  <1>6. Handoffs = IF Emits("escalate", effects) THEN << Session!TicketOf(effects) >> ELSE << >>
    <2>1. Due(stack) = DueIn(effects)
      <3>1. << effects >> \o << >> = << effects >>
        OBVIOUS
      <3>2. Due(<< >>) = {}
        BY NothingThere, DueOfStack
      <3>. QED  BY <1>4, <3>1, <3>2, NothingThere, DuePush
    <2>2. Due(stack) = IF Emits("escalate", effects) THEN {Session!TicketOf(effects)} ELSE {}
      BY <1>4, <2>1, DueOfEvent
    <2>. QED  BY <1>4, <2>2, ListedFirst DEF Handoffs
  <1>7. \E tt \in Session!Tiers, dd \in InitialDelays,
           cc \in (Captains \cup {OriginalCaptain}) \cup {None}, oo \in OverrideLists :
           Session!Bootstrap(tt, dd, cc, oo)
    BY <1>2, <1>3
  <1>. QED  BY <1>5, <1>6, <1>7, SameRouting DEF Session!Init

\* An event is one of the session's, or reaches it closed.
LEMMA EventIsMapped ==
  ASSUME NEW ev \in InjectedEvents, Apply(ev)
  PROVE  Session!Async \/ Session!Timer \/ Inert("log")
  <1>1. ev.type \in EventTypes
    BY AgentAssumption
  <1>2. CASE ev.type = "SYSTEM_ETA_UPDATED"
    <2>1. ev.eta \in InjectedEtas
      BY <1>2 DEF InjectedEtas
    <2>2. EtaUpdated(ev.eta) \/ Inert("log")
      BY <1>2 DEF Apply
    <2>. QED  BY <2>1, <2>2, SameEta DEF Session!Async
  <1>3. CASE ev.type # "SYSTEM_ETA_UPDATED"
    <2>1. \/ CaptainCancelled \/ PrepCompleted
          \/ ReplyTimeout \/ ToolTimeout \/ Reevaluate \/ Inert("log")
      BY <1>1, <1>3 DEF Apply, EventTypes
    <2>. QED  BY <2>1, SameCancelled, SamePrepCompleted, SameTimers DEF Session!Async
  <1>. QED  BY <1>2, <1>3

\* A step that applies an event is one of the session's.
LEMMA EventSteps ==
  ASSUME LoopInv, LoopInv', Fits, UNCHANGED <<tickets, returning>>,
         \/ Session!Message \/ Session!Async \/ Session!Timer \/ Session!ClassifierUnavailable
         \/ Inert("log"),
         Due(stack') = Due(stack) \cup DueIn(effects'),
         Count(stack', {"call_tool_chain"}) =
           Count(stack, {"call_tool_chain"}) + InQueue(effects', {"call_tool_chain"})
  PROVE  Session!Next
  <1>1. StackOK(stack) /\ StackOK(stack') /\ QueueOK(effects')
    BY EventAsksOnce DEF LoopInv, AgentInv, ShapesOK
  <1>2. /\ Count(stack, {"call_tool_chain"}) \in Nat /\ InQueue(effects', {"call_tool_chain"}) \in Nat
        /\ ChainsOut = Count(stack, {"call_tool_chain"}) + IF returning = None THEN 0 ELSE 1
        /\ ChainsOut' = Count(stack', {"call_tool_chain"}) + IF returning = None THEN 0 ELSE 1
    BY <1>1, ChainsFitWork, CountsAreNat DEF ChainsOut
  <1>3. ChainsOut \in Nat /\ ChainsOut' = ChainsOut + InQueue(effects', {"call_tool_chain"})
    BY <1>2
  <1>4. /\ Session!RunEffects(ChainsOut)
        /\ ~ Live => ChainsOut' = ChainsOut /\ Handoffs' = Handoffs
    BY <1>3, EffectsRun
  <1>5. CASE Inert("log")
    <2>1. Session!Inert("log") /\ ChainsOut' = ChainsOut /\ Handoffs' = Handoffs
      BY <1>4, <1>5, SameInert DEF Inert
    <2>2. Session!LateEvent
      BY <2>1 DEF Session!LateEvent
    <2>. QED  BY <2>2 DEF Session!Next
  <1>6. CASE \/ Session!Message \/ Session!Async \/ Session!Timer
             \/ Session!ClassifierUnavailable
    <2>1. Session!Event
      BY <1>4, <1>6 DEF Session!Event
    <2>. QED  BY <2>1 DEF Session!Next
  <1>. QED  BY <1>5, <1>6

\* A turn begins with an event or a message.
LEMMA InputSteps ==
  ASSUME LoopInv, LoopInv', Fits, BeginTurn,
         \/ Session!Message \/ Session!Async \/ Session!Timer \/ Session!ClassifierUnavailable
         \/ Inert("log")
  PROVE  Session!Next
  <1>1. PICK fx : fx = effects'
    OBVIOUS
  <1>2. stack = << >> /\ stack' = << fx >> /\ UNCHANGED <<tickets, returning>>
    BY <1>1 DEF BeginTurn, Idle
  <1>3. QueueOK(fx)
    BY <1>1, EventAsksOnce
  <1>4. Due(stack') = Due(stack) \cup DueIn(effects')
    <2>1. << fx >> \o << >> = << fx >>
      OBVIOUS
    <2>2. Due(<< fx >> \o << >>) = DueIn(fx) \cup Due(<< >>)
      BY <1>3, NothingThere, DuePush
    <2>3. Due(stack') = DueIn(effects') \cup Due(stack)
      BY <1>1, <1>2, <2>1, <2>2
    <2>. QED  BY <2>3
  <1>5. Count(stack', {"call_tool_chain"}) =
          Count(stack, {"call_tool_chain"}) + InQueue(effects', {"call_tool_chain"})
    <2>1. /\ Count(stack', {"call_tool_chain"}) = InQueue(effects', {"call_tool_chain"})
          /\ Count(stack, {"call_tool_chain"}) = 0 /\ InQueue(fx, {"call_tool_chain"}) \in Nat
      BY <1>3, TurnOwes, CountsAreNat DEF LoopInv
    <2>. QED  BY <1>1, <2>1
  <1>. QED  BY <1>2, <1>4, <1>5, EventSteps

\* An event lands while a chain runs.
LEMMA LandingSteps ==
  ASSUME LoopInv, LoopInv', InjectMidFlight
  PROVE  Session!Next
  <1>1. AgentInv /\ StackOK(stack)
    BY DEF LoopInv, AgentInv, ShapesOK
  <1>2. /\ Fits /\ FollowUp /\ stack # << >> /\ UNCHANGED <<tickets, returning>>
        /\ Head(injectTool) \in InjectedEvents /\ Apply(Head(injectTool))
    BY <1>1, LandedFits DEF InjectMidFlight, AgentInv, ShapesOK
  <1>3. Session!Async \/ Session!Timer \/ Inert("log")
    BY <1>2, EventIsMapped
  <1>4. Due(stack') = Due(stack) \cup DueIn(effects')
    BY <1>1, <1>2, EventAsksOnce, FollowUpDue
  <1>5. Count(stack', {"call_tool_chain"}) =
          Count(stack, {"call_tool_chain"}) + InQueue(effects', {"call_tool_chain"})
    BY <1>1, <1>2, LandedOwes
  <1>. QED  BY <1>2, <1>3, <1>4, <1>5, EventSteps

\* An event is dispatched after the reply it was injected before.
LEMMA NestedSteps ==
  ASSUME LoopInv, LoopInv', DispatchNested
  PROVE  Session!Next
  <1>1. AgentInv /\ StackOK(stack)
    BY DEF LoopInv, AgentInv, ShapesOK
  <1>2. /\ Fits /\ Handling("event") /\ Apply(Next1.event) /\ UNCHANGED <<tickets, returning>>
    BY <1>1, NestedFits DEF DispatchNested
  <1>3. Next1.event \in InjectedEvents
    BY <1>1, <1>2, NextItem DEF ItemOK, Handling
  <1>4. Session!Async \/ Session!Timer \/ Inert("log")
    BY <1>2, <1>3, EventIsMapped
  <1>5. Due(stack') = Due(stack) \cup DueIn(effects')
    <2>1. PICK fx : fx = effects' /\ stack' = << fx >> \o Rest
      BY DEF DispatchNested
    <2>2. QueueOK(fx) /\ StackOK(Rest) /\ Due(stack) = Due(Rest)
      BY <1>1, <1>2, <2>1, EventAsksOnce, TakeWork, TakeDue
    <2>. QED  BY <2>1, <2>2, DuePush
  <1>6. Count(stack', {"call_tool_chain"}) =
          Count(stack, {"call_tool_chain"}) + InQueue(effects', {"call_tool_chain"})
    BY <1>1, <1>2, NestedOwes
  <1>. QED  BY <1>2, <1>4, <1>5, <1>6, EventSteps

\* A result is delivered: the session's chain returns.
LEMMA DeliverySteps ==
  ASSUME LoopInv, LoopInv', DeliverResult
  PROVE  Session!Next
  <1>1. AgentInv /\ StackOK(stack) /\ StackOK(stack') /\ stack # << >>
    BY DEF LoopInv, AgentInv, ShapesOK, DeliverResult
  <1>2. /\ Fits /\ FollowUp /\ UNCHANGED tickets /\ returning # None /\ returning' = None
        /\ returning.outcome \in Outcomes /\ returning.captain \in Captains
        /\ ToolResult(returning.outcome, returning.captain) \/ Inert("reconcile")
    BY <1>1, LandedFits DEF DeliverResult, LoopInv
  <1>3. QueueOK(effects')
    BY <1>2, EventAsksOnce
  <1>4. Due(stack') = Due(stack) \cup DueIn(effects')
    BY <1>1, <1>2, <1>3, FollowUpDue
  <1>. DEFINE n == Count(stack, {"call_tool_chain"})
  <1>5. /\ n \in Nat /\ ChainsOut = n + 1
        /\ ChainsOut' = n + InQueue(effects', {"call_tool_chain"})
    <2>1. /\ n \in Nat /\ InQueue(effects', {"call_tool_chain"}) \in Nat
          /\ Cardinality(Waiting(stack, "call_tool_chain")) = n
          /\ Cardinality(Waiting(stack', "call_tool_chain")) = Count(stack', {"call_tool_chain"})
      BY <1>1, <1>3, ChainsFitWork, CountsAreNat
    <2>2. Count(stack', {"call_tool_chain"}) = n + InQueue(effects', {"call_tool_chain"})
      BY <1>1, <1>2, LandedOwes
    <2>. QED  BY <1>2, <2>1, <2>2 DEF ChainsOut
  <1>. HIDE DEF n
  <1>6. Session!RunEffects(n)
    BY <1>2, <1>4, <1>5, EffectsRun
  <1>7. ChainsOut # 0 /\ ChainsOut - 1 = n
    BY <1>5
  <1>8. \/ \E outcome \in Session!Outcomes, c \in Captains \cup {OriginalCaptain} :
             Session!ToolResult(outcome, c)
        \/ Session!Inert("reconcile")
    <2>1. returning.outcome \in Session!Outcomes
      BY <1>2 DEF Outcomes, Session!Outcomes
    <2>. QED  BY <1>2, <2>1, SameResult, SameInert
  <1>9. Session!ToolReturns
    BY <1>6, <1>7, <1>8 DEF Session!ToolReturns
  <1>. QED  BY <1>9 DEF Session!Next

\* Running the effects shows nothing: what is dispatched is out until its result is
\* delivered, and a handoff is listed from the decision on.
LEMMA QuietSteps ==
  ASSUME LoopInv, LoopInv',
         \/ Say \/ OpenTicket \/ Record \/ QueueDone
         \/ \E outcome \in Outcomes, c \in Captains : RunChain(outcome, c)
         \/ \E ev \in InjectedEvents : Arm(ev)
         \/ UNCHANGED vars
  PROVE  UNCHANGED Session!vars
  <1>1. /\ AgentInv /\ ShapesOK /\ StackOK(stack) /\ StackOK(stack')
        /\ injectGen \in Seq(InjectedEvents)
        /\ \A kinds : Count(stack, kinds) \in Nat /\ Count(stack', kinds) \in Nat
    BY CountsAreNat DEF LoopInv, AgentInv, ShapesOK
  <1>2. UNCHANGED <<sessionVars, effects>>
    BY DEF Say, OpenTicket, Record, QueueDone, RunChain, Arm, vars
  <1>3. /\ ChainsOut = Count(stack, {"call_tool_chain"}) + IF returning = None THEN 0 ELSE 1
        /\ ChainsOut' = Count(stack', {"call_tool_chain"}) + IF returning' = None THEN 0 ELSE 1
    BY <1>1, ChainsFitWork DEF ChainsOut
  <1>4. ASSUME ChainsOut' = ChainsOut, Handoffs' = Handoffs
        PROVE  UNCHANGED Session!vars
    BY <1>2, <1>4, SameRecord DEF Session!vars
  <1>5. ASSUME NEW kind, Handling(kind)
        PROVE  /\ StackOK(Rest)
               /\ Count(Rest, {"call_tool_chain"}) =
                    Count(stack, {"call_tool_chain"}) - One(kind, {"call_tool_chain"})
               /\ kind # "escalate" => Due(stack) = Due(Rest)
               /\ kind = "escalate" => Due(stack) = Due(Rest) \cup {HandoffOf(Next1)}
    BY <1>1, <1>5, TakeWork, TakeDue
  <1>6. ASSUME SayThen(Rest), StackOK(Rest)
        PROVE  /\ Count(stack', {"call_tool_chain"}) = Count(Rest, {"call_tool_chain"})
               /\ Due(stack') = Due(Rest)
    <2>1. /\ Count(stack', {"call_tool_chain"}) = Count(Rest, {"call_tool_chain"}) + 0
          /\ Count(Rest, {"call_tool_chain"}) \in Nat
      BY <1>1, <1>6, SayThenWork, CountsAreNat
    <2>. QED  BY <1>1, <1>6, <2>1, SayThenDue
  <1>7. CASE Say
    <2>1. Handling("send_message") /\ SayThen(Rest) /\ UNCHANGED <<returning, tickets>>
      BY <1>7 DEF Say
    <2>2. Due(stack') = Due(stack) /\ Count(stack', {"call_tool_chain"}) = Count(stack, {"call_tool_chain"})
      BY <1>1, <1>5, <1>6, <2>1 DEF One
    <2>. QED  BY <1>3, <1>4, <2>1, <2>2 DEF Handoffs
  <1>8. CASE OpenTicket
    <2>. DEFINE ticket == [reason |-> Next1.reason, mode |-> Next1.mode, rule |-> lastAction.rule]
    <2>1. /\ Handling("escalate") /\ SayThen(Rest) /\ UNCHANGED returning
          /\ tickets' = Append(tickets, ticket)
      BY <1>8 DEF OpenTicket
    <2>2. HandoffOf(ticket) = HandoffOf(Next1)
      BY DEF HandoffOf
    <2>. HIDE DEF ticket
    <2>3. Count(stack', {"call_tool_chain"}) = Count(stack, {"call_tool_chain"})
      BY <1>1, <1>5, <1>6, <2>1 DEF One
    <2>4. /\ Count(Rest, {"escalate"}) = Count(stack, {"escalate"}) - 1
          /\ Count(Rest, {"escalate"}) \in Nat
      BY <1>1, <2>1, TakeWork, CountsAreNat DEF One
    <2>5. tickets = << >> /\ Count(Rest, {"escalate"}) = 0
      <3>1. PICK S : tickets \in Seq(S)
        BY <1>1 DEF ShapesOK
      <3>2. Len(tickets) \in Nat /\ Len(tickets) + Count(stack, {"escalate"}) \in {0, 1}
        BY <1>1, <3>1 DEF AgentInv, TicketOwed
      <3>3. Len(tickets) = 0 /\ Count(Rest, {"escalate"}) = 0
        BY <1>1, <2>4, <3>2
      <3>. QED  BY <3>1, <3>3
    <2>6. Due(stack) = {HandoffOf(ticket)} /\ Due(stack') = {} /\ tickets' = << ticket >>
      <3>1. Due(Rest) = {}
        BY <1>5, <2>1, <2>5, DueOfStack
      <3>. QED  BY <1>5, <1>6, <2>1, <2>2, <2>5, <3>1
    <2>7. Handoffs' = Handoffs
      BY <2>5, <2>6, ListedFirst DEF Handoffs
    <2>. QED  BY <1>3, <1>4, <2>1, <2>3, <2>7
  <1>9. CASE Record
    <2>1. PICK kind \in {"log", "resolve", "reconcile"} :
            Handling(kind) /\ stack' = Rest /\ UNCHANGED <<returning, tickets>>
      BY <1>9 DEF Record
    <2>2. Due(stack') = Due(stack) /\ Count(stack', {"call_tool_chain"}) = Count(stack, {"call_tool_chain"})
      BY <1>1, <1>5, <2>1 DEF One
    <2>. QED  BY <1>3, <1>4, <2>1, <2>2 DEF Handoffs
  <1>10. CASE QueueDone
    <2>1. /\ stack # << >> /\ Head(stack) = << >> /\ stack' = Tail(stack)
          /\ UNCHANGED <<returning, tickets>>
      BY <1>10 DEF QueueDone, Top
    <2>2. Count(stack', {"call_tool_chain"}) = Count(stack, {"call_tool_chain"})
      BY <1>1, <1>10, SilentOwes
    <2>3. Due(stack') = Due(stack)
      <3>1. DueIn(<< >>) = {}
        BY DEF DueIn, Here
      <3>. QED  BY <1>1, <2>1, <3>1, DuePop
    <2>. QED  BY <1>3, <1>4, <2>1, <2>2, <2>3 DEF Handoffs
  <1>11. CASE \E outcome \in Outcomes, c \in Captains : RunChain(outcome, c)
    <2>1. /\ Handling("call_tool_chain") /\ returning = None /\ stack' = Rest /\ UNCHANGED tickets
          /\ returning' # None
      BY <1>11, AgentAssumption DEF RunChain, Handling
    <2>2. Due(stack') = Due(stack)
      BY <1>5, <2>1
    <2>3. Count(stack, {"call_tool_chain"}) = Count(stack', {"call_tool_chain"}) + 1
      BY <1>1, <1>11, ChainOwes
    <2>. QED  BY <1>1, <1>3, <1>4, <2>1, <2>2, <2>3 DEF Handoffs
  <1>12. CASE (\E ev \in InjectedEvents : Arm(ev)) \/ UNCHANGED vars
    <2>1. UNCHANGED <<stack, returning, tickets>>
      BY <1>12 DEF Arm, vars, agentVars
    <2>. QED  BY <1>3, <1>4, <2>1 DEF Handoffs
  <1>. QED  BY <1>7, <1>8, <1>9, <1>10, <1>11, <1>12

\* Every step of the loop is one of the session's, or shows nothing.
LEMMA LoopSteps ==
  ASSUME LoopInv, LoopInv', [Next]_vars
  PROVE  [Session!Next]_(Session!vars)
  <1>1. ASSUME NEW flags \in Intents, SendMessage(flags) PROVE Session!Next
    <2>1. Fits /\ BeginTurn
      BY <1>1, MessageFits DEF SendMessage, LoopInv, AgentInv
    <2>2. Session!Message \/ Session!ClassifierUnavailable \/ Inert("log")
      BY <1>1, SameMessage, SameUnavailable DEF SendMessage, Session!Message
    <2>. QED  BY <2>1, <2>2, InputSteps
  <1>2. ASSUME NEW ev \in InjectedEvents, SendEvent(ev) PROVE Session!Next
    <2>1. Fits /\ BeginTurn
      BY <1>2, ApplyFits DEF SendEvent, LoopInv, AgentInv
    <2>2. Session!Async \/ Session!Timer \/ Inert("log")
      BY <1>2, EventIsMapped DEF SendEvent
    <2>. QED  BY <2>1, <2>2, InputSteps
  <1>. QED  BY <1>1, <1>2, LandingSteps, NestedSteps, DeliverySteps, QuietSteps DEF Next, Work, Input

-----------------------------------------------------------------------------
\* The invariant of the effect loop.
THEOREM AgentInductive == Spec => []AgentInv
  <1>1. AgentInv /\ [Next]_vars => AgentInv'
    BY WorkOK, InputOK, AgentStutterOK DEF Next
  <1>. QED  BY AgentInitOK, <1>1, PTL DEF Spec

(* A turn never returns with a result awaited: whatever is injected while the   *)
(* chain runs or a reply is worded, a session that waits has its chain in some  *)
(* queue of the call stack.                                                     *)
THEOREM NoneLeftAwaiting == Spec => []NoTurnEndsAwaiting
  <1>1. AgentInv => NoTurnEndsAwaiting
    BY NothingThere DEF AgentInv, ResultOwed, NoTurnEndsAwaiting, Idle
  <1>. QED  BY <1>1, AgentInductive, PTL

\* What a chain returns is always one of the broker's outcomes, and the inputs pay
\* for the work ahead.
THEOREM LoopInductive == Spec => []LoopInv
  BY LoopInitOK, LoopNextOK, PTL DEF Spec

(* The effect loop implements the session: for every pack, any messages and any *)
(* events injected anywhere, what the agent's nested dispatches amount to is a  *)
(* sequence of events applied one at a time, each with its effects run, with as *)
(* many results as dispatches and one ticket for a handoff.                     *)
THEOREM LoopIsSession == Spec => ImplementsSession
  <1>1. LoopInv /\ LoopInv' /\ [Next]_vars => [Session!Next]_(Session!vars)
    BY LoopSteps
  <1>. QED  BY LoopInductive, SessionInitOK, <1>1, PTL DEF Spec, Session!Spec, ImplementsSession

-----------------------------------------------------------------------------
(* What is proved of a session holds of the agent: the theorems on CareSession,  *)
(* read at the refinement mapping.                                              *)

Facts == INSTANCE CareSession_proofs WITH
  inFlight <- ChainsOut, tickets <- Handoffs, EtaUpdates <- InjectedEtas,
  Captains <- Captains \cup {OriginalCaptain}, MaxInFlight <- 1 + MaxArmed + MaxTurns

\* The two instances of the session are one: the engine decides alike,
LEMMA SameEngine ==
  \A t, d, o, p, f : Session!Decide(t, d, o, p, f) = Facts!Decide(t, d, o, p, f)
  BY DEF Session!Decide, Facts!Decide, Session!ApplyRule, Facts!ApplyRule,
    Session!Handoff, Facts!Handoff, Session!Envelope, Facts!Envelope,
    Session!EscalationModeFor, Facts!EscalationModeFor, Session!ActiveOverrides,
    Facts!ActiveOverrides, Session!ReactiveR4, Facts!ReactiveR4,
    Session!ClarifyOrLoopGuard, Facts!ClarifyOrLoopGuard, Session!ReactiveR2,
    Facts!ReactiveR2, Session!Asks, Facts!Asks, Session!ApplyOverride,
    Facts!ApplyOverride, Session!SuppressedRules, Facts!SuppressedRules,
    Session!MatchedRule, Facts!MatchedRule, Session!Matches, Facts!Matches,
    Session!DelayMatches, Facts!DelayMatches

\* the session opens alike,
LEMMA SameOpening == Session!Init => Facts!Init
  BY DEF Session!Init, Facts!Init, Session!TicketOf, Facts!TicketOf, Session!Emits,
    Facts!Emits, Session!Bootstrap, Facts!Bootstrap, Session!RoutedEffects,
    Facts!RoutedEffects, Session!Send, Facts!Send, Session!Escalation, Facts!Escalation,
    Session!Resolution, Facts!Resolution, Session!CallToolChain, Facts!CallToolChain,
    Session!ReassignActions, Facts!ReassignActions, Session!Log, Facts!Log,
    Session!RoutedReason, Facts!RoutedReason, Session!TerminalStates,
    Facts!TerminalStates, Session!RoutedFsm, Facts!RoutedFsm, Session!Decision,
    Facts!Decision, Session!RoutedPending, Facts!RoutedPending, Session!Decide,
    Facts!Decide, Session!ApplyRule, Facts!ApplyRule, Session!Handoff, Facts!Handoff,
    Session!Envelope, Facts!Envelope, Session!EscalationModeFor, Facts!EscalationModeFor,
    Session!ActiveOverrides, Facts!ActiveOverrides, Session!ReactiveR4, Facts!ReactiveR4,
    Session!ClarifyOrLoopGuard, Facts!ClarifyOrLoopGuard, Session!ReactiveR2,
    Facts!ReactiveR2, Session!Asks, Facts!Asks, Session!ApplyOverride,
    Facts!ApplyOverride, Session!SuppressedRules, Facts!SuppressedRules,
    Session!MatchedRule, Facts!MatchedRule, Session!Matches, Facts!Matches,
    Session!DelayMatches, Facts!DelayMatches, Session!Tiers, Facts!Tiers

\* and it handles everything alike.
LEMMA SameSteps == Session!Next => Facts!Next
  <1>. USE DEF Session!RunEffects, Facts!RunEffects, Session!TicketOf, Facts!TicketOf,
    Session!Emits, Facts!Emits, Session!Inert, Facts!Inert, Session!sessionVars,
    Facts!sessionVars, Session!counters, Facts!counters, Session!routed, Facts!routed,
    Session!data, Facts!data, Session!context, Facts!context, Session!Live, Facts!Live,
    Session!TerminalStates, Facts!TerminalStates, Session!ToolResult, Facts!ToolResult,
    Session!ReconcileToolResult, Facts!ReconcileToolResult, Session!Reconciled,
    Facts!Reconciled, Session!Assigning, Facts!Assigning, Session!AwaitingResult,
    Facts!AwaitingResult, Session!ApplyToolResult, Facts!ApplyToolResult,
    Session!Escalate, Facts!Escalate, Session!Escalation, Facts!Escalation, Session!Send,
    Facts!Send, Session!ClassifierUnavailable, Facts!ClassifierUnavailable,
    Session!Reevaluate, Facts!Reevaluate, Session!Route, Facts!Route,
    Session!RoutedEffects, Facts!RoutedEffects, Session!Resolution, Facts!Resolution,
    Session!CallToolChain, Facts!CallToolChain, Session!ReassignActions,
    Facts!ReassignActions, Session!Log, Facts!Log, Session!RoutedReason,
    Facts!RoutedReason, Session!RoutedFsm, Facts!RoutedFsm, Session!Decision,
    Facts!Decision, Session!RoutedPending, Facts!RoutedPending, Session!ToolTimeout,
    Facts!ToolTimeout, Session!ReplyTimeout, Facts!ReplyTimeout, Session!EtaUpdated,
    Facts!EtaUpdated, Session!Max2, Facts!Max2, Session!OnAsyncEvent, Facts!OnAsyncEvent,
    Session!ReassignPremiseActions, Facts!ReassignPremiseActions, Session!PrepCompleted,
    Facts!PrepCompleted, Session!CaptainCancelled, Facts!CaptainCancelled,
    Session!MerchantMessage, Facts!MerchantMessage, Session!AnswerMessage,
    Facts!AnswerMessage, Session!EscalateForRepetition, Facts!EscalateForRepetition,
    Session!Stuck, Facts!Stuck, Session!NonProgressingActions,
    Facts!NonProgressingActions, Session!NextSignature, Facts!NextSignature,
    Session!Signature, Facts!Signature, Session!NextStalls, Facts!NextStalls,
    Session!StallActions, Facts!StallActions, Session!NextRepeats, Facts!NextRepeats,
    Session!NextPushes, Facts!NextPushes, Session!MessageInFlight, Facts!MessageInFlight,
    Session!EscalationModeFor, Facts!EscalationModeFor, Session!ActiveOverrides,
    Facts!ActiveOverrides
  <1>1. \A flags : Session!MerchantMessage(flags) => Facts!MerchantMessage(flags)
    BY SameEngine
  <1>2. \A eta : Session!EtaUpdated(eta) => Facts!EtaUpdated(eta)
    BY SameEngine
  <1>3. Session!CaptainCancelled => Facts!CaptainCancelled
    BY SameEngine
  <1>4. Session!PrepCompleted => Facts!PrepCompleted
    BY SameEngine
  <1>5. Session!ReplyTimeout => Facts!ReplyTimeout
    BY SameEngine
  <1>6. Session!ToolTimeout => Facts!ToolTimeout
    BY SameEngine
  <1>7. Session!Reevaluate => Facts!Reevaluate
    BY SameEngine
  <1>8. Session!ClassifierUnavailable => Facts!ClassifierUnavailable
    BY SameEngine
  <1>9. \A outcome, c : Session!ToolResult(outcome, c) => Facts!ToolResult(outcome, c)
    BY SameEngine
  <1>10. \A kind : Session!Inert(kind) => Facts!Inert(kind)
    BY SameEngine
  <1>11. \A n : Session!RunEffects(n) => Facts!RunEffects(n)
    BY SameEngine
  <1>. HIDE DEF Session!MerchantMessage, Facts!MerchantMessage, Session!EtaUpdated,
    Facts!EtaUpdated, Session!CaptainCancelled, Facts!CaptainCancelled,
    Session!PrepCompleted, Facts!PrepCompleted, Session!ReplyTimeout, Facts!ReplyTimeout,
    Session!ToolTimeout, Facts!ToolTimeout, Session!Reevaluate, Facts!Reevaluate,
    Session!ClassifierUnavailable, Facts!ClassifierUnavailable, Session!ToolResult,
    Facts!ToolResult, Session!Inert, Facts!Inert, Session!RunEffects, Facts!RunEffects
  <1>. QED  BY <1>1, <1>2, <1>3, <1>4, <1>5, <1>6, <1>7, <1>8, <1>9, <1>10, <1>11 DEF
    Session!Next, Facts!Next, Session!Event, Facts!Event, Session!LateEvent,
    Facts!LateEvent, Session!ToolReturns, Facts!ToolReturns, Session!Message,
    Facts!Message, Session!Async, Facts!Async, Session!Timer, Facts!Timer,
    Session!Outcomes, Facts!Outcomes

\* The session of the agent meets the assumptions the theorems rest on.
LEMMA FactsApply ==
  /\ \A i \in DOMAIN Rules : /\ Rules[i].lo \in Nat
                             /\ Rules[i].hi \in Nat \/ Rules[i].hi = None
                             /\ Rules[i].tiers \subseteq Facts!Tiers
                             /\ Rules[i].action \in Facts!RuleActions
  /\ \A f \in SUBSET Facts!Flags : None # f
  /\ \A a \in Facts!ActionTypes \cup Facts!Reasons : None # a
  /\ None \notin Captains \cup {OriginalCaptain}
  /\ InjectedEtas \subseteq Int \cup {None}
  /\ Intents \subseteq SUBSET Facts!Flags
  /\ 1 + MaxArmed + MaxTurns \in Nat
  BY PolicyAssumption, NoneAssumption, AgentAssumption
  DEF InjectedEtas, Flags, Facts!Flags, Tiers, Facts!Tiers, RuleActions, Facts!RuleActions,
      ActionTypes, Facts!ActionTypes, Reasons, Facts!Reasons

\* The agent runs the session the theorems speak of.
LEMMA LoopIsProvedSession == Spec => Facts!Spec
  <1>1. UNCHANGED Session!vars => UNCHANGED Facts!vars
    BY DEF Session!vars, Facts!vars, Session!sessionVars, Facts!sessionVars, Session!context, Facts!context,
      Session!data, Facts!data, Session!routed, Facts!routed, Session!counters, Facts!counters
  <1>2. [Session!Next]_(Session!vars) => [Facts!Next]_(Facts!vars)
    BY <1>1, SameSteps
  <1>. QED  BY LoopIsSession, SameOpening, <1>2, PTL DEF ImplementsSession, Session!Spec, Facts!Spec

(* The agent's session never contradicts itself: whatever is nested in whatever, *)
(* the record tells one story, what is awaited is still permitted, and a handoff *)
(* has one ticket, due or opened, with its reason and in its overrides' mode.    *)
THEOREM LoopIsConsistent ==
  Spec => [](/\ Facts!TypeOK /\ Facts!RecordIsConsistent
             /\ Facts!OneTicketPerHandoff /\ Facts!TicketModeFollowsOverrides
             /\ Facts!AwaitedDispatchIsPermitted /\ Facts!AwaitedResultIsInFlight
             /\ Facts!StallIsBounded)
  <1>1. Facts!Spec => [](Facts!OneTicketPerHandoff /\ Facts!TicketModeFollowsOverrides)
    BY PolicyAssumption, NoneAssumption, ReducerAssumption, AgentAssumption, FactsApply, Facts!OneTicket
  <1>2. Facts!Spec => [](Facts!AwaitedDispatchIsPermitted /\ Facts!AwaitedResultIsInFlight)
    BY PolicyAssumption, NoneAssumption, ReducerAssumption, AgentAssumption, FactsApply, Facts!AwaitedDispatch
  <1>3. Facts!Spec => []Facts!RecordIsConsistent
    BY PolicyAssumption, NoneAssumption, ReducerAssumption, AgentAssumption, FactsApply, Facts!RecordConsistent
  <1>4. Facts!Spec => []Facts!TypeOK
    BY PolicyAssumption, NoneAssumption, ReducerAssumption, AgentAssumption, FactsApply, Facts!Types
  <1>5. Facts!Spec => []Facts!StallIsBounded
    BY PolicyAssumption, NoneAssumption, ReducerAssumption, AgentAssumption, FactsApply, Facts!StallBound
  <1>. QED  BY LoopIsProvedSession, <1>1, <1>2, <1>3, <1>4, <1>5, PTL

\* Between turns no ticket is due, so the desk's are the session's handoffs.
LEMMA TicketsFollow ==
  ASSUME LoopInv, Facts!OneTicketPerHandoff, Facts!TicketModeFollowsOverrides
  PROVE  TicketsMatchHandoff
  <1>. SUFFICES ASSUME Idle
                PROVE  /\ Len(tickets) = IF fsm = "ESCALATED" THEN 1 ELSE 0
                       /\ \A i \in DOMAIN tickets : /\ tickets[i].reason = terminalReason
                                                    /\ tickets[i].mode = EscalationModeFor(overrides)
    BY DEF TicketsMatchHandoff
  <1>1. PICK S : tickets \in Seq(S)
    BY DEF LoopInv, AgentInv, ShapesOK
  <1>2. Due(stack) = {}
    BY NothingThere, DueOfStack DEF Idle
  <1>3. Handoffs = [k \in DOMAIN tickets |-> HandoffOf(tickets[k])] \o << >>
    BY <1>2 DEF Handoffs, Listed
  <1>4. Handoffs = [k \in DOMAIN tickets |-> HandoffOf(tickets[k])]
    <2>1. [k \in DOMAIN tickets |-> HandoffOf(tickets[k])] \in Seq({HandoffOf(x) : x \in S})
      BY <1>1
    <2>. QED  BY <1>3, <2>1
  <1>5. /\ Len(Handoffs) = Len(tickets) /\ DOMAIN Handoffs = DOMAIN tickets
        /\ \A k \in DOMAIN tickets : /\ Handoffs[k].reason = tickets[k].reason
                                     /\ Handoffs[k].mode = tickets[k].mode
    BY <1>1, <1>4 DEF HandoffOf
  <1>6. Facts!EscalationModeFor(overrides) = EscalationModeFor(overrides)
    BY DEF Facts!EscalationModeFor, EscalationModeFor, Facts!ActiveOverrides, ActiveOverrides
  <1>7. Len(tickets) = IF fsm = "ESCALATED" THEN 1 ELSE 0
    BY <1>5 DEF Facts!OneTicketPerHandoff
  <1>8. ASSUME NEW i \in DOMAIN tickets
        PROVE  tickets[i].reason = terminalReason /\ tickets[i].mode = EscalationModeFor(overrides)
    <2>1. fsm = "ESCALATED" /\ i = 1
      BY <1>1, <1>7
    <2>2. Handoffs[i].reason = terminalReason
      BY <2>1 DEF Facts!OneTicketPerHandoff
    <2>. QED  BY <1>5, <1>6, <2>2 DEF Facts!TicketModeFollowsOverrides
  <1>. QED  BY <1>7, <1>8

(* The desk and the record agree when a turn is over: one ticket for a handoff,  *)
(* none without, however many paths of the code lead to one, and with the reason *)
(* the session closed for.  That no ticket is still due between turns comes from *)
(* the count of what the call stack owes, what a ticket says from the session.   *)
THEOREM OneTicketPerTurn == Spec => []TicketsMatchHandoff
  <1>1. Facts!Spec => [](Facts!OneTicketPerHandoff /\ Facts!TicketModeFollowsOverrides)
    BY PolicyAssumption, NoneAssumption, ReducerAssumption, AgentAssumption, FactsApply, Facts!OneTicket
  <1>. QED  BY LoopInductive, LoopIsProvedSession, TicketsFollow, <1>1, PTL

(* The agent's steps keep the session's promises: a closed session is final      *)
(* though results, follow-ups and injected events still come, and a merchant who *)
(* asks for a human or cancels is handed over.                                  *)
THEOREM LoopKeepsPromises ==
  Spec => Facts!TerminalLatch /\ Facts!HumanRequestIsSacred /\ Facts!CancellationEscalates
  <1>1. Facts!Spec => Facts!TerminalLatch
    BY PolicyAssumption, NoneAssumption, ReducerAssumption, AgentAssumption, FactsApply, Facts!Latch
  <1>2. Facts!Spec => Facts!HumanRequestIsSacred
    BY PolicyAssumption, NoneAssumption, ReducerAssumption, AgentAssumption, FactsApply, Facts!HumanRequest
  <1>3. Facts!Spec => Facts!CancellationEscalates
    BY PolicyAssumption, NoneAssumption, ReducerAssumption, AgentAssumption, FactsApply, Facts!Cancellation
  <1>. QED  BY LoopIsProvedSession, <1>1, <1>2, <1>3, PTL

(* Under a pack in which Gold alone reassigns unasked, the agent dispatches a    *)
(* chain for another tier only on a message that consents: nothing injected and  *)
(* no result or follow-up does it in the merchant's name.                       *)
THEOREM LoopNeedsConsent ==
  ASSUME Facts!OnlyGoldIsAutomatic
  PROVE  Spec => Facts!ReassignmentNeedsConsent
  <1>1. Facts!Spec => Facts!ReassignmentNeedsConsent
    BY PolicyAssumption, NoneAssumption, ReducerAssumption, AgentAssumption, FactsApply, Facts!Consent
  <1>. QED  BY LoopIsProvedSession, <1>1, PTL
=============================================================================
