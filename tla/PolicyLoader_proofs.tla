------------------------- MODULE PolicyLoader_proofs -------------------------
(* What the loader's checks guarantee of every pack whatever: the rule table    *)
(* of a pinned pack is unambiguous away from the edges of its bands, it leaves  *)
(* no delay between bands, the declared inclusivity gives each edge one owner,  *)
(* and the loop guard it carries does not trip on a first message.              *)
EXTENDS PolicyLoader, WellFoundedInduction, TLAPS

\* The order the bands are sorted in is total on well-formed bands.
LEMMA SortIsTotal ==
  ASSUME NEW lo1 \in Nat, NEW lo2 \in Nat,
         NEW hi1 \in Nat \cup {None}, NEW hi2 \in Nat \cup {None},
         <<lo1, hi1>> # <<lo2, hi2>>
  PROVE  SortsBefore(<<lo1, hi1>>, <<lo2, hi2>>) \/ SortsBefore(<<lo2, hi2>>, <<lo1, hi1>>)
  BY LoaderAssumption DEF SortsBefore, EndsBefore

\* check_delay_coverage compares a band with those before it only, and yet no two
\* distinct bands overlap: the later one starts where the earlier one has ended.
LEMMA BandsDoNotOverlap ==
  ASSUME NEW p, DelayCoverage(p),
         NEW b \in Bands(p), NEW c \in Bands(p), SortsBefore(b, c)
  PROVE  b[2] # None /\ b[2] <= c[1]
  <1>1. StartsWhereCovered(c, Bands(p))
    BY DEF DelayCoverage
  <1>2. b \in {d \in Bands(p) : SortsBefore(d, c)}
    OBVIOUS
  <1>. QED  BY <1>1, <1>2 DEF StartsWhereCovered

\* A rule matches an order off the edges only strictly inside its own band.
LEMMA MatchesInside ==
  ASSUME NEW p, BandsWellFormed(p), NEW i \in DOMAIN p.rules,
         NEW tier, NEW delay \in Nat,
         delay # p.rules[i].lo, delay # p.rules[i].hi,
         P(p)!Matches(i, tier, delay)
  PROVE  /\ p.rules[i].lo < delay
         /\ p.rules[i].hi = None \/ delay < p.rules[i].hi
         /\ tier \in p.rules[i].tiers
  BY LoaderAssumption DEF BandsWellFormed, P!Matches, P!DelayMatches

-----------------------------------------------------------------------------
(* Two rules of a table that passed the checks.                                *)

\* Rules of one band name different tiers, whichever comes first.
LEMMA SameBandDisjoint ==
  ASSUME NEW p, BandsWellFormed(p), FirstHitOrdering(p),
         NEW i \in DOMAIN p.rules, NEW j \in DOMAIN p.rules, i # j,
         Band(p.rules[i]) = Band(p.rules[j])
  PROVE  p.rules[i].tiers \cap p.rules[j].tiers = {}
  <1>1. i < j \/ j < i
    BY DEF BandsWellFormed
  <1>2. CASE i < j
    BY <1>2 DEF FirstHitOrdering
  <1>3. CASE j < i
    BY <1>3 DEF FirstHitOrdering
  <1>. QED  BY <1>1, <1>2, <1>3

\* Rules of two bands do not both match: the delay would lie past the end of one.
LEMMA DistinctBandsApart ==
  ASSUME NEW p, BandsWellFormed(p), DelayCoverage(p),
         NEW i \in DOMAIN p.rules, NEW j \in DOMAIN p.rules,
         SortsBefore(Band(p.rules[i]), Band(p.rules[j])),
         NEW delay \in Nat,
         p.rules[i].hi = None \/ delay < p.rules[i].hi
  PROVE  ~ (p.rules[j].lo < delay)
  <1>1. Band(p.rules[i]) \in Bands(p) /\ Band(p.rules[j]) \in Bands(p)
    BY DEF Bands
  <1>2. Band(p.rules[i])[2] # None /\ Band(p.rules[i])[2] <= Band(p.rules[j])[1]
    BY <1>1, BandsDoNotOverlap
  <1>3. p.rules[i].hi # None /\ p.rules[i].hi <= p.rules[j].lo
    BY <1>2 DEF Band
  <1>4. p.rules[i].hi \in Nat /\ p.rules[j].lo \in Nat
    BY <1>3 DEF BandsWellFormed
  <1>. QED  BY <1>3, <1>4

\* At most one rule of a checked table matches an order off the edges.
LEMMA OneRuleMatches ==
  ASSUME NEW p, BandsWellFormed(p), DelayCoverage(p), FirstHitOrdering(p),
         NEW tier, NEW delay \in Nat,
         \A b \in Bands(p) : delay \notin {b[1], b[2]},
         NEW i \in DOMAIN p.rules, NEW j \in DOMAIN p.rules,
         P(p)!Matches(i, tier, delay), P(p)!Matches(j, tier, delay)
  PROVE  i = j
  <1>. SUFFICES ASSUME i # j PROVE FALSE
    OBVIOUS
  <1>1. /\ delay # p.rules[i].lo /\ delay # p.rules[i].hi
        /\ delay # p.rules[j].lo /\ delay # p.rules[j].hi
    <2>1. Band(p.rules[i]) \in Bands(p) /\ Band(p.rules[j]) \in Bands(p)
      BY DEF Bands
    <2>. QED  BY <2>1 DEF Band
  <1>2. /\ p.rules[i].lo < delay
        /\ p.rules[i].hi = None \/ delay < p.rules[i].hi
        /\ tier \in p.rules[i].tiers
    BY <1>1, MatchesInside
  <1>3. /\ p.rules[j].lo < delay
        /\ p.rules[j].hi = None \/ delay < p.rules[j].hi
        /\ tier \in p.rules[j].tiers
    BY <1>1, MatchesInside
  <1>4. CASE Band(p.rules[i]) = Band(p.rules[j])
    BY <1>2, <1>3, <1>4, SameBandDisjoint
  <1>5. CASE Band(p.rules[i]) # Band(p.rules[j])
    <2>1. /\ p.rules[i].lo \in Nat /\ p.rules[i].hi \in Nat \cup {None}
          /\ p.rules[j].lo \in Nat /\ p.rules[j].hi \in Nat \cup {None}
      BY DEF BandsWellFormed
    <2>2. \/ SortsBefore(Band(p.rules[i]), Band(p.rules[j]))
          \/ SortsBefore(Band(p.rules[j]), Band(p.rules[i]))
      BY <1>5, <2>1, SortIsTotal DEF Band
    <2>. QED  BY <1>2, <1>3, <2>2, DistinctBandsApart
  <1>. QED  BY <1>4, <1>5

-----------------------------------------------------------------------------
(* Coverage: the checks look at neighbours, the engine needs every delay.      *)

\* A delay lies in a half-open band.
Inside(rule, delay) == rule.lo <= delay /\ (rule.hi = None \/ delay < rule.hi)

\* A band that starts past the order's delay starts where one that began no later
\* than that delay has ended, or where an empty band did.
LEMMA BandBelow ==
  ASSUME NEW p, BandsWellFormed(p), DelayCoverage(p),
         NEW k \in DOMAIN p.rules, p.rules[k].lo # 0
  PROVE  \E j \in DOMAIN p.rules :
           p.rules[j].hi = p.rules[k].lo /\ p.rules[j].lo < p.rules[k].lo
  <1>. DEFINE m == p.rules[k].lo
              Before(b) == {d \in Bands(p) : SortsBefore(d, b)}
  <1>1. m \in Nat
    BY DEF BandsWellFormed
  <1>2. ASSUME NEW b \in Bands(p), b[1] = m
        PROVE  /\ \E d \in Before(b) : d[2] = m
               /\ \A d \in Before(b) : d[2] # None /\ d[2] <= m
    BY <1>2 DEF DelayCoverage, StartsWhereCovered
  <1>3. Band(p.rules[k]) \in Bands(p) /\ Band(p.rules[k])[1] = m
    BY DEF Bands, Band
  <1>4. PICK d \in Before(Band(p.rules[k])) : d[2] = m
    BY <1>2, <1>3
  <1>5. PICK i \in DOMAIN p.rules : d = Band(p.rules[i])
    BY <1>4 DEF Bands
  <1>6. p.rules[i].hi = m /\ p.rules[i].lo \in Nat /\ p.rules[i].lo <= m
    BY <1>1, <1>3, <1>4, <1>5 DEF Band, BandsWellFormed, SortsBefore
  <1>7. CASE p.rules[i].lo = m
    <2>1. d \in Bands(p) /\ d[1] = m
      BY <1>4, <1>5, <1>7 DEF Band
    <2>2. PICK e \in Before(d) : e[2] = m
      BY <1>2, <2>1
    <2>3. PICK j \in DOMAIN p.rules : e = Band(p.rules[j])
      BY <2>2 DEF Bands
    <2>4. p.rules[j].hi = m /\ p.rules[j].lo \in Nat
      BY <2>2, <2>3 DEF Band, BandsWellFormed
    <2>5. SortsBefore(e, d)
      BY <2>2
    <2>6. ~ EndsBefore(e[2], d[2])
      BY <1>1, <1>4, <2>2, LoaderAssumption DEF EndsBefore
    <2>7. p.rules[j].lo < m
      BY <2>1, <2>3, <2>5, <2>6 DEF Band, SortsBefore
    <2>. QED  BY <2>4, <2>7
  <1>8. CASE p.rules[i].lo # m
    BY <1>1, <1>6, <1>8
  <1>. QED  BY <1>7, <1>8

\* Every delay lies in the band of some rule: no gap, and the last band is open.
LEMMA EveryDelayIsInside ==
  ASSUME NEW p, BandsWellFormed(p), DelayCoverage(p), NEW delay \in Nat
  PROVE  \E i \in DOMAIN p.rules : Inside(p.rules[i], delay)
  <1>1. PICK last \in DOMAIN p.rules : p.rules[last].hi = None
    BY DEF DelayCoverage, Bands, Band
  <1>2. CASE p.rules[last].lo <= delay
    BY <1>1, <1>2 DEF Inside
  <1>3. CASE ~ (p.rules[last].lo <= delay)
    <2>. DEFINE Later == {p.rules[i].lo : i \in {j \in DOMAIN p.rules : delay < p.rules[j].lo}}
                Below == OpToRel(<, Nat)
    <2>1. Later \subseteq Nat /\ p.rules[last].lo \in Later
      BY <1>3 DEF BandsWellFormed
    <2>2. PICK m \in Later : \A n \in Later : <<n, m>> \notin Below
      <3>. HIDE DEF Later
      <3>. QED  BY <2>1, NatLessThanWellFounded, WFMin
    <2>3. m \in Nat /\ \A n \in Later : ~ (n < m)
      <3>. HIDE DEF Later
      <3>. QED  BY <2>1, <2>2 DEF OpToRel
    <2>4. PICK k \in DOMAIN p.rules : p.rules[k].lo = m /\ delay < m
      BY <2>2
    <2>5. PICK j \in DOMAIN p.rules : p.rules[j].hi = m /\ p.rules[j].lo < m
      BY <2>3, <2>4, BandBelow
    <2>6. p.rules[j].lo \in Nat /\ ~ (delay < p.rules[j].lo)
      BY <2>3, <2>5 DEF BandsWellFormed
    <2>. QED  BY <2>3, <2>4, <2>5, <2>6 DEF Inside
  <1>. QED  BY <1>2, <1>3

\* In every half-open band a tier has at most one rule.
LEMMA OneRuleInside ==
  ASSUME NEW p, BandsWellFormed(p), DelayCoverage(p), FirstHitOrdering(p),
         NEW tier, NEW delay \in Nat,
         NEW i \in DOMAIN p.rules, Inside(p.rules[i], delay), tier \in p.rules[i].tiers,
         NEW j \in DOMAIN p.rules, Inside(p.rules[j], delay), tier \in p.rules[j].tiers
  PROVE  i = j
  <1>. SUFFICES ASSUME i # j PROVE FALSE
    OBVIOUS
  <1>1. /\ p.rules[i].lo \in Nat /\ p.rules[i].hi \in Nat \cup {None}
        /\ p.rules[j].lo \in Nat /\ p.rules[j].hi \in Nat \cup {None}
    BY DEF BandsWellFormed
  <1>2. Band(p.rules[i]) # Band(p.rules[j])
    BY SameBandDisjoint
  <1>3. ASSUME NEW a \in {i, j}, NEW b \in {i, j},
               SortsBefore(Band(p.rules[a]), Band(p.rules[b]))
        PROVE  FALSE
    <2>1. Band(p.rules[a])[2] # None /\ Band(p.rules[a])[2] <= Band(p.rules[b])[1]
      BY <1>3, BandsDoNotOverlap DEF Bands
    <2>. QED  BY <1>1, <2>1 DEF Band, Inside
  <1>4. \/ SortsBefore(Band(p.rules[i]), Band(p.rules[j]))
        \/ SortsBefore(Band(p.rules[j]), Band(p.rules[i]))
    BY <1>1, <1>2, SortIsTotal DEF Band
  <1>. QED  BY <1>3, <1>4

-----------------------------------------------------------------------------
(* The edge at 40: inclusive above for R3 and R4, exclusive below for R5, or    *)
(* the other way round.                                                         *)

\* A pack whose edge at 40 lies between R3/R4 and R5.
EdgeAtForty(p) ==
  \A i \in DOMAIN p.rules :
    /\ p.rules[i].hi = 40 <=> p.rules[i].id \in {"R3", "R4"}
    /\ p.rules[i].lo = 40 <=> p.rules[i].id = "R5"

\* The delay whose half-open band owns this one.
Owned(p, delay) ==
  IF delay = 40 /\ p.boundary.R3_R4_upper = "inclusive" THEN 39 ELSE delay

\* The engine's matching, with its special cases, is half-open matching of the
\* delay that owns this one.
LEMMA MatchingIsHalfOpen ==
  ASSUME NEW p, BandsWellFormed(p), BoundaryDeclared(p), EdgeAtForty(p),
         NEW i \in DOMAIN p.rules, NEW tier, NEW delay \in Nat
  PROVE  P(p)!Matches(i, tier, delay) <=>
           Inside(p.rules[i], Owned(p, delay)) /\ tier \in p.rules[i].tiers
  <1>1. /\ p.rules[i].lo \in Nat /\ p.rules[i].hi \in Nat \cup {None}
        /\ p.rules[i].hi = 40 <=> p.rules[i].id \in {"R3", "R4"}
        /\ p.rules[i].lo = 40 <=> p.rules[i].id = "R5"
    BY DEF BandsWellFormed, EdgeAtForty
  <1>2. \/ p.boundary.R3_R4_upper = "inclusive" /\ p.boundary.R5_lower = "exclusive"
        \/ p.boundary.R3_R4_upper = "exclusive" /\ p.boundary.R5_lower = "inclusive"
    BY DEF BoundaryDeclared
  <1>3. P(p)!DelayMatches(p.rules[i], delay) <=> Inside(p.rules[i], Owned(p, delay))
    BY <1>1, <1>2, LoaderAssumption DEF P!DelayMatches, Inside, Owned
  <1>. QED  BY <1>3 DEF P!Matches

\* Every band names the tier.
BandsName(p, tier) ==
  \A b \in Bands(p) : \E i \in DOMAIN p.rules : Band(p.rules[i]) = b /\ tier \in p.rules[i].tiers

\* When the bands name every tier, each order has exactly one rule.
LEMMA EdgeHasOneOwner ==
  ASSUME NEW p, BandsWellFormed(p), DelayCoverage(p), FirstHitOrdering(p),
         BoundaryDeclared(p), EdgeAtForty(p), NEW tier, BandsName(p, tier), NEW delay \in Nat
  PROVE  \E i \in DOMAIN p.rules :
           \A j \in DOMAIN p.rules : P(p)!Matches(j, tier, delay) <=> j = i
  <1>. DEFINE d == Owned(p, delay)
  <1>1. d \in Nat
    BY DEF Owned
  <1>2. PICK k \in DOMAIN p.rules : Inside(p.rules[k], d)
    BY <1>1, EveryDelayIsInside
  <1>3. PICK i \in DOMAIN p.rules : Band(p.rules[i]) = Band(p.rules[k]) /\ tier \in p.rules[i].tiers
    BY DEF Bands, BandsName
  <1>4. Inside(p.rules[i], d)
    BY <1>2, <1>3 DEF Band, Inside
  <1>5. ASSUME NEW j \in DOMAIN p.rules
        PROVE  P(p)!Matches(j, tier, delay) <=> j = i
    <2>1. P(p)!Matches(j, tier, delay) <=> Inside(p.rules[j], d) /\ tier \in p.rules[j].tiers
      BY MatchingIsHalfOpen
    <2>2. Inside(p.rules[j], d) /\ tier \in p.rules[j].tiers => j = i
      <3>. HIDE DEF d
      <3>. QED  BY <1>1, <1>3, <1>4, OneRuleInside
    <2>. QED  BY <1>3, <1>4, <2>1, <2>2
  <1>. QED  BY <1>5

\* No reply has been given before a first message, so no guard has anything to count.
LEMMA GuardNeedsAReply ==
  ASSUME NEW p, p.caps.loop_guard_threshold \in Nat \ {0}, NEW tier, NEW delay
  PROVE  P(p)!Decide(tier, delay, << >>, 0, {}).reason # "loop_guard_tripped"
  <1>1. ASSUME NEW a, NEW r, NEW reason, NEW o
        PROVE  P(p)!Envelope(a, r, reason, o).reason = reason
    BY DEF P!Envelope
  <1>2. ASSUME NEW r, NEW o
        PROVE  P(p)!ClarifyOrLoopGuard(r, 0, o).reason = "ambiguous_intent"
    BY <1>1 DEF P!ClarifyOrLoopGuard
  <1>3. ASSUME NEW rule
        PROVE  P(p)!ApplyRule(rule, {}, 0, << >>).reason # "loop_guard_tripped"
    BY <1>1, <1>2 DEF P!ApplyRule, P!Asks, P!Handoff, P!ReactiveR2, P!ReactiveR4
  <1>4. ASSUME NEW rule
        PROVE  P(p)!ApplyOverride(rule, {}, << >>).reason # "loop_guard_tripped"
    BY <1>1 DEF P!ApplyOverride, P!Asks, P!Handoff
  <1>. QED  BY <1>1, <1>3, <1>4 DEF P!Decide, P!Asks, P!Handoff

-----------------------------------------------------------------------------
(* The loader.                                                                 *)

\* A pack is pinned only after every check passed over it.
Vetted == pack \in Packs /\ (Pinned => InvariantChecks(pack))

\* load_policy pins nothing it did not check, and never swaps the pack.
LEMMA OnlyVettedPacks == Spec => []Vetted
  <1>1. Init => Vetted
    BY DEF Init, Vetted, Pinned
  <1>2. Vetted /\ [Next]_vars => Vetted'
    <2>. SUFFICES ASSUME Vetted, [Next]_vars PROVE Vetted'
      OBVIOUS
    <2>1. CASE Pin /\ UNCHANGED pack
      BY <2>1 DEF Vetted, Pin, Pinned
    <2>2. CASE Refuse /\ UNCHANGED pack
      BY <2>2 DEF Vetted, Refuse, Pinned
    <2>3. CASE UNCHANGED vars
      BY <2>3 DEF Vetted, vars, Pinned
    <2>. QED  BY <2>1, <2>2, <2>3 DEF Next
  <1>. QED  BY <1>1, <1>2, PTL DEF Spec

\* What is known of a pinned pack.
LEMMA PinnedPack ==
  ASSUME Vetted, Pinned
  PROVE  /\ BandsWellFormed(pack) /\ DelayCoverage(pack)
         /\ FirstHitOrdering(pack) /\ BoundaryDeclared(pack) /\ ScalarsAndPrecedence(pack)
  BY LoaderAssumption DEF Vetted, InvariantChecks

(* First-hit evaluation over a pinned pack is unambiguous off the edges of the  *)
(* bands (load_policy refuses every other pack), for any set of candidate packs *)
(* of the schema's shape and any delays.                                        *)
THEOREM Unambiguous == Spec => []PinnedTableIsUnambiguous
  <1>1. Vetted => PinnedTableIsUnambiguous
    <2>. SUFFICES ASSUME Vetted, Pinned,
                         NEW tier \in Tiers, NEW delay \in Delays, ~ OnAnEdge(delay),
                         NEW i \in Matching(tier, delay), NEW j \in Matching(tier, delay)
                  PROVE  i = j
      BY DEF PinnedTableIsUnambiguous
    <2>1. delay \in Nat
      BY LoaderAssumption
    <2>2. \A b \in Bands(pack) : delay \notin {b[1], b[2]}
      BY DEF OnAnEdge
    <2>3. /\ i \in DOMAIN pack.rules /\ P(pack)!Matches(i, tier, delay)
          /\ j \in DOMAIN pack.rules /\ P(pack)!Matches(j, tier, delay)
      BY DEF Matching
    <2>. QED  BY <2>1, <2>2, <2>3, PinnedPack, OneRuleMatches
  <1>. QED  BY <1>1, OnlyVettedPacks, PTL

(* check_delay_coverage does what its name says: the distinct bands of a pinned *)
(* pack leave no delay out, whatever their number and order in the file, so an  *)
(* order no rule matches is on an edge or of a tier its band leaves out.        *)
THEOREM Coverage == Spec => []PinnedTableCoversDelays
  <1>1. Vetted => PinnedTableCoversDelays
    <2>. SUFFICES ASSUME Vetted, Pinned,
                         NEW tier \in Tiers, NEW delay \in Delays, ~ OnAnEdge(delay)
                  PROVE  \/ Matching(tier, delay) # {}
                         \/ \E i \in DOMAIN pack.rules :
                              /\ delay >= pack.rules[i].lo
                              /\ pack.rules[i].hi = None \/ delay < pack.rules[i].hi
                              /\ tier \notin pack.rules[i].tiers
      BY DEF PinnedTableCoversDelays
    <2>1. delay \in Nat
      BY LoaderAssumption
    <2>2. PICK i \in DOMAIN pack.rules : Inside(pack.rules[i], delay)
      BY <2>1, PinnedPack, EveryDelayIsInside
    <2>3. pack.rules[i].lo \in Nat /\ pack.rules[i].hi \in Nat \cup {None}
      BY PinnedPack DEF BandsWellFormed
    <2>4. delay # pack.rules[i].lo
      <3>1. Band(pack.rules[i]) \in Bands(pack)
        BY DEF Bands
      <3>. QED  BY <3>1 DEF OnAnEdge, Band
    <2>5. CASE tier \in pack.rules[i].tiers
      <3>1. P(pack)!Matches(i, tier, delay)
        BY <2>1, <2>2, <2>3, <2>4, <2>5, LoaderAssumption DEF P!Matches, P!DelayMatches, Inside
      <3>. QED  BY <3>1 DEF Matching
    <2>6. CASE tier \notin pack.rules[i].tiers
      BY <2>1, <2>2, <2>3, <2>6 DEF Inside
    <2>. QED  BY <2>5, <2>6
  <1>. QED  BY <1>1, OnlyVettedPacks, PTL

(* check_boundary_declared settles the 40-minute edge: whichever side is given  *)
(* it, the engine's two special cases make exactly one rule match every order,  *)
(* on the edges too.                                                            *)
THEOREM OneOwner == Spec => []DeclaredEdgeHasOneOwner
  <1>1. Vetted => DeclaredEdgeHasOneOwner
    <2>. SUFFICES ASSUME Vetted, Pinned, EdgesAreDeclared, FullBands,
                         NEW tier \in Tiers, NEW delay \in Delays
                  PROVE  \E i \in DOMAIN pack.rules : Matching(tier, delay) = {i}
      BY DEF DeclaredEdgeHasOneOwner
    <2>1. delay \in Nat
      BY LoaderAssumption
    <2>2. EdgeAtForty(pack)
      BY DEF EdgeAtForty, EdgesAreDeclared
    <2>3. BandsName(pack, tier)
      <3>. SUFFICES ASSUME NEW b \in Bands(pack)
                    PROVE  \E i \in DOMAIN pack.rules :
                             Band(pack.rules[i]) = b /\ tier \in pack.rules[i].tiers
        BY DEF BandsName
      <3>1. tier \in UNION {pack.rules[i].tiers : i \in {k \in DOMAIN pack.rules : Band(pack.rules[k]) = b}}
        BY DEF FullBands
      <3>. QED  BY <3>1
    <2>4. PICK i \in DOMAIN pack.rules :
            \A j \in DOMAIN pack.rules : P(pack)!Matches(j, tier, delay) <=> j = i
      BY <2>1, <2>2, <2>3, PinnedPack, EdgeHasOneOwner
    <2>. QED  BY <2>4 DEF Matching
  <1>. QED  BY <1>1, OnlyVettedPacks, PTL

(* check_scalars leaves no pinned pack whose loop guard trips before the agent  *)
(* has answered once: the first unclear message gets a clarification.           *)
THEOREM FirstAnswer == Spec => []FirstUnclearMessageIsAnswered
  <1>1. Vetted => FirstUnclearMessageIsAnswered
    <2>. SUFFICES ASSUME Vetted, Pinned, NEW tier \in Tiers, NEW delay \in Delays
                  PROVE  P(pack)!Decide(tier, delay, << >>, 0, {}).reason # "loop_guard_tripped"
      BY DEF FirstUnclearMessageIsAnswered
    <2>1. pack.caps["loop_guard_threshold"] \in Nat \ {0}
      BY PinnedPack DEF ScalarsAndPrecedence, PositiveIntFields
    <2>. QED  BY <2>1, GuardNeedsAReply
  <1>. QED  BY <1>1, OnlyVettedPacks, PTL

=============================================================================
