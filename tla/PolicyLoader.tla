---------------------------- MODULE PolicyLoader ----------------------------
(* The policy loader, src/src/care_agent/policy/loader.py: a candidate pack is *)
(* read, every semantic check runs over it, and it is pinned for the life of   *)
(* the process or refused.  What the engine relies on afterwards is stated     *)
(* with the engine's own matching: P(pack) is module Policy over that pack.    *)
(*                                                                             *)
(* A candidate has the shape policy.schema.json asks for, with whole minutes   *)
(* as band edges; `escalates`, which nothing reads, is left out.               *)
EXTENDS Integers, Sequences

CONSTANTS
  Packs,      \* the candidate packs
  Delays,     \* the delays an order may have
  None

VARIABLES pack, status

vars == <<pack, status>>

P(p) == INSTANCE Policy WITH
          Rules <- p.rules, BoundaryInclusivity <- p.boundary,
          OverrideMap <- p.overrides,
          LoopGuardThreshold <- p.caps.loop_guard_threshold,
          AgentRepetitionThreshold <- p.caps.agent_repetition_threshold,
          UnresponsiveAttempts <- p.caps.unresponsive_attempts

Tiers == {"Gold", "Silver", "Bronze"}

\* The delay bands of a candidate, as far as the schema settles them.
BandsWellFormed(p) ==
  /\ DOMAIN p.rules \subseteq Nat
  /\ \A i \in DOMAIN p.rules :
       p.rules[i].lo \in Nat /\ (p.rules[i].hi \in Nat \/ p.rules[i].hi = None)

ASSUME LoaderAssumption ==
  /\ None \notin Nat
  /\ Delays \subseteq Nat
  /\ \A p \in Packs : BandsWellFormed(p)

-----------------------------------------------------------------------------
(* check_delay_coverage: the distinct bands, in the order of the sort.         *)

Band(rule) == <<rule.lo, rule.hi>>

Bands(p) == {Band(p.rules[i]) : i \in DOMAIN p.rules}

EndsBefore(h, g) == h # None /\ (g # None => h < g)

SortsBefore(b, c) == b[1] < c[1] \/ (b[1] = c[1] /\ EndsBefore(b[2], c[2]))

\* No gap and no overlap: a band starts where the furthest one before it ends.
StartsWhereCovered(b, bands) ==
  LET before == {c \in bands : SortsBefore(c, b)}
  IN  IF before = {}
        THEN b[1] = 0
        ELSE /\ \E c \in before : c[2] = b[1]
             /\ \A c \in before : c[2] # None /\ c[2] <= b[1]

\* Overlap mutant: only the gap is looked for.
DelayCoverageGapsOnly(p) ==
  /\ p.rules # << >>
  /\ \A b \in Bands(p) : b[1] = 0 \/ \E c \in Bands(p) : SortsBefore(c, b) /\ c[2] = b[1]
  /\ \E b \in Bands(p) : b[2] = None

\* Gap mutant: a band may start above the one before it.
DelayCoverageNoOverlap(p) ==
  /\ p.rules # << >>
  /\ \A b, c \in Bands(p) : SortsBefore(c, b) => c[2] # None /\ c[2] <= b[1]
  /\ \E b \in Bands(p) : b[2] = None

DelayCoverage(p) ==
  /\ p.rules # << >>
  /\ \A b \in Bands(p) : StartsWhereCovered(b, Bands(p))
  /\ \E b \in Bands(p) : b[2] = None

-----------------------------------------------------------------------------
(* The other checks.                                                           *)

FirstHitOrdering(p) ==
  \A i, j \in DOMAIN p.rules : i < j =>
    /\ p.rules[i].id # p.rules[j].id
    /\ p.rules[i].lo <= p.rules[j].lo
    /\ Band(p.rules[i]) = Band(p.rules[j]) => p.rules[i].tiers \cap p.rules[j].tiers = {}

R6IsPreemption(p) ==
  /\ \A i \in DOMAIN p.rules : p.rules[i].id # "R6"
  /\ p.preemption = [flag |-> "requests_human", action |-> "escalate"]

\* Boundary mutant: each side is well spelled, nobody asks whether one owns 40.
BoundaryDeclaredSpellingOnly(p) ==
  {p.boundary.R3_R4_upper, p.boundary.R5_lower} \subseteq {"inclusive", "exclusive"}

\* Exactly one side owns the 40-minute edge.
BoundaryDeclared(p) ==
  {p.boundary.R3_R4_upper, p.boundary.R5_lower} = {"inclusive", "exclusive"}

OverrideMapOK(p) ==
  \A name \in DOMAIN p.overrides :
    /\ p.overrides[name].suppressed \subseteq {p.rules[i].id : i \in DOMAIN p.rules}
    /\ p.overrides[name].mode \in {"attach_to_incident", "per_order"}

ValidFlags == {"requests_human", "confirms_new_eta", "requests_cancellation",
               "accepts_reassignment", "prefers_to_wait"}

ValidActions == {"log_only", "notify_confirm_eta", "auto_reassign",
                 "ask_reassign_or_wait", "escalate_immediate"}

PositiveIntFields == {"retry_cap", "loop_guard_threshold", "agent_repetition_threshold",
                      "unresponsive_attempts"}

\* Every cap is there, whether or not the schema asks for it, and is positive.
ScalarsAndPrecedence(p) ==
  /\ \A field \in PositiveIntFields \cup {"tick_interval_seconds"} :
       field \in DOMAIN p.caps /\ p.caps[field] \in Nat \ {0}
  /\ Len(p.precedence) = 5
  /\ {p.precedence[i] : i \in DOMAIN p.precedence} = ValidFlags
  /\ p.precedence[1] = p.preemption.flag
  /\ \A i \in DOMAIN p.rules : /\ p.rules[i].action \in ValidActions
                               /\ p.rules[i].tiers \subseteq Tiers

InvariantChecks(p) ==
  /\ DelayCoverage(p)
  /\ FirstHitOrdering(p)
  /\ R6IsPreemption(p)
  /\ BoundaryDeclared(p)
  /\ OverrideMapOK(p)
  /\ ScalarsAndPrecedence(p)

-----------------------------------------------------------------------------
(* load_policy.                                                                *)

Init == pack \in Packs /\ status = "read"

Pin    == InvariantChecks(pack) /\ status' = "pinned"
Refuse == ~ InvariantChecks(pack) /\ status' = "refused"

Next == status = "read" /\ (Pin \/ Refuse) /\ UNCHANGED pack

Spec == Init /\ [][Next]_vars

-----------------------------------------------------------------------------
(* What the engine relies on once a pack is pinned.                            *)

Pinned == status = "pinned"

\* The rules the engine would consider for an order, whatever their position.
Matching(tier, delay) == {i \in DOMAIN pack.rules : P(pack)!Matches(i, tier, delay)}

OnAnEdge(delay) == \E b \in Bands(pack) : delay \in {b[1], b[2]}

(* First-hit evaluation is unambiguous: away from the edges of the bands, the   *)
(* position of a rule in the table decides nothing, since no order is matched   *)
(* by two rules.  The bands are compared pairwise by the code only with the one *)
(* before, and tiers only within a band.                                        *)
PinnedTableIsUnambiguous ==
  Pinned => \A tier \in Tiers, delay \in Delays :
    ~ OnAnEdge(delay) =>
      \A i, j \in Matching(tier, delay) : i = j

(* Coverage as the checks give it: an order no rule matches sits on an edge, or *)
(* the rules of its band all leave its tier out.  No delay falls between bands. *)
PinnedTableCoversDelays ==
  Pinned => \A tier \in Tiers, delay \in Delays :
    Matching(tier, delay) # {} \/ OnAnEdge(delay) \/
      \E i \in DOMAIN pack.rules :
        /\ delay >= pack.rules[i].lo
        /\ pack.rules[i].hi = None \/ delay < pack.rules[i].hi
        /\ tier \notin pack.rules[i].tiers

\* The table gives every tier the whole range, band by band, with 40 between the
\* rules the declared inclusivity speaks of.
EdgesAreDeclared ==
  \A i \in DOMAIN pack.rules :
    /\ pack.rules[i].hi = 40 <=> pack.rules[i].id \in {"R3", "R4"}
    /\ pack.rules[i].lo = 40 <=> pack.rules[i].id = "R5"

FullBands ==
  \A b \in Bands(pack) :
    UNION {pack.rules[i].tiers : i \in {k \in DOMAIN pack.rules : Band(pack.rules[k]) = b}} = Tiers

(* Whichever side the pack gives the 40-minute edge to, when the edge lies      *)
(* between R3/R4 and R5 and every band names every tier, each order is matched  *)
(* by exactly one rule, on the edges too.                                       *)
DeclaredEdgeHasOneOwner ==
  Pinned /\ EdgesAreDeclared /\ FullBands =>
    \A tier \in Tiers, delay \in Delays :
      \E i \in DOMAIN pack.rules : Matching(tier, delay) = {i}

(* A guard must see at least one reply before it trips: under a pinned pack the *)
(* first unclear message is answered with a clarification and never by the      *)
(* merchant-side loop guard.                                                    *)
FirstUnclearMessageIsAnswered ==
  Pinned => \A tier \in Tiers, delay \in Delays :
    P(pack)!Decide(tier, delay, << >>, 0, {}).reason # "loop_guard_tripped"
=============================================================================
