--------------------------- MODULE MCPolicyLoader ---------------------------
(* Candidate packs for PolicyLoader: every table of up to three rules over the  *)
(* bands around two edges, and the shipped pack with a field spoilt or missing. *)
EXTENDS PolicyLoader

OpenEnd == None

Shipped == INSTANCE PolicyFile

ShippedPack ==
  [rules |-> Shipped!PolicyRules, boundary |-> Shipped!PolicyBoundaryInclusivity,
   overrides |-> Shipped!PolicyOverrideMap,
   preemption |-> [flag |-> "requests_human", action |-> "escalate"],
   precedence |-> <<"requests_human", "requests_cancellation", "accepts_reassignment",
                    "prefers_to_wait", "confirms_new_eta">>,
   caps |-> [retry_cap |-> 2, loop_guard_threshold |-> 3,
             agent_repetition_threshold |-> 2, unresponsive_attempts |-> 2,
             tick_interval_seconds |-> 60]]

CandidateBands == {<<0, 20>>, <<0, None>>, <<20, 40>>, <<40, None>>, <<10, 40>>}

CandidateRows ==
  {[id |-> id, lo |-> b[1], hi |-> b[2], tiers |-> t, action |-> "notify_confirm_eta"] :
     id \in {"R1", "R3", "R5"}, b \in CandidateBands,
     t \in {Tiers, {"Gold"}, {"Silver", "Bronze"}}}

CandidateTables ==
  UNION {[1 .. n -> CandidateRows] : n \in 1 .. 2} \cup
  {r \in [1 .. 3 -> CandidateRows] : r[1].lo = 0 /\ r[1].id = "R1"}

Inclusivities == [R3_R4_upper : {"inclusive", "exclusive"},
                  R5_lower : {"inclusive", "exclusive"}]

TablePacks ==
  {[ShippedPack EXCEPT !.rules = r, !.boundary = b, !.overrides = << >>] :
     r \in CandidateTables, b \in Inclusivities}

SpoiltPacks ==
  {[ShippedPack EXCEPT !.boundary = b] : b \in Inclusivities} \cup
  {[ShippedPack EXCEPT !.caps[f] = n] : f \in DOMAIN ShippedPack.caps, n \in 0 .. 1} \cup
  {[ShippedPack EXCEPT !.caps = [g \in DOMAIN @ \ {f} |-> @[g]]] : f \in DOMAIN ShippedPack.caps} \cup
  {[ShippedPack EXCEPT !.preemption.flag = "prefers_to_wait"],
   [ShippedPack EXCEPT !.precedence = Tail(@)],
   [ShippedPack EXCEPT !.rules[5].id = "R6"],
   [ShippedPack EXCEPT !.overrides["active_outage"].suppressed = {"R3", "R9"}]}

CandidatePacks == TablePacks \cup SpoiltPacks

SampleDelays == {0, 5, 10, 15, 20, 25, 40, 41}

=============================================================================
