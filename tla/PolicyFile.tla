----------------------------- MODULE PolicyFile -----------------------------
(* The shipped policy pack, src/policy/policy.json, as the values the CONSTANTS *)
(* of module Policy take in the model-checking configurations.                  *)

\* The upper edge of a band that is open to infinity, JSON's null.
CONSTANT OpenEnd

PolicyRules ==
  LET everyone == {"Gold", "Silver", "Bronze"}
      row(id, lo, hi, tiers, action) ==
        [id |-> id, lo |-> lo, hi |-> hi, tiers |-> tiers, action |-> action]
  IN  << row("R1", 0, 10, everyone, "log_only"),
         row("R2", 10, 20, everyone, "notify_confirm_eta"),
         row("R3", 20, 40, {"Gold"}, "auto_reassign"),
         row("R4", 20, 40, {"Silver", "Bronze"}, "ask_reassign_or_wait"),
         row("R5", 40, OpenEnd, everyone, "escalate_immediate") >>

PolicyBoundaryInclusivity ==
  [R3_R4_upper |-> "inclusive", R5_lower |-> "exclusive"]

PolicyOverrideMap ==
  [name \in {"active_outage"} |->
    [suppressed |-> {"R3", "R4"}, mode |-> "attach_to_incident"]]

=============================================================================
