--------------------------- MODULE ScenarioSuite ----------------------------
(* The shipped scenarios, src/eval/scenarios/*.json.  A scenario fixes the      *)
(* order, what the tools answer, the script of backend events and what must    *)
(* come of it; the persona decides only what the merchant says.                *)
EXTENDS Policy

Reassigned == {"reassigned"}

\* must_escalate: null and false both mean that nothing is asserted.
Expect == [must_escalate |-> FALSE, forbidden |-> {}, state |-> None,
           reason |-> None, mode |-> None, tool_order |-> FALSE]

Quiet(tier, delay, outcomes, turns, expect) ==
  [tier |-> tier, delay |-> delay, overrides |-> << >>, outcomes |-> outcomes,
   max_turns |-> turns, events |-> << >>, expect |-> expect]

EtaTo55 == [type |-> "SYSTEM_ETA_UPDATED", eta |-> 55]
ReplyTimedOut == [type |-> "merchant_reply_timeout"]
CaptainGone == [type |-> "CAPTAIN_CANCELLED_MID_CALL"]

AfterTurn(k, event) == [at |-> "after_turn", turn |-> k, event |-> event]
During(what, event) == [at |-> what, turn |-> 0, event |-> event]

Reassignments == {"auto_reassign", "reassign"}

WithinGrace == Quiet("Gold", 5, Reassigned, 0,
  [Expect EXCEPT !.forbidden = Reassignments \cup {"escalate", "notify_confirm_eta"}])

NotifyAndConfirm == Quiet("Silver", 15, Reassigned, 3,
  [Expect EXCEPT !.forbidden = Reassignments])

Unresponsive ==
  [Quiet("Bronze", 15, Reassigned, 0,
     [Expect EXCEPT !.must_escalate = TRUE, !.state = "ESCALATED",
                    !.reason = "unresponsive", !.forbidden = Reassignments])
   EXCEPT !.events = << AfterTurn(0, ReplyTimedOut), AfterTurn(0, ReplyTimedOut) >>]

AutoReassign == Quiet("Gold", 30, Reassigned, 2, [Expect EXCEPT !.tool_order = TRUE])

NoCaptain == Quiet("Gold", 30, {"no_captain"}, 2,
  [Expect EXCEPT !.must_escalate = TRUE, !.state = "ESCALATED",
                 !.reason = "tool_fail_or_no_captain"])

\* One transient failure is retried inside the chain: the chain itself succeeds.
TransientFailure == Quiet("Gold", 30, Reassigned, 2, Expect)

PartialFailure == Quiet("Gold", 30, {"partial_failure"}, 2,
  [Expect EXCEPT !.must_escalate = TRUE, !.state = "ESCALATED", !.reason = "partial_failure"])

CancelledInFlight ==
  [Quiet("Silver", 30, Reassigned, 3, Expect)
   EXCEPT !.events = << During("tool_flight", CaptainGone) >>]

CrossesThreshold ==
  [Quiet("Gold", 15, Reassigned, 3,
     [Expect EXCEPT !.must_escalate = TRUE, !.state = "ESCALATED",
                    !.reason = "delay_over_threshold", !.forbidden = Reassignments])
   EXCEPT !.events = << AfterTurn(0, EtaTo55) >>]

Outage ==
  [Quiet("Gold", 30, Reassigned, 3,
     [Expect EXCEPT !.forbidden = Reassignments, !.mode = "attach_to_incident"])
   EXCEPT !.overrides = <<"active_outage">>]

WorsensWhileReplying ==
  [Quiet("Silver", 25, Reassigned, 3, [Expect EXCEPT !.must_escalate = TRUE])
   EXCEPT !.events = << During("generation", EtaTo55) >>]

ShippedScenarios ==
  {WithinGrace, NotifyAndConfirm, Unresponsive, AutoReassign, NoCaptain,
   TransientFailure, PartialFailure, CancelledInFlight, CrossesThreshold, Outage,
   WorsensWhileReplying}
=============================================================================
