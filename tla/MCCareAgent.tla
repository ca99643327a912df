---------------------------- MODULE MCCareAgent -----------------------------
(* Values of CareAgent's constants for TLC, over the shipped policy pack.      *)
EXTENDS CareAgent, PolicyFile

NoOverrideOrOutage == {<< >>, <<"active_outage">>}

\* The merchant's tier decides between two rules in one band only.
GoldAndSilver == {"Gold", "Silver"}

\* The band in which the tiers differ; the injected lateness reaches the others.
ReassignBand == {20}

Eta(d) == [type |-> "SYSTEM_ETA_UPDATED", eta |-> d]

\* Lateness moving between all bands, the lowest by a clamped payload, and the
\* events that carry none.
Injections ==
  {Eta(-5), Eta(20), Eta(41)} \cup
  {[type |-> t] : t \in {"CAPTAIN_CANCELLED_MID_CALL", "ORDER_PREP_COMPLETED",
                         "merchant_reply_timeout", "tool_timeout", "tick"}}

TurnIntents == {{"requests_human"}, {"accepts_reassignment"}}
=============================================================================
