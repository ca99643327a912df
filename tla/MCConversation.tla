--------------------------- MODULE MCConversation ---------------------------
(* Values of Conversation's constants for TLC, over the shipped policy pack.   *)
EXTENDS Conversation, PolicyFile

NoOverrides == {<< >>}

GoldAndSilver == {"Gold", "Silver"}

\* A tier decides in this band only.
ReassignBand == {20}

Eta(d) == [type |-> "SYSTEM_ETA_UPDATED", eta |-> d]

Injections == {Eta(15), Eta(41), [type |-> "tool_timeout"]}

ModelIntents == {{}, {"accepts_reassignment"}, {"requests_human"}}

\* An English message with a word of Arabic in it, an Arabic one that asks for a
\* human, and an English one that does so with a word of Arabic in it.
SampleTexts ==
  {[asksForHuman |-> FALSE, dominant |-> "en", present |-> "ar"],
   [asksForHuman |-> TRUE, dominant |-> "ar", present |-> "ar"],
   [asksForHuman |-> TRUE, dominant |-> "en", present |-> "ar"]}
=============================================================================
