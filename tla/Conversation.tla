---------------------------- MODULE Conversation ----------------------------
(* The two model edges around CareAgent: the classifier that reads a message    *)
(* (src/src/care_agent/llm/classifier.py) and the generator that words a reply  *)
(* (llm/generator.py with guardrails/promise_guard.py), both over a client that *)
(* may fail or answer anything (llm/client.py).                                 *)
(*                                                                              *)
(* A text is what the edges tell apart of it: whether it plainly asks for a     *)
(* human, which language dominates it, and which is merely present in it.       *)
EXTENDS CareAgent

CONSTANT Texts    \* the messages a merchant may write

VARIABLES
  language,       \* the agent's reply language
  written,        \* the language that dominates the last message it read
  said,           \* the agent's side of the transcript
  classified, phrased   \* calls made to the classifying and to the wording model

edgeVars == <<language, written, said, classified, phrased>>
conversationVars == <<vars, edgeVars>>

Languages == {"en", "ar", "ar-latn"}

ASSUME ConversationAssumption ==
  Texts \subseteq [asksForHuman : BOOLEAN, dominant : Languages, present : Languages]

ConversationInit ==
  /\ Init
  /\ language = "en" /\ written = "en"
  /\ said = << >> /\ classified = 0 /\ phrased = 0

-----------------------------------------------------------------------------
(* Reading: a plain request for a human never reaches the model.               *)

Deliver(flags) == (MerchantMessage(flags) \/ Inert("log")) /\ BeginTurn

\* The backstop tags the language by presence.
ReadPlainRequest(text) ==
  /\ text.asksForHuman
  /\ Deliver({"requests_human"})
  /\ language' = text.present /\ written' = text.dominant
  /\ UNCHANGED classified

\* Tag mutant: the tag of a read message is not reconciled with its script.
ReadByModelUnreconciled(text) ==
  /\ \E flags \in Intents : Deliver(flags)
  /\ language' = text.present /\ written' = text.dominant
  /\ classified' = classified + 1

\* The model labels the text; the tag it gives yields to the dominant script.
ReadByModel(text) ==
  /\ \E flags \in Intents : Deliver(flags)
  /\ language' = text.dominant /\ written' = text.dominant
  /\ classified' = classified + 1

\* No client, a refusal, or an answer that is no object: nothing is guessed.
ReadFails ==
  /\ (ClassifierUnavailable \/ Inert("log")) /\ BeginTurn
  /\ classified' = classified + 1
  /\ UNCHANGED <<language, written>>

\* Backstop mutant: every text is left to the model.
ReadWithoutBackstop(text) == ReadByModel(text) \/ ReadFails

Read(text) ==
  \/ ReadPlainRequest(text)
  \/ ~ text.asksForHuman /\ (ReadByModel(text) \/ ReadFails)

Hear(text) == Read(text) /\ UNCHANGED <<said, phrased>>

-----------------------------------------------------------------------------
(* Wording: whatever the model drafts, something approved goes out.            *)

Drafts == {"failed", "empty", "promising", "plain"}

\* The pre-approved wording replaces every draft but one that passed the guard.
Wording(draft) == IF draft = "plain" THEN "draft" ELSE "fallback"

\* Retry mutant: the model is asked again when the guard blocks its draft.
UtterAskingAgain(action) ==
  \E draft \in Drafts :
    /\ said' = Append(said, [action |-> action, language |-> language, wording |-> Wording(draft)])
    /\ phrased' = phrased + IF draft = "promising" THEN 2 ELSE 1
    /\ UNCHANGED <<language, written, classified>>

\* Silence mutant: no reply goes out when the model cannot be reached.
UtterOrKeepSilent(action) ==
  \E draft \in Drafts :
    /\ said' = IF draft = "failed" THEN said
               ELSE Append(said, [action |-> action, language |-> language, wording |-> Wording(draft)])
    /\ phrased' = phrased + 1
    /\ UNCHANGED <<language, written, classified>>

\* generate: one call, one reply, in the agent's reply language.
Utter(action) ==
  \E draft \in Drafts :
    /\ said' = Append(said, [action |-> action, language |-> language, wording |-> Wording(draft)])
    /\ phrased' = phrased + 1
    /\ UNCHANGED <<language, written, classified>>

SayWorded == Say /\ Utter(Next1.action)

\* A handoff is announced to the merchant.
OpenTicketWorded == OpenTicket /\ Utter("escalate")

-----------------------------------------------------------------------------

Unheard ==
  /\ \/ \E ev \in InjectedEvents : SendEvent(ev) \/ Arm(ev)
     \/ Record \/ QueueDone \/ InjectMidFlight \/ DeliverResult \/ DispatchNested
     \/ \E outcome \in Outcomes, c \in Captains : RunChain(outcome, c)
  /\ UNCHANGED edgeVars

ConversationNext ==
  (\E text \in Texts : Hear(text)) \/ SayWorded \/ OpenTicketWorded \/ Unheard

ConversationSpec == ConversationInit /\ [][ConversationNext]_conversationVars

-----------------------------------------------------------------------------
(* Properties.                                                                 *)

\* A plain request for a human hands an open session off for that reason, with
\* the model down, refusing or wrong, and without paying for a classification.
PlainRequestNeedsNoModel ==
  [][\A text \in Texts :
       Hear(text) /\ text.asksForHuman /\ Live =>
         terminalReason' = "human_requested" /\ classified' = classified]_conversationVars

Announcements == {i \in DOMAIN said : said[i].action = "escalate"}

\* The merchant is told once that a human takes over, and only when one does: at
\* the end of every turn the transcript agrees with the desk, whichever model
\* failed and whatever was injected.
HandoffIsAnnounced == Idle => Cardinality(Announcements) = Len(tickets)

\* Work is bounded by input: a turn costs one classification at most and one
\* worded reply, an injected event one more, however chains and results cascade.
ReplyCostIsBounded ==
  /\ classified <= turns
  /\ phrased <= 1 + turns + armed

(* Only the announcement of a handoff the merchant asked for may go out in a    *)
(* language merely present in the message: every other reply goes out in the    *)
(* one that dominates the last message the agent read, whichever way it was read *)
(* and whatever was injected since.                                             *)
RepliesFollowDominance ==
  [][\A i \in DOMAIN said' :
       i > Len(said) /\ said'[i].language # written =>
         /\ said'[i].action = "escalate"
         /\ terminalReason = "human_requested"]_conversationVars
=============================================================================
