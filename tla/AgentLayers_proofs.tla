------------------------- MODULE AgentLayers_proofs -------------------------
(* The two layers around the agent's loop, each an extension of CareAgent.        *)
(* The model edges (Conversation), for every pack, any texts, any answer of      *)
(* either model and any events injected anywhere: a handoff is announced once,    *)
(* model calls are bounded by the input, a plain request for a human is obeyed    *)
(* without the model, and a reply follows the language of the message.            *)
(* The evaluation harness (EvalRun), for every pack and any suite: what it drives *)
(* is the agent of CareAgent, so what is proved of that agent holds of every      *)
(* graded run; and the verdicts a suite's records make up for, if its records     *)
(* are shaped as the shipped ones are.                                            *)
EXTENDS Conversation, EvalRun, CareAgent_proofs

-----------------------------------------------------------------------------
(* The invariant: that of the loop, and what is still to be said and paid for. *)

SaidOK == \E S : said \in Seq(S)

Announced == Cardinality(Announcements) = Len(tickets)

CostOK ==
  /\ turns \in Nat /\ armed \in Nat /\ classified \in Nat /\ phrased \in Nat
  /\ classified <= turns
  /\ phrased + Owed <= 1 + turns + armed

\* A tag that is not the dominant language was set by a plain request, and what
\* is left to say since is the announcement of that handoff.
LanguageOK ==
  language # written =>
    /\ ~ Live
    /\ Count(stack, {"send_message"}) = 0
    /\ Count(stack, {"escalate"}) # 0 => terminalReason = "human_requested"

EdgeInv == AgentInv /\ SaidOK /\ Announced /\ CostOK /\ LanguageOK

-----------------------------------------------------------------------------
(* Lemmas.                                                                     *)

\* The budget grows by m turns and k injected events; the cost by d replies worded,
\* out of those owed, and by one new reply owed at most for each of the m and k.
LEMMA CostStep ==
  ASSUME CostOK, NEW d \in Nat, NEW m \in Nat, NEW k \in Nat, NEW c \in 0 .. m, NEW owed \in Nat,
         Owed \in Nat, Owed' = owed, owed + d <= Owed + m + k,
         phrased' = phrased + d, turns' = turns + m, armed' = armed + k, classified' = classified + c
  PROVE  CostOK'
  <1>1. /\ turns \in Nat /\ armed \in Nat /\ classified \in Nat /\ phrased \in Nat
        /\ classified <= turns /\ phrased + Owed <= 1 + turns + armed
    BY DEF CostOK
  <1>2. /\ (phrased + d) + owed <= 1 + (turns + m) + (armed + k) /\ classified + c <= turns + m
        /\ turns + m \in Nat /\ armed + k \in Nat /\ classified + c \in Nat /\ phrased + d \in Nat
    BY <1>1
  <1>. QED  BY <1>2, Zenon DEF CostOK

\* One reply is worded: the transcript gains an entry, and an announcement if the
\* reply is one.
LEMMA UtterOne ==
  ASSUME SaidOK, NEW action, Utter(action)
  PROVE  /\ SaidOK' /\ phrased' = phrased + 1 /\ UNCHANGED <<language, written, classified>>
         /\ Cardinality(Announcements) \in Nat
         /\ Cardinality(Announcements') =
              Cardinality(Announcements) + IF action = "escalate" THEN 1 ELSE 0
  <1>1. PICK S : said \in Seq(S)
    BY DEF SaidOK
  <1>2. PICK draft \in Drafts :
          said' = Append(said, [action |-> action, language |-> language, wording |-> Wording(draft)])
    BY DEF Utter
  <1>. DEFINE entry == [action |-> action, language |-> language, wording |-> Wording(draft)]
  <1>3. said \in Seq(S \cup {entry})
    BY <1>1, SeqMonotonic
  <1>4. entry.action = action /\ said' = Append(said, entry)
    BY <1>2
  <1>. HIDE DEF entry
  <1>5. /\ said' \in Seq(S \cup {entry}) /\ Len(said) \in Nat
        /\ DOMAIN said = 1 .. Len(said) /\ DOMAIN said' = 1 .. Len(said) + 1
        /\ \A i \in 1 .. Len(said) : said'[i] = said[i]
        /\ said'[Len(said) + 1] = entry
    BY <1>3, <1>4
  <1>6. Announcements' = IF action = "escalate" THEN Announcements \cup {Len(said) + 1}
                         ELSE Announcements
    BY <1>4, <1>5 DEF Announcements
  <1>7. Len(said) + 1 \notin Announcements /\ IsFiniteSet(Announcements)
    <2>1. Announcements \in SUBSET (1 .. Len(said))
      BY <1>5 DEF Announcements
    <2>2. IsFiniteSet(1 .. Len(said)) /\ Len(said) + 1 \notin 1 .. Len(said)
      BY <1>5, FS_Interval
    <2>. QED  BY <2>1, <2>2, FS_Subset
  <1>8. /\ Cardinality(Announcements) \in Nat
        /\ Cardinality(Announcements \cup {Len(said) + 1}) = Cardinality(Announcements) + 1
    BY <1>7, FS_CardinalityType, FS_AddElement
  <1>9. SaidOK'
    BY <1>5 DEF SaidOK
  <1>. QED  BY <1>6, <1>8, <1>9 DEF Utter

\* Reading a plain request hands an open session off for that reason.
LEMMA RequestHandsOff ==
  ASSUME MerchantMessage({"requests_human"})
  PROVE  /\ terminalReason' = "human_requested" /\ fsm' = "ESCALATED"
         /\ ~ Emits("send_message", effects')
  <1>. DEFINE flags == {"requests_human"}
              env == Decide(tier, delay, overrides, pushCount, flags)
  <1>1. env.action = "escalate" /\ env.reason = "human_requested"
    <2>1. flags # None
      BY NoneAssumption DEF Flags
    <2>. QED  BY <2>1 DEF Decide, Asks, Handoff, Envelope
  <1>2. ASSUME NEW e, e.action = "escalate", Route(e, epoch)
        PROVE  terminalReason' = e.reason /\ fsm' = "ESCALATED" /\ ~ Emits("send_message", effects')
    <2>1. RoutedFsm(e.action) = "ESCALATED" /\ RoutedReason(e) = e.reason
      BY <1>2 DEF RoutedFsm, RoutedReason, ReassignActions, TerminalStates
    <2>2. effects' = << Escalation(e.reason, e.mode) >>
      BY <1>2 DEF Route, RoutedEffects, ReassignActions
    <2>. QED  BY <1>2, <2>1, <2>2 DEF Route, Emits, Escalation
  <1>3. CASE MessageInFlight(flags)
    <2>1. Route(env, epoch)
      BY <1>3 DEF MessageInFlight
    <2>. HIDE DEF env
    <2>. QED  BY <1>1, <1>2, <2>1
  <1>4. CASE AnswerMessage(flags)
    <2>1. NextStalls(env) = 0
      BY <1>1 DEF NextStalls, StallActions
    <2>2. \A pushes, reps : ~ Stuck(env, pushes, reps, 0)
      BY <1>1, PolicyAssumption DEF Stuck, NonProgressingActions
    <2>3. Route(env, epoch)
      BY <1>4, <2>1, <2>2 DEF AnswerMessage
    <2>. HIDE DEF env
    <2>. QED  BY <1>1, <1>2, <2>3
  <1>. QED  BY <1>3, <1>4 DEF MerchantMessage

-----------------------------------------------------------------------------
(* Steps that say nothing.                                                     *)

\* What an event leaves to be said is in the right language.
LEMMA EventKeepsLanguage ==
  ASSUME LanguageOK, ShapesOK, Fits, UNCHANGED <<language, written>>,
         Count(stack', {"send_message"}) =
           Count(stack, {"send_message"}) + InQueue(effects', {"send_message"}),
         Count(stack', {"escalate"}) = Count(stack, {"escalate"}) + InQueue(effects', {"escalate"})
  PROVE  LanguageOK'
  <1>. SUFFICES ASSUME language' # written'
                PROVE  /\ ~ Live' /\ Count(stack', {"send_message"}) = 0
                       /\ Count(stack', {"escalate"}) # 0 => terminalReason' = "human_requested"
    BY DEF LanguageOK
  <1>1. /\ ~ Live /\ Count(stack, {"send_message"}) = 0
        /\ Count(stack, {"escalate"}) # 0 => terminalReason = "human_requested"
    BY DEF LanguageOK
  <1>2. InQueue(effects', {"send_message"}) = 0 /\ InQueue(effects', {"escalate"}) = 0
    BY <1>1, EventAsksOnce
  <1>3. UNCHANGED <<fsm, terminalReason>>
    BY <1>1 DEF Fits
  <1>. QED  BY <1>1, <1>2, <1>3, OwedIsNat DEF Live

\* Taking work off the stack leaves less to be said.
LEMMA WorkKeepsLanguage ==
  ASSUME LanguageOK, ShapesOK, ShapesOK', UNCHANGED <<language, written, fsm, terminalReason>>,
         Count(stack', {"send_message"}) <= Count(stack, {"send_message"}),
         Count(stack', {"escalate"}) <= Count(stack, {"escalate"})
  PROVE  LanguageOK'
  <1>1. /\ Count(stack, {"send_message"}) \in Nat /\ Count(stack, {"escalate"}) \in Nat
        /\ Count(stack', {"send_message"}) \in Nat /\ Count(stack', {"escalate"}) \in Nat
    BY CountsAreNat DEF ShapesOK
  <1>. QED  BY <1>1 DEF LanguageOK, Live

\* The transcript and the desk are as they were.
LEMMA QuietOK ==
  ASSUME EdgeInv, UNCHANGED <<said, tickets>>
  PROVE  SaidOK' /\ Announced'
  BY DEF EdgeInv, SaidOK, Announced, Announcements

\* A turn begins: one classification at most, and one reply to come.
LEMMA BeginTurnCost ==
  ASSUME EdgeInv, Fits, BeginTurn, UNCHANGED <<said, phrased>>,
         classified' = classified \/ classified' = classified + 1
  PROVE  /\ AgentInv' /\ SaidOK' /\ Announced' /\ CostOK'
         /\ \A kinds : Count(stack, kinds) = 0 /\ Count(stack', kinds) = InQueue(effects', kinds)
  <1>1. turns' = turns + 1 /\ UNCHANGED <<tickets, armed>>
    BY DEF BeginTurn
  <1>2. AgentInv'
    BY BeginTurnOK DEF EdgeInv
  <1>3. /\ Owed \in Nat /\ \E owed \in Nat : Owed' = owed /\ owed <= Owed + 1
        /\ \A kinds : Count(stack, kinds) = 0 /\ Count(stack', kinds) = InQueue(effects', kinds)
    BY TurnOwes DEF EdgeInv
  <1>4. CostOK'
    <2>1. PICK owed \in Nat : Owed' = owed /\ owed + 0 <= Owed + 1 + 0
      BY <1>3
    <2>2. PICK c \in 0 .. 1 : classified' = classified + c
      <3>1. classified \in Nat
        BY DEF EdgeInv, CostOK
      <3>. QED  BY <3>1
    <2>3. phrased' = phrased + 0 /\ turns' = turns + 1 /\ armed' = armed + 0
      BY <1>1 DEF EdgeInv, CostOK
    <2>. QED  BY <1>3, <2>1, <2>2, <2>3, CostStep DEF EdgeInv
  <1>. QED  BY <1>1, <1>2, <1>3, <1>4, QuietOK

\* A text is read.
LEMMA HearOK ==
  ASSUME EdgeInv, NEW text \in Texts, Hear(text)
  PROVE  EdgeInv'
  <1>1. /\ BeginTurn /\ UNCHANGED <<said, phrased>> /\ Fits
        /\ classified' = classified \/ classified' = classified + 1
    <2>1. CASE ReadPlainRequest(text)
      BY <2>1, MessageFits DEF Hear, ReadPlainRequest, Deliver, EdgeInv, AgentInv
    <2>2. CASE ReadByModel(text)
      BY <2>2, MessageFits DEF Hear, ReadByModel, Deliver, EdgeInv, AgentInv
    <2>3. CASE ReadFails
      BY <2>3, MessageFits DEF Hear, ReadFails, EdgeInv, AgentInv
    <2>. QED  BY <2>1, <2>2, <2>3 DEF Hear, Read
  <1>2. /\ AgentInv' /\ SaidOK' /\ Announced' /\ CostOK'
        /\ \A kinds : Count(stack, kinds) = 0 /\ Count(stack', kinds) = InQueue(effects', kinds)
    BY <1>1, BeginTurnCost
  <1>3. LanguageOK'
    <2>1. CASE ReadPlainRequest(text) /\ Live
      <3>1. MerchantMessage({"requests_human"})
        BY <2>1 DEF ReadPlainRequest, Deliver, Inert
      <3>2. terminalReason' = "human_requested" /\ fsm' = "ESCALATED" /\ ~ Emits("send_message", effects')
        BY <3>1, RequestHandsOff
      <3>3. InQueue(effects', {"send_message"}) = 0
        <4>1. PICK fx : fx = effects'
          OBVIOUS
        <4>2. Shaped(fx) /\ ~ Emits("send_message", fx)
          BY <1>1, <3>2, <4>1 DEF Fits
        <4>. QED  BY <4>1, <4>2, ShapedQueue
      <3>. QED  BY <1>2, <3>2, <3>3 DEF LanguageOK, Live, TerminalStates
    <2>2. CASE ~ Live
      <3>1. UNCHANGED <<fsm, terminalReason>>
        BY <1>1, <2>2 DEF Fits
      <3>2. InQueue(effects', {"send_message"}) = 0 /\ InQueue(effects', {"escalate"}) = 0
        BY <1>1, <2>2, EventAsksOnce
      <3>. QED  BY <1>2, <2>2, <3>1, <3>2 DEF LanguageOK, Live
    <2>3. CASE ReadByModel(text)
      BY <2>3 DEF ReadByModel, LanguageOK
    <2>4. CASE ReadFails /\ Live
      <3>1. UNCHANGED <<language, written>> /\ language = written
        BY <2>4 DEF ReadFails, EdgeInv, LanguageOK
      <3>. QED  BY <3>1 DEF LanguageOK
    <2>. QED  BY <2>1, <2>2, <2>3, <2>4 DEF Hear, Read
  <1>. QED  BY <1>2, <1>3 DEF EdgeInv

\* An event opens a turn.
LEMMA SendEventOK ==
  ASSUME EdgeInv, NEW ev \in InjectedEvents, SendEvent(ev), UNCHANGED edgeVars
  PROVE  EdgeInv'
  <1>1. BeginTurn /\ Fits /\ UNCHANGED <<language, written, said, classified, phrased>>
    BY ApplyFits DEF SendEvent, EdgeInv, AgentInv, edgeVars
  <1>2. /\ AgentInv' /\ SaidOK' /\ Announced' /\ CostOK'
        /\ \A kinds : Count(stack, kinds) = 0 /\ Count(stack', kinds) = InQueue(effects', kinds)
    BY <1>1, BeginTurnCost
  <1>3. /\ Count(stack', {"send_message"}) =
             Count(stack, {"send_message"}) + InQueue(effects', {"send_message"})
        /\ Count(stack', {"escalate"}) = Count(stack, {"escalate"}) + InQueue(effects', {"escalate"})
    BY <1>1, <1>2, EventAsksOnce
  <1>4. LanguageOK'
    BY <1>1, <1>3, EventKeepsLanguage DEF EdgeInv, AgentInv
  <1>. QED  BY <1>2, <1>4 DEF EdgeInv

\* An event is queued for injection: it may cost a reply when it lands.
LEMMA ArmedOK ==
  ASSUME EdgeInv, NEW ev \in InjectedEvents, Arm(ev), UNCHANGED edgeVars
  PROVE  EdgeInv'
  <1>1. /\ UNCHANGED <<stack, returning, tickets, turns, fsm, terminalReason>>
        /\ UNCHANGED <<language, written, said, classified, phrased>>
        /\ armed' = armed + 1
    BY DEF Arm, edgeVars, sessionVars, routed
  <1>2. AgentInv'
    BY ArmOK DEF EdgeInv
  <1>3. CostOK'
    <2>1. Owed \in Nat /\ Owed' = Owed + 1
      BY ArmOwes DEF EdgeInv
    <2>2. PICK owed \in Nat : Owed' = owed /\ owed + 0 <= Owed + 0 + 1
      BY <2>1
    <2>3. phrased' = phrased + 0 /\ turns' = turns + 0 /\ armed' = armed + 1 /\ classified' = classified + 0
      BY <1>1 DEF EdgeInv, CostOK
    <2>. QED  BY <2>1, <2>2, <2>3, CostStep DEF EdgeInv
  <1>4. LanguageOK'
    BY <1>1 DEF EdgeInv, LanguageOK, Live
  <1>. QED  BY <1>1, <1>2, <1>3, <1>4, QuietOK DEF EdgeInv

-----------------------------------------------------------------------------
(* Steps of the loop.                                                          *)

\* A reply is worded and sent.
LEMMA SayOK ==
  ASSUME EdgeInv, SayWorded
  PROVE  EdgeInv' /\ language = written
  <1>1. /\ Handling("send_message") /\ SayThen(Rest) /\ Utter(Next1.action)
        /\ UNCHANGED <<sessionVars, injectTool, returning, tickets, armed, turns>>
    BY DEF SayWorded, Say
  <1>2. AgentInv'
    BY <1>1, HandlerOK DEF EdgeInv
  <1>3. Next1.action # "escalate"
    <2>1. ItemOK(Next1) /\ Next1.kind = "send_message"
      BY <1>1, NextItem DEF EdgeInv, AgentInv, ShapesOK, Handling
    <2>. QED  BY <2>1 DEF ItemOK
  <1>4. /\ SaidOK' /\ phrased' = phrased + 1 /\ UNCHANGED <<language, written, classified>>
        /\ Cardinality(Announcements') = Cardinality(Announcements)
    <2>1. /\ Cardinality(Announcements) \in Nat
          /\ Cardinality(Announcements') = Cardinality(Announcements) + 0
      BY <1>1, <1>3, UtterOne DEF EdgeInv
    <2>. QED  BY <1>1, <2>1, UtterOne DEF EdgeInv
  <1>5. /\ Owed \in Nat /\ \E owed \in Nat : Owed' = owed /\ owed + 1 = Owed
        /\ \A k \in {"send_message", "escalate"} :
             Count(stack', {k}) = Count(stack, {k}) - IF k = "send_message" THEN 1 ELSE 0
    BY <1>1, <1>2, ReplyPays DEF EdgeInv
  <1>6. language = written
    <2>1. /\ Count(stack, {"send_message"}) \in Nat /\ Count(stack', {"send_message"}) \in Nat
          /\ Count(stack', {"send_message"}) = Count(stack, {"send_message"}) - 1
      BY <1>2, <1>5, CountsAreNat DEF EdgeInv, AgentInv, ShapesOK
    <2>. QED  BY <2>1 DEF EdgeInv, LanguageOK
  <1>7. Announced'
    BY <1>1, <1>4 DEF EdgeInv, Announced
  <1>8. CostOK'
    <2>1. PICK owed \in Nat : Owed' = owed /\ owed + 1 = Owed
      BY <1>5
    <2>2. phrased' = phrased + 1 /\ turns' = turns + 0 /\ armed' = armed + 0 /\ classified' = classified + 0
      BY <1>1, <1>4 DEF EdgeInv, CostOK
    <2>3. owed + 1 <= Owed + 0 + 0
      BY <1>5, <2>1
    <2>. QED  BY <1>5, <2>1, <2>2, <2>3, CostStep DEF EdgeInv
  <1>9. LanguageOK'
    BY <1>4, <1>6 DEF LanguageOK
  <1>. QED  BY <1>2, <1>4, <1>6, <1>7, <1>8, <1>9 DEF EdgeInv

\* A ticket is opened and announced.
LEMMA AnnounceOK ==
  ASSUME EdgeInv, OpenTicketWorded
  PROVE  EdgeInv' /\ (language # written => terminalReason = "human_requested")
  <1>1. /\ OpenTicket /\ Handling("escalate") /\ SayThen(Rest) /\ Utter("escalate")
        /\ tickets' = Append(tickets, [reason |-> Next1.reason, mode |-> Next1.mode,
                                       rule |-> lastAction.rule])
        /\ UNCHANGED <<sessionVars, injectTool, returning, armed, turns>>
    BY DEF OpenTicketWorded, OpenTicket
  <1>2. AgentInv'
    BY <1>1, OpenTicketOK DEF EdgeInv
  <1>3. /\ SaidOK' /\ phrased' = phrased + 1 /\ UNCHANGED <<language, written, classified>>
        /\ Cardinality(Announcements') = Cardinality(Announcements) + 1
    BY <1>1, UtterOne DEF EdgeInv
  <1>4. Len(tickets') = Len(tickets) + 1
    <2>. DEFINE ticket == [reason |-> Next1.reason, mode |-> Next1.mode, rule |-> lastAction.rule]
    <2>1. PICK S : tickets \in Seq(S)
      BY DEF EdgeInv, AgentInv, ShapesOK
    <2>2. tickets \in Seq(S \cup {ticket}) /\ tickets' = Append(tickets, ticket)
      BY <1>1, <2>1, SeqMonotonic
    <2>. HIDE DEF ticket
    <2>. QED  BY <2>2
  <1>5. /\ Owed \in Nat /\ \E owed \in Nat : Owed' = owed /\ owed + 1 = Owed
        /\ \A k \in {"send_message", "escalate"} :
             Count(stack', {k}) = Count(stack, {k}) - IF k = "escalate" THEN 1 ELSE 0
    BY <1>1, <1>2, ReplyPays DEF EdgeInv
  <1>6. /\ Count(stack, {"send_message"}) \in Nat
        /\ Count(stack, {"escalate"}) \in Nat /\ Count(stack', {"escalate"}) \in Nat
        /\ Count(stack', {"escalate"}) = Count(stack, {"escalate"}) - 1
        /\ Count(stack', {"send_message"}) = Count(stack, {"send_message"})
    BY <1>2, <1>5, CountsAreNat DEF EdgeInv, AgentInv, ShapesOK
  <1>7. language # written => terminalReason = "human_requested"
    BY <1>6 DEF EdgeInv, LanguageOK
  <1>8. Announced'
    BY <1>3, <1>4 DEF EdgeInv, Announced
  <1>9. CostOK'
    <2>1. PICK owed \in Nat : Owed' = owed /\ owed + 1 = Owed
      BY <1>5
    <2>2. phrased' = phrased + 1 /\ turns' = turns + 0 /\ armed' = armed + 0 /\ classified' = classified + 0
      BY <1>1, <1>3 DEF EdgeInv, CostOK
    <2>3. owed + 1 <= Owed + 0 + 0
      BY <1>5, <2>1
    <2>. QED  BY <1>5, <2>1, <2>2, <2>3, CostStep DEF EdgeInv
  <1>10. LanguageOK'
    <2>1. UNCHANGED <<fsm, terminalReason>>
      BY <1>1 DEF sessionVars, routed
    <2>. QED  BY <1>2, <1>3, <1>6, <2>1, WorkKeepsLanguage DEF EdgeInv, AgentInv
  <1>. QED  BY <1>2, <1>3, <1>7, <1>8, <1>9, <1>10 DEF EdgeInv

-----------------------------------------------------------------------------
(* Steps of the loop the merchant does not hear.                               *)

\* A step that words nothing and owes no more keeps the bound.
LEMMA CostKept ==
  ASSUME CostOK, UNCHANGED <<turns, armed, classified, phrased>>,
         NEW before \in Nat, Owed = before, NEW after \in Nat, Owed' = after, after <= before
  PROVE  CostOK'
  <1>1. /\ phrased' = phrased + 0 /\ turns' = turns + 0 /\ armed' = armed + 0
        /\ classified' = classified + 0
    BY DEF CostOK
  <1>2. Owed \in Nat /\ after + 0 <= Owed + 0 + 0
    OBVIOUS
  <1>. QED  BY <1>1, <1>2, CostStep

\* An item that asks for no reply is done with, or a call of _dispatch returns.
LEMMA SilentOK ==
  ASSUME EdgeInv, Record \/ QueueDone, UNCHANGED edgeVars
  PROVE  EdgeInv'
  <1>1. /\ UNCHANGED <<sessionVars, tickets, armed, turns>>
        /\ UNCHANGED <<language, written, said, classified, phrased>>
    BY DEF Record, QueueDone, edgeVars
  <1>2. AgentInv'
    BY WorkOK DEF EdgeInv, Work
  <1>3. /\ \E owed \in Nat : Owed = owed /\ Owed' = owed
        /\ Count(stack', {"send_message"}) = Count(stack, {"send_message"})
        /\ Count(stack', {"escalate"}) = Count(stack, {"escalate"})
    BY SilentOwes DEF EdgeInv
  <1>4. CostOK'
    BY <1>1, <1>3, CostKept DEF EdgeInv
  <1>5. LanguageOK'
    <2>1. UNCHANGED <<fsm, terminalReason>>
      BY <1>1 DEF sessionVars, routed
    <2>. QED  BY <1>1, <1>3, <2>1 DEF EdgeInv, LanguageOK, Live
  <1>. QED  BY <1>1, <1>2, <1>4, <1>5, QuietOK DEF EdgeInv

\* A chain runs: what it may ask for is now asked for by its result.
LEMMA ChainOK ==
  ASSUME EdgeInv, NEW outcome \in Outcomes, NEW c \in Captains, RunChain(outcome, c),
         UNCHANGED edgeVars
  PROVE  EdgeInv'
  <1>1. /\ UNCHANGED <<sessionVars, tickets, armed, turns>>
        /\ UNCHANGED <<language, written, said, classified, phrased>>
    BY DEF RunChain, edgeVars
  <1>2. AgentInv'
    BY RunChainOK DEF EdgeInv
  <1>3. /\ \E owed \in Nat : Owed = owed /\ Owed' = owed
        /\ Count(stack', {"send_message"}) = Count(stack, {"send_message"})
        /\ Count(stack', {"escalate"}) = Count(stack, {"escalate"})
    BY ChainOwes DEF EdgeInv
  <1>4. CostOK'
    BY <1>1, <1>3, CostKept DEF EdgeInv
  <1>5. LanguageOK'
    <2>1. UNCHANGED <<fsm, terminalReason>>
      BY <1>1 DEF sessionVars, routed
    <2>. QED  BY <1>1, <1>3, <2>1 DEF EdgeInv, LanguageOK, Live
  <1>. QED  BY <1>1, <1>2, <1>4, <1>5, QuietOK DEF EdgeInv

\* An event or a result is applied while the handler of a chain runs.
LEMMA LandedOK ==
  ASSUME EdgeInv, InjectMidFlight \/ DeliverResult, UNCHANGED edgeVars
  PROVE  EdgeInv'
  <1>1. /\ UNCHANGED <<tickets, armed, turns>>
        /\ UNCHANGED <<language, written, said, classified, phrased>>
    BY DEF InjectMidFlight, DeliverResult, edgeVars
  <1>2. AgentInv'
    BY WorkOK DEF EdgeInv, Work
  <1>3. Fits
    BY LandedFits DEF EdgeInv
  <1>4. /\ \E before, after \in Nat : Owed = before /\ Owed' = after /\ after <= before
        /\ \A kinds : Count(stack', kinds) = Count(stack, kinds) + InQueue(effects', kinds)
    BY <1>3, LandedOwes DEF EdgeInv
  <1>5. CostOK'
    BY <1>1, <1>4, CostKept DEF EdgeInv
  <1>6. LanguageOK'
    BY <1>1, <1>3, <1>4, EventKeepsLanguage DEF EdgeInv, AgentInv
  <1>. QED  BY <1>1, <1>2, <1>5, <1>6, QuietOK DEF EdgeInv

\* An event injected before a reply is dispatched in a call of its own.
LEMMA NestedOK ==
  ASSUME EdgeInv, DispatchNested, UNCHANGED edgeVars
  PROVE  EdgeInv'
  <1>1. /\ UNCHANGED <<tickets, armed, turns>>
        /\ UNCHANGED <<language, written, said, classified, phrased>>
    BY DEF DispatchNested, edgeVars
  <1>2. AgentInv'
    BY DispatchNestedOK DEF EdgeInv
  <1>3. Fits
    BY NestedFits DEF EdgeInv
  <1>4. /\ \E before, after \in Nat : Owed = before /\ Owed' = after /\ after <= before
        /\ Count(stack', {"send_message"}) =
             Count(stack, {"send_message"}) + InQueue(effects', {"send_message"})
        /\ Count(stack', {"escalate"}) = Count(stack, {"escalate"}) + InQueue(effects', {"escalate"})
    BY <1>3, NestedOwes DEF EdgeInv
  <1>5. CostOK'
    BY <1>1, <1>4, CostKept DEF EdgeInv
  <1>6. LanguageOK'
    BY <1>1, <1>3, <1>4, EventKeepsLanguage DEF EdgeInv, AgentInv
  <1>. QED  BY <1>1, <1>2, <1>5, <1>6, QuietOK DEF EdgeInv

-----------------------------------------------------------------------------
(* Theorems.                                                                   *)

\* The session opens with one reply owed at most.
LEMMA EdgeInitOK == ConversationInit => EdgeInv
  <1>. SUFFICES ASSUME ConversationInit PROVE EdgeInv
    OBVIOUS
  <1>1. /\ Init /\ said = << >> /\ language = written /\ classified = 0 /\ phrased = 0
        /\ stack = << effects >> /\ injectTool = << >> /\ injectGen = << >> /\ returning = None
        /\ tickets = << >> /\ armed = 0 /\ turns = 0
    BY DEF ConversationInit, Init
  <1>2. AgentInv /\ Shaped(effects)
    BY <1>1, AgentInitOK
  <1>3. SaidOK
    <2>1. said \in Seq({})
      BY <1>1
    <2>. QED  BY <2>1 DEF SaidOK
  <1>4. Announced
    <2>1. Announcements = {} /\ Len(tickets) = 0
      BY <1>1 DEF Announcements
    <2>. QED  BY <2>1, FS_EmptySet DEF Announced
  <1>5. CostOK
    <2>1. /\ QueueOK(effects)
          /\ InQueue(effects, Replying) = IF \E k \in Asking : Emits(k, effects) THEN 1 ELSE 0
      BY <1>2, ShapedQueue DEF Replying
    <2>2. Count(stack, Replying) = InQueue(effects, Replying)
      BY <1>1, <2>1, OnlyQueue
    <2>3. PICK w \in Nat : Count(stack, Replying) = w /\ w <= 1
      BY <2>1, <2>2
    <2>4. Len(injectTool) = 0 /\ Len(injectGen) = 0
      BY <1>1
    <2>5. Owed = w
      BY <1>1, <2>3, <2>4 DEF Owed
    <2>. QED  BY <1>1, <2>3, <2>5 DEF CostOK
  <1>. QED  BY <1>1, <1>2, <1>3, <1>4, <1>5 DEF EdgeInv, LanguageOK

\* Every step keeps the invariant.
LEMMA EdgeNextOK ==
  ASSUME EdgeInv, [ConversationNext]_conversationVars
  PROVE  EdgeInv'
  <1>1. CASE UNCHANGED conversationVars
    <2>1. UNCHANGED vars /\ UNCHANGED <<said, language, written, classified, phrased>>
      BY <1>1 DEF conversationVars, edgeVars
    <2>2. UNCHANGED <<stack, returning, injectTool, injectGen, tickets, armed, turns, fsm, terminalReason>>
      BY <2>1 DEF vars, agentVars, sessionVars, routed
    <2>3. AgentInv'
      BY <2>1, AgentStutterOK DEF EdgeInv
    <2>4. Owed' = Owed
      BY <2>2 DEF Owed
    <2>5. CostOK' /\ LanguageOK'
      BY <2>1, <2>2, <2>4 DEF EdgeInv, CostOK, LanguageOK, Live
    <2>. QED  BY <2>1, <2>2, <2>3, <2>5, QuietOK DEF EdgeInv
  <1>2. CASE \E text \in Texts : Hear(text)
    BY <1>2, HearOK
  <1>3. CASE SayWorded \/ OpenTicketWorded
    BY <1>3, SayOK, AnnounceOK
  <1>4. CASE Unheard
    BY <1>4, SendEventOK, ArmedOK, SilentOK, LandedOK, NestedOK, ChainOK DEF Unheard
  <1>. QED  BY <1>1, <1>2, <1>3, <1>4 DEF ConversationNext

\* Every reachable state of the edges satisfies their inductive invariant.
THEOREM EdgeInductive == ConversationSpec => []EdgeInv
  BY EdgeInitOK, EdgeNextOK, PTL DEF ConversationSpec

(* The merchant is told of a handoff exactly when a turn left one on the desk,  *)
(* whichever model failed and whatever was injected on the way.                 *)
THEOREM HandoffAnnounced == ConversationSpec => []HandoffIsAnnounced
  <1>1. EdgeInv => HandoffIsAnnounced
    BY DEF EdgeInv, Announced, HandoffIsAnnounced
  <1>. QED  BY <1>1, EdgeInductive, PTL

(* A turn costs one classification at most and one worded reply, an injected    *)
(* event one more: no cascade of follow-ups multiplies the calls to the models. *)
THEOREM CostBounded == ConversationSpec => []ReplyCostIsBounded
  <1>1. ASSUME EdgeInv PROVE ReplyCostIsBounded
    <2>1. /\ turns \in Nat /\ armed \in Nat /\ phrased \in Nat
          /\ classified <= turns /\ phrased + Owed <= 1 + turns + armed
      BY <1>1 DEF EdgeInv, CostOK
    <2>2. PICK w, r, i, j \in Nat : Owed = w + r + i + j
      BY <1>1, OwedBefore DEF EdgeInv, AgentInv
    <2>. QED  BY <2>1, <2>2 DEF ReplyCostIsBounded
  <1>. QED  BY <1>1, EdgeInductive, PTL

(* A plain request for a human hands an open session off for that reason, with  *)
(* no model asked: no state of the counters turns it into another decision.     *)
THEOREM RequestObeyed == ConversationSpec => PlainRequestNeedsNoModel
  <1>1. ASSUME NEW text \in Texts, Hear(text), text.asksForHuman, Live
        PROVE  terminalReason' = "human_requested" /\ classified' = classified
    <2>1. ReadPlainRequest(text)
      BY <1>1 DEF Hear, Read
    <2>2. MerchantMessage({"requests_human"}) /\ classified' = classified
      BY <1>1, <2>1 DEF ReadPlainRequest, Deliver, Inert
    <2>. QED  BY <2>2, RequestHandsOff
  <1>2. [ConversationNext]_conversationVars =>
          [\A text \in Texts : Hear(text) /\ text.asksForHuman /\ Live =>
             terminalReason' = "human_requested" /\ classified' = classified]_conversationVars
    BY <1>1
  <1>. QED  BY <1>2, PTL DEF ConversationSpec, PlainRequestNeedsNoModel

(* A reply goes out in the language that dominates the last message the agent    *)
(* read; only the announcement of a handoff that message asked for may not.     *)
THEOREM DominanceFollowed == ConversationSpec => RepliesFollowDominance
  <1>. DEFINE Follows ==
         \A i \in DOMAIN said' :
           i > Len(said) /\ said'[i].language # written =>
             /\ said'[i].action = "escalate"
             /\ terminalReason = "human_requested"
  <1>1. ASSUME EdgeInv, NEW action, Utter(action), NEW i \in DOMAIN said', i > Len(said)
        PROVE  said'[i].language = language /\ said'[i].action = action
    <2>1. PICK draft \in Drafts :
            said' = Append(said, [action |-> action, language |-> language, wording |-> Wording(draft)])
      BY <1>1 DEF Utter
    <2>. DEFINE entry == [action |-> action, language |-> language, wording |-> Wording(draft)]
    <2>2. PICK S : said \in Seq(S)
      BY <1>1 DEF EdgeInv, SaidOK
    <2>3. said \in Seq(S \cup {entry})
      BY <2>2, SeqMonotonic
    <2>4. entry.language = language /\ entry.action = action /\ said' = Append(said, entry)
      BY <2>1
    <2>. HIDE DEF entry
    <2>5. i = Len(said) + 1
      BY <1>1, <2>3, <2>4
    <2>. QED  BY <2>3, <2>4, <2>5
  <1>2. ASSUME EdgeInv, ConversationNext PROVE Follows
    <2>1. CASE UNCHANGED said
      <3>1. PICK S : said \in Seq(S)
        BY <1>2 DEF EdgeInv, SaidOK
      <3>2. \A i \in DOMAIN said : ~ (i > Len(said))
        BY <3>1
      <3>. QED  BY <2>1, <3>2
    <2>2. CASE SayWorded
      BY <1>1, <1>2, <2>2, SayOK DEF SayWorded
    <2>3. CASE OpenTicketWorded
      BY <1>1, <1>2, <2>3, AnnounceOK DEF OpenTicketWorded
    <2>4. CASE (\E text \in Texts : Hear(text)) \/ Unheard
      BY <2>1, <2>4 DEF Hear, Unheard, edgeVars
    <2>. QED  BY <1>2, <2>2, <2>3, <2>4 DEF ConversationNext
  <1>3. EdgeInv /\ [ConversationNext]_conversationVars => [Follows]_conversationVars
    BY <1>2
  <1>. QED  BY <1>3, EdgeInductive, PTL DEF ConversationSpec, RepliesFollowDominance

(* The model edges add nothing to what the loop may do: whatever a model answers *)
(* or fails to answer, the agent behaves as one whose messages are labelled by   *)
(* any intent, the plain request among them.                                     *)
THEOREM EdgesAddNothing ==
  ASSUME {"requests_human"} \in Intents
  PROVE  ConversationSpec => Spec
  <1>1. ASSUME [ConversationNext]_conversationVars PROVE [Next]_vars
    <2>1. ASSUME NEW text \in Texts, Hear(text) PROVE Next
      <3>1. PICK flags \in Intents : SendMessage(flags)
        <4>1. CASE ReadPlainRequest(text)
          BY <1>1, <4>1 DEF ReadPlainRequest, Deliver, SendMessage
        <4>2. CASE ReadByModel(text)
          BY <4>2 DEF ReadByModel, Deliver, SendMessage
        <4>3. CASE ReadFails
          BY <1>1, <4>3 DEF ReadFails, SendMessage
        <4>. QED  BY <2>1, <4>1, <4>2, <4>3 DEF Hear, Read
      <3>. QED  BY <3>1 DEF Next, Input
    <2>2. CASE SayWorded \/ OpenTicketWorded
      BY <2>2 DEF SayWorded, OpenTicketWorded, Next, Work
    <2>3. CASE Unheard
      BY <2>3 DEF Unheard, Next, Work, Input
    <2>4. CASE UNCHANGED conversationVars
      BY <2>4 DEF conversationVars
    <2>. QED  BY <1>1, <2>1, <2>2, <2>3, <2>4 DEF ConversationNext
  <1>2. ConversationInit => Init
    BY DEF ConversationInit
  <1>. QED  BY <1>1, <1>2, PTL DEF ConversationSpec, Spec

(* Under the same condition a conversation is a session, so that no answer of a   *)
(* model can leave a turn waiting, part the desk from the record, reopen a closed *)
(* session or talk the agent out of a handoff the merchant asked for.            *)
THEOREM ConversationIsSession ==
  ASSUME {"requests_human"} \in Intents
  PROVE  ConversationSpec =>
           /\ ImplementsSession
           /\ [](NoTurnEndsAwaiting /\ TicketsMatchHandoff)
           /\ Facts!TerminalLatch /\ Facts!HumanRequestIsSacred
  BY EdgesAddNothing, LoopIsSession, NoneLeftAwaiting, OneTicketPerTurn, LoopKeepsPromises, PTL

-----------------------------------------------------------------------------
(* The harness is an input to the agent.                                       *)

\* What is queued for a turn is what the scenario scripts, and it lands as a whole
\* when a reply goes out.
ScriptsOK ==
  /\ injectGen \in {<< >>, Script(scenario, "generation")}
  /\ Script(scenario, "tool_flight") = << >> => injectTool = << >>

\* Where run_once is, and what of the scenario no merchant can change.
EvalInv ==
  /\ LoopInv
  /\ scenario \in Scenarios
  /\ tier = scenario.tier /\ overrides = scenario.overrides
  /\ delay \in Latenesses(scenario)
  /\ status \in {"opening", "running", "collected"}
  /\ round \in 0 .. scenario.max_turns
  /\ due \in Seq(InjectedEvents)
  /\ status = "opening" =>
       /\ armed = 0 /\ injectTool = << >> /\ injectGen = << >>
       /\ round = 0 /\ due = << >>
  /\ status = "collected" => Idle
  /\ ScriptsOK
  /\ dispatches \in Nat /\ IsFiniteSet(cache) /\ Cardinality(cache) <= dispatches

\* A handler leaves the context alone and takes at most one action; if that one
\* reassigns, it is the engine's decision on the order's lateness.
Judged ==
  /\ UNCHANGED context
  /\ delay' \in {delay} \cup {Max2(0, eta) : eta \in InjectedEtas \ {None}}
  /\ \E a : /\ Actions(effects', lastAction') \subseteq {a}
            /\ a \in ReassignActions =>
                 \E p, f : a = Decide(tier, delay', overrides, p, f).action

\* The actions of a handler's effects.
LEMMA ActionsOfOne ==
  ASSUME NEW x, NEW decided
  PROVE  Actions(<< x >>, decided) =
           CASE x.kind = "send_message"    -> {x.action}
             [] x.kind = "escalate"        -> {"escalate"}
             [] x.kind = "call_tool_chain" -> {decided.action}
             [] OTHER                      -> {}
  <1>1. DOMAIN << x >> = {1} /\ << x >>[1] = x
    OBVIOUS
  <1>. QED  BY <1>1 DEF Actions

\* A routed decision is the action taken, unless it is only logged.
LEMMA RoutedTakes ==
  ASSUME NEW env, NEW e
  PROVE  /\ Actions(RoutedEffects(env, e), Decision(env)) \subseteq {env.action}
         /\ env.action = "log_only" => Actions(RoutedEffects(env, e), Decision(env)) = {}
  <1>1. CASE env.action = "resolve_eta_confirmed"
    <2>. DEFINE fx == << Send(env.action), Resolution(env.reason) >>
    <2>1. RoutedEffects(env, e) = fx
      BY <1>1 DEF RoutedEffects, ReassignActions
    <2>2. DOMAIN fx = {1, 2} /\ fx[1] = Send(env.action) /\ fx[2] = Resolution(env.reason)
      OBVIOUS
    <2>. HIDE DEF fx
    <2>. QED  BY <1>1, <2>1, <2>2 DEF Actions, Send, Resolution
  <1>2. CASE env.action # "resolve_eta_confirmed"
    <2>1. CASE env.action = "log_only"
      <3>1. RoutedEffects(env, e) = << Log >>
        BY <2>1 DEF RoutedEffects, ReassignActions
      <3>. QED  BY <3>1, ActionsOfOne DEF Log
    <2>2. CASE env.action \in ReassignActions
      <3>1. RoutedEffects(env, e) = << CallToolChain(e) >>
        BY <2>2 DEF RoutedEffects, ReassignActions
      <3>. QED  BY <2>2, <3>1, ActionsOfOne DEF CallToolChain, Decision, ReassignActions
    <2>3. CASE env.action = "escalate"
      <3>1. RoutedEffects(env, e) = << Escalation(env.reason, env.mode) >>
        BY <2>3 DEF RoutedEffects, ReassignActions
      <3>. QED  BY <2>3, <3>1, ActionsOfOne DEF Escalation
    <2>4. CASE env.action \notin {"log_only", "escalate"} \cup ReassignActions
      <3>1. RoutedEffects(env, e) = << Send(env.action) >>
        BY <1>2, <2>4 DEF RoutedEffects
      <3>. QED  BY <2>4, <3>1, ActionsOfOne DEF Send
    <2>. QED  BY <2>1, <2>2, <2>3, <2>4
  <1>. QED  BY <1>1, <1>2

\* Of a decision that is routed,
LEMMA RouteJudged ==
  ASSUME NEW env, NEW e, Route(env, e)
  PROVE  Actions(effects', lastAction') \subseteq {env.action}
  BY RoutedTakes DEF Route

\* of a handoff outside the engine,
LEMMA EscalateJudged ==
  ASSUME NEW reason, Escalate(reason)
  PROVE  Actions(effects', lastAction') = {"escalate"}
  <1>1. PICK d : d = lastAction'
    OBVIOUS
  <1>. QED  BY <1>1, ActionsOfOne DEF Escalate, Escalation

\* and of an event that is only recorded.
LEMMA NothingTaken ==
  ASSUME NEW kind \in {"log", "reconcile", "resolve"}, NEW x, effects' = << x >>, x.kind = kind
  PROVE  Actions(effects', lastAction') = {}
  <1>1. PICK d : d = lastAction'
    OBVIOUS
  <1>. QED  BY <1>1, ActionsOfOne

\* A step that takes nothing, or the action of a decision on the order as it is.
LEMMA JudgedAs ==
  ASSUME UNCHANGED context,
         delay' \in {delay} \cup {Max2(0, eta) : eta \in InjectedEtas \ {None}},
         \/ Actions(effects', lastAction') = {}
         \/ Actions(effects', lastAction') = {"escalate"}
         \/ Actions(effects', lastAction') = {"notify_reassigned"}
         \/ \E p, f : Actions(effects', lastAction') \subseteq
                        {Decide(tier, delay', overrides, p, f).action}
  PROVE  Judged
  <1>1. "escalate" \notin ReassignActions /\ "notify_reassigned" \notin ReassignActions
    BY DEF ReassignActions
  <1>2. CASE \/ Actions(effects', lastAction') = {}
             \/ Actions(effects', lastAction') = {"escalate"}
    <2>1. Actions(effects', lastAction') \subseteq {"escalate"}
      BY <1>2
    <2>. QED  BY <1>1, <2>1 DEF Judged
  <1>3. CASE Actions(effects', lastAction') = {"notify_reassigned"}
    BY <1>1, <1>3 DEF Judged
  <1>4. CASE \E p, f : Actions(effects', lastAction') \subseteq
                         {Decide(tier, delay', overrides, p, f).action}
    <2>1. PICK p, f : Actions(effects', lastAction') \subseteq
                        {Decide(tier, delay', overrides, p, f).action}
      BY <1>4
    <2>. QED  BY <2>1 DEF Judged
  <1>. QED  BY <1>2, <1>3, <1>4

\* Every message,
LEMMA MessageJudged ==
  ASSUME NEW flags, MerchantMessage(flags) \/ ClassifierUnavailable \/ Inert("log")
  PROVE  Judged
  <1>1. UNCHANGED context /\ UNCHANGED delay
    BY DEF MerchantMessage, ClassifierUnavailable, Inert, sessionVars, data
  <1>2. CASE MerchantMessage(flags) /\ MessageInFlight(flags)
    <2>1. CASE "requests_human" \in flags
      <3>1. Route(Decide(tier, delay, overrides, pushCount, flags), epoch)
        BY <1>2, <2>1 DEF MessageInFlight
      <3>. QED  BY <1>1, <3>1, RouteJudged, JudgedAs
    <2>2. CASE "requests_human" \notin flags
      <3>1. effects' = << Log >>
        BY <1>2, <2>2 DEF MessageInFlight
      <3>. QED  BY <1>1, <3>1, NothingTaken, JudgedAs DEF Log
    <2>. QED  BY <2>1, <2>2
  <1>3. CASE MerchantMessage(flags) /\ AnswerMessage(flags)
    <2>. DEFINE env == Decide(tier, delay, overrides, pushCount, flags)
    <2>1. PICK final : final \in {env, EscalateForRepetition(env)} /\ Route(final, epoch)
      BY <1>3 DEF AnswerMessage
    <2>2. CASE final = env
      BY <1>1, <2>1, <2>2, RouteJudged, JudgedAs
    <2>3. CASE final = EscalateForRepetition(env)
      <3>1. Actions(effects', lastAction') \subseteq {"escalate"}
        BY <2>1, <2>3, RouteJudged DEF EscalateForRepetition
      <3>. QED  BY <1>1, <3>1, JudgedAs
    <2>. QED  BY <2>1, <2>2, <2>3
  <1>4. CASE ClassifierUnavailable
    BY <1>1, <1>4, EscalateJudged, JudgedAs DEF ClassifierUnavailable
  <1>5. CASE Inert("log")
    BY <1>1, <1>5, NothingTaken, JudgedAs DEF Inert
  <1>. QED  BY <1>2, <1>3, <1>4, <1>5 DEF MerchantMessage

\* every injected event,
LEMMA ApplyJudged ==
  ASSUME NEW ev \in InjectedEvents, Apply(ev)
  PROVE  Judged
  <1>1. ASSUME NEW d, NEW c, OnAsyncEvent(d, c),
               d \in {delay} \cup {Max2(0, eta) : eta \in InjectedEtas \ {None}}
        PROVE  Judged
    <2>. DEFINE env == Decide(tier, d, overrides, pushCount, None)
    <2>1. UNCHANGED context /\ delay' = d
      BY <1>1 DEF OnAsyncEvent
    <2>2. \/ effects' = << Log >>
          \/ Route(env, epoch + 1)
      BY <1>1 DEF OnAsyncEvent
    <2>3. CASE effects' = << Log >>
      BY <1>1, <2>1, <2>3, NothingTaken, JudgedAs DEF Log
    <2>4. CASE Route(env, epoch + 1)
      BY <1>1, <2>1, <2>4, RouteJudged, JudgedAs
    <2>. QED  BY <2>2, <2>3, <2>4
  <1>2. CASE ev.type = "SYSTEM_ETA_UPDATED" /\ EtaUpdated(ev.eta)
    <2>1. ev.eta # None => Max2(0, ev.eta) \in {Max2(0, eta) : eta \in InjectedEtas \ {None}}
      BY <1>2 DEF InjectedEtas
    <2>. QED  BY <1>1, <1>2, <2>1 DEF EtaUpdated
  <1>3. CASE CaptainCancelled
    BY <1>1, <1>3 DEF CaptainCancelled
  <1>4. CASE PrepCompleted
    <2>1. UNCHANGED context /\ UNCHANGED delay /\ effects' = << Resolution("prep_completed") >>
      BY <1>4 DEF PrepCompleted, data
    <2>. QED  BY <2>1, NothingTaken, JudgedAs DEF Resolution
  <1>5. CASE ReplyTimeout
    <2>1. UNCHANGED context /\ UNCHANGED delay
      BY <1>5 DEF ReplyTimeout
    <2>2. \/ effects' = << Log >> \/ Escalate("unresponsive")
          \/ Route(Decide(tier, delay, overrides, pushCount, None), epoch)
      BY <1>5 DEF ReplyTimeout
    <2>. QED  BY <2>1, <2>2, NothingTaken, EscalateJudged, RouteJudged, JudgedAs DEF Log
  <1>6. CASE ToolTimeout
    <2>1. UNCHANGED context /\ UNCHANGED delay
      BY <1>6 DEF ToolTimeout, data
    <2>2. effects' = << Log >> \/ Escalate("tool_timeout")
      BY <1>6 DEF ToolTimeout
    <2>. QED  BY <2>1, <2>2, NothingTaken, EscalateJudged, JudgedAs DEF Log
  <1>7. CASE Reevaluate
    <2>1. UNCHANGED context /\ UNCHANGED delay
      BY <1>7 DEF Reevaluate, data
    <2>. QED  BY <1>7, <2>1, RouteJudged, JudgedAs DEF Reevaluate
  <1>8. CASE Inert("log")
    <2>1. UNCHANGED context /\ UNCHANGED delay
      BY <1>8 DEF Inert, sessionVars, data
    <2>. QED  BY <1>8, <2>1, NothingTaken, JudgedAs DEF Inert
  <1>9. ev.type \in EventTypes
    BY AgentAssumption
  <1>. QED  BY <1>2, <1>3, <1>4, <1>5, <1>6, <1>7, <1>8, <1>9 DEF Apply, EventTypes

\* and every result.
LEMMA ResultJudged ==
  ASSUME NEW outcome, NEW c, ToolResult(outcome, c) \/ Inert("reconcile")
  PROVE  Judged
  <1>1. UNCHANGED context /\ UNCHANGED delay
    BY DEF ToolResult, Inert, sessionVars, data
  <1>2. CASE effects' = << Reconciled >> \/ effects' = << [kind |-> "reconcile"] >>
    BY <1>1, <1>2, NothingTaken, JudgedAs DEF Reconciled
  <1>3. CASE effects' = << Send("notify_reassigned") >>
    <2>1. PICK d : d = lastAction'
      OBVIOUS
    <2>2. Actions(effects', lastAction') = {"notify_reassigned"}
      BY <1>3, <2>1, ActionsOfOne DEF Send
    <2>. QED  BY <1>1, <2>2, JudgedAs
  <1>4. CASE Escalate("partial_failure") \/ Escalate("tool_fail_or_no_captain")
    BY <1>1, <1>4, EscalateJudged, JudgedAs
  <1>. QED  BY <1>2, <1>3, <1>4 DEF ToolResult, ApplyToolResult, ReconcileToolResult, Inert

\* Whatever the agent decides, it is judged so,
LEMMA DecidesJudged ==
  ASSUME LoopInv,
         \/ \E flags : SendMessage(flags)
         \/ \E ev \in InjectedEvents : SendEvent(ev)
         \/ InjectMidFlight \/ DeliverResult \/ DispatchNested
  PROVE  Judged
  <1>1. CASE \E flags : SendMessage(flags)
    BY <1>1, MessageJudged DEF SendMessage
  <1>2. CASE \E ev \in InjectedEvents : SendEvent(ev)
    BY <1>2, ApplyJudged DEF SendEvent
  <1>3. CASE InjectMidFlight
    <2>1. injectTool \in Seq(InjectedEvents) /\ injectTool # << >>
      BY <1>3 DEF LoopInv, AgentInv, ShapesOK, InjectMidFlight
    <2>2. Head(injectTool) \in InjectedEvents
      BY <2>1
    <2>. QED  BY <1>3, <2>2, ApplyJudged DEF InjectMidFlight
  <1>4. CASE DeliverResult
    BY <1>4, ResultJudged DEF DeliverResult
  <1>5. CASE DispatchNested
    <2>1. Handling("event") /\ StackOK(stack)
      BY <1>5 DEF DispatchNested, LoopInv, AgentInv, ShapesOK
    <2>2. Next1.event \in InjectedEvents
      <3>1. Next1.kind = "event"
        BY <2>1 DEF Handling
      <3>. QED  BY <2>1, <3>1, NextItem DEF ItemOK
    <2>. QED  BY <1>5, <2>2, ApplyJudged DEF DispatchNested
  <1>. QED  BY <1>1, <1>2, <1>3, <1>4, <1>5

\* and its other steps leave the record alone.
LEMMA StepJudged ==
  ASSUME LoopInv, [Next]_vars
  PROVE  Judged \/ UNCHANGED sessionVars
  <1>1. CASE \/ Say \/ OpenTicket \/ Record \/ QueueDone
             \/ \E outcome \in Outcomes, c \in Captains : RunChain(outcome, c)
             \/ \E ev \in InjectedEvents : Arm(ev)
             \/ UNCHANGED vars
    BY <1>1 DEF Say, OpenTicket, Record, QueueDone, RunChain, Arm, vars
  <1>. QED  BY <1>1, DecidesJudged DEF Next, Work, Input

\* What the harness does is to feed the agent, to let it work, or to queue a script.
LEMMA HarnessStep ==
  ASSUME EvalInv, [EvalNext]_evalVars
  PROVE  [Next]_vars \/ QueueInjections
  <1>1. CASE ApplyScripted
    <2>1. Head(due) \in InjectedEvents
      BY <1>1 DEF ApplyScripted, EvalInv
    <2>. QED  BY <1>1, <2>1 DEF ApplyScripted, Next, Input
  <1>2. CASE Converse
    BY <1>2 DEF Converse, MerchantSays, Next, Input
  <1>3. CASE ToolChain
    <2>1. scenario.outcomes \subseteq Outcomes
      BY EvalAssumption DEF EvalInv
    <2>. QED  BY <1>3, <2>1 DEF ToolChain, Next, Work
  <1>4. CASE AgentDecides \/ AgentActs
    BY <1>4 DEF AgentDecides, AgentActs, Next, Work
  <1>5. CASE Collect \/ UNCHANGED evalVars
    BY <1>5 DEF Collect, evalVars
  <1>. QED  BY <1>1, <1>2, <1>3, <1>4, <1>5 DEF EvalNext

\* A script is queued between turns, and pays for what it will make the agent do.
LEMMA QueuedOK ==
  ASSUME EvalInv, QueueInjections
  PROVE  LoopInv'
  <1>1. /\ stack = << >> /\ returning = None /\ armed = 0
        /\ injectTool = << >> /\ injectGen = << >>
        /\ UNCHANGED <<sessionVars, effects, stack, returning, cache, tickets, turns>>
    BY DEF QueueInjections, EvalInv, Idle
  <1>. DEFINE tool == Script(scenario, "tool_flight")
              gen == Script(scenario, "generation")
  <1>2. /\ tool \in Seq(InjectedEvents) /\ gen \in Seq(InjectedEvents)
        /\ Len(tool) + Len(gen) <= MaxArmed
    BY EvalAssumption DEF EvalInv
  <1>3. injectTool' = tool /\ injectGen' = gen /\ armed' = armed + Len(tool) + Len(gen)
    BY DEF QueueInjections
  <1>. HIDE DEF tool, gen
  <1>4. Len(tool) \in Nat /\ Len(gen) \in Nat
    BY <1>2
  <1>5. LoopInv /\ AgentInv /\ ShapesOK
    BY DEF EvalInv, LoopInv, AgentInv
  <1>6. AgentInv'
    <2>1. RecordOK'
      BY <1>1, <1>5 DEF AgentInv, RecordOK, sessionVars, routed
    <2>2. ShapesOK'
      BY <1>1, <1>2, <1>3, <1>5 DEF ShapesOK
    <2>3. TicketOwed' /\ ResultOwed'
      BY <1>1, <1>5 DEF AgentInv, TicketOwed, ResultOwed, sessionVars, routed
    <2>. QED  BY <2>1, <2>2, <2>3 DEF AgentInv
  <1>7. Owed = 0 /\ Owed' = Len(tool) + Len(gen)
    <2>1. Count(stack, Replying) = 0 /\ Len(injectTool) = 0 /\ Len(injectGen) = 0
      BY <1>1, NothingThere
    <2>2. Count(stack, Replying)' = 0 /\ returning' = None
      BY <1>1, <2>1
    <2>3. Owed' = Count(stack, Replying)' + (IF returning' # None THEN 1 ELSE 0)
                  + Len(injectTool') + Len(injectGen')
      BY DEF Owed
    <2>. QED  BY <1>1, <1>3, <1>4, <2>1, <2>2, <2>3 DEF Owed
  <1>8. turns' = turns /\ turns \in 0 .. MaxTurns /\ armed' \in 0 .. MaxArmed
    BY <1>1, <1>2, <1>3, <1>4, <1>5, AgentAssumption DEF LoopInv
  <1>9. Owed' \in Nat /\ Owed' <= 1 + turns' + armed'
    BY <1>1, <1>3, <1>4, <1>7, <1>8, AgentAssumption
  <1>. QED  BY <1>1, <1>6, <1>8, <1>9 DEF LoopInv

\* Steps of the agent do not touch the idempotency store, except a chain.
LEMMA CacheKept ==
  ASSUME EvalInv, EvalNext \/ UNCHANGED evalVars
  PROVE  dispatches' \in Nat /\ IsFiniteSet(cache') /\ Cardinality(cache') <= dispatches'
  <1>1. dispatches \in Nat /\ IsFiniteSet(cache) /\ Cardinality(cache) <= dispatches
    BY DEF EvalInv
  <1>2. Cardinality(cache) \in Nat
    BY <1>1, FS_CardinalityType
  <1>3. CASE ToolChain
    <2>1. dispatches' = dispatches + 1 /\ (cache' = cache \/ \E e : cache' = cache \cup {e})
      BY <1>3 DEF ToolChain, RunChain
    <2>2. ASSUME NEW e
          PROVE  /\ IsFiniteSet(cache \cup {e}) /\ Cardinality(cache \cup {e}) \in Nat
                 /\ Cardinality(cache \cup {e}) <= Cardinality(cache) + 1
      <3>1. /\ IsFiniteSet(cache \cup {e})
            /\ Cardinality(cache \cup {e}) =
                 IF e \in cache THEN Cardinality(cache) ELSE Cardinality(cache) + 1
        BY <1>1, FS_AddElement
      <3>. QED  BY <1>2, <3>1
    <2>3. CASE cache' = cache
      BY <1>1, <1>2, <2>1, <2>3
    <2>4. CASE \E e : cache' = cache \cup {e}
      <3>1. PICK e : cache' = cache \cup {e}
        BY <2>4
      <3>2. Cardinality(cache') \in Nat /\ IsFiniteSet(cache') /\ Cardinality(cache') <= Cardinality(cache) + 1
        BY <2>2, <3>1
      <3>. QED  BY <1>1, <1>2, <2>1, <3>2
    <2>. QED  BY <2>1, <2>3, <2>4
  <1>4. CASE ~ ToolChain
    <2>1. UNCHANGED <<cache, dispatches>>
      BY <1>4 DEF EvalNext, QueueInjections, ApplyScripted, Converse, MerchantSays, SendMessage,
        SendEvent, BeginTurn, Collect, AgentDecides, InjectMidFlight, DeliverResult,
        DispatchNested, AgentActs, Say, OpenTicket, Record, QueueDone, harnessVars, evalVars,
        vars, agentVars
    <2>. QED  BY <1>1, <2>1
  <1>. QED  BY <1>3, <1>4

\* A script is queued once, and taken off event by event or as a whole.
LEMMA ScriptsShrink ==
  ASSUME EvalInv, [EvalNext]_evalVars
  PROVE  /\ scenario' = scenario
         /\ ~ QueueInjections => /\ injectGen' = injectGen \/ injectGen' = << >>
                                 /\ injectTool = << >> => injectTool' = << >>
  <1>1. scenario' = scenario
    BY DEF EvalNext, QueueInjections, ApplyScripted, Converse, Collect, ToolChain,
       AgentDecides, AgentActs, harnessVars, evalVars
  <1>2. ASSUME ~ QueueInjections PROVE injectGen' = injectGen \/ injectGen' = << >>
    BY <1>2 DEF EvalNext, ApplyScripted, Converse, MerchantSays, SendMessage, SendEvent,
      BeginTurn, Collect, ToolChain, RunChain, AgentDecides, InjectMidFlight, DeliverResult,
      DispatchNested, AgentActs, Say, OpenTicket, SayThen, Record, QueueDone, evalVars, vars,
      agentVars
  <1>3. ASSUME ~ QueueInjections, injectTool = << >> PROVE injectTool' = << >>
    BY <1>3 DEF EvalNext, ApplyScripted, Converse, MerchantSays, SendMessage, SendEvent,
      BeginTurn, Collect, ToolChain, RunChain, AgentDecides, InjectMidFlight, DeliverResult,
      DispatchNested, AgentActs, Say, OpenTicket, Record, QueueDone, evalVars, vars, agentVars
  <1>. QED  BY <1>1, <1>2, <1>3

\* So what is queued is still the scenario's.
LEMMA ScriptsKept ==
  ASSUME EvalInv, [EvalNext]_evalVars
  PROVE  ScriptsOK'
  <1>1. CASE QueueInjections
    BY <1>1, ScriptsShrink DEF QueueInjections, ScriptsOK
  <1>2. CASE ~ QueueInjections
    BY <1>2, ScriptsShrink DEF EvalInv, ScriptsOK
  <1>. QED  BY <1>1, <1>2

\* Between turns, the agent has nothing to do.
LEMMA IdleRests ==
  ASSUME Idle
  PROVE  /\ ~ ToolChain /\ ~ AgentDecides /\ ~ AgentActs
         /\ \A kind : ~ Handling(kind)
  BY DEF Idle, ToolChain, RunChain, Handling, AgentDecides, InjectMidFlight, DeliverResult,
     DispatchNested, AgentActs, Say, OpenTicket, Record, QueueDone

\* Every step of the harness keeps it.
LEMMA EvalNextOK ==
  ASSUME EvalInv, [EvalNext]_evalVars
  PROVE  EvalInv'
  <1>1. LoopInv'
    <2>1. LoopInv
      BY DEF EvalInv
    <2>. QED  BY <2>1, HarnessStep, LoopNextOK, QueuedOK
  <1>2. scenario' = scenario
    BY ScriptsShrink
  <1>3. UNCHANGED context /\ delay' \in {delay} \cup {Max2(0, eta) : eta \in InjectedEtas \ {None}}
    <2>1. CASE QueueInjections
      BY <2>1 DEF QueueInjections, sessionVars, data
    <2>2. CASE [Next]_vars
      <3>1. Judged \/ UNCHANGED sessionVars
        BY <2>2, StepJudged DEF EvalInv
      <3>. QED  BY <3>1 DEF Judged, sessionVars, data
    <2>. QED  BY <2>1, <2>2, HarnessStep
  <1>4. tier' = scenario'.tier /\ overrides' = scenario'.overrides /\ delay' \in Latenesses(scenario')
    BY <1>2, <1>3 DEF EvalInv, context, Latenesses
  <1>5. dispatches' \in Nat /\ IsFiniteSet(cache') /\ Cardinality(cache') <= dispatches'
    BY CacheKept
  <1>6. /\ scenario \in Scenarios /\ scenario.max_turns \in Nat
        /\ \A k \in 0 .. scenario.max_turns : ScriptAfter(scenario, k) \in Seq(InjectedEvents)
    BY EvalAssumption DEF EvalInv
  <1>12. ScriptsOK'
    BY ScriptsKept
  <1>7. CASE QueueInjections
    <2>1. status' = "running" /\ round' = round /\ due' = ScriptAfter(scenario, 0)
      BY <1>7 DEF QueueInjections
    <2>. QED  BY <1>1, <1>2, <1>4, <1>5, <1>12, <1>6, <2>1 DEF EvalInv
  <1>8. CASE ApplyScripted
    <2>1. due' \in Seq(InjectedEvents)
      BY <1>8 DEF ApplyScripted, EvalInv
    <2>2. status' = "running" /\ round' = round
      BY <1>8 DEF ApplyScripted
    <2>. QED  BY <1>1, <1>2, <1>4, <1>5, <1>12, <2>1, <2>2 DEF EvalInv
  <1>9. CASE Converse
    <2>1. /\ status' = "running" /\ round' = round + 1 /\ round < scenario.max_turns
          /\ due' = ScriptAfter(scenario, round + 1)
      BY <1>9 DEF Converse
    <2>2. round' \in 0 .. scenario.max_turns
      BY <1>6, <2>1 DEF EvalInv
    <2>. QED  BY <1>1, <1>2, <1>4, <1>5, <1>12, <1>6, <2>1, <2>2 DEF EvalInv
  <1>10. CASE Collect \/ UNCHANGED evalVars
    <2>1. /\ status' = "collected" \/ status' = status
          /\ status' = "collected" => Idle
          /\ UNCHANGED <<round, due, armed, injectTool, injectGen, stack, returning>>
          /\ status' = "opening" => status = "opening"
      BY <1>10 DEF Collect, evalVars, harnessVars, vars, agentVars, EvalInv
    <2>2. Idle' <=> Idle
      BY <2>1 DEF Idle
    <2>. QED  BY <1>1, <1>2, <1>4, <1>5, <1>12, <2>1, <2>2 DEF EvalInv
  <1>11. CASE ToolChain \/ AgentDecides \/ AgentActs
    <2>1. ~ Idle /\ UNCHANGED <<status, round, due, armed>>
      BY <1>11, IdleRests DEF ToolChain, RunChain, AgentDecides, InjectMidFlight, DeliverResult,
        DispatchNested, AgentActs, Say, OpenTicket, Record, QueueDone, harnessVars
    <2>2. status # "collected"
      BY <2>1 DEF EvalInv
    <2>3. injectGen = << >> => injectGen' = << >>
      BY <1>11 DEF ToolChain, RunChain, AgentDecides, InjectMidFlight, DeliverResult,
        DispatchNested, AgentActs, Say, OpenTicket, SayThen, Record, QueueDone
    <2>4. injectTool = << >> => injectTool' = << >>
      BY <1>11 DEF ToolChain, RunChain, AgentDecides, InjectMidFlight, DeliverResult,
        DispatchNested, AgentActs, Say, OpenTicket, Record, QueueDone
    <2>. QED  BY <1>1, <1>2, <1>4, <1>5, <1>12, <2>1, <2>2, <2>3, <2>4 DEF EvalInv
  <1>. QED  BY <1>7, <1>8, <1>9, <1>10, <1>11 DEF EvalNext

\* A scenario opens in it.
LEMMA EvalInitOK == EvalInit => EvalInv
  <1>. SUFFICES ASSUME EvalInit PROVE EvalInv
    OBVIOUS
  <1>1. LoopInv /\ Init
    BY LoopInitOK DEF EvalInit
  <1>2. IsFiniteSet(cache) /\ Cardinality(cache) = 0
    BY <1>1, FS_EmptySet DEF Init
  <1>3. scenario.max_turns \in Nat
    BY EvalAssumption DEF EvalInit
  <1>4. armed = 0 /\ injectTool = << >> /\ injectGen = << >>
    BY <1>1 DEF Init
  <1>. QED  BY <1>1, <1>2, <1>3, <1>4 DEF EvalInit, EvalInv, Latenesses, ScriptsOK

(* Whatever the scenario and the merchant, the harness keeps to the agent's     *)
(* inputs, and the idempotency store never holds more than was dispatched.      *)
THEOREM HarnessInductive == EvalSpec => []EvalInv
  BY EvalInitOK, EvalNextOK, PTL DEF EvalSpec

(* A run of the harness is a run of the session: scripts landing anywhere,      *)
(* every tool outcome and every merchant amount to events applied one at a time. *)
THEOREM HarnessDrivesAgent == EvalSpec => ImplementsSession
  <1>1. EvalInv /\ EvalInv' /\ [EvalNext]_evalVars => [Session!Next]_(Session!vars)
    <2>. SUFFICES ASSUME EvalInv, EvalInv', [EvalNext]_evalVars
                  PROVE  [Session!Next]_(Session!vars)
      OBVIOUS
    <2>1. LoopInv /\ LoopInv'
      BY DEF EvalInv
    <2>2. CASE QueueInjections
      <3>1. UNCHANGED <<sessionVars, effects, stack, returning, tickets>>
        BY <2>2 DEF QueueInjections
      <3>2. ChainsOut' = ChainsOut /\ Handoffs' = Handoffs
        BY <3>1 DEF ChainsOut, Handoffs
      <3>. QED  BY <3>1, <3>2, SameRecord DEF Session!vars
    <2>. QED  BY <2>1, <2>2, HarnessStep, LoopSteps
  <1>2. EvalInit => Session!Init
    BY SessionInitOK DEF EvalInit
  <1>. QED  BY HarnessInductive, <1>1, <1>2, PTL DEF EvalSpec, Session!Spec, ImplementsSession

\* So what is proved of the session holds in every run,
LEMMA HarnessRunsSession == EvalSpec => Facts!Spec
  <1>1. UNCHANGED Session!vars => UNCHANGED Facts!vars
    BY DEF Session!vars, Facts!vars, Session!sessionVars, Facts!sessionVars, Session!context, Facts!context,
      Session!data, Facts!data, Session!routed, Facts!routed, Session!counters, Facts!counters
  <1>2. [Session!Next]_(Session!vars) => [Facts!Next]_(Facts!vars)
    BY <1>1, SameSteps
  <1>. QED  BY HarnessDrivesAgent, SameOpening, <1>2, PTL DEF ImplementsSession, Session!Spec, Facts!Spec

(* and a run that is graded has the desk and the record agree.                  *)
THEOREM GradedRunIsClosed == EvalSpec => [](NoTurnEndsAwaiting /\ TicketsMatchHandoff)
  <1>1. Facts!Spec => [](Facts!OneTicketPerHandoff /\ Facts!TicketModeFollowsOverrides)
    BY PolicyAssumption, NoneAssumption, ReducerAssumption, AgentAssumption, FactsApply, Facts!OneTicket
  <1>2. EvalInv => LoopInv /\ NoTurnEndsAwaiting
    BY NothingThere DEF EvalInv, LoopInv, AgentInv, ResultOwed, NoTurnEndsAwaiting, Idle
  <1>. QED  BY HarnessInductive, HarnessRunsSession, TicketsFollow, <1>1, <1>2, PTL

-----------------------------------------------------------------------------
(* What a script makes of a run, whoever the merchant is.  One invariant for    *)
(* each of the ways in which a scenario settles what becomes of it.             *)

Pending(kind) == Count(stack, {kind})

\* Nothing waits that could change the record before the next input does.
Calm == returning = None /\ Pending("event") = 0 /\ Pending("call_tool_chain") = 0

\* The turn-0 decision stands.
Fresh ==
  fsm = RoutedFsm(Opening(scenario).action) /\ delay = scenario.delay /\ unresponsive = 0

Reached(reason) == fsm = "ESCALATED" /\ terminalReason = reason

\* A session that opens without a dispatch is as it opened when start() returns.
Opens ==
  status = "opening" /\ Opening(scenario).action \notin ReassignActions => Calm /\ Fresh

\* One that opens with a dispatch has run it then, and its result decided.
Dispatches ==
  Opening(scenario).action \in ReassignActions =>
    \/ /\ status = "opening" /\ fsm = "AWAITING_TOOL_RESULT" /\ Pending("event") = 0
       /\ dispatches = 0 => returning = None
       /\ returning # None => returning.outcome \in scenario.outcomes
    \/ /\ dispatches > 0
       /\ \A reason : ChainFails(scenario, reason) /\ reason # None => Reached(reason)

\* A silent run takes no action.
KeepsSilent ==
  StaysSilent(scenario) =>
    Calm /\ taken = {} /\ due = << >>

\* The timeouts come one after the other until the policy gives up.
GivesUp ==
  \A reason : GoesUnanswered(scenario, reason) =>
    \/ status = "opening" \/ Reached(reason)
    \/ /\ status = "running" /\ Calm
       /\ fsm = "AWAITING_MERCHANT_REPLY" /\ delay = scenario.delay
       /\ unresponsive \in 0 .. UnresponsiveAttempts - 1
       /\ \A i \in 1 .. UnresponsiveAttempts - unresponsive :
            i \in DOMAIN due /\ due[i].type = "merchant_reply_timeout"

\* The event that takes the order away is the first thing to happen.
Worsens ==
  \A reason : CrossesAtOnce(scenario, reason) =>
    \/ status = "opening" \/ Reached(reason)
    \/ /\ status = "running" /\ Idle /\ Live /\ fsm # "AWAITING_TOOL_RESULT"
       /\ due = ScriptAfter(scenario, 0)

\* Where the suite cannot make the order one to be reassigned, none is.
Restrained == NeverReassigns(scenario) => taken \cap ReassignActions = {}

\* The script of the first reply is queued, and nothing has been said yet.
ReplyFirst ==
  /\ status = "running" /\ Idle /\ Fresh /\ round = 0 /\ due = << >>
  /\ injectGen = Script(scenario, "generation")

\* A reply is on its way: it is pending, or a result that leads to one is.
ReplyComing(kinds) ==
  /\ Pending("event") = 0
  /\ fsm = "AWAITING_TOOL_RESULT" \/ \E k \in kinds : Pending(k) >= 1

\* The first message brings a reply, and the reply what is scripted for it.
Lands ==
  TalksFirst(scenario) /\ scenario.max_turns > 0 =>
    \/ status = "opening" \/ injectGen = << >>
    \/ ReplyFirst \/ ReplyComing({"send_message", "escalate"})

\* The event that lands with the reply is the next thing the agent does.
EventNext ==
  /\ stack # << >> /\ Top # << >> /\ returning = None
  /\ Next1.kind = "event" /\ Next1.event = Script(scenario, "generation")[1]

LandsAndCrosses ==
  CrossesWhileReplying(scenario) =>
    \/ status = "opening" \/ fsm = "ESCALATED" \/ ReplyFirst
    \/ Live /\ injectGen # << >> /\ ReplyComing({"send_message"})
    \/ Live /\ EventNext

VerdictInv ==
  /\ Opens /\ Dispatches /\ KeepsSilent /\ GivesUp /\ Worsens
  /\ Restrained /\ Lands /\ LandsAndCrosses

-----------------------------------------------------------------------------
(* Steps, by what they do to what is pending.                                  *)

\* No handler queues an event.
LEMMA NoEventQueued ==
  ASSUME NEW fx, Shaped(fx)
  PROVE  InQueue(fx, {"event"}) = 0
  <1>1. Here(fx, {"event"}) = {}
    <2>1. CASE \E x : fx = << x >> /\ x.kind \in EffectKinds /\ ItemOK(x)
      <3>1. PICK x : fx = << x >> /\ x.kind \in EffectKinds
        BY <2>1
      <3>2. DOMAIN fx = {1} /\ fx[1] = x
        BY <3>1
      <3>. QED  BY <3>1, <3>2 DEF Here, EffectKinds
    <2>2. CASE \E x, y : fx = << x, y >> /\ x.kind = "send_message" /\ y.kind = "resolve" /\ ItemOK(x)
      <3>1. PICK x, y : fx = << x, y >> /\ x.kind = "send_message" /\ y.kind = "resolve"
        BY <2>2
      <3>2. DOMAIN fx = {1, 2} /\ fx[1] = x /\ fx[2] = y
        BY <3>1
      <3>. QED  BY <3>1, <3>2 DEF Here
    <2>. QED  BY <2>1, <2>2 DEF Shaped
  <1>. QED  BY <1>1, FS_EmptySet DEF InQueue

\* What is pending of a kind is a number, and none is pending on an empty stack.
LEMMA PendingNat ==
  ASSUME EvalInv
  PROVE  /\ \A kind : Pending(kind) \in Nat
         /\ stack = << >> => \A kind : Pending(kind) = 0
         /\ \A kind : Handling(kind) => Pending(kind) >= 1
  <1>1. StackOK(stack)
    BY DEF EvalInv, LoopInv, AgentInv, ShapesOK
  <1>2. ASSUME NEW kind, Handling(kind) PROVE Pending(kind) >= 1
    <2>1. StackOK(Rest) /\ Count(Rest, {kind}) = Count(stack, {kind}) - 1
      BY <1>1, <1>2, TakeWork DEF One
    <2>2. Count(Rest, {kind}) \in Nat /\ Count(stack, {kind}) \in Nat
      BY <1>1, <2>1, CountsAreNat
    <2>. QED  BY <2>1, <2>2 DEF Pending
  <1>. QED  BY <1>1, <1>2, CountsAreNat, NothingThere DEF Pending

\* A handler that leaves the record alone, when no event lands with it.
LEMMA ActsQuietly ==
  ASSUME EvalInv, AgentActs
  PROVE  /\ UNCHANGED sessionVars /\ UNCHANGED harnessVars
         /\ UNCHANGED <<returning, injectTool>> /\ injectGen' \in {injectGen, << >>}
         /\ injectGen' = injectGen =>
              /\ \A kind \in {"event", "call_tool_chain"} : Pending(kind)' = Pending(kind)
              /\ ~ Say => Pending("send_message")' = Pending("send_message")
              /\ ~ OpenTicket => Pending("escalate")' = Pending("escalate")
  <1>1. /\ StackOK(stack) /\ injectGen \in Seq(InjectedEvents)
        /\ \A kinds : Count(stack, kinds) \in Nat
    BY CountsAreNat DEF EvalInv, LoopInv, AgentInv, ShapesOK
  <1>2. /\ UNCHANGED sessionVars /\ UNCHANGED harnessVars
        /\ UNCHANGED <<returning, injectTool>> /\ injectGen' \in {injectGen, << >>}
    BY DEF AgentActs, Say, OpenTicket, SayThen, Record, QueueDone
  <1>3. ASSUME NEW kind, Handling(kind), stack' = Rest
        PROVE  \A k : k # kind => Pending(k)' = Pending(k)
    BY <1>1, <1>3, TakeWork DEF Pending, One
  <1>4. ASSUME NEW kind, Handling(kind), SayThen(Rest), injectGen' = injectGen
        PROVE  \A k : k # kind => Pending(k)' = Pending(k)
    BY <1>3, <1>4 DEF SayThen
  <1>5. CASE Say
    BY <1>2, <1>4, <1>5 DEF Say, OpenTicket, Handling
  <1>6. CASE OpenTicket
    BY <1>2, <1>4, <1>6 DEF Say, OpenTicket, Handling
  <1>7. CASE Record
    BY <1>2, <1>3, <1>7 DEF Record
  <1>8. CASE QueueDone
    <2>1. stack # << >> /\ Head(stack) = << >> /\ stack' = Tail(stack)
      BY <1>8 DEF QueueDone, Top
    <2>2. /\ StackOK(Tail(stack))
          /\ \A kinds : Count(stack, kinds) = 0 + Count(Tail(stack), kinds)
      BY <1>1, <2>1, StackTail, NothingThere
    <2>3. \A kinds : Count(Tail(stack), kinds) \in Nat
      BY <2>2, CountsAreNat
    <2>. QED  BY <1>2, <2>1, <2>2, <2>3 DEF Pending
  <1>. QED  BY <1>5, <1>6, <1>7, <1>8 DEF AgentActs

\* An input starts a turn on its own effects.
LEMMA TurnPends ==
  ASSUME EvalInv, Fits, BeginTurn
  PROVE  /\ \A kind \in {"send_message", "escalate", "call_tool_chain"} :
              Pending(kind)' = IF Emits(kind, effects') THEN 1 ELSE 0
         /\ Pending("event")' = 0
         /\ returning' = None /\ UNCHANGED <<injectTool, injectGen>>
  <1>1. PICK fx : fx = effects'
    OBVIOUS
  <1>2. /\ returning = None /\ stack' = << fx >>
        /\ UNCHANGED <<injectTool, injectGen, returning>>
    BY <1>1 DEF BeginTurn, Idle
  <1>3. Shaped(fx)
    BY <1>1 DEF Fits
  <1>4. QueueOK(fx) /\ \A kinds : Count(stack', kinds) = InQueue(fx, kinds)
    BY <1>2, <1>3, ShapedQueue, OnlyQueue
  <1>. QED  BY <1>1, <1>2, <1>3, <1>4, ShapedQueue, NoEventQueued DEF Pending

\* A result is delivered: its effects join the queue.
LEMMA DeliveryPends ==
  ASSUME EvalInv, DeliverResult
  PROVE  /\ Fits
         /\ \A kind \in {"send_message", "escalate", "call_tool_chain"} :
              Pending(kind)' = Pending(kind) + IF Emits(kind, effects') THEN 1 ELSE 0
         /\ Pending("event")' = Pending("event")
         /\ returning' = None /\ UNCHANGED <<injectTool, injectGen>>
  <1>1. AgentInv /\ StackOK(stack) /\ stack # << >>
    BY DEF EvalInv, LoopInv, AgentInv, ShapesOK, DeliverResult
  <1>2. Fits
    BY <1>1, LandedFits
  <1>3. PICK fx : fx = effects'
    OBVIOUS
  <1>4. Shaped(fx)
    BY <1>2, <1>3 DEF Fits
  <1>5. QueueOK(fx)
    BY <1>4, ShapedQueue
  <1>6. \A kinds : Count(stack', kinds) = Count(stack, kinds) + InQueue(fx, kinds)
    BY <1>1, <1>3, <1>5, FollowUpWork DEF DeliverResult
  <1>7. Count(stack, {"event"}) \in Nat
    BY <1>1, CountsAreNat
  <1>. QED  BY <1>2, <1>3, <1>4, <1>6, <1>7, ShapedQueue, NoEventQueued DEF Pending, DeliverResult

\* A chain is run: it was pending, and its result is in hand.
LEMMA ChainPends ==
  ASSUME EvalInv, ToolChain
  PROVE  /\ Pending("call_tool_chain") >= 1
         /\ \A kind : kind # "call_tool_chain" => Pending(kind)' = Pending(kind)
         /\ returning' # None /\ returning'.outcome \in scenario.outcomes
         /\ UNCHANGED sessionVars /\ UNCHANGED <<injectTool, injectGen>>
         /\ UNCHANGED <<scenario, status, round, due, taken>> /\ dispatches' = dispatches + 1
  <1>1. PICK outcome \in scenario.outcomes, c \in Captains : RunChain(outcome, c)
    BY DEF ToolChain
  <1>2. StackOK(stack) /\ Handling("call_tool_chain") /\ stack' = Rest
    BY <1>1 DEF RunChain, EvalInv, LoopInv, AgentInv, ShapesOK
  <1>3. scenario.outcomes \subseteq Outcomes
    BY EvalAssumption DEF EvalInv
  <1>4. returning' # None /\ returning'.outcome = outcome
    BY <1>1, <1>3, AgentAssumption DEF RunChain
  <1>5. \A kinds : Count(stack, kinds) \in Nat
    BY <1>2, CountsAreNat
  <1>6. \A kind : kind # "call_tool_chain" => Pending(kind)' = Pending(kind)
    BY <1>2, <1>5, TakeWork DEF Pending, One
  <1>. QED  BY <1>1, <1>2, <1>4, <1>6, PendingNat DEF ToolChain, RunChain

\* The first step of a scripted event, and of a message.
LEMMA InputFits ==
  ASSUME EvalInv, ApplyScripted \/ Converse
  PROVE  Fits /\ BeginTurn
  <1>1. RecordOK
    BY DEF EvalInv, LoopInv, AgentInv
  <1>2. CASE ApplyScripted
    <2>1. Head(due) \in InjectedEvents
      BY <1>2 DEF ApplyScripted, EvalInv
    <2>. QED  BY <1>1, <1>2, <2>1, ApplyFits DEF ApplyScripted, SendEvent
  <1>3. CASE Converse
    BY <1>1, <1>3, MessageFits DEF Converse, MerchantSays, SendMessage
  <1>. QED  BY <1>2, <1>3

\* A closed session stays as it was closed.
LEMMA ClosedStays ==
  ASSUME EvalInv, [EvalNext]_evalVars, ~ Live
  PROVE  UNCHANGED sessionVars
  <1>. USE DEF Inert
  <1>1. ASSUME NEW ev \in InjectedEvents, Apply(ev) PROVE UNCHANGED sessionVars
    <2>1. ev.type \in EventTypes
      BY AgentAssumption
    <2>. QED  BY <1>1, <2>1 DEF Apply, EventTypes, EtaUpdated, CaptainCancelled, OnAsyncEvent,
                  PrepCompleted, ReplyTimeout, ToolTimeout, Reevaluate
  <1>2. ASSUME NEW flags, SendMessage(flags) PROVE UNCHANGED sessionVars
    BY <1>2 DEF SendMessage, MerchantMessage, ClassifierUnavailable
  <1>3. CASE ApplyScripted
    <2>1. Head(due) \in InjectedEvents
      BY <1>3 DEF ApplyScripted, EvalInv
    <2>. QED  BY <1>1, <1>3, <2>1 DEF ApplyScripted, SendEvent
  <1>4. CASE Converse
    BY <1>2, <1>4 DEF Converse, MerchantSays
  <1>5. CASE InjectMidFlight
    <2>1. injectTool \in Seq(InjectedEvents) /\ injectTool # << >>
      BY <1>5 DEF EvalInv, LoopInv, AgentInv, ShapesOK, InjectMidFlight
    <2>2. Head(injectTool) \in InjectedEvents
      BY <2>1
    <2>. QED  BY <1>1, <1>5, <2>2 DEF InjectMidFlight
  <1>6. CASE DeliverResult
    BY <1>6 DEF DeliverResult, ToolResult
  <1>7. CASE DispatchNested
    <2>1. Handling("event") /\ StackOK(stack)
      BY <1>7 DEF DispatchNested, EvalInv, LoopInv, AgentInv, ShapesOK
    <2>2. Next1.event \in InjectedEvents
      <3>1. Next1.kind = "event"
        BY <2>1 DEF Handling
      <3>. QED  BY <2>1, <3>1, NextItem DEF ItemOK
    <2>. QED  BY <1>1, <1>7, <2>2 DEF DispatchNested
  <1>8. CASE QueueInjections \/ Collect \/ ToolChain \/ AgentActs \/ UNCHANGED evalVars
    BY <1>8 DEF QueueInjections, Collect, ToolChain, RunChain, AgentActs, Say, OpenTicket, Record,
      QueueDone, evalVars, vars
  <1>. QED  BY <1>3, <1>4, <1>5, <1>6, <1>7, <1>8 DEF EvalNext, AgentDecides

\* A handoff that was reached stays reached.
LEMMA ReachedStays ==
  ASSUME EvalInv, [EvalNext]_evalVars, NEW reason, Reached(reason)
  PROVE  Reached(reason)'
  <1>1. UNCHANGED sessionVars
    BY ClosedStays DEF Reached, Live, TerminalStates
  <1>. QED  BY <1>1 DEF Reached, sessionVars, routed

\* When all is calm, only an input decides anything.
LEMMA CalmSteps ==
  ASSUME EvalInv, Calm, [EvalNext]_evalVars
  PROVE  \/ QueueInjections \/ ApplyScripted \/ Converse
         \/ /\ UNCHANGED sessionVars /\ UNCHANGED <<scenario, round, due, taken>>
            /\ injectGen = << >> => Calm'
            /\ injectGen' \in {injectGen, << >>}
            /\ status' = status \/ Collect
  <1>1. Pending("event") = 0 /\ Pending("call_tool_chain") = 0 /\ returning = None
    BY DEF Calm
  <1>2. ~ ToolChain /\ ~ AgentDecides
    <2>1. ~ Handling("event") /\ ~ Handling("call_tool_chain")
      BY <1>1, PendingNat
    <2>. QED  BY <1>1, <2>1 DEF ToolChain, RunChain, AgentDecides, InjectMidFlight, DeliverResult,
                  DispatchNested
  <1>3. CASE AgentActs
    <2>1. injectGen = << >> => Calm'
      <3>1. injectGen = << >> =>
              /\ Pending("event")' = Pending("event")
              /\ Pending("call_tool_chain")' = Pending("call_tool_chain") /\ returning' = returning
        BY <1>3, ActsQuietly
      <3>. QED  BY <1>1, <3>1 DEF Calm, Pending
    <2>. QED  BY <1>3, <2>1, ActsQuietly DEF harnessVars
  <1>4. CASE Collect \/ UNCHANGED evalVars
    <2>1. UNCHANGED <<stack, returning>>
      BY <1>4 DEF Collect, evalVars, vars, agentVars
    <2>. QED  BY <1>1, <1>4, <2>1 DEF Calm, Pending, Collect, evalVars, harnessVars, vars, agentVars
  <1>. QED  BY <1>2, <1>3, <1>4 DEF EvalNext

\* A script is queued between turns, and everything else stays as it is.
LEMMA QueuedIsCalm ==
  ASSUME EvalInv, QueueInjections
  PROVE  /\ Idle /\ Idle' /\ Calm /\ Calm' /\ UNCHANGED sessionVars
         /\ status = "opening" /\ status' = "running" /\ UNCHANGED <<scenario, round, taken, dispatches>>
         /\ injectGen' = Script(scenario, "generation") /\ due' = ScriptAfter(scenario, 0)
         /\ fsm # "AWAITING_TOOL_RESULT"
  <1>1. Idle /\ stack' = stack /\ returning' = returning
    BY DEF QueueInjections
  <1>2. Calm
    BY <1>1, PendingNat DEF Calm, Idle
  <1>3. fsm # "AWAITING_TOOL_RESULT"
    BY <1>1, NothingThere DEF EvalInv, LoopInv, AgentInv, ResultOwed, Idle
  <1>. QED  BY <1>1, <1>2, <1>3 DEF QueueInjections, Calm, Pending, Idle

-----------------------------------------------------------------------------
(* The decisions a script counts on.                                           *)

\* Without a message, how often the merchant pushed is not asked.
LEMMA UnaskedIgnoresPushes ==
  \A t, d, o, p : Decide(t, d, o, p, None) = Decide(t, d, o, 0, None)
  BY DEF Decide, Asks, ApplyOverride, ApplyRule

\* What is reassigned on a message could be offered, or was due, without one.
LEMMA PremiseOfReassigning ==
  ASSUME NEW t, NEW d, NEW o, NEW p, NEW f, Decide(t, d, o, p, f).action \in ReassignActions
  PROVE  Decide(t, d, o, 0, None).action \in ReassignPremiseActions
  <1>. DEFINE rule == MatchedRule(t, d)
  <1>1. \A r, s, v : Handoff(r, s, v).action = "escalate"
    BY DEF Handoff, Envelope
  <1>2. \A a, r, s, v : Envelope(a, r, s, v).action = a
    BY DEF Envelope
  <1>3. ~ Asks(f, "requests_human") /\ rule # None /\ rule.id \notin SuppressedRules(o)
    BY <1>1, <1>2 DEF Decide, ApplyOverride, ReassignActions
  <1>4. ApplyRule(rule, f, p, o).action \in ReassignActions
    BY <1>3 DEF Decide
  <1>. HIDE DEF rule
  <1>5. rule.action \in {"auto_reassign", "ask_reassign_or_wait"}
    <2>1. CASE rule.action = "log_only"
      BY <1>2, <1>4, <2>1 DEF ApplyRule, ReassignActions
    <2>2. CASE rule.action = "escalate_immediate"
      BY <1>1, <1>4, <2>2 DEF ApplyRule, ReassignActions
    <2>3. CASE rule.action = "notify_confirm_eta"
      <3>1. f # None
        BY <1>2, <1>4, <2>3 DEF ApplyRule, ReassignActions
      <3>2. ReactiveR2(rule.id, f, p, o).action \in ReassignActions
        BY <1>4, <2>3, <3>1 DEF ApplyRule
      <3>. QED  BY <1>1, <1>2, <3>2 DEF ReactiveR2, ClarifyOrLoopGuard, ReassignActions
    <2>4. CASE rule.action \notin {"log_only", "escalate_immediate", "notify_confirm_eta",
                                   "auto_reassign", "ask_reassign_or_wait"}
      BY <1>1, <1>4, <2>4 DEF ApplyRule, ReassignActions
    <2>. QED  BY <2>1, <2>2, <2>3, <2>4
  <1>6. ~ Asks(None, "requests_human") /\ ~ Asks(None, "requests_cancellation")
    BY DEF Asks
  <1>7. ApplyRule(rule, None, 0, o).action = rule.action
    BY <1>2, <1>5, <1>6 DEF ApplyRule
  <1>8. Decide(t, d, o, 0, None) = ApplyRule(rule, None, 0, o)
    BY <1>3, <1>6 DEF Decide, rule
  <1>. QED  BY <1>5, <1>7, <1>8 DEF ReassignPremiseActions, ReassignActions

\* A session that opens by saying something answers every message with something,
\* and closes it on a message only where a new time was announced.
LEMMA TalkIsAnswered ==
  ASSUME NEW t, NEW d, NEW o, NEW p, NEW f, Decide(t, d, o, 0, None).action \in Talking
  PROVE  /\ Decide(t, d, o, p, f).action # "log_only"
         /\ Decide(t, d, o, 0, None).action # "notify_confirm_eta" =>
              Decide(t, d, o, p, f).action # "resolve_eta_confirmed"
  <1>. DEFINE rule == MatchedRule(t, d)
  <1>0. PICK env : env = Decide(t, d, o, p, f)
    OBVIOUS
  <1>1. \A r, s, v : Handoff(r, s, v).action = "escalate"
    BY DEF Handoff, Envelope
  <1>2. \A a, r, s, v : Envelope(a, r, s, v).action = a
    BY DEF Envelope
  <1>3. ~ Asks(None, "requests_human") /\ ~ Asks(None, "requests_cancellation")
    BY DEF Asks
  <1>4. rule # None
    BY <1>1, <1>3 DEF Decide, Talking
  <1>5. CASE Asks(f, "requests_human")
    BY <1>1, <1>5 DEF Decide
  <1>6. CASE ~ Asks(f, "requests_human") /\ rule.id \in SuppressedRules(o)
    <2>1. env = ApplyOverride(rule, f, o)
      BY <1>0, <1>4, <1>6 DEF Decide
    <2>. QED  BY <1>0, <1>1, <1>2, <2>1 DEF ApplyOverride
  <1>7. CASE ~ Asks(f, "requests_human") /\ rule.id \notin SuppressedRules(o)
    <2>1. env = ApplyRule(rule, f, p, o) /\ Decide(t, d, o, 0, None) = ApplyRule(rule, None, 0, o)
      BY <1>0, <1>3, <1>4, <1>7 DEF Decide
    <2>. HIDE DEF rule
    <2>2. rule.action \in {"notify_confirm_eta", "ask_reassign_or_wait"}
      <3>1. ApplyRule(rule, None, 0, o).action \in Talking
        BY <2>1
      <3>. QED  BY <1>1, <1>2, <1>3, <3>1 DEF ApplyRule, Talking
    <2>3. ApplyRule(rule, None, 0, o).action = rule.action
      BY <1>2, <2>2 DEF ApplyRule
    <2>4. CASE f = None
      <3>1. env.action = rule.action
        BY <1>2, <2>1, <2>2, <2>4 DEF ApplyRule
      <3>. QED  BY <1>0, <2>2, <3>1
    <2>5. CASE f # None /\ rule.action = "notify_confirm_eta"
      <3>1. env = ReactiveR2(rule.id, f, p, o)
        BY <2>1, <2>5 DEF ApplyRule
      <3>2. env.action # "log_only"
        BY <1>1, <1>2, <3>1 DEF ReactiveR2, ClarifyOrLoopGuard
      <3>. QED  BY <1>0, <2>1, <2>3, <2>5, <3>2
    <2>6. CASE f # None /\ rule.action = "ask_reassign_or_wait"
      <3>1. env = ReactiveR4(rule.id, f, p, o)
        BY <2>1, <2>6 DEF ApplyRule
      <3>2. env.action \notin {"log_only", "resolve_eta_confirmed"}
        BY <1>1, <1>2, <3>1 DEF ReactiveR4, ClarifyOrLoopGuard
      <3>. QED  BY <1>0, <3>2
    <2>. QED  BY <2>1, <2>2, <2>4, <2>5, <2>6
  <1>. QED  BY <1>5, <1>6, <1>7

\* A routed decision that is more than a log entry leads to a reply.
LEMMA RoutedReplies ==
  ASSUME NEW env, NEW e, Route(env, e), env.action # "log_only"
  PROVE  /\ \/ Emits("send_message", effects') \/ Emits("escalate", effects')
            \/ fsm' = "AWAITING_TOOL_RESULT"
         /\ env.action \notin {"escalate", "resolve_eta_confirmed"} =>
              /\ fsm' \notin TerminalStates
              /\ Emits("send_message", effects') \/ fsm' = "AWAITING_TOOL_RESULT"
         /\ env.action = "escalate" => fsm' = "ESCALATED" /\ terminalReason' = env.reason
  <1>1. PICK fx : fx = effects'
    OBVIOUS
  <1>2. \A k, x : Emits(k, << x >>) <=> x.kind = k
    BY DEF Emits
  <1>3. \A k, x, y : Emits(k, << x, y >>) <=> x.kind = k \/ y.kind = k
    BY DEF Emits
  <1>4. fx = RoutedEffects(env, e) /\ fsm' = RoutedFsm(env.action) /\ terminalReason' = RoutedReason(env)
    BY <1>1 DEF Route
  <1>5. CASE env.action = "resolve_eta_confirmed"
    <2>1. fx = << Send(env.action), Resolution(env.reason) >>
      BY <1>4, <1>5 DEF RoutedEffects, ReassignActions
    <2>. QED  BY <1>1, <1>3, <1>5, <2>1 DEF Send
  <1>6. CASE env.action \in ReassignActions
    BY <1>4, <1>6 DEF RoutedFsm, ReassignActions, TerminalStates
  <1>7. CASE env.action = "escalate"
    <2>1. fx = << Escalation(env.reason, env.mode) >>
      BY <1>4, <1>7 DEF RoutedEffects, ReassignActions
    <2>2. fsm' = "ESCALATED" /\ terminalReason' = env.reason
      BY <1>4, <1>7 DEF RoutedFsm, RoutedReason, ReassignActions, TerminalStates
    <2>. QED  BY <1>1, <1>2, <1>7, <2>1, <2>2 DEF Escalation
  <1>8. CASE env.action \notin {"log_only", "escalate", "resolve_eta_confirmed"} \cup ReassignActions
    <2>1. fx = << Send(env.action) >>
      BY <1>4, <1>8 DEF RoutedEffects
    <2>2. fsm' \notin TerminalStates
      BY <1>4, <1>8 DEF RoutedFsm, TerminalStates
    <2>. QED  BY <1>1, <1>2, <1>8, <2>1, <2>2 DEF Send
  <1>. QED  BY <1>5, <1>6, <1>7, <1>8

\* A handoff outside the engine asks for its ticket, too.
LEMMA EscalateReplies ==
  ASSUME NEW reason, Escalate(reason)
  PROVE  fsm' = "ESCALATED" /\ terminalReason' = reason /\ Emits("escalate", effects')
  <1>1. PICK fx : fx = effects' /\ fx = << Escalation(reason, EscalationModeFor(overrides)) >>
    BY DEF Escalate
  <1>2. Emits("escalate", fx)
    BY <1>1 DEF Emits, Escalation
  <1>. QED  BY <1>1, <1>2 DEF Escalate

\* A result that is awaited is passed on, or hands the order off for the outcome.
LEMMA ResultReplies ==
  ASSUME EvalInv, DeliverResult, fsm = "AWAITING_TOOL_RESULT"
  PROVE  \/ /\ returning.outcome = "reassigned" /\ fsm' = "MONITORING"
            /\ Emits("send_message", effects')
         \/ /\ returning.outcome # "reassigned" /\ Emits("escalate", effects')
            /\ fsm' = "ESCALATED"
            /\ terminalReason' = IF returning.outcome = "partial_failure" THEN "partial_failure"
                                 ELSE "tool_fail_or_no_captain"
  <1>1. AwaitingResult /\ Live
    BY DEF AwaitingResult, EvalInv, LoopInv, AgentInv, RecordOK, Live, TerminalStates
  <1>2. ApplyToolResult(returning.outcome, returning.captain)
    BY <1>1 DEF DeliverResult, ToolResult, ReconcileToolResult, Inert
  <1>3. CASE returning.outcome = "reassigned"
    <2>1. PICK fx : fx = effects' /\ fx = << Send("notify_reassigned") >>
      BY <1>2, <1>3 DEF ApplyToolResult
    <2>2. Emits("send_message", fx)
      BY <2>1 DEF Emits, Send
    <2>. QED  BY <1>2, <1>3, <2>1, <2>2 DEF ApplyToolResult
  <1>4. CASE returning.outcome = "partial_failure"
    <2>1. Escalate("partial_failure")
      BY <1>2, <1>4 DEF ApplyToolResult
    <2>. QED  BY <1>4, <2>1, EscalateReplies
  <1>5. CASE returning.outcome \notin {"reassigned", "partial_failure"}
    <2>1. Escalate("tool_fail_or_no_captain")
      BY <1>2, <1>5 DEF ApplyToolResult
    <2>. QED  BY <1>5, <2>1, EscalateReplies
  <1>. QED  BY <1>3, <1>4, <1>5

\* An event that takes the order where policy hands it off does so from any live
\* state: not even a dispatch in flight survives it.
LEMMA CrossingHandsOff ==
  ASSUME EvalInv, Live, NEW ev, NEW reason, Crosses(scenario, ev, reason), Apply(ev)
  PROVE  Reached(reason)'
  <1>1. ev.type = "SYSTEM_ETA_UPDATED" /\ ev.eta # None
    BY DEF Crosses
  <1>. DEFINE d == Max2(0, ev.eta)
              env == Decide(tier, d, overrides, pushCount, None)
  <1>2. env = Decide(scenario.tier, d, scenario.overrides, 0, None)
    BY UnaskedIgnoresPushes DEF EvalInv
  <1>3. env.action = "escalate" /\ env.reason = reason
    BY <1>2 DEF Crosses
  <1>4. OnAsyncEvent(d, captain)
    BY <1>1 DEF Apply, EtaUpdated, Inert
  <1>5. Route(env, epoch + 1)
    BY <1>3, <1>4 DEF OnAsyncEvent, ReassignPremiseActions, ReassignActions
  <1>. HIDE DEF env
  <1>. QED  BY <1>3, <1>5, RoutedReplies DEF Reached

-----------------------------------------------------------------------------
(* Each of the invariants, step by step.                                       *)

\* A session is opened once.
LEMMA OpeningEnds ==
  ASSUME EvalInv, [EvalNext]_evalVars
  PROVE  /\ status' = "opening" => status = "opening"
         /\ status = "opening" => QueueInjections \/ status' = "opening"
         /\ status = "opening" => ~ ApplyScripted /\ ~ Converse /\ ~ Collect
  BY DEF EvalNext, QueueInjections, ApplyScripted, Converse, Collect, ToolChain,
     AgentDecides, AgentActs, harnessVars, evalVars

\* Nothing happens to a session opened without a dispatch before start() returns.
LEMMA OpensOK ==
  ASSUME EvalInv, Opens, [EvalNext]_evalVars
  PROVE  Opens'
  <1>. SUFFICES ASSUME status' = "opening", Opening(scenario).action \notin ReassignActions
                PROVE  Calm' /\ Fresh'
    BY ScriptsShrink DEF Opens
  <1>1. status = "opening" /\ Calm /\ Fresh /\ injectGen = << >> /\ ~ QueueInjections
    BY OpeningEnds DEF Opens, EvalInv, QueueInjections
  <1>2. UNCHANGED sessionVars /\ scenario' = scenario /\ Calm'
    BY <1>1, CalmSteps, OpeningEnds
  <1>. QED  BY <1>1, <1>2 DEF Fresh, sessionVars, routed, data

\* A dispatch made at the opening is still out then, or its result has been decided.
LEMMA DispatchesOK ==
  ASSUME EvalInv, Dispatches, [EvalNext]_evalVars
  PROVE  Dispatches'
  <1>. SUFFICES ASSUME Opening(scenario).action \in ReassignActions
                PROVE  \/ /\ status' = "opening" /\ fsm' = "AWAITING_TOOL_RESULT"
                          /\ Pending("event")' = 0
                          /\ dispatches' = 0 => returning' = None
                          /\ returning' # None => returning'.outcome \in scenario.outcomes
                       \/ /\ dispatches' > 0
                          /\ \A reason : ChainFails(scenario, reason) /\ reason # None =>
                               Reached(reason)'
    BY ScriptsShrink DEF Dispatches
  <1>1. dispatches \in Nat
    BY DEF EvalInv
  <1>2. CASE /\ dispatches > 0
             /\ \A reason : ChainFails(scenario, reason) /\ reason # None => Reached(reason)
    <2>1. dispatches' > 0
      BY <1>1, <1>2 DEF EvalNext, QueueInjections, ApplyScripted, Converse, Collect, ToolChain,
        AgentDecides, AgentActs, harnessVars, evalVars
    <2>. QED  BY <1>2, <2>1, ReachedStays
  <1>3. CASE /\ status = "opening" /\ fsm = "AWAITING_TOOL_RESULT" /\ Pending("event") = 0
             /\ dispatches = 0 => returning = None
             /\ returning # None => returning.outcome \in scenario.outcomes
    <2>1. injectTool = << >> /\ injectGen = << >>
      BY <1>3 DEF EvalInv
    <2>2. ~ QueueInjections /\ ~ ApplyScripted /\ ~ Converse /\ ~ Collect
      BY <1>3, OpeningEnds, QueuedIsCalm
    <2>3. ~ InjectMidFlight /\ ~ DispatchNested
      BY <1>3, <2>1, PendingNat DEF InjectMidFlight, DispatchNested
    <2>4. CASE ToolChain
      <3>1. dispatches' > 0
        BY <1>1, <2>4, ChainPends
      <3>. QED  BY <1>3, <2>4, <3>1, ChainPends DEF sessionVars, routed
    <2>5. CASE AgentDecides
      <3>1. DeliverResult /\ dispatches' = dispatches
        BY <2>3, <2>5 DEF AgentDecides
      <3>2. returning # None /\ returning.outcome \in scenario.outcomes /\ dispatches' > 0
        BY <1>1, <1>3, <3>1 DEF DeliverResult
      <3>3. ASSUME NEW reason, ChainFails(scenario, reason), reason # None PROVE Reached(reason)'
        <4>1. reason = CASE returning.outcome = "reassigned"      -> None
                         [] returning.outcome = "partial_failure" -> "partial_failure"
                         [] OTHER                                 -> "tool_fail_or_no_captain"
          BY <3>2, <3>3 DEF ChainFails
        <4>. QED  BY <1>3, <3>1, <3>3, <4>1, ResultReplies DEF Reached
      <3>. QED  BY <3>2, <3>3
    <2>6. CASE AgentActs
      <3>1. Pending("event")' = Pending("event")
        BY <2>1, <2>6, ActsQuietly
      <3>. QED  BY <1>3, <2>6, <3>1, ActsQuietly DEF sessionVars, routed, harnessVars
    <2>7. CASE UNCHANGED evalVars
      BY <1>3, <2>7 DEF evalVars, harnessVars, vars, agentVars, sessionVars, routed, Pending
    <2>. QED  BY <2>2, <2>4, <2>5, <2>6, <2>7 DEF EvalNext
  <1>. QED  BY <1>2, <1>3 DEF Dispatches

\* No step of a silent run takes an action or queues an event.
LEMMA KeepsSilentOK ==
  ASSUME EvalInv, KeepsSilent, [EvalNext]_evalVars
  PROVE  KeepsSilent'
  <1>. SUFFICES ASSUME StaysSilent(scenario) PROVE Calm' /\ taken' = {} /\ due' = << >>
    BY ScriptsShrink DEF KeepsSilent
  <1>1. Calm /\ taken = {} /\ due = << >> /\ injectGen = << >>
    BY DEF KeepsSilent, StaysSilent, EvalInv, ScriptsOK
  <1>2. ~ ApplyScripted /\ ~ Converse
    BY <1>1 DEF StaysSilent, ApplyScripted, Converse, EvalInv
  <1>3. CASE QueueInjections
    BY <1>1, <1>3, QueuedIsCalm DEF StaysSilent
  <1>4. CASE ~ QueueInjections
    BY <1>1, <1>2, <1>4, CalmSteps
  <1>. QED  BY <1>3, <1>4

\* What is routed to no dispatch queues none.
LEMMA NoDispatch ==
  ASSUME NEW env, NEW e, Route(env, e), env.action \notin ReassignActions
  PROVE  ~ Emits("call_tool_chain", effects')
  <1>1. PICK fx : fx = effects' /\ fx = RoutedEffects(env, e)
    BY DEF Route
  <1>2. \A k, x : Emits(k, << x >>) <=> x.kind = k
    BY DEF Emits
  <1>3. \A k, x, y : Emits(k, << x, y >>) <=> x.kind = k \/ y.kind = k
    BY DEF Emits
  <1>4. ~ Emits("call_tool_chain", fx)
    BY <1>1, <1>2, <1>3 DEF RoutedEffects, Log, Send, Resolution, Escalation
  <1>. QED  BY <1>1, <1>4

\* Each unanswered nudge brings the policy one nearer to giving up.
LEMMA GivesUpOK ==
  ASSUME EvalInv, Opens, GivesUp, [EvalNext]_evalVars
  PROVE  GivesUp'
  <1>. DEFINE Waits ==
                /\ status = "running" /\ Calm
                /\ fsm = "AWAITING_MERCHANT_REPLY" /\ delay = scenario.delay
                /\ unresponsive \in 0 .. UnresponsiveAttempts - 1
                /\ \A i \in 1 .. UnresponsiveAttempts - unresponsive :
                     i \in DOMAIN due /\ due[i].type = "merchant_reply_timeout"
  <1>. SUFFICES ASSUME NEW reason, GoesUnanswered(scenario, reason)
                PROVE  status' = "opening" \/ Reached(reason)' \/ Waits'
    BY ScriptsShrink DEF GivesUp
  <1>1. UnresponsiveAttempts \in Nat \ {0} /\ reason = "unresponsive"
    BY PolicyAssumption DEF GoesUnanswered
  <1>2. injectGen = << >> \/ status = "opening"
    BY DEF GoesUnanswered, EvalInv, ScriptsOK
  <1>3. CASE status = "opening"
    <2>1. CASE QueueInjections
      <3>1. Opening(scenario).action \notin ReassignActions
        BY DEF GoesUnanswered, RoutedFsm, ReassignActions
      <3>2. Calm /\ Fresh
        BY <1>3, <3>1 DEF Opens
      <3>3. /\ Calm' /\ UNCHANGED sessionVars /\ status' = "running" /\ scenario' = scenario
            /\ due' = ScriptAfter(scenario, 0)
        BY <2>1, QueuedIsCalm
      <3>4. unresponsive' = 0 /\ fsm' = "AWAITING_MERCHANT_REPLY" /\ delay' = scenario.delay
        BY <3>2, <3>3 DEF Fresh, sessionVars, data, routed, GoesUnanswered
      <3>5. \A i \in 1 .. UnresponsiveAttempts - unresponsive' :
              i \in DOMAIN due' /\ due'[i].type = "merchant_reply_timeout"
        BY <1>1, <3>3, <3>4 DEF GoesUnanswered
      <3>. QED  BY <1>1, <3>3, <3>4, <3>5
    <2>. QED  BY <1>3, <2>1, OpeningEnds
  <1>4. CASE Reached(reason)
    BY <1>4, ReachedStays
  <1>5. CASE Waits
    <2>1. /\ 1 \in DOMAIN due /\ due[1].type = "merchant_reply_timeout" /\ due # << >>
          /\ due \in Seq(InjectedEvents)
      <3>1. 1 \in 1 .. UnresponsiveAttempts - unresponsive
        BY <1>1, <1>5
      <3>. QED  BY <1>5, <3>1 DEF EvalInv
    <2>2. Live /\ injectGen = << >> /\ status # "opening"
      BY <1>2, <1>5 DEF Live, TerminalStates
    <2>3. ~ QueueInjections /\ ~ Converse /\ ~ Collect
      BY <2>1, <2>2 DEF QueueInjections, Converse, Collect
    <2>4. CASE ApplyScripted
      <3>1. Head(due) = due[1] /\ Tail(due) \in Seq(InjectedEvents)
        BY <2>1
      <3>2. ReplyTimeout
        BY <2>1, <2>2, <2>4, <3>1 DEF ApplyScripted, SendEvent, Apply, Inert
      <3>3. CASE unresponsive + 1 >= UnresponsiveAttempts
        <4>1. Escalate("unresponsive")
          BY <1>5, <3>2, <3>3 DEF ReplyTimeout
        <4>. QED  BY <1>1, <4>1, EscalateReplies DEF Reached
      <3>4. CASE ~ (unresponsive + 1 >= UnresponsiveAttempts)
        <4>. DEFINE env == Decide(tier, delay, overrides, pushCount, None)
        <4>1. env = Opening(scenario)
          BY <1>5, UnaskedIgnoresPushes DEF Opening, EvalInv
        <4>2. /\ Route(env, epoch) /\ unresponsive' = unresponsive + 1 /\ delay' = delay
          BY <1>5, <3>2, <3>4 DEF ReplyTimeout
        <4>3. scenario' = scenario /\ status' = "running" /\ due' = Tail(due)
          BY <2>4 DEF ApplyScripted
        <4>4. fsm' = "AWAITING_MERCHANT_REPLY" /\ env.action \notin ReassignActions
          BY <4>1, <4>2 DEF Route, GoesUnanswered, RoutedFsm, ReassignActions
        <4>. HIDE DEF env
        <4>5. ~ Emits("call_tool_chain", effects')
          BY <4>2, <4>4, NoDispatch
        <4>6. Calm'
          <5>1. Pending("event")' = 0 /\ Pending("call_tool_chain")' = 0 /\ returning' = None
            BY <2>4, <4>5, InputFits, TurnPends
          <5>. QED  BY <5>1 DEF Calm, Pending
        <4>7. unresponsive' \in 0 .. UnresponsiveAttempts - 1
          BY <1>1, <1>5, <3>4, <4>2
        <4>8. \A i \in 1 .. UnresponsiveAttempts - unresponsive' :
                i \in DOMAIN due' /\ due'[i].type = "merchant_reply_timeout"
          <5>. TAKE i \in 1 .. UnresponsiveAttempts - unresponsive'
          <5>1. i + 1 \in 1 .. UnresponsiveAttempts - unresponsive /\ i \in Nat \ {0}
            BY <1>1, <1>5, <4>2
          <5>2. i + 1 \in DOMAIN due /\ due[i + 1].type = "merchant_reply_timeout"
            BY <1>5, <5>1
          <5>3. i \in DOMAIN Tail(due) /\ Tail(due)[i] = due[i + 1]
            BY <2>1, <5>1, <5>2
          <5>. QED  BY <4>3, <5>2, <5>3
        <4>. QED  BY <1>5, <4>2, <4>3, <4>4, <4>6, <4>7, <4>8
      <3>. QED  BY <3>3, <3>4
    <2>5. CASE ~ ApplyScripted
      BY <1>5, <2>2, <2>3, <2>5, CalmSteps DEF sessionVars, routed, data
    <2>. QED  BY <2>4, <2>5
  <1>. QED  BY <1>3, <1>4, <1>5 DEF GivesUp

\* The event that takes the order away is applied before anything else is.
LEMMA WorsensOK ==
  ASSUME EvalInv, Opens, Worsens, [EvalNext]_evalVars
  PROVE  Worsens'
  <1>. SUFFICES ASSUME NEW reason, CrossesAtOnce(scenario, reason)
                PROVE  \/ status' = "opening" \/ Reached(reason)'
                       \/ /\ status' = "running" /\ Idle' /\ Live' /\ fsm' # "AWAITING_TOOL_RESULT"
                          /\ due' = ScriptAfter(scenario, 0)
    BY ScriptsShrink DEF Worsens
  <1>1. ScriptAfter(scenario, 0) # << >> /\ Crosses(scenario, ScriptAfter(scenario, 0)[1], reason)
    BY DEF CrossesAtOnce
  <1>2. CASE status = "opening"
    <2>1. CASE QueueInjections
      <3>1. Opening(scenario).action \notin ReassignActions
        BY DEF CrossesAtOnce, Talking, ReassignActions
      <3>2. Fresh
        BY <1>2, <3>1 DEF Opens
      <3>3. fsm \in {"AWAITING_MERCHANT_REPLY", "MONITORING"}
        BY <3>2 DEF Fresh, CrossesAtOnce, Talking, RoutedFsm, ReassignActions
      <3>. QED  BY <2>1, <3>3, QueuedIsCalm DEF sessionVars, routed, Live, TerminalStates
    <2>. QED  BY <1>2, <2>1, OpeningEnds
  <1>3. CASE Reached(reason)
    BY <1>3, ReachedStays
  <1>4. CASE /\ status = "running" /\ Idle /\ Live /\ fsm # "AWAITING_TOOL_RESULT"
             /\ due = ScriptAfter(scenario, 0)
    <2>1. ~ QueueInjections /\ ~ Converse /\ ~ Collect
      BY <1>1, <1>4 DEF QueueInjections, Converse, Collect
    <2>2. ~ ToolChain /\ ~ AgentDecides /\ ~ AgentActs
      BY <1>4, IdleRests
    <2>3. CASE ApplyScripted
      <3>1. Head(due) = ScriptAfter(scenario, 0)[1]
        BY <1>1, <1>4 DEF EvalInv
      <3>2. Apply(Head(due))
        BY <2>3 DEF ApplyScripted, SendEvent
      <3>. QED  BY <1>1, <1>4, <3>1, <3>2, CrossingHandsOff
    <2>4. CASE UNCHANGED evalVars
      BY <1>4, <2>4 DEF evalVars, harnessVars, vars, agentVars, sessionVars, routed, Idle, Live
    <2>. QED  BY <2>1, <2>2, <2>3, <2>4 DEF EvalNext
  <1>. QED  BY <1>2, <1>3, <1>4 DEF Worsens

\* Whatever step is taken, a captain is not reassigned where the suite forbids it.
LEMMA RestrainedOK ==
  ASSUME EvalInv, EvalInv', Restrained, [EvalNext]_evalVars
  PROVE  Restrained'
  <1>. SUFFICES ASSUME NeverReassigns(scenario) PROVE taken' \cap ReassignActions = {}
    BY ScriptsShrink DEF Restrained
  <1>1. taken \cap ReassignActions = {} /\ scenario' = scenario
    BY ScriptsShrink DEF Restrained
  <1>2. CASE ApplyScripted \/ Converse \/ AgentDecides
    <2>1. Judged
      <3>1. Head(due) \in InjectedEvents \/ ~ ApplyScripted
        BY DEF ApplyScripted, EvalInv
      <3>. QED  BY <1>2, <3>1, DecidesJudged DEF ApplyScripted, Converse, MerchantSays, AgentDecides,
                  EvalInv
    <2>2. PICK a : /\ Actions(effects', lastAction') \subseteq {a}
                   /\ a \in ReassignActions =>
                        \E p, f : a = Decide(tier, delay', overrides, p, f).action
      BY <2>1 DEF Judged
    <2>3. a \notin ReassignActions
      <3>1. SUFFICES ASSUME a \in ReassignActions PROVE FALSE
        OBVIOUS
      <3>2. PICK p, f : a = Decide(tier, delay', overrides, p, f).action
        BY <2>2, <3>1
      <3>3. Decide(tier, delay', overrides, 0, None).action \in ReassignPremiseActions
        BY <3>1, <3>2, PremiseOfReassigning
      <3>4. tier = scenario.tier /\ overrides = scenario.overrides /\ delay' \in Latenesses(scenario)
        BY <1>1 DEF EvalInv
      <3>. QED  BY <3>3, <3>4 DEF NeverReassigns
    <2>4. taken' = taken \cup Actions(effects', lastAction')
      BY <1>2 DEF ApplyScripted, Converse, AgentDecides, Taking
    <2>. QED  BY <1>1, <2>2, <2>3, <2>4
  <1>3. CASE QueueInjections \/ Collect \/ ToolChain \/ AgentActs \/ UNCHANGED evalVars
    BY <1>1, <1>3 DEF QueueInjections, Collect, ToolChain, AgentActs, harnessVars, evalVars
  <1>. QED  BY <1>2, <1>3 DEF EvalNext

\* The message that meets the opening question is answered: with a reply, a
\* handoff or a dispatch.
LEMMA MessageReplies ==
  ASSUME EvalInv, Fresh, Opening(scenario).action \in Talking,
         NEW flags, SendMessage(flags)
  PROVE  /\ \/ Emits("send_message", effects') \/ Emits("escalate", effects')
            \/ fsm' = "AWAITING_TOOL_RESULT"
         /\ Opening(scenario).action # "notify_confirm_eta" =>
              \/ fsm' = "ESCALATED"
              \/ /\ fsm' \notin TerminalStates
                 /\ Emits("send_message", effects') \/ fsm' = "AWAITING_TOOL_RESULT"
  <1>1. Live /\ fsm # "AWAITING_TOOL_RESULT"
    BY DEF Fresh, Talking, RoutedFsm, ReassignActions, Live, TerminalStates
  <1>2. CASE ClassifierUnavailable
    BY <1>2, EscalateReplies DEF ClassifierUnavailable
  <1>3. CASE MerchantMessage(flags)
    <2>. DEFINE env == Decide(tier, delay, overrides, pushCount, flags)
    <2>1. Opening(scenario) = Decide(tier, delay, overrides, 0, None)
      BY DEF Opening, EvalInv, Fresh
    <2>2. /\ env.action # "log_only"
          /\ Opening(scenario).action # "notify_confirm_eta" => env.action # "resolve_eta_confirmed"
      BY <2>1, TalkIsAnswered
    <2>3. PICK final : final \in {env, EscalateForRepetition(env)} /\ Route(final, epoch)
      BY <1>1, <1>3 DEF MerchantMessage, MessageInFlight, AnswerMessage
    <2>. HIDE DEF env
    <2>4. /\ final.action # "log_only"
          /\ Opening(scenario).action # "notify_confirm_eta" => final.action # "resolve_eta_confirmed"
      BY <2>2, <2>3 DEF EscalateForRepetition
    <2>. QED  BY <2>3, <2>4, RoutedReplies
  <1>. QED  BY <1>1, <1>2, <1>3 DEF SendMessage, Inert

\* Between turns no reply is on its way.
LEMMA NoReplyWhenIdle ==
  ASSUME EvalInv, Idle, NEW kinds
  PROVE  ~ ReplyComing(kinds)
  <1>1. \A kind : Pending(kind) = 0
    BY PendingNat DEF Idle
  <1>2. fsm # "AWAITING_TOOL_RESULT"
    BY NothingThere DEF EvalInv, LoopInv, AgentInv, ResultOwed, Idle
  <1>. QED  BY <1>1, <1>2 DEF ReplyComing

\* While a reply is on its way, only the chain and its result come before it.
LEMMA BeforeReply ==
  ASSUME EvalInv, [EvalNext]_evalVars, NEW kinds, ReplyComing(kinds),
         Script(scenario, "tool_flight") = << >>
  PROVE  ToolChain \/ DeliverResult \/ AgentActs \/ UNCHANGED evalVars
  <1>1. ~ Idle
    BY NoReplyWhenIdle
  <1>2. ~ Handling("event")
    BY PendingNat DEF ReplyComing
  <1>3. injectTool = << >>
    BY DEF EvalInv, ScriptsOK
  <1>. QED  BY <1>1, <1>2, <1>3 DEF EvalNext, QueueInjections, ApplyScripted, Converse, Collect,
              AgentDecides, InjectMidFlight, DispatchNested

\* Saying something lands what is queued.
LEMMA SayLands ==
  ASSUME Say \/ OpenTicket
  PROVE  injectGen' = << >>
  BY DEF Say, OpenTicket, SayThen

\* Until the reply goes out, either it is still owed or its script has landed.
LEMMA LandsOK ==
  ASSUME EvalInv, Opens, Lands, [EvalNext]_evalVars
  PROVE  Lands'
  <1>. DEFINE kinds == {"send_message", "escalate"}
  <1>. SUFFICES ASSUME TalksFirst(scenario), scenario.max_turns > 0, injectGen' # << >>
                PROVE  status' = "opening" \/ ReplyFirst' \/ ReplyComing(kinds)'
    BY ScriptsShrink DEF Lands
  <1>1. Opening(scenario).action \in Talking /\ ScriptAfter(scenario, 0) = << >>
        /\ Script(scenario, "tool_flight") = << >>
    BY DEF TalksFirst
  <1>2. CASE status = "opening"
    <2>1. CASE QueueInjections
      <3>1. Opening(scenario).action \notin ReassignActions
        BY <1>1 DEF Talking, ReassignActions
      <3>2. Fresh
        BY <1>2, <3>1 DEF Opens
      <3>3. Fresh'
        BY <2>1, <3>2, QueuedIsCalm DEF Fresh, sessionVars, routed, data
      <3>4. round = 0
        BY <1>2 DEF EvalInv
      <3>. QED  BY <1>1, <2>1, <3>3, <3>4, QueuedIsCalm DEF ReplyFirst
    <2>. QED  BY <1>2, <2>1, OpeningEnds
  <1>3. CASE status # "opening" /\ injectGen = << >>
    BY <1>3, ScriptsShrink DEF QueueInjections
  <1>4. CASE ReplyFirst
    <2>1. Live
      BY <1>1, <1>4 DEF ReplyFirst, Fresh, Talking, RoutedFsm, ReassignActions, Live, TerminalStates
    <2>2. ~ QueueInjections /\ ~ ApplyScripted /\ ~ Collect
      BY <1>4, <2>1 DEF ReplyFirst, QueueInjections, ApplyScripted, Collect
    <2>3. ~ ToolChain /\ ~ AgentDecides /\ ~ AgentActs
      BY <1>4, IdleRests DEF ReplyFirst
    <2>4. CASE Converse
      <3>1. PICK flags \in Intents : SendMessage(flags)
        BY <2>4 DEF Converse, MerchantSays
      <3>2. \/ Emits("send_message", effects') \/ Emits("escalate", effects')
            \/ fsm' = "AWAITING_TOOL_RESULT"
        BY <1>1, <1>4, <3>1, MessageReplies DEF ReplyFirst
      <3>3. /\ \A kind \in kinds : Pending(kind)' = IF Emits(kind, effects') THEN 1 ELSE 0
            /\ Pending("event")' = 0
        BY <2>4, InputFits, TurnPends
      <3>. QED  BY <3>2, <3>3 DEF ReplyComing, Pending
    <2>5. CASE UNCHANGED evalVars
      BY <1>4, <2>5 DEF ReplyFirst, evalVars, harnessVars, vars, agentVars, sessionVars, routed, data,
        Idle, Fresh
    <2>. QED  BY <2>2, <2>3, <2>4, <2>5 DEF EvalNext
  <1>5. CASE ReplyComing(kinds)
    <2>1. \A kind : Pending(kind) \in Nat
      BY PendingNat
    <2>2. CASE ToolChain
      <3>1. /\ \A kind \in kinds : Pending(kind)' = Pending(kind)
            /\ Pending("event")' = Pending("event") /\ fsm' = fsm
        BY <2>2, ChainPends DEF sessionVars, routed
      <3>. QED  BY <1>5, <3>1 DEF ReplyComing, Pending
    <2>3. CASE DeliverResult
      <3>1. /\ \A kind \in kinds : Pending(kind)' = Pending(kind) + IF Emits(kind, effects') THEN 1 ELSE 0
            /\ Pending("event")' = Pending("event")
        BY <2>3, DeliveryPends
      <3>2. CASE fsm = "AWAITING_TOOL_RESULT"
        <4>1. \E kind \in kinds : Emits(kind, effects')
          BY <2>3, <3>2, ResultReplies
        <4>2. \E kind \in kinds : Pending(kind)' >= 1
          BY <2>1, <3>1, <4>1
        <4>. QED  BY <1>5, <3>1, <4>2 DEF ReplyComing, Pending
      <3>3. CASE \E kind \in kinds : Pending(kind) >= 1
        <4>1. \E kind \in kinds : Pending(kind)' >= 1
          BY <2>1, <3>1, <3>3
        <4>. QED  BY <1>5, <3>1, <4>1 DEF ReplyComing, Pending
      <3>. QED  BY <1>5, <3>2, <3>3 DEF ReplyComing
    <2>4. CASE AgentActs
      <3>1. ~ Say /\ ~ OpenTicket /\ injectGen' = injectGen
        BY <2>4, SayLands, ActsQuietly
      <3>2. /\ \A kind \in kinds : Pending(kind)' = Pending(kind)
            /\ Pending("event")' = Pending("event") /\ fsm' = fsm
        BY <2>4, <3>1, ActsQuietly DEF sessionVars, routed
      <3>. QED  BY <1>5, <3>2 DEF ReplyComing, Pending
    <2>5. CASE UNCHANGED evalVars
      BY <1>5, <2>5 DEF evalVars, vars, agentVars, sessionVars, routed, ReplyComing, Pending
    <2>. QED  BY <1>1, <1>5, <2>2, <2>3, <2>4, <2>5, BeforeReply
  <1>. QED  BY <1>2, <1>3, <1>4, <1>5 DEF Lands

\* And what lands with it is decided before the agent does anything else.
LEMMA LandsAndCrossesOK ==
  ASSUME EvalInv, Opens, LandsAndCrosses, [EvalNext]_evalVars
  PROVE  LandsAndCrosses'
  <1>. DEFINE kinds == {"send_message"}
              gen == Script(scenario, "generation")
  <1>. SUFFICES ASSUME CrossesWhileReplying(scenario)
                PROVE  \/ status' = "opening" \/ fsm' = "ESCALATED" \/ ReplyFirst'
                       \/ Live' /\ injectGen' # << >> /\ ReplyComing(kinds)'
                       \/ Live' /\ EventNext'
    BY ScriptsShrink DEF LandsAndCrosses
  <1>1. /\ Opening(scenario).action \in Talking /\ Opening(scenario).action # "notify_confirm_eta"
        /\ ScriptAfter(scenario, 0) = << >> /\ Script(scenario, "tool_flight") = << >>
        /\ gen # << >> /\ scenario.max_turns > 0
        /\ \E reason : Crosses(scenario, gen[1], reason)
    BY DEF CrossesWhileReplying, TalksFirst
  <1>2. CASE status = "opening"
    <2>1. CASE QueueInjections
      <3>1. Opening(scenario).action \notin ReassignActions
        BY <1>1 DEF Talking, ReassignActions
      <3>2. Fresh
        BY <1>2, <3>1 DEF Opens
      <3>3. Fresh'
        BY <2>1, <3>2, QueuedIsCalm DEF Fresh, sessionVars, routed, data
      <3>4. round = 0
        BY <1>2 DEF EvalInv
      <3>. QED  BY <1>1, <2>1, <3>3, <3>4, QueuedIsCalm DEF ReplyFirst
    <2>. QED  BY <1>2, <2>1, OpeningEnds
  <1>3. CASE fsm = "ESCALATED"
    BY <1>3, ClosedStays DEF Live, TerminalStates, sessionVars, routed
  <1>4. CASE ReplyFirst
    <2>1. Live
      BY <1>1, <1>4 DEF ReplyFirst, Fresh, Talking, RoutedFsm, ReassignActions, Live, TerminalStates
    <2>2. ~ QueueInjections /\ ~ ApplyScripted /\ ~ Collect
      BY <1>1, <1>4, <2>1 DEF ReplyFirst, QueueInjections, ApplyScripted, Collect
    <2>3. ~ ToolChain /\ ~ AgentDecides /\ ~ AgentActs
      BY <1>4, IdleRests DEF ReplyFirst
    <2>4. CASE Converse
      <3>1. PICK flags \in Intents : SendMessage(flags)
        BY <2>4 DEF Converse, MerchantSays
      <3>2. \/ fsm' = "ESCALATED"
            \/ /\ fsm' \notin TerminalStates
               /\ Emits("send_message", effects') \/ fsm' = "AWAITING_TOOL_RESULT"
        BY <1>1, <1>4, <3>1, MessageReplies DEF ReplyFirst
      <3>3. /\ Pending("send_message")' = IF Emits("send_message", effects') THEN 1 ELSE 0
            /\ Pending("event")' = 0 /\ injectGen' = injectGen
        BY <2>4, InputFits, TurnPends
      <3>4. injectGen # << >>
        BY <1>1, <1>4 DEF ReplyFirst
      <3>. QED  BY <3>2, <3>3, <3>4 DEF ReplyComing, Pending, Live
    <2>5. CASE UNCHANGED evalVars
      BY <1>4, <2>5 DEF ReplyFirst, evalVars, harnessVars, vars, agentVars, sessionVars, routed, data,
        Idle, Fresh
    <2>. QED  BY <2>2, <2>3, <2>4, <2>5 DEF EvalNext
  <1>5. CASE Live /\ injectGen # << >> /\ ReplyComing(kinds)
    <2>1. /\ \A kind : Pending(kind) \in Nat
          /\ injectGen = gen /\ injectGen \in Seq(InjectedEvents) /\ StackOK(stack)
      BY <1>5, PendingNat DEF EvalInv, ScriptsOK, LoopInv, AgentInv, ShapesOK
    <2>2. CASE ToolChain
      <3>1. /\ Pending("send_message")' = Pending("send_message")
            /\ Pending("event")' = Pending("event") /\ fsm' = fsm /\ injectGen' = injectGen
        BY <2>2, ChainPends DEF sessionVars, routed
      <3>. QED  BY <1>5, <3>1 DEF ReplyComing, Pending, Live
    <2>3. CASE DeliverResult
      <3>1. /\ Pending("send_message")' = Pending("send_message")
                                          + IF Emits("send_message", effects') THEN 1 ELSE 0
            /\ Pending("event")' = Pending("event") /\ injectGen' = injectGen
        BY <2>3, DeliveryPends
      <3>2. CASE fsm = "AWAITING_TOOL_RESULT"
        <4>1. \/ fsm' = "ESCALATED"
              \/ fsm' = "MONITORING" /\ Emits("send_message", effects')
          BY <2>3, <3>2, ResultReplies
        <4>2. Emits("send_message", effects') => Pending("send_message")' >= 1
          BY <2>1, <3>1
        <4>. QED  BY <1>5, <3>1, <4>1, <4>2 DEF ReplyComing, Pending, Live, TerminalStates
      <3>3. CASE fsm # "AWAITING_TOOL_RESULT"
        <4>1. fsm' = fsm
          BY <2>3, <3>3 DEF DeliverResult, ToolResult, ApplyToolResult, AwaitingResult,
            ReconcileToolResult, Inert, sessionVars, routed
        <4>2. Pending("send_message")' >= 1
          BY <1>5, <2>1, <3>1, <3>3 DEF ReplyComing
        <4>. QED  BY <1>5, <3>1, <4>1, <4>2 DEF ReplyComing, Pending, Live
      <3>. QED  BY <3>2, <3>3
    <2>4. CASE Say
      <3>. DEFINE q == [i \in DOMAIN injectGen |-> [kind |-> "event", event |-> injectGen[i]]]
      <3>1. Live' /\ returning' = None /\ stack' = << q >> \o Rest
        BY <1>5, <2>4 DEF Say, SayThen, Handling, sessionVars, routed, Live
      <3>2. StackOK(Rest)
        BY <2>1, <2>4, TakeWork DEF Say
      <3>3. 1 \in DOMAIN injectGen
        BY <1>5, <2>1
      <3>4. QueueOK(q)
        BY <2>1, EventQueue
      <3>5. /\ q # << >> /\ Head(q) = [kind |-> "event", event |-> gen[1]]
        <4>1. Len(injectGen) \in Nat \ {0} /\ DOMAIN injectGen = 1 .. Len(injectGen)
          BY <1>5, <2>1
        <4>2. q \in Seq({[kind |-> "event", event |-> ev] : ev \in InjectedEvents}) /\ Len(q) = Len(injectGen)
          BY <2>1, <4>1
        <4>. QED  BY <2>1, <3>3, <4>1, <4>2
      <3>. HIDE DEF q
      <3>6. stack' # << >> /\ Head(stack') = q
        <4>1. PICK S : Rest \in Seq(S)
          BY <3>2 DEF StackOK
        <4>2. << q >> \o Rest \in Seq(S \cup {q}) /\ (<< q >> \o Rest)[1] = q /\ << q >> \o Rest # << >>
          BY <4>1
        <4>. QED  BY <3>1, <4>2
      <3>7. scenario' = scenario
        BY ScriptsShrink
      <3>. QED  BY <3>1, <3>5, <3>6, <3>7 DEF EventNext, Top, Next1
    <2>5. CASE OpenTicket
      <3>1. Pending("escalate") >= 1
        BY <2>5, PendingNat DEF OpenTicket
      <3>2. Len(tickets) \in Nat /\ Len(tickets) + Pending("escalate") = IF fsm = "ESCALATED" THEN 1 ELSE 0
        BY TicketsLen DEF EvalInv, LoopInv, AgentInv, TicketOwed, Pending
      <3>3. fsm = "ESCALATED"
        BY <2>1, <3>1, <3>2
      <3>. QED  BY <1>3, <3>3
    <2>6. CASE AgentActs /\ ~ Say /\ ~ OpenTicket
      <3>1. injectGen' = injectGen
        BY <2>6 DEF AgentActs, Record, QueueDone
      <3>2. /\ Pending("send_message")' = Pending("send_message")
            /\ Pending("event")' = Pending("event") /\ fsm' = fsm
        BY <2>6, <3>1, ActsQuietly DEF sessionVars, routed
      <3>. QED  BY <1>5, <3>1, <3>2 DEF ReplyComing, Pending, Live
    <2>7. CASE UNCHANGED evalVars
      BY <1>5, <2>7 DEF evalVars, vars, agentVars, sessionVars, routed, ReplyComing, Pending, Live
    <2>. QED  BY <1>1, <1>5, <2>2, <2>3, <2>4, <2>5, <2>6, <2>7, BeforeReply
  <1>6. CASE Live /\ EventNext
    <2>1. stack # << >> /\ Top # << >> /\ returning = None /\ Next1.kind = "event" /\ Next1.event = gen[1]
      BY <1>6 DEF EventNext
    <2>2. ~ Idle /\ \A kind : Handling(kind) => kind = "event"
      BY <2>1 DEF Idle, Handling
    <2>3. ~ ToolChain /\ ~ AgentActs /\ ~ InjectMidFlight /\ ~ DeliverResult
      BY <2>1, <2>2 DEF ToolChain, RunChain, AgentActs, Say, OpenTicket, Record, QueueDone,
        InjectMidFlight, DeliverResult
    <2>4. ~ QueueInjections /\ ~ ApplyScripted /\ ~ Converse /\ ~ Collect
      BY <2>2 DEF QueueInjections, ApplyScripted, Converse, Collect
    <2>5. CASE DispatchNested
      <3>1. Apply(gen[1])
        BY <2>1, <2>5 DEF DispatchNested
      <3>2. PICK reason : Crosses(scenario, gen[1], reason)
        BY <1>1
      <3>3. Reached(reason)'
        BY <1>6, <3>1, <3>2, CrossingHandsOff
      <3>. QED  BY <3>3 DEF Reached
    <2>6. CASE UNCHANGED evalVars
      BY <1>6, <2>6 DEF evalVars, harnessVars, vars, agentVars, sessionVars, routed, EventNext, Top,
        Next1, Live
    <2>. QED  BY <2>3, <2>4, <2>5, <2>6 DEF EvalNext, AgentDecides
  <1>. QED  BY <1>2, <1>3, <1>4, <1>5, <1>6 DEF LandsAndCrosses

\* The verdicts hold where every run starts.
LEMMA VerdictInitOK == EvalInit => VerdictInv
  <1>. SUFFICES ASSUME EvalInit PROVE VerdictInv
    OBVIOUS
  <1>1. EvalInv /\ Init /\ status = "opening" /\ returning = None /\ stack = << effects >>
    BY EvalInitOK DEF EvalInit, Init
  <1>2. PICK t \in MerchantTiers, d \in InitialDelays, o \in OverrideLists :
          Bootstrap(t, d, OriginalCaptain, o)
    BY <1>1 DEF Init
  <1>3. PICK env : env = Opening(scenario)
    OBVIOUS
  <1>4. /\ fsm = RoutedFsm(env.action) /\ pending = RoutedPending(env, 0)
        /\ lastAction = Decision(env) /\ effects = RoutedEffects(env, 0)
        /\ unresponsive = 0 /\ delay = scenario.delay
    BY <1>2, <1>3 DEF Bootstrap, EvalInit, Opening
  <1>5. Shaped(effects)
    BY <1>4, RoutedFits
  <1>6. \A kinds : Count(stack, kinds) = InQueue(effects, kinds)
    BY <1>1, <1>5, ShapedQueue, OnlyQueue
  <1>7. Pending("event") = 0
    BY <1>5, <1>6, NoEventQueued DEF Pending
  <1>8. env.action \notin ReassignActions => Pending("call_tool_chain") = 0
    <2>1. \A k, x : Emits(k, << x >>) <=> x.kind = k
      BY DEF Emits
    <2>2. \A k, x, y : Emits(k, << x, y >>) <=> x.kind = k \/ y.kind = k
      BY DEF Emits
    <2>3. env.action \notin ReassignActions => ~ Emits("call_tool_chain", effects)
      BY <1>4, <2>1, <2>2 DEF RoutedEffects, Log, Send, Resolution, Escalation
    <2>. QED  BY <1>5, <1>6, <2>3, ShapedQueue DEF Pending
  <1>9. /\ taken \subseteq {env.action}
        /\ env.action = "log_only" => taken = {}
    BY <1>4, RoutedTakes DEF EvalInit
  <1>10. Opens
    BY <1>1, <1>3, <1>4, <1>7, <1>8 DEF Opens, Calm, Fresh
  <1>11. Dispatches
    <2>1. env.action \in ReassignActions => fsm = "AWAITING_TOOL_RESULT"
      BY <1>4 DEF RoutedFsm, ReassignActions
    <2>. QED  BY <1>1, <1>3, <1>7, <2>1 DEF Dispatches
  <1>12. KeepsSilent
    <2>1. StaysSilent(scenario) => env.action = "log_only"
      BY <1>3 DEF StaysSilent
    <2>2. "log_only" \notin ReassignActions
      BY DEF ReassignActions
    <2>. QED  BY <1>1, <1>7, <1>8, <1>9, <2>1, <2>2 DEF KeepsSilent, Calm, EvalInv
  <1>13. Restrained
    <2>1. NeverReassigns(scenario) => env.action \notin ReassignPremiseActions
      BY <1>3 DEF NeverReassigns, Latenesses, Opening
    <2>. QED  BY <1>9, <2>1 DEF Restrained, ReassignPremiseActions
  <1>. QED  BY <1>1, <1>10, <1>11, <1>12, <1>13 DEF VerdictInv, GivesUp, Worsens, Lands, LandsAndCrosses

\* A run keeps to what its script makes of it.
LEMMA VerdictInductive == EvalSpec => []VerdictInv
  <1>1. EvalInv /\ EvalInv' /\ VerdictInv /\ [EvalNext]_evalVars => VerdictInv'
    BY OpensOK, DispatchesOK, KeepsSilentOK, GivesUpOK, WorsensOK, RestrainedOK, LandsOK,
       LandsAndCrossesOK DEF VerdictInv
  <1>. QED  BY HarnessInductive, VerdictInitOK, <1>1, PTL DEF EvalSpec

-----------------------------------------------------------------------------

(* For every suite in which what is injected while a reply is composed belongs   *)
(* to a scenario that opens by saying something and scripts nothing before, under *)
(* any pack and with any merchant: a graded run has had the event land.          *)
THEOREM GenerationLands ==
  ASSUME GenerationScriptsTalk
  PROVE  EvalSpec => []GenerationEventsLand
  <1>1. EvalInv /\ VerdictInv => GenerationEventsLand
    <2>. SUFFICES ASSUME EvalInv, Lands, status = "collected", scenario.max_turns > 0, injectGen # << >>
                  PROVE  FALSE
      BY DEF GenerationEventsLand, VerdictInv
    <2>1. Idle /\ ~ ReplyFirst /\ scenario \in Scenarios
      BY DEF EvalInv, ReplyFirst
    <2>2. TalksFirst(scenario)
      BY <2>1 DEF GenerationScriptsTalk, EvalInv, ScriptsOK
    <2>. QED  BY <2>1, <2>2, NoReplyWhenIdle DEF Lands
  <1>. QED  BY HarnessInductive, VerdictInductive, <1>1, PTL

\* What a graded run has come to, if its script settles it.
LEMMA GradedAsScripted ==
  ASSUME EvalInv, VerdictInv, status = "collected"
  PROVE  /\ \A reason : HandedOffFor(scenario, reason) /\ reason # None => Reached(reason)
         /\ CrossesWhileReplying(scenario) => fsm = "ESCALATED"
         /\ StaysSilent(scenario) => taken = {}
         /\ NeverReassigns(scenario) => taken \cap ReassignActions = {}
         /\ Opening(scenario).action \in ReassignActions => dispatches > 0
  <1>1. Idle /\ stack = << >>
    BY DEF EvalInv, Idle
  <1>2. \A reason : ChainFails(scenario, reason) /\ reason # None => Reached(reason)
    BY DEF VerdictInv, Dispatches, ChainFails
  <1>3. \A reason : GoesUnanswered(scenario, reason) \/ CrossesAtOnce(scenario, reason) => Reached(reason)
    BY DEF VerdictInv, GivesUp, Worsens
  <1>4. CrossesWhileReplying(scenario) => fsm = "ESCALATED"
    BY <1>1, NoReplyWhenIdle DEF VerdictInv, LandsAndCrosses, ReplyFirst, EventNext
  <1>. QED  BY <1>2, <1>3, <1>4 DEF HandedOffFor, VerdictInv, Dispatches, KeepsSilent, Restrained

(* For every suite whose expectations follow from its scripts in one of the ways *)
(* Justified names, any pack, and any merchant, read or misread in any way: every *)
(* graded run passes every deterministic check.  So what the grader asserts of    *)
(* the shipped suite tests the code, not the personas.                           *)
THEOREM SuiteHolds ==
  ASSUME SuiteIsJustified
  PROVE  EvalSpec => []SuiteHoldsForEveryMerchant
  <1>1. ASSUME EvalInv, VerdictInv, TicketsMatchHandoff, status = "collected"
        PROVE  Passed
    <2>1. Justified(scenario) /\ Idle
      BY <1>1 DEF SuiteIsJustified, EvalInv
    <2>2. /\ \A reason : HandedOffFor(scenario, reason) /\ reason # None => Reached(reason)
          /\ CrossesWhileReplying(scenario) => fsm = "ESCALATED"
          /\ StaysSilent(scenario) => taken = {}
          /\ NeverReassigns(scenario) => taken \cap ReassignActions = {}
          /\ Opening(scenario).action \in ReassignActions => dispatches > 0
      BY <1>1, GradedAsScripted
    <2>3. ASSUME NEW reason \in Reasons PROVE reason # None
      BY NoneAssumption
    <2>4. CrossesWhileReplying(scenario) \/ (\E reason \in Reasons : HandedOffFor(scenario, reason))
          => fsm = "ESCALATED"
      BY <2>2, <2>3 DEF Reached
    <2>5. scenario.expect.must_escalate => fsm = "ESCALATED"
      BY <2>1, <2>4 DEF Justified
    <2>6. scenario.expect.state # None => fsm = scenario.expect.state
      BY <2>1, <2>4 DEF Justified
    <2>7. scenario.expect.reason # None => terminalReason = scenario.expect.reason
      BY <2>1, <2>2 DEF Justified, Reached
    <2>8. taken \cap scenario.expect.forbidden = {}
      BY <2>1, <2>2 DEF Justified
    <2>9. scenario.expect.mode # None /\ tickets # << >> => tickets[1].mode = scenario.expect.mode
      <3>1. PICK S : tickets \in Seq(S)
        BY <1>1 DEF EvalInv, LoopInv, AgentInv, ShapesOK
      <3>2. tickets # << >> => 1 \in DOMAIN tickets
        BY <3>1
      <3>. QED  BY <1>1, <2>1, <3>2 DEF Justified, TicketsMatchHandoff, EvalInv
    <2>10. scenario.expect.tool_order => dispatches > 0
      BY <2>1, <2>2 DEF Justified
    <2>11. IdempotencyObserved
      BY <1>1 DEF EvalInv, IdempotencyObserved
    <2>. QED  BY <2>5, <2>6, <2>7, <2>8, <2>9, <2>10, <2>11 DEF Passed, PolicyChecks, TrajectoryChecks
  <1>2. EvalInv /\ VerdictInv /\ TicketsMatchHandoff => SuiteHoldsForEveryMerchant
    BY <1>1 DEF SuiteHoldsForEveryMerchant
  <1>. QED  BY HarnessInductive, VerdictInductive, GradedRunIsClosed, <1>2, PTL
=============================================================================
