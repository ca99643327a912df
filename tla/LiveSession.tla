---------------------------- MODULE LiveSession -----------------------------
(* One session of the remote surface opened up: the handlers of both front     *)
(* ends (server/web.py, server/mcp_server.py), send_message, accept_event,     *)
(* trigger_event and get_trace of server/sessions.py, and inside the lock the  *)
(* steps of an agent's turn that other threads can see.                        *)
(*                                                                             *)
(* SessionServer has the registry and the caps; here another request may evict *)
(* the session at any time, and any message may be over a cap.  What a turn    *)
(* decides is any of the outcomes CareAgent shows it can have.                 *)
EXTENDS Integers, Sequences

CONSTANTS
  Messages,     \* requests that send a message, each with the thread that serves it
  Events,       \* requests that post an event, each with the thread that applies it
  Readers,      \* requests that read the trace
  MaxEntries,   \* bound on the transcript that lets a turn go on after a reply
  None

Writers == Messages \cup Events
Threads == Writers \cup Readers

ASSUME LiveAssumption ==
  /\ MaxEntries \in Nat
  /\ Messages \cap Events = {} /\ Writers \cap Readers = {}
  /\ None \notin Threads /\ None # "ok"

VARIABLES
  held,         \* the registry still holds the session
  state,        \* the stored session: "open", "escalated" or "resolved"
  language,     \* the agent's: that of the message classified last; None, the default
  transcript,   \* entries in order
  tickets,      \* the turns that opened one, in order
  lock,         \* holder of the session's lock
  pc,           \* where each request is
  answer,       \* what its caller has been told
  before,       \* before_msgs and before_tickets of a turn
  copied,       \* the last entry, read in order to tag it
  report,       \* what the answer shows: of a turn, its replies and tickets;
                \* of a trace, the fields in which the handoff appears
  unread        \* fields of a trace not yet read

session == <<state, language, transcript, tickets>>
turn == <<before, copied, report, unread>>
vars == <<held, session, lock, pc, answer, turn>>

\* Trace mutant: the state is looked at first.
TraceFieldsStateFirst == <<"state", "transcript", "history", "tickets">>

\* The fields of get_trace, in the order they are read.
TraceFields == <<"transcript", "history", "state", "tickets">>

Entry(who, t, tongue) == [speaker |-> who, by |-> t, language |-> tongue]

Outside == [messages |-> 0, tickets |-> 0]
NoReport == [replies |-> {}, tickets |-> {}]

Init ==
  /\ held = TRUE /\ state = "open" /\ language = None /\ transcript = << >> /\ tickets = << >>
  /\ lock = None
  /\ pc = [t \in Threads |-> "new"]
  /\ answer = [t \in Threads |-> None]
  /\ before = [t \in Writers |-> Outside]
  /\ copied = [m \in Messages |-> None]
  /\ report = [t \in Threads |-> IF t \in Readers THEN {} ELSE NoReport]
  /\ unread = [r \in Readers |-> TraceFields]

Goto(t, label) == pc' = [pc EXCEPT ![t] = label] /\ UNCHANGED answer

\* An answer ends the request, except that an accepted event is still to be applied.
Answer(t, status) ==
  /\ pc' = [pc EXCEPT ![t] = "done"]
  /\ answer' = [answer EXCEPT ![t] = IF @ = None THEN status ELSE @]

-----------------------------------------------------------------------------
(* The front ends.  web.py answers an error with a status, mcp_server.py with   *)
(* data; they differ in what they refuse before the session is looked up.      *)

\* _get: a session that has been evicted is unknown.
Found(t, label) == IF held THEN Goto(t, label) ELSE Answer(t, "refused")

\* An empty message is refused.
HttpMessage(m) ==
  /\ pc[m] = "new"
  /\ Answer(m, "refused") \/ Found(m, "check")
  /\ UNCHANGED <<held, session, lock, turn>>

McpMessage(m) ==
  /\ pc[m] = "new"
  /\ Found(m, "check")
  /\ UNCHANGED <<held, session, lock, turn>>

\* accept_event: a receipt at once, and a thread of the event's own.
AcceptEvent(e) ==
  \/ Answer(e, "refused")
  \/ /\ held
     /\ pc' = [pc EXCEPT ![e] = "lock"]
     /\ answer' = [answer EXCEPT ![e] = "accepted"]

\* trigger_event: the caller waits.  Either refuses a type _parse_event does not take.
TriggerEvent(e) == Answer(e, "refused") \/ Found(e, "lock")

\* A new_eta that is no number raises outside the handler's try.
HttpEvent(e) ==
  /\ pc[e] = "new"
  /\ Answer(e, "failed") \/ AcceptEvent(e) \/ TriggerEvent(e)
  /\ UNCHANGED <<held, session, lock, turn>>

McpEvent(e) ==
  /\ pc[e] = "new"
  /\ TriggerEvent(e)
  /\ UNCHANGED <<held, session, lock, turn>>

HttpTrace(r) ==
  /\ pc[r] = "new"
  /\ Found(r, "read")
  /\ UNCHANGED <<held, session, lock, turn>>

McpTrace(r) == HttpTrace(r)

\* Some other request's start makes room.
Evict ==
  /\ held /\ held' = FALSE
  /\ UNCHANGED <<session, lock, pc, answer, turn>>

-----------------------------------------------------------------------------
(* send_message up to the lock.                                                *)

\* Both caps and is_terminal, read without the lock.
Check(m) ==
  /\ pc[m] = "check"
  /\ \/ Answer(m, "refused")
     \/ Goto(m, IF state = "open" THEN "lock" ELSE "note")
  /\ UNCHANGED <<held, session, lock, turn>>

\* A closed session records the message, without the lock and in the default language.
Note(m) ==
  /\ pc[m] = "note"
  /\ transcript' = Append(transcript, Entry("merchant", m, None))
  /\ Goto(m, "mark_note")
  /\ UNCHANGED <<held, state, language, tickets, lock, turn>>

\* Lock mutant: the thread does not wait.
LockAnyway(t) ==
  /\ pc[t] = "lock"
  /\ lock' = t
  /\ Goto(t, "mark")
  /\ UNCHANGED <<held, session, turn>>

Lock(t) ==
  /\ pc[t] = "lock" /\ lock = None
  /\ lock' = t
  /\ Goto(t, "mark")
  /\ UNCHANGED <<held, session, turn>>

-----------------------------------------------------------------------------
(* The turn.                                                                   *)

Mark(t) ==
  /\ pc[t] \in {"mark", "mark_note"}
  /\ before' = [before EXCEPT ![t] = [messages |-> Len(transcript), tickets |-> Len(tickets)]]
  /\ Goto(t, CASE pc[t] = "mark_note" -> "report_note"
               [] pc[t] = "mark" /\ t \in Messages -> "hear"
               [] OTHER -> "decide")
  /\ UNCHANGED <<held, session, lock, copied, report, unread>>

\* Heard in the language of the message before it, until it is classified.
Hear(m) ==
  /\ pc[m] = "hear"
  /\ transcript' = Append(transcript, Entry("merchant", m, language))
  /\ Goto(m, "classify")
  /\ UNCHANGED <<held, state, language, tickets, lock, turn>>

\* A classifier that fails leaves the agent's language and the entry as they are.
Classify(m) ==
  /\ pc[m] = "classify"
  /\ \/ language' = m /\ Goto(m, "tag_read")
     \/ Goto(m, "decide_failed") /\ UNCHANGED language
  /\ UNCHANGED <<held, state, transcript, tickets, lock, turn>>

\* transcript[-1] = transcript[-1].model_copy(...): the last entry is read,
\* copied by a call, and written to whatever is last by then.
TagRead(m) ==
  /\ pc[m] = "tag_read"
  /\ copied' = [copied EXCEPT ![m] = transcript[Len(transcript)]]
  /\ Goto(m, "tag_write")
  /\ UNCHANGED <<held, session, lock, before, report, unread>>

TagWrite(m) ==
  /\ pc[m] = "tag_write"
  /\ transcript' = [transcript EXCEPT ![Len(transcript)] = [copied[m] EXCEPT !.language = m]]
  /\ copied' = [copied EXCEPT ![m] = None]
  /\ Goto(m, "decide")
  /\ UNCHANGED <<held, state, language, tickets, lock, before, report, unread>>

\* The event goes through the mailbox; a closed session is inert.
Decide(t) ==
  /\ pc[t] \in {"decide", "decide_failed"}
  /\ \/ /\ state # "open" \/ pc[t] = "decide"
        /\ Goto(t, "report") /\ UNCHANGED state
     \/ /\ state = "open" /\ pc[t] = "decide"
        /\ Goto(t, "say") /\ UNCHANGED state
     \/ /\ state = "open" /\ pc[t] = "decide"
        /\ state' = "resolved"
        /\ Goto(t, "report") \/ Goto(t, "say_last")
     \/ /\ state = "open"
        /\ state' = "escalated"
        /\ Goto(t, "ticket")
  /\ UNCHANGED <<held, language, transcript, tickets, lock, turn>>

\* The result of a chain may have the turn decide again.
Say(t) ==
  /\ pc[t] \in {"say", "say_last"}
  /\ transcript' = Append(transcript, Entry("agent", t, language))
  /\ \/ Goto(t, "report")
     \/ pc[t] = "say" /\ Len(transcript') < MaxEntries /\ Goto(t, "decide")
  /\ UNCHANGED <<held, state, language, tickets, lock, turn>>

OpenTicket(t) ==
  /\ pc[t] = "ticket"
  /\ tickets' = Append(tickets, t)
  /\ Goto(t, "announce")
  /\ UNCHANGED <<held, state, language, transcript, lock, turn>>

Announce(t) ==
  /\ pc[t] = "announce"
  /\ transcript' = Append(transcript, Entry("handoff", t, language))
  /\ Goto(t, "report")
  /\ UNCHANGED <<held, state, language, tickets, lock, turn>>

-----------------------------------------------------------------------------
(* _turn_report: what the transcript and the tickets have gained since Mark,   *)
(* told by the places the entries have there.                                  *)

SaidSince(n) == {i \in DOMAIN transcript : i > n /\ transcript[i].speaker # "merchant"}

OpenedSince(n) == {i \in DOMAIN tickets : i > n}

Release(t) == lock' = IF lock = t THEN None ELSE lock

Reported(t) ==
  report' = [report EXCEPT ![t] =
               [replies |-> SaidSince(before[t].messages),
                tickets |-> OpenedSince(before[t].tickets)]]

\* Report mutant: the turn is reported once its lock has been released.
ReportUnlocked(t) ==
  /\ pc[t] \in {"report", "report_note"}
  /\ IF lock = t
       THEN Release(t) /\ UNCHANGED <<pc, answer, report>>
       ELSE /\ Reported(t)
            /\ Answer(t, IF pc[t] = "report" THEN "ok" ELSE "noted")
            /\ UNCHANGED lock
  /\ UNCHANGED <<held, session, before, copied, unread>>

\* The last thing inside the lock; a recorded message is reported without it.
Report(t) ==
  /\ pc[t] \in {"report", "report_note"}
  /\ Reported(t)
  /\ before' = [before EXCEPT ![t] = Outside]
  /\ Release(t)
  /\ Answer(t, IF pc[t] = "report" THEN "ok" ELSE "noted")
  /\ UNCHANGED <<held, session, copied, unread>>

-----------------------------------------------------------------------------
(* get_trace reads field after field without the lock; the tickets go out by   *)
(* reference and are read last, when the answer is serialised.                 *)

\* Whether a field, read now, shows the handoff.
ShowsHandoff(field) ==
  CASE field = "transcript" -> \E i \in DOMAIN transcript : transcript[i].speaker = "handoff"
    [] field = "tickets" -> tickets # << >>
    [] OTHER -> state = "escalated"

ReadField(r) ==
  /\ pc[r] = "read" /\ unread[r] # << >>
  /\ report' = [report EXCEPT ![r] =
                  IF ShowsHandoff(Head(unread[r])) THEN @ \cup {Head(unread[r])} ELSE @]
  /\ unread' = [unread EXCEPT ![r] = Tail(@)]
  /\ UNCHANGED <<held, session, lock, pc, answer, before, copied>>

SendTrace(r) ==
  /\ pc[r] = "read" /\ unread[r] = << >>
  /\ Answer(r, "ok")
  /\ UNCHANGED <<held, session, lock, turn>>

-----------------------------------------------------------------------------

Arrive(t) == \/ t \in Messages /\ (HttpMessage(t) \/ McpMessage(t))
             \/ t \in Events /\ (HttpEvent(t) \/ McpEvent(t))
             \/ t \in Readers /\ (HttpTrace(t) \/ McpTrace(t))

MessageStep(m) == Check(m) \/ Note(m) \/ Hear(m) \/ Classify(m) \/ TagRead(m) \/ TagWrite(m)

TurnStep(t) == Lock(t) \/ Mark(t) \/ Decide(t) \/ Say(t) \/ OpenTicket(t) \/ Announce(t) \/ Report(t)

Step(t) == \/ t \in Messages /\ MessageStep(t)
           \/ t \in Writers /\ TurnStep(t)
           \/ t \in Readers /\ (ReadField(t) \/ SendTrace(t))

\* Every request has been answered and every accepted event applied.
AllDone == (\A t \in Threads : pc[t] = "done") /\ UNCHANGED vars

Next == Evict \/ AllDone \/ \E t \in Threads : Arrive(t) \/ Step(t)

Spec == Init /\ [][Next]_vars

-----------------------------------------------------------------------------
(* Properties.                                                                 *)

IsMessage(i, m) == transcript[i].speaker = "merchant" /\ transcript[i].by = m

Recorded(m) == \E i \in DOMAIN transcript : IsMessage(i, m)

PastHearing(m) == pc[m] \in {"classify", "tag_read", "tag_write", "decide", "decide_failed",
                             "say", "say_last", "ticket", "announce", "report"}

\* In an open session, whoever is here has been classified.
PastTagging(m) == \/ pc[m] \in {"decide", "say", "say_last", "ticket", "announce", "report"}
                  \/ answer[m] = "ok"

\* A message the agent has heard stays on the transcript, whatever other messages
\* and events do meanwhile.  While the session is open it is there once, and in its
\* own language from the moment it is tagged (agent.py:119).  Before, it may be in
\* the language the agent was speaking (agent.py:109): that of a message before it.
HeardMessagesAreKept ==
  /\ \A m \in Messages : PastHearing(m) \/ answer[m] = "ok" => Recorded(m)
  /\ state = "open" =>
       \A m \in Messages, i \in DOMAIN transcript : IsMessage(i, m) =>
         /\ \A j \in DOMAIN transcript : IsMessage(j, m) => i = j
         /\ PastTagging(m) => transcript[i].language = m
         /\ \/ transcript[i].language \in {None, m}
            \/ \E j \in 1 .. i - 1 : IsMessage(j, transcript[i].language)

\* What the turn of t has put on the transcript and the tickets it has opened.
SaidIn(t) == {i \in DOMAIN transcript : transcript[i].by = t /\ transcript[i].speaker # "merchant"}

OpenedIn(t) == {i \in DOMAIN tickets : tickets[i] = t}

\* What an answer shows as the turn's doing is the turn's doing, all of it and
\* nothing of the turns before and after it.
ReportIsOwnTurn ==
  \A t \in Writers : answer[t] = "ok" =>
    report[t] = [replies |-> SaidIn(t), tickets |-> OpenedIn(t)]

\* A trace is read while turns go on, and yet it shows an announced handoff only with
\* the decision, the state and the ticket, and the decision only with the state.  (The
\* tickets are read last: a trace may show one whose decision came too late for it.)
TraceShowsCauseWithEffect ==
  \A r \in Readers : answer[r] = "ok" =>
    /\ "transcript" \in report[r] => {"history", "state", "tickets"} \subseteq report[r]
    /\ "history" \in report[r] => "state" \in report[r]

-----------------------------------------------------------------------------
(* What the code's documentation says of it, and a run refutes.                *)

\* "the message is recorded on the transcript for the human handling the handoff".
NotedMessageIsRecorded == \A m \in Messages : answer[m] = "noted" => Recorded(m)
=============================================================================
