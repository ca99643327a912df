------------------------- MODULE LiveSession_proofs --------------------------
(* What was heard is kept, a turn reports its own doing, and a trace shows a    *)
(* handoff only with its cause, for any number of messages, events and readers. *)
EXTENDS LiveSession, TLAPS

Entries == [speaker : {"merchant", "agent", "handoff"}, by : Writers,
            language : Messages \cup {None}]

Tagging(m) == pc[m] \in {"classify", "tag_read", "tag_write"}

InTurn(t) == pc[t] \in {"mark", "hear", "classify", "tag_read", "tag_write", "decide",
                        "decide_failed", "say", "say_last", "ticket", "announce", "report"}

Noting(m) == pc[m] \in {"note", "mark_note", "report_note"}

Unheard(m) == pc[m] \in {"new", "check", "lock", "mark", "hear"}

Heard(m) == PastHearing(m) \/ answer[m] = "ok"

\* What the proofs need of the types: the entries, and that the per-thread
\* variables have a value for every thread.
Types ==
  /\ transcript \in Seq(Entries)
  /\ tickets \in Seq(Writers)
  /\ language \in Messages \cup {None}
  /\ DOMAIN pc = Threads /\ DOMAIN answer = Threads /\ DOMAIN report = Threads
  /\ DOMAIN copied = Messages /\ DOMAIN unread = Readers
  /\ \A m \in Messages : pc[m] = "tag_write" => copied[m] \in Entries
  /\ \A m \in Threads : Tagging(m) => m \in Messages

\* A turn is under way exactly where the lock is held.
LockMeansTurn == \A t \in Writers : InTurn(t) <=> lock = t

\* A message being tagged is at position p, those heard before it are before p, and
\* while nothing has been put behind it, the entry in hand is its own.
TagPosition(m, p) ==
  /\ IsMessage(p, m)
  /\ \A h \in Messages \ {m} : Heard(h) => \E i \in 1 .. p - 1 : IsMessage(i, h)
  /\ pc[m] = "tag_write" /\ p = Len(transcript) =>
       copied[m].speaker = "merchant" /\ copied[m].by = m

Kept ==
  /\ \A m \in Messages : Heard(m) => Recorded(m)
  /\ \A m \in Messages : Tagging(m) => \E p \in DOMAIN transcript : TagPosition(m, p)

\* In an open session nothing is noted, a message is there once, and the one being
\* tagged is last.
OpenInOrder ==
  state = "open" =>
    /\ \A m \in Messages : ~ Noting(m)
    /\ \A m \in Messages, i \in DOMAIN transcript : Unheard(m) => ~ IsMessage(i, m)
    /\ \A m \in Messages, i, j \in DOMAIN transcript :
         IsMessage(i, m) /\ IsMessage(j, m) => i = j
    /\ \A m \in Messages : Tagging(m) => IsMessage(Len(transcript), m)
    /\ \A m \in Messages : pc[m] = "tag_write" => copied[m] = transcript[Len(transcript)]

\* The entry at i is in its own language once its message m has been tagged, and until
\* then in that of no message after it.
InLanguageOf(i, m) ==
  /\ PastTagging(m) => transcript[i].language = m
  /\ \/ transcript[i].language \in {None, m}
     \/ \E j \in 1 .. i - 1 : IsMessage(j, transcript[i].language)

\* In an open session the agent speaks the language of a message it has on record.
Languages ==
  state = "open" =>
    /\ language # None => Recorded(language)
    /\ \A m \in Messages, i \in DOMAIN transcript : IsMessage(i, m) => InLanguageOf(i, m)

\* An announced handoff has been decided and ticketed.
Announced == \E i \in DOMAIN transcript : transcript[i].speaker = "handoff"

CauseBeforeEffect ==
  /\ Announced => state = "escalated" /\ tickets # << >>
  /\ \A m \in Messages : pc[m] = "tag_write" /\ copied[m].speaker = "handoff" =>
       state = "escalated" /\ tickets # << >>
  /\ \A t \in Writers : pc[t] \in {"ticket", "announce"} => state = "escalated"
  /\ \A t \in Writers : pc[t] = "announce" => tickets # << >>

Shown(r, field) == field \in report[r]

\* What a reader has seen holds still, and what it has yet to see will show it.
TraceInOrder ==
  \A r \in Readers :
    /\ answer[r] = "ok" => unread[r] = << >>
    /\ Shown(r, "transcript") => state = "escalated" /\ tickets # << >>
    /\ Shown(r, "history") => state = "escalated"
    /\ \/ unread[r] = TraceFields /\ report[r] = {}
       \/ unread[r] = <<"history", "state", "tickets">> /\ report[r] \subseteq {"transcript"}
       \/ /\ unread[r] = <<"state", "tickets">>
          /\ Shown(r, "transcript") => Shown(r, "history")
       \/ /\ unread[r] = <<"tickets">>
          /\ Shown(r, "transcript") => Shown(r, "history")
          /\ Shown(r, "history") => Shown(r, "state")
       \/ /\ unread[r] = << >>
          /\ Shown(r, "transcript") => Shown(r, "history") /\ Shown(r, "tickets")
          /\ Shown(r, "history") => Shown(r, "state")

-----------------------------------------------------------------------------

\* Appending keeps every entry where it is and puts the new one last.
LEMMA AppendFacts ==
  ASSUME NEW S, NEW seq \in Seq(S), NEW x \in S
  PROVE  /\ Append(seq, x) \in Seq(S)
         /\ Len(seq) \in Nat /\ Len(Append(seq, x)) = Len(seq) + 1
         /\ DOMAIN seq = 1 .. Len(seq) /\ DOMAIN Append(seq, x) = 1 .. Len(seq) + 1
         /\ \A i \in DOMAIN seq : Append(seq, x)[i] = seq[i]
         /\ Append(seq, x)[Len(seq) + 1] = x
         /\ Append(seq, x) # << >>
  OBVIOUS

\* Overwriting the last entry keeps all the others.
LEMMA OverwriteFacts ==
  ASSUME NEW S, NEW seq \in Seq(S), NEW x \in S, NEW p \in DOMAIN seq
  PROVE  LET over == [seq EXCEPT ![Len(seq)] = x]
         IN  /\ over \in Seq(S) /\ Len(over) = Len(seq) /\ Len(seq) \in Nat
             /\ DOMAIN seq = 1 .. Len(seq) /\ DOMAIN over = 1 .. Len(seq)
             /\ \A i \in DOMAIN seq : i # Len(seq) => over[i] = seq[i]
             /\ over[Len(seq)] = x
             /\ Len(seq) \in DOMAIN seq
  OBVIOUS

\* An entry on the transcript is in the language of a message, or in no one's.
LEMMA EntryLanguage ==
  ASSUME Types, NEW i \in DOMAIN transcript
  PROVE  transcript[i].language \in Messages \cup {None}
<1>1. transcript \in Seq(Entries)
  BY DEF Types
<1>2. transcript[i] \in Entries
  BY <1>1
<1> QED BY <1>2 DEF Entries

\* What a request does on arrival moves its own thread and nothing else.
LEMMA ArriveFacts ==
  ASSUME Types, NEW t \in Threads, Arrive(t)
  PROVE  /\ pc[t] = "new"
         /\ \E label \in {"done", "check", "lock", "read"} : pc' = [pc EXCEPT ![t] = label]
         /\ UNCHANGED <<session, lock, turn>>
         /\ DOMAIN answer' = Threads
         /\ \A u \in Threads : answer'[u] = "ok" => answer[u] = "ok"
<1> USE LiveAssumption DEF Types, Answer, Goto, Found
<1>1. CASE t \in Messages /\ (HttpMessage(t) \/ McpMessage(t))
  BY <1>1 DEF HttpMessage, McpMessage
<1>2. CASE t \in Events /\ (HttpEvent(t) \/ McpEvent(t))
  BY <1>2 DEF HttpEvent, McpEvent, AcceptEvent, TriggerEvent
<1>3. CASE t \in Readers /\ (HttpTrace(t) \/ McpTrace(t))
  BY <1>3 DEF HttpTrace, McpTrace
<1> QED BY <1>1, <1>2, <1>3 DEF Arrive
-----------------------------------------------------------------------------

\* The turn keeps the types; tagging is for messages, and finds an entry to tag.
LEMMA StepTypes == Types /\ Kept /\ Next => Types'
<1> SUFFICES ASSUME Types, Kept, Next PROVE Types'
  OBVIOUS
<1> USE LiveAssumption DEF Types, Goto, Answer, Tagging, Threads, Writers
<1>1. CASE Evict
  BY <1>1 DEF Evict, session, turn
<1>2. CASE AllDone
  BY <1>2 DEF AllDone, vars, session, turn
<1>3. ASSUME NEW t \in Threads, Arrive(t) PROVE Types'
  BY <1>3, ArriveFacts DEF session, turn
<1>4. ASSUME NEW m \in Messages, Check(m) PROVE Types'
  BY <1>4 DEF Check, session, turn
<1>5. ASSUME NEW m \in Messages, Note(m) PROVE Types'
  <2>1. Entry("merchant", m, None) \in Entries
    BY DEF Entry, Entries
  <2>2. transcript' \in Seq(Entries)
    BY <1>5, <2>1, AppendFacts DEF Note
  <2> QED BY <1>5, <2>2 DEF Note, turn
<1>6. ASSUME NEW m \in Messages, Hear(m) PROVE Types'
  <2>1. Entry("merchant", m, language) \in Entries
    BY DEF Entry, Entries
  <2>2. transcript' \in Seq(Entries)
    BY <1>6, <2>1, AppendFacts DEF Hear
  <2> QED BY <1>6, <2>2 DEF Hear, turn
<1>7. ASSUME NEW m \in Messages, Classify(m) PROVE Types'
  BY <1>7 DEF Classify, session, turn
<1>8. ASSUME NEW m \in Messages, TagRead(m) PROVE Types'
  <2>1. PICK p \in DOMAIN transcript : TRUE
    BY <1>8 DEF TagRead, Kept
  <2>2. transcript[Len(transcript)] \in Entries
    BY <2>1
  <2> QED BY <1>8, <2>2 DEF TagRead, session
<1>9. ASSUME NEW m \in Messages, TagWrite(m) PROVE Types'
  <2>1. PICK p \in DOMAIN transcript : TRUE
    BY <1>9 DEF TagWrite, Kept
  <2>a. copied[m] \in Entries
    BY <1>9 DEF TagWrite
  <2>2. [copied[m] EXCEPT !.language = m] \in Entries
    BY <2>a DEF Entries
  <2>3. transcript' \in Seq(Entries)
    BY <1>9, <2>1, <2>2, OverwriteFacts DEF TagWrite
  <2> QED BY <1>9, <2>3 DEF TagWrite
<1>10. ASSUME NEW t \in Writers, Lock(t) PROVE Types'
  BY <1>10 DEF Lock, session, turn
<1>11. ASSUME NEW t \in Writers, Mark(t) PROVE Types'
  BY <1>11 DEF Mark, session, turn
<1>12. ASSUME NEW t \in Writers, Decide(t) PROVE Types'
  BY <1>12 DEF Decide, session, turn
<1>13. ASSUME NEW t \in Writers, Say(t) PROVE Types'
  <2>1. Entry("agent", t, language) \in Entries
    BY DEF Entry, Entries
  <2>2. transcript' \in Seq(Entries)
    BY <1>13, <2>1, AppendFacts DEF Say
  <2> QED BY <1>13, <2>2 DEF Say, turn
<1>14. ASSUME NEW t \in Writers, OpenTicket(t) PROVE Types'
  <2>1. tickets' \in Seq(Writers)
    BY <1>14, AppendFacts DEF OpenTicket
  <2> QED BY <1>14, <2>1 DEF OpenTicket, turn
<1>15. ASSUME NEW t \in Writers, Announce(t) PROVE Types'
  <2>1. Entry("handoff", t, language) \in Entries
    BY DEF Entry, Entries
  <2>2. transcript' \in Seq(Entries)
    BY <1>15, <2>1, AppendFacts DEF Announce
  <2> QED BY <1>15, <2>2 DEF Announce, turn
<1>16. ASSUME NEW t \in Writers, Report(t) PROVE Types'
  BY <1>16 DEF Report, Reported, session
<1>17. ASSUME NEW r \in Readers, ReadField(r) PROVE Types'
  BY <1>17 DEF ReadField, session, turn
<1>18. ASSUME NEW r \in Readers, SendTrace(r) PROVE Types'
  BY <1>18 DEF SendTrace, session, turn
<1> QED BY <1>1, <1>2, <1>3, <1>4, <1>5, <1>6, <1>7, <1>8, <1>9, <1>10, <1>11, <1>12, <1>13, <1>14, <1>15, <1>16, <1>17, <1>18
          DEF Next, Step, MessageStep, TurnStep

\* The lock is taken before a turn and released at its end.
LEMMA StepLock == Types /\ LockMeansTurn /\ Next => LockMeansTurn'
<1> SUFFICES ASSUME Types, LockMeansTurn, Next PROVE LockMeansTurn'
  OBVIOUS
<1> USE LiveAssumption DEF Types, LockMeansTurn, InTurn, Goto, Answer, Threads, Writers
<1>1. CASE Evict
  BY <1>1 DEF Evict, session, turn
<1>2. CASE AllDone
  BY <1>2 DEF AllDone, vars, session, turn
<1>3. ASSUME NEW t \in Threads, Arrive(t) PROVE LockMeansTurn'
  BY <1>3, ArriveFacts DEF session, turn
<1>4. ASSUME NEW m \in Messages, Check(m) PROVE LockMeansTurn'
  BY <1>4 DEF Check, session, turn
<1>5. ASSUME NEW m \in Messages, Note(m) PROVE LockMeansTurn'
  BY <1>5 DEF Note, session, turn
<1>6. ASSUME NEW m \in Messages, Hear(m) PROVE LockMeansTurn'
  BY <1>6 DEF Hear, session, turn
<1>7. ASSUME NEW m \in Messages, Classify(m) PROVE LockMeansTurn'
  BY <1>7 DEF Classify, session, turn
<1>8. ASSUME NEW m \in Messages, TagRead(m) PROVE LockMeansTurn'
  BY <1>8 DEF TagRead, session, turn
<1>9. ASSUME NEW m \in Messages, TagWrite(m) PROVE LockMeansTurn'
  BY <1>9 DEF TagWrite, session, turn
<1>10. ASSUME NEW t \in Writers, Lock(t) PROVE LockMeansTurn'
  BY <1>10 DEF Lock, session, turn
<1>11. ASSUME NEW t \in Writers, Mark(t) PROVE LockMeansTurn'
  BY <1>11 DEF Mark, session, turn
<1>12. ASSUME NEW t \in Writers, Decide(t) PROVE LockMeansTurn'
  BY <1>12 DEF Decide, session, turn
<1>13. ASSUME NEW t \in Writers, Say(t) PROVE LockMeansTurn'
  BY <1>13 DEF Say, session, turn
<1>14. ASSUME NEW t \in Writers, OpenTicket(t) PROVE LockMeansTurn'
  BY <1>14 DEF OpenTicket, session, turn
<1>15. ASSUME NEW t \in Writers, Announce(t) PROVE LockMeansTurn'
  BY <1>15 DEF Announce, session, turn
<1>16. ASSUME NEW t \in Writers, Report(t) PROVE LockMeansTurn'
  BY <1>16 DEF Report, Release, session
<1>17. ASSUME NEW r \in Readers, ReadField(r) PROVE LockMeansTurn'
  BY <1>17 DEF ReadField, session, turn
<1>18. ASSUME NEW r \in Readers, SendTrace(r) PROVE LockMeansTurn'
  BY <1>18 DEF SendTrace, session, turn
<1> QED BY <1>1, <1>2, <1>3, <1>4, <1>5, <1>6, <1>7, <1>8, <1>9, <1>10, <1>11, <1>12, <1>13, <1>14, <1>15, <1>16, <1>17, <1>18
          DEF Next, Step, MessageStep, TurnStep

\* A step that keeps the entries where they are, in which nothing is heard and no
\* tagging starts or goes on.
Growing ==
  /\ \A i \in DOMAIN transcript : i \in DOMAIN transcript' /\ transcript'[i] = transcript[i]
  /\ \A h \in Messages : Heard(h)' => Heard(h)
  /\ \A m \in Messages : Tagging(m)' => Tagging(m)
  /\ \A m \in Messages : pc'[m] = "tag_write" => pc[m] = "tag_write" /\ copied'[m] = copied[m]

\* Such a step loses no message that was heard.
LEMMA GrowingKeeps == Types /\ Types' /\ Kept /\ Growing => Kept'
<1> SUFFICES ASSUME Types, Types', Kept, Growing PROVE Kept'
  OBVIOUS
<1>0. /\ Len(transcript) \in Nat /\ Len(transcript') \in Nat
      /\ DOMAIN transcript = 1 .. Len(transcript) /\ DOMAIN transcript' = 1 .. Len(transcript')
      /\ Len(transcript) <= Len(transcript')
  <2>1. /\ transcript \in Seq(Entries) /\ transcript' \in Seq(Entries)
    BY DEF Types
  <2>2. /\ Len(transcript) \in Nat /\ Len(transcript') \in Nat
        /\ DOMAIN transcript = 1 .. Len(transcript) /\ DOMAIN transcript' = 1 .. Len(transcript')
    BY <2>1
  <2>3. \A i \in 1 .. Len(transcript) : i \in 1 .. Len(transcript')
    BY <2>2 DEF Growing
  <2>4. Len(transcript) <= Len(transcript')
    <3>1. CASE Len(transcript) = 0
      BY <2>2, <3>1
    <3>2. CASE Len(transcript) # 0
      <4>1. Len(transcript) \in 1 .. Len(transcript)
        BY <2>2, <3>2
      <4> QED BY <2>2, <2>3, <4>1
    <3> QED BY <3>1, <3>2
  <2> QED BY <2>2, <2>4
<1>1. \A i \in DOMAIN transcript, m \in Messages : IsMessage(i, m) => IsMessage(i, m)'
  BY DEF Growing, IsMessage
<1>2. ASSUME NEW m \in Messages, Heard(m)' PROVE Recorded(m)'
  BY <1>1, <1>2 DEF Growing, Kept, Recorded
<1>3. ASSUME NEW m \in Messages, Tagging(m)' PROVE \E p \in DOMAIN transcript' : TagPosition(m, p)'
  <2>1. PICK p \in DOMAIN transcript : TagPosition(m, p)
    BY <1>3 DEF Growing, Kept
  <2>2. p \in DOMAIN transcript' /\ IsMessage(p, m)'
    BY <1>1, <2>1 DEF Growing, TagPosition
  <2>3. ASSUME NEW h \in Messages \ {m}, Heard(h)' PROVE \E i \in 1 .. p - 1 : IsMessage(i, h)'
    <3>1. PICK i \in 1 .. p - 1 : IsMessage(i, h)
      BY <2>1, <2>3 DEF Growing, TagPosition
    <3>2. i \in DOMAIN transcript
      BY <1>0, <2>1, <3>1
    <3> QED BY <1>1, <3>1, <3>2
  <2>4. ASSUME pc'[m] = "tag_write", p = Len(transcript')
        PROVE  copied'[m].speaker = "merchant" /\ copied'[m].by = m
    <3>1. p = Len(transcript)
      <4>1. p \in 1 .. Len(transcript)
        BY <1>0, <2>1
      <4>2. Len(transcript) \in Nat /\ Len(transcript) <= p
        BY <1>0, <2>4
      <4> QED BY <4>1, <4>2
    <3> QED BY <2>1, <2>4, <3>1 DEF Growing, TagPosition
  <2> QED BY <2>2, <2>3, <2>4 DEF TagPosition
<1> QED BY <1>2, <1>3 DEF Kept

\* What was heard stays.
LEMMA StepKept == Types /\ Types' /\ LockMeansTurn /\ Kept /\ Next => Kept'
<1> SUFFICES ASSUME Types, Types', LockMeansTurn, Kept, Next PROVE Kept'
  OBVIOUS
<1> USE LiveAssumption DEF Types, Heard, PastHearing, Tagging, Goto, Answer, Threads, Writers
<1>1. CASE Evict
  BY <1>1, GrowingKeeps DEF Evict, Growing, session, turn
<1>2. CASE AllDone
  BY <1>2, GrowingKeeps DEF AllDone, Growing, vars, session, turn
<1>3. ASSUME NEW t \in Threads, Arrive(t) PROVE Kept'
  <2>1. Growing
    BY <1>3, ArriveFacts DEF Growing, session, turn
  <2> QED BY <2>1, GrowingKeeps
<1>4. ASSUME NEW m \in Messages, Check(m) PROVE Kept'
  <2>1. Growing
    BY <1>4 DEF Check, Growing, session, turn
  <2> QED BY <2>1, GrowingKeeps
<1>5. ASSUME NEW m \in Messages, Note(m) PROVE Kept'
  <2>1. Entry("merchant", m, None) \in Entries
    BY DEF Entry, Entries
  <2>2. Growing
    BY <1>5, <2>1, AppendFacts DEF Note, Growing, turn
  <2> QED BY <2>2, GrowingKeeps
<1>6. ASSUME NEW m \in Messages, Hear(m) PROVE Kept'
  <2>1. \A u \in Messages \ {m} : ~ Tagging(u)
    BY <1>6 DEF Hear, LockMeansTurn, InTurn
  <2>2. Entry("merchant", m, language) \in Entries
    BY DEF Entry, Entries
  <2>a. Len(transcript) \in Nat
    OBVIOUS
  <2>b. PICK p \in Nat : p = Len(transcript) + 1
    BY <2>a
  <2>3. /\ p - 1 \in Nat /\ DOMAIN transcript = 1 .. p - 1 /\ p \in DOMAIN transcript'
        /\ Len(transcript') = p
    BY <1>6, <2>2, <2>b, AppendFacts DEF Hear
  <2>4. /\ IsMessage(p, m)'
        /\ \A i \in 1 .. p - 1, h \in Messages : IsMessage(i, h) => IsMessage(i, h)'
    BY <1>6, <2>2, <2>3, <2>b, AppendFacts DEF Hear, IsMessage, Entry
  <2>5. \A h \in Messages \ {m} : Heard(h)' => Heard(h)
    BY <1>6 DEF Hear
  <2>6. \A h \in Messages \ {m} : Heard(h)' => \E i \in 1 .. p - 1 : IsMessage(i, h)'
    BY <2>3, <2>4, <2>5 DEF Kept, Recorded
  <2>7. TagPosition(m, p)'
    BY <1>6, <2>4, <2>6 DEF TagPosition, Hear
  <2>8. \A h \in Messages : Heard(h)' => Recorded(h)'
    <3>1. Recorded(m)'
      BY <2>3, <2>4 DEF Recorded
    <3>2. ASSUME NEW h \in Messages \ {m}, Heard(h)' PROVE Recorded(h)'
      <4>1. PICK i \in 1 .. p - 1 : IsMessage(i, h)'
        BY <2>6, <3>2
      <4>2. i \in DOMAIN transcript'
        BY <2>2, <2>3, <2>b, <1>6, AppendFacts DEF Hear
      <4> QED BY <4>1, <4>2 DEF Recorded
    <3> QED BY <3>1, <3>2
  <2>9. \A u \in Messages \ {m} : ~ Tagging(u)'
    BY <1>6, <2>1 DEF Hear
  <2> QED BY <2>3, <2>7, <2>8, <2>9 DEF Kept
<1>7. ASSUME NEW m \in Messages, Classify(m) PROVE Kept'
  <2>1. Growing
    BY <1>7 DEF Classify, Growing, session, turn
  <2> QED BY <2>1, GrowingKeeps
<1>8. ASSUME NEW m \in Messages, TagRead(m) PROVE Kept'
  <2>1. PICK p \in DOMAIN transcript : TagPosition(m, p)
    BY <1>8 DEF TagRead, Kept
  <2>2. \A u \in Messages \ {m} : ~ Tagging(u) /\ ~ Tagging(u)'
    BY <1>8 DEF TagRead, LockMeansTurn, InTurn
  <2>3. (\A h \in Messages : Heard(h)' => Heard(h)) /\ UNCHANGED transcript
    BY <1>8 DEF TagRead, session
  <2>4. copied'[m] = transcript[Len(transcript)]
    BY <1>8 DEF TagRead
  <2>5. TagPosition(m, p)'
    BY <2>1, <2>3, <2>4 DEF TagPosition, IsMessage
  <2>6. \A h \in Messages : Heard(h)' => Recorded(h)'
    BY <2>3 DEF Kept, Recorded, IsMessage
  <2> QED BY <2>1, <2>2, <2>3, <2>5, <2>6 DEF Kept
<1>9. ASSUME NEW m \in Messages, TagWrite(m) PROVE Kept'
  <2>1. PICK p \in DOMAIN transcript : TagPosition(m, p)
    BY <1>9 DEF TagWrite, Kept
  <2>2. \A u \in Messages : ~ Tagging(u)'
    BY <1>9 DEF TagWrite, LockMeansTurn, InTurn
  <2>3. copied[m] \in Entries /\ [copied[m] EXCEPT !.language = m] \in Entries
    <3>1. copied[m] \in Entries
      BY <1>9 DEF TagWrite
    <3> QED BY <3>1 DEF Entries
  <2>4. /\ DOMAIN transcript = 1 .. Len(transcript) /\ DOMAIN transcript' = 1 .. Len(transcript)
        /\ Len(transcript) \in Nat
        /\ \A i \in DOMAIN transcript : i # Len(transcript) => transcript'[i] = transcript[i]
        /\ transcript'[Len(transcript)] = [copied[m] EXCEPT !.language = m]
    BY <1>9, <2>1, <2>3, OverwriteFacts DEF TagWrite
  <2>5. IsMessage(p, m)'
    <3>1. CASE p # Len(transcript)
      BY <2>1, <2>4, <3>1 DEF TagPosition, IsMessage
    <3>2. CASE p = Len(transcript)
      <4>1. copied[m].speaker = "merchant" /\ copied[m].by = m
        BY <1>9, <2>1, <3>2 DEF TagPosition, TagWrite
      <4>2. transcript'[p].speaker = "merchant" /\ transcript'[p].by = m
        BY <2>3, <2>4, <3>2, <4>1 DEF Entries
      <4> QED BY <4>2 DEF IsMessage
    <3> QED BY <3>1, <3>2
  <2>6. ASSUME NEW h \in Messages \ {m}, Heard(h)' PROVE Recorded(h)'
    <3>1. Heard(h)
      BY <1>9, <2>6 DEF TagWrite
    <3>2. PICK i \in 1 .. p - 1 : IsMessage(i, h)
      BY <2>1, <3>1 DEF TagPosition
    <3>3. i \in DOMAIN transcript /\ i # Len(transcript)
      BY <2>1, <2>4, <3>2
    <3> QED BY <2>4, <3>2, <3>3 DEF Recorded, IsMessage
  <2>7. Recorded(m)'
    BY <2>1, <2>4, <2>5 DEF Recorded
  <2> QED BY <2>2, <2>6, <2>7 DEF Kept
<1>10. ASSUME NEW t \in Writers, Lock(t) PROVE Kept'
  <2>1. Growing
    BY <1>10 DEF Lock, Growing, session, turn
  <2> QED BY <2>1, GrowingKeeps
<1>11. ASSUME NEW t \in Writers, Mark(t) PROVE Kept'
  <2>1. Growing
    BY <1>11 DEF Mark, Growing, session, turn
  <2> QED BY <2>1, GrowingKeeps
<1>12. ASSUME NEW t \in Writers, Decide(t) PROVE Kept'
  <2>1. Growing
    BY <1>12 DEF Decide, Growing, session, turn
  <2> QED BY <2>1, GrowingKeeps
<1>13. ASSUME NEW t \in Writers, Say(t) PROVE Kept'
  <2>1. Entry("agent", t, language) \in Entries
    BY DEF Entry, Entries
  <2>2. Growing
    BY <1>13, <2>1, AppendFacts DEF Say, Growing, turn
  <2> QED BY <2>2, GrowingKeeps
<1>14. ASSUME NEW t \in Writers, OpenTicket(t) PROVE Kept'
  <2>1. Growing
    BY <1>14 DEF OpenTicket, Growing, session, turn
  <2> QED BY <2>1, GrowingKeeps
<1>15. ASSUME NEW t \in Writers, Announce(t) PROVE Kept'
  <2>1. Entry("handoff", t, language) \in Entries
    BY DEF Entry, Entries
  <2>2. Growing
    BY <1>15, <2>1, AppendFacts DEF Announce, Growing, turn
  <2> QED BY <2>2, GrowingKeeps
<1>16. ASSUME NEW t \in Writers, Report(t) PROVE Kept'
  <2>1. Growing
    BY <1>16 DEF Report, Growing, session, turn, Reported
  <2> QED BY <2>1, GrowingKeeps
<1>17. ASSUME NEW r \in Readers, ReadField(r) PROVE Kept'
  <2>1. Growing
    BY <1>17 DEF ReadField, Growing, session, turn
  <2> QED BY <2>1, GrowingKeeps
<1>18. ASSUME NEW r \in Readers, SendTrace(r) PROVE Kept'
  <2>1. Growing
    BY <1>18 DEF SendTrace, Growing, session, turn
  <2> QED BY <2>1, GrowingKeeps
<1> QED BY <1>1, <1>2, <1>3, <1>4, <1>5, <1>6, <1>7, <1>8, <1>9, <1>10, <1>11, <1>12, <1>13, <1>14, <1>15, <1>16, <1>17, <1>18
          DEF Next, Step, MessageStep, TurnStep

\* An open session stays in order.
LEMMA StepOpen == Types /\ Types' /\ LockMeansTurn /\ Kept /\ OpenInOrder /\ Next => OpenInOrder'
<1> SUFFICES ASSUME Types, Types', LockMeansTurn, Kept, OpenInOrder, Next, state' = "open"
             PROVE  OpenInOrder'
  BY DEF OpenInOrder
<1>0. state = "open"
  BY ArriveFacts DEF Next, Step, MessageStep, TurnStep, Evict, AllDone, Check, Note, Hear, Classify,
     TagRead, TagWrite, Lock, Mark, Decide, Say, OpenTicket, Announce, Report, ReadField, SendTrace,
     session, turn, vars
<1> USE <1>0, LiveAssumption DEF OpenInOrder, Types, Goto, Answer, Threads, Writers
<1>1. CASE Evict
  <2>1. /\ UNCHANGED <<transcript, copied>>
        /\ \A u \in Messages : /\ ~ Noting(u)'
                               /\ Unheard(u)' => Unheard(u)
                               /\ Tagging(u)' => Tagging(u)
                               /\ pc'[u] = "tag_write" => pc[u] = "tag_write"
    BY <1>1 DEF Evict, Noting, Unheard, Tagging, session, turn
  <2> QED BY <2>1 DEF IsMessage
<1>2. CASE AllDone
  <2>1. /\ UNCHANGED <<transcript, copied>>
        /\ \A u \in Messages : /\ ~ Noting(u)'
                               /\ Unheard(u)' => Unheard(u)
                               /\ Tagging(u)' => Tagging(u)
                               /\ pc'[u] = "tag_write" => pc[u] = "tag_write"
    BY <1>2 DEF AllDone, vars, Noting, Unheard, Tagging, session, turn
  <2> QED BY <2>1 DEF IsMessage
<1>3. ASSUME NEW t \in Threads, Arrive(t) PROVE OpenInOrder'
  <2>1. /\ UNCHANGED <<transcript, copied>>
        /\ \A u \in Messages : /\ ~ Noting(u)'
                               /\ Unheard(u)' => Unheard(u)
                               /\ Tagging(u)' => Tagging(u)
                               /\ pc'[u] = "tag_write" => pc[u] = "tag_write"
    BY <1>3, ArriveFacts DEF Noting, Unheard, Tagging, session, turn
  <2> QED BY <2>1 DEF IsMessage
<1>4. ASSUME NEW m \in Messages, Check(m) PROVE OpenInOrder'
  <2>1. /\ UNCHANGED <<transcript, copied>>
        /\ \A u \in Messages : /\ ~ Noting(u)'
                               /\ Unheard(u)' => Unheard(u)
                               /\ Tagging(u)' => Tagging(u)
                               /\ pc'[u] = "tag_write" => pc[u] = "tag_write"
    BY <1>4 DEF Check, Noting, Unheard, Tagging, session, turn
  <2> QED BY <2>1 DEF IsMessage
<1>5. ASSUME NEW m \in Messages, Note(m) PROVE OpenInOrder'
  BY <1>5 DEF Note, Noting, Threads, Writers
<1>6. ASSUME NEW m \in Messages, Hear(m) PROVE OpenInOrder'
  <2>1. Entry("merchant", m, language) \in Entries
    BY DEF Entry, Entries
  <2>2. /\ DOMAIN transcript' = 1 .. Len(transcript) + 1 /\ DOMAIN transcript = 1 .. Len(transcript)
        /\ Len(transcript) \in Nat /\ Len(transcript') = Len(transcript) + 1
        /\ \A i \in DOMAIN transcript : transcript'[i] = transcript[i]
        /\ transcript'[Len(transcript) + 1] = Entry("merchant", m, language)
    BY <1>6, <2>1, AppendFacts DEF Hear
  <2>3. \A u \in Messages \ {m} : ~ Tagging(u) /\ ~ Tagging(u)'
    BY <1>6 DEF Hear, LockMeansTurn, InTurn, Tagging
  <2>4. Unheard(m) /\ \A u \in Messages : ~ Noting(u)' /\ (Unheard(u)' => Unheard(u) /\ u # m)
                        /\ pc'[u] # "tag_write"
    BY <1>6, <2>3 DEF Hear, Noting, Unheard, Tagging
  <2>5. \A i \in DOMAIN transcript : ~ IsMessage(i, m)
    BY <2>4
  <2>6. IsMessage(Len(transcript), m)'
    BY <2>2 DEF IsMessage, Entry
  <2>7. \A i \in DOMAIN transcript', h \in Messages :
           IsMessage(i, h)' => IF h = m THEN i = Len(transcript) + 1
                                        ELSE i \in DOMAIN transcript /\ IsMessage(i, h)
    BY <2>2, <2>5 DEF IsMessage, Entry
  <2>8. \A h \in Messages, i \in DOMAIN transcript' : Unheard(h)' => ~ IsMessage(i, h)'
    BY <2>4, <2>7
  <2>9. ASSUME NEW h \in Messages, NEW i \in DOMAIN transcript', NEW j \in DOMAIN transcript',
               IsMessage(i, h)', IsMessage(j, h)'
        PROVE  i = j
    <3>1. CASE h = m
      BY <2>7, <2>9, <3>1
    <3>2. CASE h # m
      BY <2>7, <2>9, <3>2
    <3> QED BY <3>1, <3>2
  <2> QED BY <2>3, <2>4, <2>6, <2>8, <2>9
<1>7. ASSUME NEW m \in Messages, Classify(m) PROVE OpenInOrder'
  <2>1. /\ UNCHANGED <<transcript, copied>>
        /\ \A u \in Messages : /\ ~ Noting(u)'
                               /\ Unheard(u)' => Unheard(u)
                               /\ Tagging(u)' => Tagging(u)
                               /\ pc'[u] = "tag_write" => pc[u] = "tag_write"
    BY <1>7 DEF Classify, Noting, Unheard, Tagging, session, turn
  <2> QED BY <2>1 DEF IsMessage
<1>8. ASSUME NEW m \in Messages, TagRead(m) PROVE OpenInOrder'
  <2>1. \A u \in Messages \ {m} : ~ Tagging(u) /\ ~ Tagging(u)'
    BY <1>8 DEF TagRead, LockMeansTurn, InTurn, Tagging
  <2>2. /\ UNCHANGED transcript /\ IsMessage(Len(transcript), m)
        /\ copied'[m] = transcript[Len(transcript)]
        /\ \A u \in Messages : ~ Noting(u)' /\ (Unheard(u)' => Unheard(u))
                               /\ (pc'[u] = "tag_write" => u = m)
    BY <1>8, <2>1 DEF TagRead, Noting, Unheard, Tagging, session
  <2> QED BY <2>1, <2>2 DEF IsMessage
<1>9. ASSUME NEW m \in Messages, TagWrite(m) PROVE OpenInOrder'
  <2>1. PICK p \in DOMAIN transcript : TRUE
    BY <1>9 DEF TagWrite, Kept, Tagging
  <2>2. copied[m] \in Entries /\ [copied[m] EXCEPT !.language = m] \in Entries
    <3>1. copied[m] \in Entries
      BY <1>9 DEF TagWrite
    <3> QED BY <3>1 DEF Entries
  <2>3. copied[m] = transcript[Len(transcript)] /\ IsMessage(Len(transcript), m)
    BY <1>9 DEF TagWrite, Tagging
  <2>4. /\ DOMAIN transcript = 1 .. Len(transcript) /\ DOMAIN transcript' = 1 .. Len(transcript)
        /\ Len(transcript) \in DOMAIN transcript
        /\ \A i \in DOMAIN transcript : i # Len(transcript) => transcript'[i] = transcript[i]
        /\ transcript'[Len(transcript)] = [copied[m] EXCEPT !.language = m]
    BY <1>9, <2>1, <2>2, OverwriteFacts DEF TagWrite
  <2>5. /\ transcript'[Len(transcript)].speaker = transcript[Len(transcript)].speaker
        /\ transcript'[Len(transcript)].by = transcript[Len(transcript)].by
        /\ transcript'[Len(transcript)].language = m
    BY <2>2, <2>3, <2>4 DEF Entries
  <2>6. \A i \in DOMAIN transcript, h \in Messages : IsMessage(i, h)' => IsMessage(i, h)
    BY <2>4, <2>5 DEF IsMessage
  <2>7. \A u \in Messages : ~ Tagging(u)'
    BY <1>9 DEF TagWrite, LockMeansTurn, InTurn, Tagging
  <2>8. \A u \in Messages : ~ Noting(u)' /\ (Unheard(u)' => Unheard(u)) /\ pc'[u] # "tag_write"
    BY <1>9, <2>7 DEF TagWrite, Noting, Unheard, Tagging
  <2> QED BY <2>4, <2>6, <2>7, <2>8
<1>10. ASSUME NEW t \in Writers, Lock(t) PROVE OpenInOrder'
  <2>1. /\ UNCHANGED <<transcript, copied>>
        /\ \A u \in Messages : /\ ~ Noting(u)'
                               /\ Unheard(u)' => Unheard(u)
                               /\ Tagging(u)' => Tagging(u)
                               /\ pc'[u] = "tag_write" => pc[u] = "tag_write"
    BY <1>10 DEF Lock, Noting, Unheard, Tagging, session, turn
  <2> QED BY <2>1 DEF IsMessage
<1>11. ASSUME NEW t \in Writers, Mark(t) PROVE OpenInOrder'
  <2>1. /\ UNCHANGED <<transcript, copied>>
        /\ \A u \in Messages : /\ ~ Noting(u)'
                               /\ Unheard(u)' => Unheard(u)
                               /\ Tagging(u)' => Tagging(u)
                               /\ pc'[u] = "tag_write" => pc[u] = "tag_write"
    BY <1>11 DEF Mark, Noting, Unheard, Tagging, session, turn
  <2> QED BY <2>1 DEF IsMessage
<1>12. ASSUME NEW t \in Writers, Decide(t) PROVE OpenInOrder'
  <2>1. /\ UNCHANGED <<transcript, copied>>
        /\ \A u \in Messages : /\ ~ Noting(u)'
                               /\ Unheard(u)' => Unheard(u)
                               /\ Tagging(u)' => Tagging(u)
                               /\ pc'[u] = "tag_write" => pc[u] = "tag_write"
    BY <1>12 DEF Decide, Noting, Unheard, Tagging, session, turn
  <2> QED BY <2>1 DEF IsMessage
<1>13. ASSUME NEW t \in Writers, Say(t) PROVE OpenInOrder'
  <2>1. Entry("agent", t, language) \in Entries
    BY DEF Entry, Entries
  <2>2. /\ DOMAIN transcript' = 1 .. Len(transcript) + 1 /\ DOMAIN transcript = 1 .. Len(transcript)
        /\ Len(transcript) \in Nat
        /\ \A i \in DOMAIN transcript : transcript'[i] = transcript[i]
        /\ transcript'[Len(transcript) + 1].speaker = "agent"
    BY <1>13, <2>1, AppendFacts DEF Say, Entry
  <2>3. \A i \in DOMAIN transcript', h \in Messages :
           IsMessage(i, h)' => i \in DOMAIN transcript /\ IsMessage(i, h)
    BY <2>2 DEF IsMessage
  <2>4. \A u \in Messages : ~ Tagging(u)'
    BY <1>13 DEF Say, LockMeansTurn, InTurn, Tagging
  <2>5. \A u \in Messages : ~ Noting(u)' /\ (Unheard(u)' => Unheard(u)) /\ pc'[u] # "tag_write"
    BY <1>13, <2>4 DEF Say, Noting, Unheard, Tagging
  <2> QED BY <2>2, <2>3, <2>4, <2>5
<1>14. ASSUME NEW t \in Writers, OpenTicket(t) PROVE OpenInOrder'
  <2>1. /\ UNCHANGED <<transcript, copied>>
        /\ \A u \in Messages : /\ ~ Noting(u)'
                               /\ Unheard(u)' => Unheard(u)
                               /\ Tagging(u)' => Tagging(u)
                               /\ pc'[u] = "tag_write" => pc[u] = "tag_write"
    BY <1>14 DEF OpenTicket, Noting, Unheard, Tagging, session, turn
  <2> QED BY <2>1 DEF IsMessage
<1>15. ASSUME NEW t \in Writers, Announce(t) PROVE OpenInOrder'
  <2>1. Entry("handoff", t, language) \in Entries
    BY DEF Entry, Entries
  <2>2. /\ DOMAIN transcript' = 1 .. Len(transcript) + 1 /\ DOMAIN transcript = 1 .. Len(transcript)
        /\ Len(transcript) \in Nat
        /\ \A i \in DOMAIN transcript : transcript'[i] = transcript[i]
        /\ transcript'[Len(transcript) + 1].speaker = "handoff"
    BY <1>15, <2>1, AppendFacts DEF Announce, Entry
  <2>3. \A i \in DOMAIN transcript', h \in Messages :
           IsMessage(i, h)' => i \in DOMAIN transcript /\ IsMessage(i, h)
    BY <2>2 DEF IsMessage
  <2>4. \A u \in Messages : ~ Tagging(u)'
    BY <1>15 DEF Announce, LockMeansTurn, InTurn, Tagging
  <2>5. \A u \in Messages : ~ Noting(u)' /\ (Unheard(u)' => Unheard(u)) /\ pc'[u] # "tag_write"
    BY <1>15, <2>4 DEF Announce, Noting, Unheard, Tagging
  <2> QED BY <2>2, <2>3, <2>4, <2>5
<1>16. ASSUME NEW t \in Writers, Report(t) PROVE OpenInOrder'
  <2>1. /\ UNCHANGED <<transcript, copied>>
        /\ \A u \in Messages : /\ ~ Noting(u)'
                               /\ Unheard(u)' => Unheard(u)
                               /\ Tagging(u)' => Tagging(u)
                               /\ pc'[u] = "tag_write" => pc[u] = "tag_write"
    BY <1>16 DEF Report, Noting, Unheard, Tagging, session, turn
  <2> QED BY <2>1 DEF IsMessage
<1>17. ASSUME NEW r \in Readers, ReadField(r) PROVE OpenInOrder'
  <2>1. /\ UNCHANGED <<transcript, copied>>
        /\ \A u \in Messages : /\ ~ Noting(u)'
                               /\ Unheard(u)' => Unheard(u)
                               /\ Tagging(u)' => Tagging(u)
                               /\ pc'[u] = "tag_write" => pc[u] = "tag_write"
    BY <1>17 DEF ReadField, Noting, Unheard, Tagging, session, turn
  <2> QED BY <2>1 DEF IsMessage
<1>18. ASSUME NEW r \in Readers, SendTrace(r) PROVE OpenInOrder'
  <2>1. /\ UNCHANGED <<transcript, copied>>
        /\ \A u \in Messages : /\ ~ Noting(u)'
                               /\ Unheard(u)' => Unheard(u)
                               /\ Tagging(u)' => Tagging(u)
                               /\ pc'[u] = "tag_write" => pc[u] = "tag_write"
    BY <1>18 DEF SendTrace, Noting, Unheard, Tagging, session, turn
  <2> QED BY <2>1 DEF IsMessage
<1> QED BY <1>1, <1>2, <1>3, <1>4, <1>5, <1>6, <1>7, <1>8, <1>9, <1>10, <1>11, <1>12, <1>13, <1>14, <1>15, <1>16, <1>17, <1>18
          DEF Next, Step, MessageStep, TurnStep

\* A step that moves no entry, changes no language and gets no message past tagging.
LEMMA UntouchedLanguages ==
  ASSUME Languages, state = "open", UNCHANGED <<transcript, language>>,
         \A u \in Messages : PastTagging(u)' => PastTagging(u)
  PROVE  Languages'
  BY DEF Languages, InLanguageOf, Recorded, IsMessage

\* An entry put at the end is no message, or one in the agent's language and not yet tagged.
LEMMA AppendedLanguages ==
  ASSUME Types, Languages, state = "open", UNCHANGED language,
         \A u \in Messages : PastTagging(u)' => PastTagging(u),
         NEW x \in Entries, transcript' = Append(transcript, x),
         x.speaker = "merchant" => x.language = language /\ ~ PastTagging(x.by)'
  PROVE  Languages'
<1> DEFINE last == Len(transcript) + 1
<1>1. /\ DOMAIN transcript = 1 .. Len(transcript) /\ DOMAIN transcript' = 1 .. last
      /\ Len(transcript) \in Nat
      /\ \A i \in DOMAIN transcript : transcript'[i] = transcript[i]
      /\ transcript'[last] = x
  BY AppendFacts DEF Types
<1>2. \A i \in DOMAIN transcript, m \in Messages : IsMessage(i, m)' <=> IsMessage(i, m)
  BY <1>1 DEF IsMessage
<1>3. language \in Messages \cup {None} /\ (language # None => Recorded(language))
  BY DEF Types, Languages
<1>4. language' # None => Recorded(language)'
  BY <1>1, <1>2, <1>3 DEF Recorded
<1>5. ASSUME NEW m \in Messages, NEW i \in DOMAIN transcript', IsMessage(i, m)'
      PROVE  InLanguageOf(i, m)'
  <2>1. CASE i \in DOMAIN transcript
    <3>1. InLanguageOf(i, m) /\ transcript'[i] = transcript[i]
      BY <1>1, <1>2, <1>5, <2>1 DEF Languages
    <3>2. transcript[i].language \in Messages \cup {None}
      BY <2>1, EntryLanguage
    <3>3. \A j \in 1 .. i - 1 : j \in DOMAIN transcript
      BY <1>1, <2>1
    <3> QED BY <1>2, <3>1, <3>2, <3>3 DEF InLanguageOf
  <2>2. CASE i \notin DOMAIN transcript
    <3>1. i = last
      BY <1>1, <2>2
    <3>2. x.speaker = "merchant" /\ x.by = m
      BY <1>1, <1>5, <3>1 DEF IsMessage
    <3>3. transcript'[i].language = language /\ ~ PastTagging(m)'
      BY <1>1, <3>1, <3>2
    <3>4. language # None => \E j \in 1 .. i - 1 : IsMessage(j, language)'
      <4>1. 1 .. i - 1 = DOMAIN transcript
        BY <1>1, <3>1
      <4> QED BY <1>2, <1>3, <4>1 DEF Recorded
    <3> QED BY <3>3, <3>4 DEF InLanguageOf
  <2> QED BY <2>1, <2>2
<1> QED BY <1>4, <1>5 DEF Languages

\* While the session is open, only tagging gets a message past it.
LEMMA StepLanguages ==
  Types /\ Types' /\ LockMeansTurn /\ Kept /\ OpenInOrder /\ Languages /\ Next => Languages'
<1> SUFFICES ASSUME Types, Types', LockMeansTurn, Kept, OpenInOrder, Languages, Next, state' = "open"
             PROVE  Languages'
  BY DEF Languages
<1>0. state = "open"
  BY ArriveFacts DEF Next, Step, MessageStep, TurnStep, Evict, AllDone, Check, Note, Hear, Classify,
     TagRead, TagWrite, Lock, Mark, Decide, Say, OpenTicket, Announce, Report, ReadField, SendTrace,
     session, turn, vars
<1>p. /\ DOMAIN pc = Threads /\ DOMAIN answer = Threads /\ language \in Messages \cup {None}
  BY DEF Types
<1> USE <1>0, <1>p, LiveAssumption DEF Goto, Answer, Threads, Writers
<1>1. CASE Evict
  <2>1. UNCHANGED <<transcript, language>> /\ \A u \in Messages : PastTagging(u)' => PastTagging(u)
    BY <1>1 DEF Evict, PastTagging, session
  <2> QED BY <2>1, UntouchedLanguages
<1>2. CASE AllDone
  <2>1. UNCHANGED <<transcript, language>> /\ \A u \in Messages : PastTagging(u)' => PastTagging(u)
    BY <1>2 DEF AllDone, vars, PastTagging, session
  <2> QED BY <2>1, UntouchedLanguages
<1>3. ASSUME NEW t \in Threads, Arrive(t) PROVE Languages'
  <2>1. UNCHANGED <<transcript, language>> /\ \A u \in Messages : PastTagging(u)' => PastTagging(u)
    BY <1>3, ArriveFacts DEF PastTagging, session
  <2> QED BY <2>1, UntouchedLanguages
<1>4. ASSUME NEW m \in Messages, Check(m) PROVE Languages'
  <2>1. UNCHANGED <<transcript, language>> /\ \A u \in Messages : PastTagging(u)' => PastTagging(u)
    BY <1>4 DEF Check, PastTagging, session
  <2> QED BY <2>1, UntouchedLanguages
<1>5. ASSUME NEW m \in Messages, Note(m) PROVE Languages'
  BY <1>5 DEF Note, OpenInOrder, Noting
<1>6. ASSUME NEW m \in Messages, Hear(m) PROVE Languages'
  <2> DEFINE x == Entry("merchant", m, language)
  <2>1. x \in Entries /\ x.speaker = "merchant" /\ x.by = m /\ x.language = language
    BY DEF Entry, Entries
  <2>2. /\ transcript' = Append(transcript, x) /\ UNCHANGED language
        /\ \A u \in Messages : PastTagging(u)' => PastTagging(u)
    BY <1>6 DEF Hear, PastTagging
  <2>3. ~ PastTagging(m)'
    <3>1. answer[m] # "ok"
      BY <1>6 DEF Hear, OpenInOrder, Unheard, Kept, Recorded, Heard
    <3> QED BY <1>6, <3>1 DEF Hear, PastTagging
  <2> QED BY <2>1, <2>2, <2>3, AppendedLanguages
<1>7. ASSUME NEW m \in Messages, Classify(m) PROVE Languages'
  <2>1. UNCHANGED transcript /\ \A u \in Messages : PastTagging(u)' => PastTagging(u)
    BY <1>7 DEF Classify, PastTagging
  <2>2. language' # None => Recorded(language)'
    <3>1. CASE language' = m
      BY <1>7, <2>1, <3>1 DEF Classify, Kept, Heard, PastHearing, Recorded, IsMessage
    <3>2. CASE UNCHANGED language
      BY <2>1, <3>2 DEF Languages, Recorded, IsMessage
    <3> QED BY <1>7, <3>1, <3>2 DEF Classify
  <2> QED BY <2>1, <2>2 DEF Languages, InLanguageOf, IsMessage
<1>8. ASSUME NEW m \in Messages, TagRead(m) PROVE Languages'
  <2>1. UNCHANGED <<transcript, language>> /\ \A u \in Messages : PastTagging(u)' => PastTagging(u)
    BY <1>8 DEF TagRead, PastTagging, session
  <2> QED BY <2>1, UntouchedLanguages
<1>9. ASSUME NEW m \in Messages, TagWrite(m) PROVE Languages'
  <2>1. PICK p \in DOMAIN transcript : TRUE
    BY <1>9 DEF TagWrite, Kept, Tagging
  <2>2. copied[m] \in Entries /\ [copied[m] EXCEPT !.language = m] \in Entries
    <3>1. copied[m] \in Entries
      BY <1>9 DEF TagWrite, Types
    <3> QED BY <3>1 DEF Entries
  <2>3. copied[m] = transcript[Len(transcript)] /\ IsMessage(Len(transcript), m)
    BY <1>9 DEF TagWrite, Tagging, OpenInOrder
  <2>4. /\ DOMAIN transcript = 1 .. Len(transcript) /\ DOMAIN transcript' = 1 .. Len(transcript)
        /\ Len(transcript) \in DOMAIN transcript
        /\ \A i \in DOMAIN transcript : i # Len(transcript) => transcript'[i] = transcript[i]
        /\ transcript'[Len(transcript)] = [copied[m] EXCEPT !.language = m]
    BY <1>9, <2>1, <2>2, OverwriteFacts DEF TagWrite, Types
  <2>5. /\ transcript'[Len(transcript)].speaker = transcript[Len(transcript)].speaker
        /\ transcript'[Len(transcript)].by = transcript[Len(transcript)].by
        /\ transcript'[Len(transcript)].language = m
    BY <2>2, <2>3, <2>4 DEF Entries
  <2>6. \A i \in DOMAIN transcript, h \in Messages : IsMessage(i, h)' <=> IsMessage(i, h)
    BY <2>4, <2>5 DEF IsMessage
  <2>7. UNCHANGED language /\ \A u \in Messages : PastTagging(u)' => u = m \/ PastTagging(u)
    BY <1>9 DEF TagWrite, PastTagging
  <2>8. language' # None => Recorded(language)'
    BY <2>4, <2>6, <2>7 DEF Languages, Recorded
  <2>9. ASSUME NEW h \in Messages, NEW i \in DOMAIN transcript, IsMessage(i, h)
        PROVE  InLanguageOf(i, h)'
    <3>1. CASE i = Len(transcript)
      <4>1. h = m
        BY <2>3, <2>9, <3>1 DEF IsMessage
      <4> QED BY <2>5, <3>1, <4>1 DEF InLanguageOf
    <3>2. CASE i # Len(transcript)
      <4>1. h # m
        BY <2>3, <2>4, <2>9, <3>2 DEF OpenInOrder
      <4>2. InLanguageOf(i, h) /\ transcript'[i] = transcript[i]
        BY <2>4, <2>9, <3>2 DEF Languages
      <4>3. transcript[i].language \in Messages \cup {None}
        BY EntryLanguage
      <4>4. \A j \in 1 .. i - 1 : j \in DOMAIN transcript
        BY <2>4
      <4> QED BY <2>6, <2>7, <4>1, <4>2, <4>3, <4>4 DEF InLanguageOf
    <3> QED BY <3>1, <3>2
  <2> QED BY <2>4, <2>6, <2>8, <2>9 DEF Languages
<1>10. ASSUME NEW t \in Writers, Lock(t) PROVE Languages'
  <2>1. UNCHANGED <<transcript, language>> /\ \A u \in Messages : PastTagging(u)' => PastTagging(u)
    BY <1>10 DEF Lock, PastTagging, session
  <2> QED BY <2>1, UntouchedLanguages
<1>11. ASSUME NEW t \in Writers, Mark(t) PROVE Languages'
  <2>1. UNCHANGED <<transcript, language>> /\ \A u \in Messages : PastTagging(u)' => PastTagging(u)
    BY <1>11 DEF Mark, PastTagging, session
  <2> QED BY <2>1, UntouchedLanguages
<1>12. ASSUME NEW t \in Writers, Decide(t) PROVE Languages'
  <2>1. pc[t] = "decide"
    BY <1>12 DEF Decide
  <2>2. UNCHANGED <<transcript, language>> /\ \A u \in Messages : PastTagging(u)' => PastTagging(u)
    BY <1>12, <2>1 DEF Decide, PastTagging
  <2> QED BY <2>2, UntouchedLanguages
<1>13. ASSUME NEW t \in Writers, Say(t) PROVE Languages'
  <2> DEFINE x == Entry("agent", t, language)
  <2>1. x \in Entries /\ x.speaker = "agent" /\ x.by = t /\ x.language = language
    BY DEF Entry, Entries
  <2>2. /\ transcript' = Append(transcript, x) /\ UNCHANGED language
        /\ \A u \in Messages : PastTagging(u)' => PastTagging(u)
    BY <1>13 DEF Say, PastTagging
  <2> QED BY <2>1, <2>2, AppendedLanguages
<1>14. ASSUME NEW t \in Writers, OpenTicket(t) PROVE Languages'
  <2>1. UNCHANGED <<transcript, language>> /\ \A u \in Messages : PastTagging(u)' => PastTagging(u)
    BY <1>14 DEF OpenTicket, PastTagging, session
  <2> QED BY <2>1, UntouchedLanguages
<1>15. ASSUME NEW t \in Writers, Announce(t) PROVE Languages'
  <2> DEFINE x == Entry("handoff", t, language)
  <2>1. x \in Entries /\ x.speaker = "handoff" /\ x.by = t /\ x.language = language
    BY DEF Entry, Entries
  <2>2. /\ transcript' = Append(transcript, x) /\ UNCHANGED language
        /\ \A u \in Messages : PastTagging(u)' => PastTagging(u)
    BY <1>15 DEF Announce, PastTagging
  <2> QED BY <2>1, <2>2, AppendedLanguages
<1>16. ASSUME NEW t \in Writers, Report(t) PROVE Languages'
  <2>1. UNCHANGED <<transcript, language>> /\ \A u \in Messages : PastTagging(u)' => PastTagging(u)
    BY <1>16 DEF Report, PastTagging, session
  <2> QED BY <2>1, UntouchedLanguages
<1>17. ASSUME NEW r \in Readers, ReadField(r) PROVE Languages'
  <2>1. UNCHANGED <<transcript, language>> /\ \A u \in Messages : PastTagging(u)' => PastTagging(u)
    BY <1>17 DEF ReadField, PastTagging, session
  <2> QED BY <2>1, UntouchedLanguages
<1>18. ASSUME NEW r \in Readers, SendTrace(r) PROVE Languages'
  <2>1. UNCHANGED <<transcript, language>> /\ \A u \in Messages : PastTagging(u)' => PastTagging(u)
    BY <1>18 DEF SendTrace, PastTagging, session
  <2> QED BY <2>1, UntouchedLanguages
<1> QED BY <1>1, <1>2, <1>3, <1>4, <1>5, <1>6, <1>7, <1>8, <1>9, <1>10, <1>11, <1>12, <1>13, <1>14, <1>15, <1>16, <1>17, <1>18
          DEF Next, Step, MessageStep, TurnStep

\* A handoff is not undone and its tickets stay.
LEMMA HandoffStays ==
  Types /\ Next => /\ state = "escalated" => state' = "escalated"
                   /\ tickets # << >> => tickets' # << >>
<1> SUFFICES ASSUME Types, Next
             PROVE  /\ state = "escalated" => state' = "escalated"
                    /\ tickets # << >> => tickets' # << >>
  OBVIOUS
<1>1. ASSUME NEW t \in Writers, OpenTicket(t) PROVE tickets' # << >> /\ UNCHANGED state
  BY <1>1, AppendFacts DEF OpenTicket, Types
<1>2. CASE \E t \in Writers : OpenTicket(t)
  BY <1>1, <1>2
<1>3. CASE ~ \E t \in Writers : OpenTicket(t)
  BY <1>3, ArriveFacts DEF Next, Step, MessageStep, TurnStep, Evict, AllDone, Check, Note, Hear, Classify,
     TagRead, TagWrite, Lock, Mark, Decide, Say, Announce, Report, ReadField, SendTrace,
     session, turn, vars
<1> QED BY <1>2, <1>3

\* A handoff is decided, ticketed and announced in that order.
LEMMA StepCause == Types /\ Kept /\ CauseBeforeEffect /\ Next => CauseBeforeEffect'
<1> SUFFICES ASSUME Types, Kept, CauseBeforeEffect, Next PROVE CauseBeforeEffect'
  OBVIOUS
<1>h. /\ state = "escalated" => state' = "escalated"
      /\ tickets # << >> => tickets' # << >>
  BY HandoffStays
<1> USE LiveAssumption DEF CauseBeforeEffect, Types, Goto, Answer, Threads, Writers
<1>1. CASE Evict
  <2>1. UNCHANGED <<transcript, copied>> /\ Announced' = Announced
    BY <1>1 DEF Evict, Announced, session, turn
  <2>2. /\ \A u \in Messages : pc'[u] = "tag_write" => pc[u] = "tag_write"
        /\ \A u \in Writers : pc'[u] \in {"ticket", "announce"} => pc[u] = pc'[u]
    BY <1>1 DEF Evict, session, turn
  <2> QED BY <2>1, <2>2, <1>h
<1>2. CASE AllDone
  <2>1. UNCHANGED <<transcript, copied>> /\ Announced' = Announced
    BY <1>2 DEF AllDone, vars, Announced, session, turn
  <2>2. /\ \A u \in Messages : pc'[u] = "tag_write" => pc[u] = "tag_write"
        /\ \A u \in Writers : pc'[u] \in {"ticket", "announce"} => pc[u] = pc'[u]
    BY <1>2 DEF AllDone, vars, session, turn
  <2> QED BY <2>1, <2>2, <1>h
<1>3. ASSUME NEW t \in Threads, Arrive(t) PROVE CauseBeforeEffect'
  <2>1. UNCHANGED <<transcript, copied>> /\ Announced' = Announced
    BY <1>3, ArriveFacts DEF Announced, session, turn
  <2>2. /\ \A u \in Messages : pc'[u] = "tag_write" => pc[u] = "tag_write"
        /\ \A u \in Writers : pc'[u] \in {"ticket", "announce"} => pc[u] = pc'[u]
    BY <1>3, ArriveFacts
  <2> QED BY <2>1, <2>2, <1>h
<1>4. ASSUME NEW m \in Messages, Check(m) PROVE CauseBeforeEffect'
  <2>1. UNCHANGED <<transcript, copied>> /\ Announced' = Announced
    BY <1>4 DEF Check, Announced, session, turn
  <2>2. /\ \A u \in Messages : pc'[u] = "tag_write" => pc[u] = "tag_write"
        /\ \A u \in Writers : pc'[u] \in {"ticket", "announce"} => pc[u] = pc'[u]
    BY <1>4 DEF Check
  <2> QED BY <2>1, <2>2, <1>h
<1>5. ASSUME NEW m \in Messages, Note(m) PROVE CauseBeforeEffect'
  <2>1. Entry("merchant", m, None) \in Entries
    BY DEF Entry, Entries
  <2>2. Announced' => Announced
    BY <1>5, <2>1, AppendFacts DEF Note, Announced, Entry
  <2> QED BY <1>5, <2>2, <1>h DEF Note, session, turn
<1>6. ASSUME NEW m \in Messages, Hear(m) PROVE CauseBeforeEffect'
  <2>1. Entry("merchant", m, language) \in Entries
    BY DEF Entry, Entries
  <2>2. Announced' => Announced
    BY <1>6, <2>1, AppendFacts DEF Hear, Announced, Entry
  <2> QED BY <1>6, <2>2, <1>h DEF Hear, session, turn
<1>7. ASSUME NEW m \in Messages, Classify(m) PROVE CauseBeforeEffect'
  <2>1. UNCHANGED <<transcript, copied>> /\ Announced' = Announced
    BY <1>7 DEF Classify, Announced, session, turn
  <2>2. /\ \A u \in Messages : pc'[u] = "tag_write" => pc[u] = "tag_write"
        /\ \A u \in Writers : pc'[u] \in {"ticket", "announce"} => pc[u] = pc'[u]
    BY <1>7 DEF Classify
  <2> QED BY <2>1, <2>2, <1>h
<1>8. ASSUME NEW m \in Messages, TagRead(m) PROVE CauseBeforeEffect'
  <2>1. PICK p \in DOMAIN transcript : TRUE
    BY <1>8 DEF TagRead, Kept, Tagging
  <2>2. Len(transcript) \in DOMAIN transcript
    BY <2>1
  <2>3. copied'[m].speaker = "handoff" => Announced
    BY <1>8, <2>2 DEF TagRead, Announced
  <2>4. UNCHANGED <<transcript, state, tickets>> /\ Announced' = Announced
    BY <1>8 DEF TagRead, Announced, session
  <2>5. \A u \in Messages : u # m => copied'[u] = copied[u] /\ pc'[u] = pc[u]
    BY <1>8 DEF TagRead
  <2>6. \A u \in Writers : pc'[u] \in {"ticket", "announce"} => pc[u] = pc'[u]
    BY <1>8 DEF TagRead
  <2> QED BY <2>3, <2>4, <2>5, <2>6
<1>9. ASSUME NEW m \in Messages, TagWrite(m) PROVE CauseBeforeEffect'
  <2>1. PICK p \in DOMAIN transcript : TRUE
    BY <1>9 DEF TagWrite, Kept, Tagging
  <2>2. copied[m] \in Entries /\ [copied[m] EXCEPT !.language = m] \in Entries
    <3>1. copied[m] \in Entries
      BY <1>9 DEF TagWrite
    <3> QED BY <3>1 DEF Entries
  <2>3. /\ DOMAIN transcript' = DOMAIN transcript
        /\ \A i \in DOMAIN transcript : i # Len(transcript) => transcript'[i] = transcript[i]
        /\ transcript'[Len(transcript)] = [copied[m] EXCEPT !.language = m]
    BY <1>9, <2>1, <2>2, OverwriteFacts DEF TagWrite
  <2>4. transcript'[Len(transcript)].speaker = copied[m].speaker
    BY <2>2, <2>3 DEF Entries
  <2>5. Announced' => Announced \/ copied[m].speaker = "handoff"
    BY <2>3, <2>4 DEF Announced
  <2>6. Announced' => state = "escalated" /\ tickets # << >>
    BY <1>9, <2>5 DEF TagWrite
  <2>7. \A u \in Messages \ {m} : copied'[u] = copied[u] /\ pc'[u] = pc[u]
    BY <1>9 DEF TagWrite
  <2>8. pc'[m] = "decide" /\ \A u \in Writers : pc'[u] \in {"ticket", "announce"} => pc[u] = pc'[u]
    BY <1>9 DEF TagWrite
  <2> QED BY <1>9, <2>6, <2>7, <2>8 DEF TagWrite
<1>10. ASSUME NEW t \in Writers, Lock(t) PROVE CauseBeforeEffect'
  <2>1. UNCHANGED <<transcript, copied>> /\ Announced' = Announced
    BY <1>10 DEF Lock, Announced, session, turn
  <2>2. /\ \A u \in Messages : pc'[u] = "tag_write" => pc[u] = "tag_write"
        /\ \A u \in Writers : pc'[u] \in {"ticket", "announce"} => pc[u] = pc'[u]
    BY <1>10 DEF Lock
  <2> QED BY <2>1, <2>2, <1>h
<1>11. ASSUME NEW t \in Writers, Mark(t) PROVE CauseBeforeEffect'
  <2>1. UNCHANGED <<transcript, copied>> /\ Announced' = Announced
    BY <1>11 DEF Mark, Announced, session, turn
  <2>2. /\ \A u \in Messages : pc'[u] = "tag_write" => pc[u] = "tag_write"
        /\ \A u \in Writers : pc'[u] \in {"ticket", "announce"} => pc[u] = pc'[u]
    BY <1>11 DEF Mark
  <2> QED BY <2>1, <2>2, <1>h
<1>12. ASSUME NEW t \in Writers, Decide(t) PROVE CauseBeforeEffect'
  BY <1>12, <1>h DEF Decide, Announced, turn
<1>13. ASSUME NEW t \in Writers, Say(t) PROVE CauseBeforeEffect'
  <2>1. Entry("agent", t, language) \in Entries
    BY DEF Entry, Entries
  <2>2. Announced' => Announced
    BY <1>13, <2>1, AppendFacts DEF Say, Announced, Entry
  <2> QED BY <1>13, <2>2, <1>h DEF Say, session, turn
<1>14. ASSUME NEW t \in Writers, OpenTicket(t) PROVE CauseBeforeEffect'
  <2>1. tickets' # << >>
    BY <1>14, AppendFacts DEF OpenTicket
  <2> QED BY <1>14, <2>1, <1>h DEF OpenTicket, Announced, session, turn
<1>15. ASSUME NEW t \in Writers, Announce(t) PROVE CauseBeforeEffect'
  <2>1. state = "escalated" /\ tickets # << >>
    BY <1>15 DEF Announce
  <2> QED BY <1>15, <2>1, <1>h DEF Announce, session, turn
<1>16. ASSUME NEW t \in Writers, Report(t) PROVE CauseBeforeEffect'
  <2>1. UNCHANGED <<transcript, copied>> /\ Announced' = Announced
    BY <1>16 DEF Report, Announced, session, turn
  <2>2. /\ \A u \in Messages : pc'[u] = "tag_write" => pc[u] = "tag_write"
        /\ \A u \in Writers : pc'[u] \in {"ticket", "announce"} => pc[u] = pc'[u]
    BY <1>16 DEF Report
  <2> QED BY <2>1, <2>2, <1>h
<1>17. ASSUME NEW r \in Readers, ReadField(r) PROVE CauseBeforeEffect'
  <2>1. UNCHANGED <<transcript, copied>> /\ Announced' = Announced
    BY <1>17 DEF ReadField, Announced, session, turn
  <2>2. /\ \A u \in Messages : pc'[u] = "tag_write" => pc[u] = "tag_write"
        /\ \A u \in Writers : pc'[u] \in {"ticket", "announce"} => pc[u] = pc'[u]
    BY <1>17 DEF ReadField
  <2> QED BY <2>1, <2>2, <1>h
<1>18. ASSUME NEW r \in Readers, SendTrace(r) PROVE CauseBeforeEffect'
  <2>1. UNCHANGED <<transcript, copied>> /\ Announced' = Announced
    BY <1>18 DEF SendTrace, Announced, session, turn
  <2>2. /\ \A u \in Messages : pc'[u] = "tag_write" => pc[u] = "tag_write"
        /\ \A u \in Writers : pc'[u] \in {"ticket", "announce"} => pc[u] = pc'[u]
    BY <1>18 DEF SendTrace
  <2> QED BY <2>1, <2>2, <1>h
<1> QED BY <1>1, <1>2, <1>3, <1>4, <1>5, <1>6, <1>7, <1>8, <1>9, <1>10, <1>11, <1>12, <1>13, <1>14, <1>15, <1>16, <1>17, <1>18
          DEF Next, Step, MessageStep, TurnStep

\* Every field read keeps the trace in order.
LEMMA StepTrace == Types /\ CauseBeforeEffect /\ TraceInOrder /\ Next => TraceInOrder'
<1> SUFFICES ASSUME Types, CauseBeforeEffect, TraceInOrder, Next PROVE TraceInOrder'
  OBVIOUS
<1>h. /\ state = "escalated" => state' = "escalated"
      /\ tickets # << >> => tickets' # << >>
  BY HandoffStays
<1> USE LiveAssumption DEF TraceInOrder, Shown, Types, Goto, Answer, Threads, Writers
<1>1. CASE Evict
  <2>1. \A r \in Readers : /\ report'[r] = report[r] /\ unread'[r] = unread[r]
                           /\ answer'[r] = "ok" => answer[r] = "ok"
    BY <1>1 DEF Evict, session, turn
  <2> QED BY <2>1, <1>h
<1>2. CASE AllDone
  <2>1. \A r \in Readers : /\ report'[r] = report[r] /\ unread'[r] = unread[r]
                           /\ answer'[r] = "ok" => answer[r] = "ok"
    BY <1>2 DEF AllDone, vars, session, turn
  <2> QED BY <2>1, <1>h
<1>3. ASSUME NEW t \in Threads, Arrive(t) PROVE TraceInOrder'
  <2>1. \A r \in Readers : /\ report'[r] = report[r] /\ unread'[r] = unread[r]
                           /\ answer'[r] = "ok" => answer[r] = "ok"
    BY <1>3, ArriveFacts DEF turn
  <2> QED BY <2>1, <1>h
<1>4. ASSUME NEW m \in Messages, Check(m) PROVE TraceInOrder'
  <2>1. \A r \in Readers : /\ report'[r] = report[r] /\ unread'[r] = unread[r]
                           /\ answer'[r] = "ok" => answer[r] = "ok"
    BY <1>4 DEF Check, session, turn
  <2> QED BY <2>1, <1>h
<1>5. ASSUME NEW m \in Messages, Note(m) PROVE TraceInOrder'
  <2>1. \A r \in Readers : /\ report'[r] = report[r] /\ unread'[r] = unread[r]
                           /\ answer'[r] = "ok" => answer[r] = "ok"
    BY <1>5 DEF Note, session, turn
  <2> QED BY <2>1, <1>h
<1>6. ASSUME NEW m \in Messages, Hear(m) PROVE TraceInOrder'
  <2>1. \A r \in Readers : /\ report'[r] = report[r] /\ unread'[r] = unread[r]
                           /\ answer'[r] = "ok" => answer[r] = "ok"
    BY <1>6 DEF Hear, session, turn
  <2> QED BY <2>1, <1>h
<1>7. ASSUME NEW m \in Messages, Classify(m) PROVE TraceInOrder'
  <2>1. \A r \in Readers : /\ report'[r] = report[r] /\ unread'[r] = unread[r]
                           /\ answer'[r] = "ok" => answer[r] = "ok"
    BY <1>7 DEF Classify, session, turn
  <2> QED BY <2>1, <1>h
<1>8. ASSUME NEW m \in Messages, TagRead(m) PROVE TraceInOrder'
  <2>1. \A r \in Readers : /\ report'[r] = report[r] /\ unread'[r] = unread[r]
                           /\ answer'[r] = "ok" => answer[r] = "ok"
    BY <1>8 DEF TagRead, session, turn
  <2> QED BY <2>1, <1>h
<1>9. ASSUME NEW m \in Messages, TagWrite(m) PROVE TraceInOrder'
  <2>1. \A r \in Readers : /\ report'[r] = report[r] /\ unread'[r] = unread[r]
                           /\ answer'[r] = "ok" => answer[r] = "ok"
    BY <1>9 DEF TagWrite, session, turn
  <2> QED BY <2>1, <1>h
<1>10. ASSUME NEW t \in Writers, Lock(t) PROVE TraceInOrder'
  <2>1. \A r \in Readers : /\ report'[r] = report[r] /\ unread'[r] = unread[r]
                           /\ answer'[r] = "ok" => answer[r] = "ok"
    BY <1>10 DEF Lock, session, turn
  <2> QED BY <2>1, <1>h
<1>11. ASSUME NEW t \in Writers, Mark(t) PROVE TraceInOrder'
  <2>1. \A r \in Readers : /\ report'[r] = report[r] /\ unread'[r] = unread[r]
                           /\ answer'[r] = "ok" => answer[r] = "ok"
    BY <1>11 DEF Mark, session, turn
  <2> QED BY <2>1, <1>h
<1>12. ASSUME NEW t \in Writers, Decide(t) PROVE TraceInOrder'
  <2>1. \A r \in Readers : /\ report'[r] = report[r] /\ unread'[r] = unread[r]
                           /\ answer'[r] = "ok" => answer[r] = "ok"
    BY <1>12 DEF Decide, session, turn
  <2> QED BY <2>1, <1>h
<1>13. ASSUME NEW t \in Writers, Say(t) PROVE TraceInOrder'
  <2>1. \A r \in Readers : /\ report'[r] = report[r] /\ unread'[r] = unread[r]
                           /\ answer'[r] = "ok" => answer[r] = "ok"
    BY <1>13 DEF Say, session, turn
  <2> QED BY <2>1, <1>h
<1>14. ASSUME NEW t \in Writers, OpenTicket(t) PROVE TraceInOrder'
  <2>1. \A r \in Readers : /\ report'[r] = report[r] /\ unread'[r] = unread[r]
                           /\ answer'[r] = "ok" => answer[r] = "ok"
    BY <1>14 DEF OpenTicket, session, turn
  <2> QED BY <2>1, <1>h
<1>15. ASSUME NEW t \in Writers, Announce(t) PROVE TraceInOrder'
  <2>1. \A r \in Readers : /\ report'[r] = report[r] /\ unread'[r] = unread[r]
                           /\ answer'[r] = "ok" => answer[r] = "ok"
    BY <1>15 DEF Announce, session, turn
  <2> QED BY <2>1, <1>h
<1>16. ASSUME NEW t \in Writers, Report(t) PROVE TraceInOrder'
  <2>1. \A r \in Readers : /\ report'[r] = report[r] /\ unread'[r] = unread[r]
                           /\ answer'[r] = "ok" => answer[r] = "ok"
    BY <1>16 DEF Report, Reported, session, turn
  <2> QED BY <2>1, <1>h
<1>17. ASSUME NEW r \in Readers, ReadField(r) PROVE TraceInOrder'
  <2> DEFINE field == Head(unread[r])
  <2>1. /\ report'[r] = IF ShowsHandoff(field) THEN report[r] \cup {field} ELSE report[r]
        /\ unread'[r] = Tail(unread[r]) /\ unread[r] # << >>
        /\ UNCHANGED <<answer, state, transcript, tickets>>
        /\ \A u \in Readers \ {r} : report'[u] = report[u] /\ unread'[u] = unread[u]
    BY <1>17 DEF ReadField, session
  <2>2. /\ Announced => state = "escalated" /\ tickets # << >>
        /\ ShowsHandoff("transcript") <=> Announced
        /\ ShowsHandoff("history") <=> state = "escalated"
        /\ ShowsHandoff("state") <=> state = "escalated"
        /\ ShowsHandoff("tickets") <=> tickets # << >>
    BY DEF CauseBeforeEffect, ShowsHandoff, Announced
  <2>3. CASE unread[r] = TraceFields
    <3>1. field = "transcript" /\ Tail(unread[r]) = <<"history", "state", "tickets">>
      BY <2>3 DEF TraceFields
    <3> QED BY <2>1, <2>2, <2>3, <3>1 DEF TraceFields
  <2>4. CASE unread[r] = <<"history", "state", "tickets">>
    <3>1. field = "history" /\ Tail(unread[r]) = <<"state", "tickets">>
      BY <2>4
    <3> QED BY <2>1, <2>2, <2>4, <3>1 DEF TraceFields
  <2>5. CASE unread[r] = <<"state", "tickets">>
    <3>1. field = "state" /\ Tail(unread[r]) = <<"tickets">>
      BY <2>5
    <3> QED BY <2>1, <2>2, <2>5, <3>1 DEF TraceFields
  <2>6. CASE unread[r] = <<"tickets">>
    <3>1. field = "tickets" /\ Tail(unread[r]) = << >>
      BY <2>6
    <3> QED BY <2>1, <2>2, <2>6, <3>1 DEF TraceFields
  <2> QED BY <2>1, <2>3, <2>4, <2>5, <2>6
<1>18. ASSUME NEW r \in Readers, SendTrace(r) PROVE TraceInOrder'
  <2>1. unread[r] = << >> /\ UNCHANGED <<report, unread, state, tickets>>
    BY <1>18 DEF SendTrace, session, turn
  <2>2. \A u \in Readers : answer'[u] = "ok" => answer[u] = "ok" \/ u = r
    BY <1>18 DEF SendTrace
  <2> QED BY <2>1, <2>2
<1> QED BY <1>1, <1>2, <1>3, <1>4, <1>5, <1>6, <1>7, <1>8, <1>9, <1>10, <1>11, <1>12, <1>13, <1>14, <1>15, <1>16, <1>17, <1>18
          DEF Next, Step, MessageStep, TurnStep

-----------------------------------------------------------------------------
(* What a turn reports is its own doing.                                       *)

\* Before its turn, or without one, a writer has said and opened nothing.
Silent(t) == SaidIn(t) = {} /\ OpenedIn(t) = {}

BeforeTurn(t) == pc[t] \in {"new", "check", "lock", "mark", "note", "mark_note", "report_note"}

\* Since it was marked, the turn alone has spoken and opened tickets.
Alone(t) ==
  /\ before[t].messages <= Len(transcript) /\ before[t].tickets <= Len(tickets)
  /\ SaidSince(before[t].messages) = SaidIn(t)
  /\ OpenedSince(before[t].tickets) = OpenedIn(t)

\* A message is tagged over a message, never over a reply.
TagsMerchant ==
  /\ \A m \in Messages : Tagging(m) =>
       transcript # << >> /\ transcript[Len(transcript)].speaker = "merchant"
  /\ \A m \in Messages : pc[m] = "tag_write" => copied[m].speaker = "merchant"

\* The report is kept as it was made.
OwnTurn ==
  /\ before \in [Writers -> [messages : Nat, tickets : Nat]]
  /\ \A t \in Writers : BeforeTurn(t) => Silent(t)
  /\ \A t \in Writers : InTurn(t) /\ pc[t] # "mark" => Alone(t)
  /\ \A t \in Writers : answer[t] = "ok" =>
       pc[t] = "done" /\ report[t] = [replies |-> SaidIn(t), tickets |-> OpenedIn(t)]

\* A merchant's entry is no one's reply.
LEMMA HeardIsNotSaid ==
  ASSUME transcript \in Seq(Entries), NEW m \in Writers, NEW tongue \in Messages \cup {None},
         transcript' = Append(transcript, Entry("merchant", m, tongue)),
         Entry("merchant", m, tongue) \in Entries
  PROVE  /\ Len(transcript') = Len(transcript) + 1 /\ Len(transcript) \in Nat
         /\ transcript' # << >> /\ transcript'[Len(transcript')].speaker = "merchant"
         /\ \A t : SaidIn(t)' = SaidIn(t)
         /\ \A n : SaidSince(n)' = SaidSince(n)
<1> DEFINE last == Len(transcript) + 1
<1>1. /\ DOMAIN transcript = 1 .. Len(transcript) /\ DOMAIN transcript' = 1 .. last
      /\ Len(transcript) \in Nat /\ Len(transcript') = last /\ transcript' # << >>
      /\ \A i \in DOMAIN transcript : transcript'[i] = transcript[i]
      /\ transcript'[last].speaker = "merchant"
  BY AppendFacts DEF Entry
<1>2. \A i \in DOMAIN transcript' : i \in DOMAIN transcript \/ transcript'[i].speaker = "merchant"
  BY <1>1
<1>3. \A i \in DOMAIN transcript : i \in DOMAIN transcript'
  BY <1>1
<1>4. \A t : SaidIn(t)' = SaidIn(t)
  BY <1>1, <1>2, <1>3 DEF SaidIn
<1>5. \A n : SaidSince(n)' = SaidSince(n)
  BY <1>1, <1>2, <1>3 DEF SaidSince
<1> QED BY <1>1, <1>4, <1>5

\* Tagging writes a merchant's entry over a merchant's entry.
LEMMA TaggedIsNotSaid ==
  ASSUME transcript \in Seq(Entries), NEW x \in Entries, transcript # << >>,
         transcript' = [transcript EXCEPT ![Len(transcript)] = x],
         transcript[Len(transcript)].speaker = "merchant", x.speaker = "merchant"
  PROVE  /\ Len(transcript') = Len(transcript)
         /\ transcript' # << >> /\ transcript'[Len(transcript')].speaker = "merchant"
         /\ \A t : SaidIn(t)' = SaidIn(t)
         /\ \A n : SaidSince(n)' = SaidSince(n)
<1>1. Len(transcript) \in DOMAIN transcript
  OBVIOUS
<1>2. /\ DOMAIN transcript' = DOMAIN transcript /\ Len(transcript') = Len(transcript)
      /\ \A i \in DOMAIN transcript : i # Len(transcript) => transcript'[i] = transcript[i]
      /\ transcript'[Len(transcript)] = x
  BY <1>1, OverwriteFacts
<1>3. transcript' # << >>
  BY <1>1, <1>2
<1>4. \A t : SaidIn(t)' = SaidIn(t)
  BY <1>2 DEF SaidIn
<1>5. \A n : SaidSince(n)' = SaidSince(n)
  BY <1>2 DEF SaidSince
<1> QED BY <1>2, <1>3, <1>4, <1>5

\* What the turn of t says is said by t alone, after everything said before.
LEMMA SpokenIsOwn ==
  ASSUME transcript \in Seq(Entries), NEW who \in {"agent", "handoff"}, NEW t \in Writers,
         transcript' = Append(transcript, Entry(who, t, language)),
         Entry(who, t, language) \in Entries
  PROVE  /\ Len(transcript') = Len(transcript) + 1 /\ Len(transcript) \in Nat
         /\ \A u : u # t => SaidIn(u)' = SaidIn(u)
         /\ \A n \in Nat : n <= Len(transcript) /\ SaidSince(n) = SaidIn(t) =>
              SaidSince(n)' = SaidIn(t)'
<1> DEFINE last == Len(transcript) + 1
<1>1. /\ DOMAIN transcript = 1 .. Len(transcript) /\ DOMAIN transcript' = 1 .. last
      /\ Len(transcript) \in Nat /\ Len(transcript') = last
      /\ \A i \in DOMAIN transcript : transcript'[i] = transcript[i]
      /\ transcript'[last].speaker # "merchant" /\ transcript'[last].by = t
  BY AppendFacts DEF Entry
<1>2. DOMAIN transcript' = DOMAIN transcript \cup {last}
  BY <1>1
<1>3. \A u : u # t => SaidIn(u)' = SaidIn(u)
  BY <1>1, <1>2 DEF SaidIn
<1>4. SaidIn(t)' = SaidIn(t) \cup {last}
  BY <1>1, <1>2 DEF SaidIn
<1>5. ASSUME NEW n \in Nat, n <= Len(transcript)
      PROVE  SaidSince(n)' = SaidSince(n) \cup {last}
  <2>1. last > n
    BY <1>1, <1>5
  <2> HIDE DEF last
  <2> QED BY <1>1, <1>2, <2>1 DEF SaidSince
<1> QED BY <1>1, <1>3, <1>4, <1>5

\* A ticket the turn of t opens is t's, after all the tickets before.
LEMMA OpenedIsOwn ==
  ASSUME tickets \in Seq(Writers), NEW t \in Writers, tickets' = Append(tickets, t)
  PROVE  /\ Len(tickets') = Len(tickets) + 1 /\ Len(tickets) \in Nat
         /\ \A u : u # t => OpenedIn(u)' = OpenedIn(u)
         /\ \A n \in Nat : n <= Len(tickets) /\ OpenedSince(n) = OpenedIn(t) =>
              OpenedSince(n)' = OpenedIn(t)'
<1> DEFINE last == Len(tickets) + 1
<1>1. /\ DOMAIN tickets = 1 .. Len(tickets) /\ DOMAIN tickets' = 1 .. last
      /\ Len(tickets) \in Nat /\ Len(tickets') = last
      /\ \A i \in DOMAIN tickets : tickets'[i] = tickets[i]
      /\ tickets'[last] = t
  BY AppendFacts
<1>2. DOMAIN tickets' = DOMAIN tickets \cup {last}
  BY <1>1
<1>3. \A u : u # t => OpenedIn(u)' = OpenedIn(u)
  BY <1>1, <1>2 DEF OpenedIn
<1>4. OpenedIn(t)' = OpenedIn(t) \cup {last}
  BY <1>1, <1>2 DEF OpenedIn
<1>5. ASSUME NEW n \in Nat, n <= Len(tickets)
      PROVE  OpenedSince(n)' = OpenedSince(n) \cup {last}
  <2>1. last > n
    BY <1>1, <1>5
  <2> HIDE DEF last
  <2> QED BY <1>1, <1>2, <2>1 DEF OpenedSince
<1> QED BY <1>1, <1>3, <1>4, <1>5

\* A step that says, opens, marks and reports nothing.
Mute ==
  /\ UNCHANGED <<tickets, before>>
  /\ \A t \in Writers : report'[t] = report[t]
  /\ Len(transcript') >= Len(transcript)
  /\ \A t \in Writers : SaidIn(t)' = SaidIn(t)
  /\ \A n \in Nat : SaidSince(n)' = SaidSince(n)
  /\ \A t \in Writers : BeforeTurn(t)' => BeforeTurn(t)
  /\ \A t \in Writers : InTurn(t)' /\ pc'[t] # "mark" => InTurn(t) /\ pc[t] # "mark"
  /\ \A t \in Writers : answer'[t] = "ok" => answer[t] = "ok"
  /\ \A t \in Writers : pc[t] = "done" => pc'[t] = "done"

\* Such a step keeps every account of a turn.
LEMMA MuteKeeps ==
  ASSUME Types, Types', OwnTurn, Mute
  PROVE  /\ before' \in [Writers -> [messages : Nat, tickets : Nat]]
         /\ \A t \in Writers : BeforeTurn(t)' => Silent(t)'
         /\ \A t \in Writers : InTurn(t)' /\ pc'[t] # "mark" => Alone(t)'
         /\ \A t \in Writers : answer'[t] = "ok" =>
              pc'[t] = "done" /\ report'[t] = [replies |-> SaidIn(t)', tickets |-> OpenedIn(t)']
<1>1. /\ \A t \in Writers : OpenedIn(t)' = OpenedIn(t)
      /\ \A n : OpenedSince(n)' = OpenedSince(n)
      /\ Len(tickets') = Len(tickets)
  BY DEF Mute, OpenedIn, OpenedSince
<1>2. \A t \in Writers : BeforeTurn(t)' => Silent(t)'
  BY <1>1 DEF Mute, OwnTurn, Silent
<1>3. ASSUME NEW t \in Writers, InTurn(t)', pc'[t] # "mark" PROVE Alone(t)'
  <2>1. Alone(t) /\ before'[t] = before[t] /\ before[t].messages \in Nat
    BY <1>3 DEF Mute, OwnTurn
  <2>2. PICK n \in Nat : n = before[t].messages
    BY <2>1
  <2>3. Len(transcript) \in Nat /\ Len(transcript') \in Nat
    BY DEF Types
  <2>4. n <= Len(transcript')
    BY <2>1, <2>2, <2>3 DEF Mute, Alone
  <2>5. SaidSince(n)' = SaidIn(t)'
    BY <2>1, <2>2 DEF Mute, Alone
  <2>6. before'[t].messages = n
    BY <2>1, <2>2
  <2>7. /\ before'[t].tickets <= Len(tickets')
        /\ OpenedSince(before[t].tickets)' = OpenedIn(t)'
    BY <1>1, <2>1 DEF Alone, Mute
  <2> QED BY <2>1, <2>2, <2>4, <2>5, <2>6, <2>7 DEF Alone
<1>4. ASSUME NEW t \in Writers, answer'[t] = "ok"
      PROVE  pc'[t] = "done" /\ report'[t] = [replies |-> SaidIn(t)', tickets |-> OpenedIn(t)']
  BY <1>1, <1>4 DEF Mute, OwnTurn
<1> QED BY <1>2, <1>3, <1>4 DEF Mute, OwnTurn

\* A step that leaves the transcript as it is says nothing.
LEMMA UnsaidSame ==
  ASSUME UNCHANGED transcript
  PROVE  /\ Len(transcript') = Len(transcript)
         /\ \A t : SaidIn(t)' = SaidIn(t)
         /\ \A n : SaidSince(n)' = SaidSince(n)
  BY DEF SaidIn, SaidSince

\* A step of the turn of t, which says or opens something and is not over yet.
Acting(t) ==
  /\ InTurn(t) /\ pc[t] # "mark"
  /\ \E label \in {"decide", "announce", "report"} : pc' = [pc EXCEPT ![t] = label]
  /\ UNCHANGED <<answer, before, report>>
  /\ \A u \in Writers \ {t} : SaidIn(u)' = SaidIn(u) /\ OpenedIn(u)' = OpenedIn(u)
  /\ Alone(t)'

\* Such a step keeps its own account, and those of the others, who are not at it.
LEMMA ActingKeeps ==
  ASSUME Types, LockMeansTurn, OwnTurn, NEW t \in Writers, Acting(t)
  PROVE  OwnTurn'
<1> USE DEF Types, Threads
<1>1. \A u \in Writers \ {t} : pc'[u] = pc[u] /\ ~ InTurn(u)
  BY DEF Acting, LockMeansTurn
<1>2. pc'[t] \in {"decide", "announce", "report"} /\ answer[t] # "ok"
  <2>1. pc[t] # "done"
    BY DEF Acting, InTurn
  <2> QED BY <2>1 DEF Acting, OwnTurn
<1>3. \A u \in Writers : BeforeTurn(u)' => Silent(u)'
  BY <1>1, <1>2 DEF Acting, OwnTurn, BeforeTurn, Silent
<1>4. \A u \in Writers : InTurn(u)' /\ pc'[u] # "mark" => Alone(u)'
  BY <1>1 DEF Acting, InTurn
<1>5. \A u \in Writers : answer'[u] = "ok" =>
        pc'[u] = "done" /\ report'[u] = [replies |-> SaidIn(u)', tickets |-> OpenedIn(u)']
  BY <1>1, <1>2 DEF Acting, OwnTurn
<1> QED BY <1>3, <1>4, <1>5 DEF OwnTurn, Acting

\* Only the turn speaks, and it does not speak while its message is being tagged.
LEMMA StepTags == Types /\ LockMeansTurn /\ TagsMerchant /\ Next => TagsMerchant'
<1> SUFFICES ASSUME Types, LockMeansTurn, TagsMerchant, Next PROVE TagsMerchant'
  OBVIOUS
<1> USE LiveAssumption DEF Types, TagsMerchant, Tagging, Goto, Answer, Threads, Writers
<1>a. ASSUME NEW m \in Messages, NEW tongue \in Messages \cup {None}
      PROVE  Entry("merchant", m, tongue) \in Entries
  BY DEF Entry, Entries
<1>1. CASE Evict
  BY <1>1 DEF Evict, session, turn
<1>2. CASE AllDone
  BY <1>2 DEF AllDone, vars, session, turn
<1>3. ASSUME NEW t \in Threads, Arrive(t) PROVE TagsMerchant'
  BY <1>3, ArriveFacts DEF session, turn
<1>4. ASSUME NEW m \in Messages, Check(m) PROVE TagsMerchant'
  BY <1>4 DEF Check, session, turn
<1>5. ASSUME NEW m \in Messages, Note(m) PROVE TagsMerchant'
  <2>1. transcript' # << >> /\ transcript'[Len(transcript')].speaker = "merchant"
    BY <1>5, <1>a, HeardIsNotSaid DEF Note
  <2> QED BY <1>5, <2>1 DEF Note, turn
<1>6. ASSUME NEW m \in Messages, Hear(m) PROVE TagsMerchant'
  <2>1. transcript' # << >> /\ transcript'[Len(transcript')].speaker = "merchant"
    BY <1>6, <1>a, HeardIsNotSaid DEF Hear
  <2> QED BY <1>6, <2>1 DEF Hear, turn
<1>7. ASSUME NEW m \in Messages, Classify(m) PROVE TagsMerchant'
  BY <1>7 DEF Classify, session, turn
<1>8. ASSUME NEW m \in Messages, TagRead(m) PROVE TagsMerchant'
  BY <1>8 DEF TagRead, session
<1>9. ASSUME NEW m \in Messages, TagWrite(m) PROVE TagsMerchant'
  <2>1. \A u \in Messages : ~ Tagging(u)'
    BY <1>9 DEF TagWrite, LockMeansTurn, InTurn
  <2> QED BY <2>1
<1>10. ASSUME NEW t \in Writers, Lock(t) PROVE TagsMerchant'
  BY <1>10 DEF Lock, session, turn
<1>11. ASSUME NEW t \in Writers, Mark(t) PROVE TagsMerchant'
  BY <1>11 DEF Mark, session
<1>12. ASSUME NEW t \in Writers, Decide(t) PROVE TagsMerchant'
  BY <1>12 DEF Decide, session, turn
<1>13. ASSUME NEW t \in Writers, Say(t) \/ OpenTicket(t) \/ Announce(t) PROVE TagsMerchant'
  <2>1. \A u \in Messages : ~ Tagging(u)'
    BY <1>13 DEF Say, OpenTicket, Announce, LockMeansTurn, InTurn
  <2> QED BY <2>1
<1>14. ASSUME NEW t \in Writers, Report(t) PROVE TagsMerchant'
  BY <1>14 DEF Report, session
<1>15. ASSUME NEW r \in Readers, ReadField(r) PROVE TagsMerchant'
  BY <1>15 DEF ReadField, session
<1>16. ASSUME NEW r \in Readers, SendTrace(r) PROVE TagsMerchant'
  BY <1>16 DEF SendTrace, session, turn
<1> QED BY <1>1, <1>2, <1>3, <1>4, <1>5, <1>6, <1>7, <1>8, <1>9, <1>10, <1>11, <1>12, <1>13, <1>14, <1>15, <1>16
          DEF Next, Step, MessageStep, TurnStep

\* Every account of a turn survives every step.
LEMMA StepOwn ==
  Types /\ Types' /\ LockMeansTurn /\ TagsMerchant /\ OwnTurn /\ Next => OwnTurn'
<1> SUFFICES ASSUME Types, Types', LockMeansTurn, TagsMerchant, OwnTurn, Next PROVE OwnTurn'
  OBVIOUS
<1> USE LiveAssumption DEF Goto, Answer, Threads, Writers
<1>a. Mute => OwnTurn'
  BY MuteKeeps DEF OwnTurn
<1>b. DOMAIN pc = Threads /\ DOMAIN answer = Threads /\ DOMAIN report = Threads
  BY DEF Types
<1>c. /\ transcript \in Seq(Entries) /\ tickets \in Seq(Writers)
      /\ Len(transcript) \in Nat /\ Len(tickets) \in Nat
  BY DEF Types
<1>d. /\ language \in Messages \cup {None}
      /\ \A m \in Messages, tongue \in Messages \cup {None} : Entry("merchant", m, tongue) \in Entries
      /\ \A t \in Writers : Entry("agent", t, language) \in Entries /\ Entry("handoff", t, language) \in Entries
  BY DEF Types, Entry, Entries
<1>e. UNCHANGED transcript =>
        /\ Len(transcript') >= Len(transcript)
        /\ \A t \in Writers : SaidIn(t)' = SaidIn(t)
        /\ \A n \in Nat : SaidSince(n)' = SaidSince(n)
  BY <1>c, UnsaidSame
<1>1. CASE Evict
  BY <1>1, <1>a, <1>e DEF Evict, Mute, session, turn, InTurn, BeforeTurn
<1>2. CASE AllDone
  BY <1>2, <1>a, <1>e DEF AllDone, Mute, vars, session, turn, InTurn, BeforeTurn
<1>3. ASSUME NEW t \in Threads, Arrive(t) PROVE OwnTurn'
  BY <1>3, <1>a, <1>b, <1>e, ArriveFacts DEF Mute, session, turn, InTurn, BeforeTurn
<1>4. ASSUME NEW m \in Messages, Check(m) PROVE OwnTurn'
  BY <1>4, <1>a, <1>b, <1>e DEF Check, Mute, session, turn, InTurn, BeforeTurn
<1>5. ASSUME NEW m \in Messages, Note(m) \/ Hear(m) PROVE OwnTurn'
  <2>1. PICK tongue \in Messages \cup {None} : transcript' = Append(transcript, Entry("merchant", m, tongue))
    BY <1>d, <1>5 DEF Note, Hear
  <2>2. /\ Len(transcript') >= Len(transcript)
        /\ \A t \in Writers : SaidIn(t)' = SaidIn(t)
        /\ \A n \in Nat : SaidSince(n)' = SaidSince(n)
    BY <1>c, <1>d, <2>1, HeardIsNotSaid
  <2> QED BY <1>5, <1>a, <1>b, <2>2 DEF Note, Hear, Mute, turn, InTurn, BeforeTurn
<1>6. ASSUME NEW m \in Messages, Classify(m) PROVE OwnTurn'
  BY <1>6, <1>a, <1>b, <1>e DEF Classify, Mute, session, turn, InTurn, BeforeTurn
<1>7. ASSUME NEW m \in Messages, TagRead(m) PROVE OwnTurn'
  BY <1>7, <1>a, <1>b, <1>e DEF TagRead, Mute, session, InTurn, BeforeTurn
<1>8. ASSUME NEW m \in Messages, TagWrite(m) PROVE OwnTurn'
  <2> DEFINE x == [copied[m] EXCEPT !.language = m]
  <2>1. copied[m] \in Entries /\ copied[m].speaker = "merchant"
    BY <1>8 DEF TagWrite, Types, TagsMerchant
  <2>2. x \in Entries /\ x.speaker = "merchant"
    BY <2>1 DEF Entries
  <2>3. /\ transcript # << >> /\ transcript[Len(transcript)].speaker = "merchant"
        /\ transcript' = [transcript EXCEPT ![Len(transcript)] = x]
    BY <1>8 DEF TagWrite, TagsMerchant, Tagging
  <2> HIDE DEF x
  <2>4. /\ Len(transcript') >= Len(transcript)
        /\ \A t \in Writers : SaidIn(t)' = SaidIn(t)
        /\ \A n \in Nat : SaidSince(n)' = SaidSince(n)
    <3>1. /\ Len(transcript') = Len(transcript)
          /\ \A t : SaidIn(t)' = SaidIn(t)
          /\ \A n : SaidSince(n)' = SaidSince(n)
      BY <1>c, <2>2, <2>3, TaggedIsNotSaid
    <3> QED BY <1>c, <3>1
  <2> QED BY <1>8, <1>a, <1>b, <2>4 DEF TagWrite, Mute, InTurn, BeforeTurn
<1>9. ASSUME NEW t \in Writers, Lock(t) \/ Decide(t) PROVE OwnTurn'
  BY <1>9, <1>a, <1>b, <1>e DEF Lock, Decide, Mute, session, turn, InTurn, BeforeTurn
<1>10. ASSUME NEW t \in Writers, Mark(t) PROVE OwnTurn'
  <2> DEFINE mark == [messages |-> Len(transcript), tickets |-> Len(tickets)]
  <2>1. /\ before' = [before EXCEPT ![t] = mark] /\ UNCHANGED <<transcript, tickets, report, answer>>
        /\ pc[t] \in {"mark", "mark_note"}
        /\ \E label \in {"report_note", "hear", "decide"} : pc' = [pc EXCEPT ![t] = label]
        /\ pc[t] = "mark_note" => pc'[t] = "report_note"
    BY <1>10, <1>b DEF Mark, session
  <2>2. Silent(t) /\ answer[t] # "ok"
    BY <2>1 DEF OwnTurn, BeforeTurn
  <2>3. mark \in [messages : Nat, tickets : Nat] /\ before \in [Writers -> [messages : Nat, tickets : Nat]]
    BY <1>c DEF OwnTurn
  <2>4. before' \in [Writers -> [messages : Nat, tickets : Nat]] /\ before'[t] = mark
    BY <2>1, <2>3
  <2>5. /\ \A u : SaidIn(u)' = SaidIn(u) /\ OpenedIn(u)' = OpenedIn(u)
        /\ \A n : SaidSince(n)' = SaidSince(n) /\ OpenedSince(n)' = OpenedSince(n)
    BY <2>1 DEF SaidIn, OpenedIn, SaidSince, OpenedSince
  <2>6. Alone(t)'
    <3>1. SaidSince(Len(transcript)) = {} /\ OpenedSince(Len(tickets)) = {}
      BY <1>c DEF SaidSince, OpenedSince
    <3>2. /\ before'[t].messages = Len(transcript) /\ before'[t].tickets = Len(tickets)
          /\ Len(transcript') = Len(transcript) /\ Len(tickets') = Len(tickets)
      BY <2>1, <2>4
    <3>3. /\ before'[t].messages <= Len(transcript') /\ before'[t].tickets <= Len(tickets')
      BY <1>c, <3>2
    <3>4. /\ SaidSince(before[t].messages)' = SaidIn(t)'
          /\ OpenedSince(before[t].tickets)' = OpenedIn(t)'
      BY <2>1, <2>2, <3>1, <3>2 DEF Silent, SaidSince, SaidIn, OpenedSince, OpenedIn
    <3> QED BY <3>3, <3>4 DEF Alone
  <2>7. \A u \in Writers : BeforeTurn(u)' => Silent(u)'
    BY <1>b, <2>1, <2>2, <2>5 DEF OwnTurn, BeforeTurn, Silent
  <2>8. ASSUME NEW u \in Writers, InTurn(u)', pc'[u] # "mark", u # t PROVE Alone(u)'
    <3>1. InTurn(u) /\ pc[u] # "mark" /\ before'[u] = before[u]
      BY <1>b, <2>1, <2>3, <2>8 DEF InTurn
    <3>2. Alone(u)
      BY <3>1 DEF OwnTurn
    <3> QED BY <2>1, <3>1, <3>2 DEF Alone, SaidSince, SaidIn, OpenedSince, OpenedIn
  <2>9. \A u \in Writers : answer'[u] = "ok" =>
          pc'[u] = "done" /\ report'[u] = [replies |-> SaidIn(u)', tickets |-> OpenedIn(u)']
    BY <1>b, <2>1, <2>2, <2>5 DEF OwnTurn
  <2> QED BY <2>4, <2>6, <2>7, <2>8, <2>9 DEF OwnTurn
<1>11. ASSUME NEW t \in Writers, NEW who \in {"agent", "handoff"}, pc[t] \in {"say", "say_last", "announce"},
              transcript' = Append(transcript, Entry(who, t, language)),
              \E label \in {"decide", "report"} : pc' = [pc EXCEPT ![t] = label],
              UNCHANGED <<answer, before, report, tickets>>
       PROVE  OwnTurn'
  <2>1. InTurn(t) /\ pc[t] # "mark" /\ Alone(t)
    BY <1>11 DEF InTurn, OwnTurn
  <2>2. /\ Len(transcript') = Len(transcript) + 1
        /\ \A u : u # t => SaidIn(u)' = SaidIn(u)
        /\ \A n \in Nat : n <= Len(transcript) /\ SaidSince(n) = SaidIn(t) =>
             SaidSince(n)' = SaidIn(t)'
    BY <1>11, <1>c, <1>d, SpokenIsOwn
  <2>3. PICK n \in Nat : n = before[t].messages
    BY DEF OwnTurn
  <2>4. before'[t].messages = n /\ n <= Len(transcript') /\ SaidSince(n)' = SaidIn(t)'
    <3>1. n <= Len(transcript) /\ SaidSince(n) = SaidIn(t)
      BY <2>1, <2>3 DEF Alone
    <3>2. n <= Len(transcript')
      BY <1>c, <2>2, <3>1
    <3>3. before'[t] = before[t]
      BY <1>11
    <3> QED BY <2>2, <2>3, <3>1, <3>2, <3>3
  <2>5. /\ \A u : OpenedIn(u)' = OpenedIn(u)
        /\ before'[t].tickets <= Len(tickets')
        /\ OpenedSince(before[t].tickets)' = OpenedIn(t)'
    BY <1>11, <2>1 DEF Alone, OpenedIn, OpenedSince
  <2>6. Alone(t)'
    BY <2>4, <2>5 DEF Alone, SaidSince
  <2>7. Acting(t)
    BY <1>11, <2>1, <2>2, <2>5, <2>6 DEF Acting
  <2> QED BY <2>7, ActingKeeps
<1>12. ASSUME NEW t \in Writers, Say(t) PROVE OwnTurn'
  BY <1>11, <1>12 DEF Say, turn
<1>13. ASSUME NEW t \in Writers, Announce(t) PROVE OwnTurn'
  BY <1>11, <1>13 DEF Announce, turn
<1>14. ASSUME NEW t \in Writers, OpenTicket(t) PROVE OwnTurn'
  <2>1. InTurn(t) /\ pc[t] # "mark" /\ Alone(t)
    BY <1>14 DEF OpenTicket, InTurn, OwnTurn
  <2>2. /\ Len(tickets') = Len(tickets) + 1
        /\ \A u : u # t => OpenedIn(u)' = OpenedIn(u)
        /\ \A n \in Nat : n <= Len(tickets) /\ OpenedSince(n) = OpenedIn(t) =>
             OpenedSince(n)' = OpenedIn(t)'
    BY <1>14, <1>c, OpenedIsOwn DEF OpenTicket
  <2>3. PICK n \in Nat : n = before[t].tickets
    BY DEF OwnTurn
  <2>4. before'[t].tickets = n /\ n <= Len(tickets') /\ OpenedSince(n)' = OpenedIn(t)'
    <3>1. n <= Len(tickets) /\ OpenedSince(n) = OpenedIn(t)
      BY <2>1, <2>3 DEF Alone
    <3>2. n <= Len(tickets')
      BY <1>c, <2>2, <3>1
    <3>3. before'[t] = before[t]
      BY <1>14 DEF OpenTicket, turn
    <3> QED BY <2>2, <2>3, <3>1, <3>2, <3>3
  <2>5. /\ \A u : SaidIn(u)' = SaidIn(u)
        /\ before'[t].messages <= Len(transcript')
        /\ SaidSince(before[t].messages)' = SaidIn(t)'
    BY <1>14, <2>1 DEF OpenTicket, turn, Alone, SaidIn, SaidSince
  <2>6. Alone(t)'
    BY <2>4, <2>5 DEF Alone, OpenedSince
  <2>7. Acting(t)
    BY <1>14, <2>1, <2>2, <2>5, <2>6 DEF Acting, OpenTicket, turn
  <2> QED BY <2>7, ActingKeeps
<1>15. ASSUME NEW t \in Writers, Report(t) PROVE OwnTurn'
  <2>1. /\ pc[t] \in {"report", "report_note"} /\ pc' = [pc EXCEPT ![t] = "done"]
        /\ UNCHANGED <<transcript, tickets>>
        /\ before' = [before EXCEPT ![t] = Outside]
        /\ \A u \in Writers \ {t} : report'[u] = report[u] /\ answer'[u] = answer[u]
        /\ report'[t] = [replies |-> SaidSince(before[t].messages),
                         tickets |-> OpenedSince(before[t].tickets)]
        /\ answer'[t] = "ok" => answer[t] = "ok" \/ pc[t] = "report"
    BY <1>15, <1>b DEF Report, Reported, session
  <2>2. answer[t] # "ok"
    BY <2>1 DEF OwnTurn
  <2>3. /\ \A u : SaidIn(u)' = SaidIn(u) /\ OpenedIn(u)' = OpenedIn(u)
        /\ \A n : SaidSince(n)' = SaidSince(n) /\ OpenedSince(n)' = OpenedSince(n)
    BY <2>1 DEF SaidIn, OpenedIn, SaidSince, OpenedSince
  <2>4. before' \in [Writers -> [messages : Nat, tickets : Nat]]
    <3>1. Outside \in [messages : Nat, tickets : Nat]
      BY DEF Outside
    <3> QED BY <2>1, <3>1 DEF OwnTurn
  <2>5. \A u \in Writers : BeforeTurn(u)' => Silent(u)'
    BY <1>b, <2>1, <2>3 DEF OwnTurn, BeforeTurn, Silent
  <2>6. ASSUME NEW u \in Writers, InTurn(u)', pc'[u] # "mark" PROVE Alone(u)'
    <3>1. u # t
      BY <1>b, <2>1, <2>6 DEF InTurn
    <3>2. InTurn(u) /\ pc[u] # "mark" /\ before'[u] = before[u]
      BY <1>b, <2>1, <2>6, <3>1 DEF InTurn, OwnTurn
    <3>3. Alone(u)
      BY <3>2 DEF OwnTurn
    <3> QED BY <2>1, <3>2, <3>3 DEF Alone, SaidSince, SaidIn, OpenedSince, OpenedIn
  <2>7. answer'[t] = "ok" =>
          pc'[t] = "done" /\ report'[t] = [replies |-> SaidIn(t)', tickets |-> OpenedIn(t)']
    <3>1. pc[t] = "report" => Alone(t)
      BY DEF OwnTurn, InTurn
    <3> QED BY <1>b, <2>1, <2>2, <2>3, <3>1 DEF Alone
  <2>8. \A u \in Writers \ {t} : answer'[u] = "ok" =>
          pc'[u] = "done" /\ report'[u] = [replies |-> SaidIn(u)', tickets |-> OpenedIn(u)']
    BY <1>b, <2>1, <2>3 DEF OwnTurn
  <2> QED BY <2>4, <2>5, <2>6, <2>7, <2>8 DEF OwnTurn
<1>16. ASSUME NEW r \in Readers, ReadField(r) PROVE OwnTurn'
  BY <1>16, <1>a, <1>b, <1>e DEF ReadField, Mute, session, InTurn, BeforeTurn
<1>17. ASSUME NEW r \in Readers, SendTrace(r) PROVE OwnTurn'
  BY <1>17, <1>a, <1>b, <1>e DEF SendTrace, Mute, session, turn, InTurn, BeforeTurn
<1> QED BY <1>1, <1>2, <1>3, <1>4, <1>5, <1>6, <1>7, <1>8, <1>9, <1>10, <1>12, <1>13, <1>14, <1>15, <1>16, <1>17
          DEF Next, Step, MessageStep, TurnStep

-----------------------------------------------------------------------------

IInv == /\ Types /\ LockMeansTurn /\ Kept /\ OpenInOrder /\ Languages
        /\ CauseBeforeEffect /\ TraceInOrder /\ TagsMerchant /\ OwnTurn

\* At the start nothing has been heard, opened, announced or read.
LEMMA InitInductive == Init => IInv
<1> SUFFICES ASSUME Init PROVE IInv
  OBVIOUS
<1> USE LiveAssumption DEF Init, Threads, Writers
<1>1. Types
  BY DEF Types, Tagging
<1>2. LockMeansTurn /\ Kept
  BY DEF LockMeansTurn, InTurn, Kept, Heard, PastHearing, Tagging
<1>3. OpenInOrder
  BY DEF OpenInOrder, Noting, Tagging
<1>l. Languages
  BY DEF Languages
<1>4. CauseBeforeEffect
  BY DEF CauseBeforeEffect, Announced
<1>5. TraceInOrder
  BY DEF TraceInOrder, Shown
<1>6. TagsMerchant
  BY DEF TagsMerchant, Tagging
<1>7. OwnTurn
  <2>1. before \in [Writers -> [messages : Nat, tickets : Nat]]
    BY DEF Outside
  <2>2. \A t \in Writers : Silent(t)
    BY DEF Silent, SaidIn, OpenedIn
  <2> QED BY <2>1, <2>2 DEF OwnTurn, InTurn
<1> QED BY <1>1, <1>2, <1>3, <1>l, <1>4, <1>5, <1>6, <1>7 DEF IInv

\* Each part of the invariant survives each step, with the parts it leans on.
LEMMA StepInductive == IInv /\ [Next]_vars => IInv'
<1>1. ASSUME IInv, Next PROVE IInv'
  BY <1>1, StepTypes, StepLock, StepKept, StepOpen, StepLanguages, StepCause, StepTrace,
     StepTags, StepOwn DEF IInv
<1>2. ASSUME IInv, UNCHANGED vars PROVE IInv'
  <2> USE <1>2 DEF vars, session, turn
  <2>1. Types' /\ LockMeansTurn' /\ Kept' /\ OpenInOrder'
    BY DEF IInv, Types, LockMeansTurn, InTurn, Kept, TagPosition, IsMessage, Heard,
       PastHearing, Recorded, Tagging, OpenInOrder, Noting, Unheard
  <2>l. Languages'
    BY DEF IInv, Languages, InLanguageOf, PastTagging, Recorded, IsMessage
  <2>2. CauseBeforeEffect' /\ TraceInOrder'
    BY DEF IInv, CauseBeforeEffect, Announced, TraceInOrder, Shown
  <2>3. TagsMerchant'
    BY DEF IInv, TagsMerchant, Tagging
  <2>4. \A t : /\ Silent(t)' <=> Silent(t)
               /\ Alone(t)' <=> Alone(t)
               /\ InTurn(t)' <=> InTurn(t)
               /\ BeforeTurn(t)' <=> BeforeTurn(t)
               /\ SaidIn(t)' = SaidIn(t) /\ OpenedIn(t)' = OpenedIn(t)
    BY DEF Silent, Alone, InTurn, BeforeTurn, SaidIn, SaidSince, OpenedIn, OpenedSince
  <2>5. OwnTurn'
    BY <2>4 DEF IInv, OwnTurn
  <2> QED BY <2>1, <2>l, <2>2, <2>3, <2>5 DEF IInv
<1> QED BY <1>1, <1>2

\* The lock, the transcript and what readers have seen are in order in every
\* reachable state.
THEOREM Inductive == Spec => []IInv
  BY InitInductive, StepInductive, PTL DEF Spec

\* A message the agent has heard stays on the transcript; in an open session it is there
\* once, in its own language once tagged, and until then in that of none after it.
THEOREM HeardMessages == Spec => []HeardMessagesAreKept
<1>1. IInv => HeardMessagesAreKept
  BY DEF IInv, Kept, OpenInOrder, Languages, InLanguageOf, Heard, HeardMessagesAreKept
<1> QED BY Inductive, <1>1, PTL

\* A trace shows an announced handoff only with its decision, state and ticket.
THEOREM TraceOrder == Spec => []TraceShowsCauseWithEffect
<1>1. IInv => TraceShowsCauseWithEffect
  <2> SUFFICES ASSUME IInv, NEW r \in Readers, answer[r] = "ok"
               PROVE  /\ "transcript" \in report[r] =>
                           {"history", "state", "tickets"} \subseteq report[r]
                      /\ "history" \in report[r] => "state" \in report[r]
    BY DEF TraceShowsCauseWithEffect
  <2>1. TraceInOrder
    BY DEF IInv
  <2>2. unread[r] = << >>
    BY <2>1 DEF TraceInOrder
  <2>3. unread[r] # TraceFields
    BY <2>2 DEF TraceFields
  <2>4. /\ Shown(r, "transcript") => Shown(r, "history") /\ Shown(r, "tickets")
        /\ Shown(r, "history") => Shown(r, "state")
    BY <2>1, <2>2, <2>3 DEF TraceInOrder
  <2> QED BY <2>4 DEF Shown
<1> QED BY Inductive, <1>1, PTL

\* What an answer shows as the turn's doing is all of the turn's doing, and only it.
THEOREM OwnReport == Spec => []ReportIsOwnTurn
<1>1. IInv => ReportIsOwnTurn
  BY DEF IInv, OwnTurn, ReportIsOwnTurn
<1> QED BY Inductive, <1>1, PTL
=============================================================================
