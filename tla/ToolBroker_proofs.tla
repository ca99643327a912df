-------------------------- MODULE ToolBroker_proofs --------------------------
(* At most one side effect per key, and the refinement of CaptainDesk, for any *)
(* epochs, any retry cap and any number of calls.                              *)
EXTENDS ToolBroker, TLAPS

\* The store knows what the backend has done; a call that has not passed its
\* lookup, or has and is still to act, has made no side effect; one that acts does
\* so under a key without one, and one past acting has one.
StoreMatchesBackend ==
  /\ cache = KeysOf(backend)
  /\ committed <= Len(backend)
  /\ pc \in {"check", "lookup", "act"} => committed = Len(backend)
  /\ pc = "act" => key \notin cache
  /\ pc = "confirm" => key \in cache

\* Where the call is, it has a number of tries left, and has not reported.
CallProgress ==
  /\ pc \in {"check", "lookup"} => tries = 0
  /\ pc = "act" => tries < RetryCap
  /\ pc # "idle" => outcome = None

IInv == TypeOK /\ StoreMatchesBackend /\ CallProgress /\ AtMostOneEffectPerKey

\* The keys of a sequence with one more.
LEMMA KeysOfAppend ==
  ASSUME NEW S, NEW seq \in Seq(S), NEW k \in S
  PROVE  KeysOf(Append(seq, k)) = KeysOf(seq) \cup {k}
<1>1. /\ Append(seq, k) \in Seq(S) /\ Len(seq) \in Nat
      /\ DOMAIN Append(seq, k) = 1 .. Len(seq) + 1 /\ DOMAIN seq = 1 .. Len(seq)
      /\ Append(seq, k)[Len(seq) + 1] = k
      /\ \A i \in 1 .. Len(seq) : Append(seq, k)[i] = seq[i]
  OBVIOUS
<1>2. ASSUME NEW x \in KeysOf(Append(seq, k)) PROVE x \in KeysOf(seq) \cup {k}
  <2>1. PICK i \in 1 .. Len(seq) + 1 : x = Append(seq, k)[i]
    BY <1>1 DEF KeysOf
  <2>2. CASE i = Len(seq) + 1
    BY <1>1, <2>1, <2>2
  <2>3. CASE i \in 1 .. Len(seq)
    BY <1>1, <2>1, <2>3 DEF KeysOf
  <2> QED BY <1>1, <2>1, <2>2, <2>3
<1>3. ASSUME NEW x \in KeysOf(seq) \cup {k} PROVE x \in KeysOf(Append(seq, k))
  <2>1. CASE x = k
    BY <1>1, <2>1 DEF KeysOf
  <2>2. CASE x \in KeysOf(seq)
    <3>1. PICK i \in 1 .. Len(seq) : x = seq[i]
      BY <1>1, <2>2 DEF KeysOf
    <3> QED BY <1>1, <3>1 DEF KeysOf
  <2> QED BY <2>1, <2>2
<1> QED BY <1>2, <1>3

\* A key the sequence does not have keeps it free of repetitions.
LEMMA AppendNewKey ==
  ASSUME NEW S, NEW seq \in Seq(S), NEW k \in S, k \notin KeysOf(seq),
         \A i, j \in DOMAIN seq : seq[i] = seq[j] => i = j
  PROVE  LET longer == Append(seq, k)
         IN  \A i, j \in DOMAIN longer : longer[i] = longer[j] => i = j
<1>1. /\ Len(seq) \in Nat
      /\ DOMAIN Append(seq, k) = 1 .. Len(seq) + 1 /\ DOMAIN seq = 1 .. Len(seq)
      /\ Append(seq, k)[Len(seq) + 1] = k
      /\ \A i \in 1 .. Len(seq) : Append(seq, k)[i] = seq[i]
  OBVIOUS
<1>2. \A i \in 1 .. Len(seq) : seq[i] # k
  BY <1>1 DEF KeysOf
<1> QED BY <1>1, <1>2

-----------------------------------------------------------------------------

LEMMA InitInductive == Init => IInv
<1> SUFFICES ASSUME Init PROVE IInv
  OBVIOUS
<1>1. TypeOK
  BY BrokerAssumption DEF Init, TypeOK
<1>2. StoreMatchesBackend /\ CallProgress /\ AtMostOneEffectPerKey
  BY DEF Init, StoreMatchesBackend, CallProgress, AtMostOneEffectPerKey, KeysOf
<1> QED BY <1>1, <1>2 DEF IInv

LEMMA StepTypes == TypeOK /\ CallProgress /\ Next => TypeOK'
<1> SUFFICES ASSUME TypeOK, CallProgress, Next PROVE TypeOK'
  OBVIOUS
<1> USE BrokerAssumption DEF TypeOK, CallProgress
<1>1. ASSUME NEW k \in Keys, Submit(k) PROVE TypeOK'
  BY <1>1 DEF Submit
<1>2. CASE Check
  BY <1>2 DEF Check, Report, Outcomes
<1>3. CASE Lookup
  BY <1>3 DEF Lookup
<1>4. CASE Commit
  <2>1. backend' \in Seq(Keys) /\ cache' \subseteq Keys
    BY <1>4 DEF Commit
  <2> QED BY <1>4, <2>1 DEF Commit
<1>5. CASE Fail
  BY <1>5 DEF Fail, Report, Outcomes, RetriesLeft
<1>6. CASE Confirm
  BY <1>6 DEF Confirm, Report, Outcomes
<1> QED BY <1>1, <1>2, <1>3, <1>4, <1>5, <1>6 DEF Next, ToolStep

LEMMA StepProgress == TypeOK /\ CallProgress /\ Next => CallProgress'
<1> SUFFICES ASSUME TypeOK, CallProgress, Next PROVE CallProgress'
  OBVIOUS
<1> USE BrokerAssumption DEF TypeOK, CallProgress
<1>1. ASSUME NEW k \in Keys, Submit(k) PROVE CallProgress'
  BY <1>1 DEF Submit
<1>2. CASE Check
  BY <1>2 DEF Check, Report
<1>3. CASE Lookup
  BY <1>3 DEF Lookup
<1>4. CASE Commit
  BY <1>4 DEF Commit
<1>5. CASE Fail
  BY <1>5 DEF Fail, Report, RetriesLeft
<1>6. CASE Confirm
  BY <1>6 DEF Confirm, Report
<1> QED BY <1>1, <1>2, <1>3, <1>4, <1>5, <1>6 DEF Next, ToolStep

LEMMA StepStore == IInv /\ Next => StoreMatchesBackend' /\ AtMostOneEffectPerKey'
<1> SUFFICES ASSUME IInv, Next PROVE StoreMatchesBackend' /\ AtMostOneEffectPerKey'
  OBVIOUS
<1> USE DEF IInv, StoreMatchesBackend, AtMostOneEffectPerKey
<1>1. ASSUME NEW k \in Keys, Submit(k) PROVE StoreMatchesBackend' /\ AtMostOneEffectPerKey'
  BY <1>1 DEF Submit, TypeOK
<1>2. CASE Check
  BY <1>2 DEF Check, Report
<1>3. CASE Lookup
  BY <1>3 DEF Lookup
<1>4. CASE Commit
  <2>1. /\ key \in Keys /\ backend \in Seq(Keys) /\ key \notin KeysOf(backend)
        /\ backend' = Append(backend, key)
    BY <1>4 DEF Commit, TypeOK
  <2>2. KeysOf(backend)' = KeysOf(backend) \cup {key}
    BY <2>1, KeysOfAppend DEF KeysOf
  <2>3. Len(backend') = Len(backend) + 1 /\ Len(backend) \in Nat
    BY <2>1
  <2>4. StoreMatchesBackend'
    BY <1>4, <2>2, <2>3 DEF Commit, TypeOK
  <2>5. AtMostOneEffectPerKey'
    BY <2>1, AppendNewKey
  <2> QED BY <2>4, <2>5
<1>5. CASE Fail
  BY <1>5 DEF Fail, Report
<1>6. CASE Confirm
  BY <1>6 DEF Confirm, Report
<1> QED BY <1>1, <1>2, <1>3, <1>4, <1>5, <1>6 DEF Next, ToolStep

LEMMA StepInductive == IInv /\ [Next]_vars => IInv'
<1>1. ASSUME IInv, Next PROVE IInv'
  BY <1>1, StepTypes, StepProgress, StepStore DEF IInv
<1>2. ASSUME IInv, UNCHANGED vars PROVE IInv'
  BY <1>2 DEF IInv, TypeOK, StoreMatchesBackend, CallProgress, AtMostOneEffectPerKey,
              KeysOf, vars
<1> QED BY <1>1, <1>2

\* The store and the backend agree in every reachable state.
THEOREM Inductive == Spec => []IInv
  BY InitInductive, StepInductive, PTL DEF Spec

\* No more than RetryCap calls, and fields of their types.
THEOREM Types == Spec => []TypeOK
<1>1. IInv => TypeOK
  BY DEF IInv
<1> QED BY Inductive, <1>1, PTL

\* Under one key at most one captain, cancellation or credit.
THEOREM OneEffectPerKey == Spec => []AtMostOneEffectPerKey
<1>1. IInv => AtMostOneEffectPerKey
  BY DEF IInv
<1> QED BY Inductive, <1>1, PTL

-----------------------------------------------------------------------------
(* The refinement: Submit is Ask, Commit is Act, and every Report is Answer.   *)

LEMMA InitRefines == Init => Desk!Init
  BY DEF Init, Desk!Init, told, KeysOf

\* A report of a failure answers FALSE, any other TRUE.
LEMMA ReportAnswers ==
  ASSUME IInv, pc # "idle", NEW result \in Outcomes, Report(result),
         UNCHANGED <<key, backend, committed>>,
         IF result \in Successes THEN key \in cache ELSE committed = Len(backend)
  PROVE  Desk!Next
<1> DEFINE success == result \in Successes
<1>1. /\ key \in Keys /\ key # None /\ backend \in Seq(Keys) /\ Len(backend) \in Nat
      /\ cache = KeysOf(backend) /\ outcome' = result /\ result # None /\ pc' = "idle"
  BY BrokerAssumption DEF IInv, TypeOK, StoreMatchesBackend, Report
<1>2. told' = [key |-> key, success |-> success]
  BY <1>1 DEF told
<1>3. success \in BOOLEAN
  OBVIOUS
<1>4. Desk!Answer(success)
  BY <1>1, <1>2 DEF Desk!Answer, KeysOf
<1> QED BY <1>3, <1>4 DEF Desk!Next

LEMMA StepRefines == IInv /\ [Next]_vars => [Desk!Next]_(Desk!deskVars)
<1> SUFFICES ASSUME IInv, [Next]_vars PROVE [Desk!Next]_(Desk!deskVars)
  OBVIOUS
<1>0. /\ None \notin Keys /\ backend \in Seq(Keys) /\ Len(backend) \in Nat
      /\ pc # "idle" => key \in Keys
      /\ StoreMatchesBackend /\ CallProgress
  BY BrokerAssumption DEF IInv, TypeOK
<1>1. ASSUME NEW k \in Keys, Submit(k) PROVE Desk!Ask(k)
  BY <1>0, <1>1 DEF Submit, Desk!Ask, told, KeysOf
<1>2. CASE Check
  <2>1. CASE pc' = "lookup" /\ UNCHANGED outcome
    BY <1>2, <2>1 DEF Check, Desk!deskVars, told, KeysOf
  <2>2. ASSUME NEW result \in {"failed", "no_captain"}, Report(result) PROVE Desk!Next
    BY <1>0, <1>2, <2>2, ReportAnswers DEF Check, Outcomes, Successes, StoreMatchesBackend
  <2> QED BY <1>2, <2>1, <2>2 DEF Check
<1>3. CASE Lookup
  BY <1>3 DEF Lookup, Desk!deskVars, told, KeysOf
<1>4. CASE Commit
  <2>1. KeysOf(backend)' = KeysOf(backend) \cup {key}
    BY <1>0, <1>4, KeysOfAppend DEF Commit, KeysOf
  <2>2. Len(backend') = Len(backend) + 1
    BY <1>0, <1>4 DEF Commit
  <2>3. key \notin KeysOf(backend) /\ committed = Len(backend) /\ key \in Keys
    BY <1>0, <1>4 DEF Commit, StoreMatchesBackend
  <2>4. UNCHANGED told /\ pc # "idle" /\ pc' # "idle" /\ UNCHANGED <<key, committed>>
    BY <1>4 DEF Commit, told
  <2>5. Desk!Act
    BY <1>0, <2>1, <2>2, <2>3, <2>4 DEF Desk!Act
  <2> QED BY <2>5 DEF Desk!Next
<1>5. CASE Fail
  <2>1. CASE RetriesLeft /\ UNCHANGED <<pc, outcome>>
    BY <1>5, <2>1 DEF Fail, Desk!deskVars, told, KeysOf
  <2>2. CASE Report("failed")
    BY <1>0, <1>5, <2>2, ReportAnswers DEF Fail, Outcomes, Successes, StoreMatchesBackend
  <2> QED BY <1>5, <2>1, <2>2 DEF Fail
<1>6. CASE Confirm
  <2>1. PICK result \in {"reassigned", "partial_failure", "success"} : Report(result)
    BY <1>6 DEF Confirm
  <2> QED BY <1>0, <1>6, <2>1, ReportAnswers DEF Confirm, Outcomes, Successes, StoreMatchesBackend
<1>7. CASE UNCHANGED vars
  BY <1>7 DEF vars, Desk!deskVars, told, KeysOf
<1> QED BY <1>1, <1>2, <1>3, <1>4, <1>5, <1>6, <1>7 DEF Next, ToolStep, Desk!Next

\* The broker does what the desk promises, for every cap and any failures.
THEOREM Refinement == Spec => ImplementsDesk
  BY InitRefines, StepRefines, Inductive, PTL DEF Spec, ImplementsDesk, Desk!Spec
=============================================================================
