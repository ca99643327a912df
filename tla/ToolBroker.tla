----------------------------- MODULE ToolBroker -----------------------------
(* The tools with a side effect, src/src/care_agent/tools/broker.py, over the  *)
(* idempotency store and the backend of tools/stubs.py.  The reassignment      *)
(* chain checks the availability, reassigns under a key with retries and       *)
(* confirms; cancel_order and issue_merchant_credit go through the executor of *)
(* tools/idempotency.py.  All share one store.  CareAgent takes a whole chain  *)
(* as one step; here every call is a step, and the backend answers each one    *)
(* as it likes.                                                                *)
EXTENDS Integers, Sequences

CONSTANTS
  Epochs,       \* epochs of the keys calls are made under
  RetryCap,     \* policy.retry_cap
  MaxCalls,     \* bound on the broker calls of a behaviour
  None

Purposes == {"reassign", "cancel_order", "issue_merchant_credit"}

\* A key names its purpose, so that two tools never share one.
make_key(purpose, epoch) == [purpose |-> purpose, epoch |-> epoch]

Keys == {make_key(purpose, epoch) : purpose \in Purposes, epoch \in Epochs}

Outcomes == {"reassigned", "partial_failure", "no_captain", "failed", "success"}

ASSUME BrokerAssumption ==
  /\ RetryCap \in Nat \ {0} /\ MaxCalls \in Nat
  /\ None \notin Keys /\ None \notin Outcomes

VARIABLES
  pc,           \* the next call of the tool, "idle" between broker calls
  key,          \* the idempotency key of the broker call
  tries,        \* side-effecting calls it has made
  cache,        \* keys with a cached success
  backend,      \* keys the backend carried out a side effect under, in order
  outcome,      \* what the last broker call reported, None while one runs
  committed,    \* side effects there were when it started
  calls

vars == <<pc, key, tries, cache, backend, outcome, committed, calls>>

Chain(k) == k.purpose = "reassign"

Init ==
  /\ pc = "idle" /\ key = None /\ tries = 0
  /\ cache = {} /\ backend = << >>
  /\ outcome = None /\ committed = 0 /\ calls = 0

\* run_reassign_chain, cancel_order or issue_merchant_credit is called.
Submit(k) ==
  /\ pc = "idle" /\ calls < MaxCalls
  /\ pc' = IF Chain(k) THEN "check" ELSE "lookup"
  /\ key' = k /\ tries' = 0 /\ outcome' = None
  /\ committed' = Len(backend)
  /\ calls' = calls + 1
  /\ UNCHANGED <<cache, backend>>

Report(result) == pc' = "idle" /\ outcome' = result

\* check_captain_availability must pass before reassign_captain runs.
Check ==
  /\ pc = "check"
  /\ \/ Report("failed") \/ Report("no_captain")
     \/ pc' = "lookup" /\ UNCHANGED outcome
  /\ UNCHANGED <<key, tries, cache, backend, committed, calls>>

\* Idempotency mutant: the store is never consulted.
LookupIgnoresStore ==
  /\ pc = "lookup"
  /\ pc' = "act"
  /\ UNCHANGED <<key, tries, cache, backend, outcome, committed, calls>>

\* Liveness mutant: a call whose key is cached returns without a report.
LookupSkipsReport ==
  /\ pc = "lookup"
  /\ pc' = IF key \in cache THEN "idle" ELSE "act"
  /\ UNCHANGED <<key, tries, cache, backend, outcome, committed, calls>>

\* A cached success is replayed instead of acting a second time.
Lookup ==
  /\ pc = "lookup"
  /\ pc' = IF key \in cache THEN "confirm" ELSE "act"
  /\ UNCHANGED <<key, tries, cache, backend, outcome, committed, calls>>

\* Only successes are cached.
Commit ==
  /\ pc = "act"
  /\ tries' = tries + 1
  /\ backend' = Append(backend, key)
  /\ cache' = cache \cup {key}
  /\ pc' = "confirm"
  /\ UNCHANGED <<key, outcome, committed, calls>>

\* Retry mutant: one call too many.
RetriesLeftOffByOne == Chain(key) /\ tries + 1 <= RetryCap

RetriesLeft == Chain(key) /\ tries + 1 < RetryCap

\* Verdict mutant: a chain that ran out of retries claims success.
FailClaimsSuccess ==
  /\ pc = "act"
  /\ tries' = tries + 1
  /\ \/ RetriesLeft /\ UNCHANGED <<pc, outcome>>
     \/ ~ RetriesLeft /\ Report("reassigned")
  /\ UNCHANGED <<key, cache, backend, committed, calls>>

\* Only a transient failure of a reassignment is retried, with the same key, up to
\* the cap.
Fail ==
  /\ pc = "act"
  /\ tries' = tries + 1
  /\ \/ RetriesLeft /\ UNCHANGED <<pc, outcome>>
     \/ Report("failed")
  /\ UNCHANGED <<key, cache, backend, committed, calls>>

\* Only a chain has a confirmation.  There is no unassign tool: one that fails is
\* reported, not undone.
Confirm ==
  /\ pc = "confirm"
  /\ IF Chain(key) THEN Report("reassigned") \/ Report("partial_failure")
                   ELSE Report("success")
  /\ UNCHANGED <<key, tries, cache, backend, committed, calls>>

ToolStep == Check \/ Lookup \/ Commit \/ Fail \/ Confirm

Next == (\E k \in Keys : Submit(k)) \/ ToolStep

Spec == Init /\ [][Next]_vars

\* Every step is a blocking call that returns.
FairSpec == Spec /\ WF_vars(ToolStep)

-----------------------------------------------------------------------------

\* A broker call is at one of its tools' calls, has acted at most RetryCap times,
\* and the store holds keys that calls were made under.
TypeOK ==
  /\ pc \in {"idle", "check", "lookup", "act", "confirm"}
  /\ key \in IF pc = "idle" THEN Keys \cup {None} ELSE Keys
  /\ tries \in 0 .. RetryCap /\ committed \in Nat /\ calls \in Nat
  /\ cache \subseteq Keys
  /\ backend \in Seq(Keys)
  /\ outcome \in Outcomes \cup {None}

\* Under one key the backend carries out at most one side effect, across retries,
\* replays and repeated calls, of whatever tools share the store.
AtMostOneEffectPerKey ==
  \A i, j \in DOMAIN backend : backend[i] = backend[j] => i = j

\* Every broker call reports.
CallsReport == pc # "idle" ~> outcome # None

-----------------------------------------------------------------------------
(* The broker implements the desk.                                             *)

KeysOf(seq) == {seq[i] : i \in DOMAIN seq}

Successes == {"reassigned", "partial_failure", "success"}

told == IF outcome = None THEN None ELSE [key |-> key, success |-> outcome \in Successes]

Desk == INSTANCE CaptainDesk WITH
  done <- KeysOf(backend),
  asked <- IF pc = "idle" THEN None ELSE key,
  made <- Len(backend) > committed,
  told <- told

\* The tools with their retries, cache and confirmation are the desk: one side
\* effect per key, success claimed only where there is one, failure only where the
\* call has made none.
ImplementsDesk == Desk!Spec
=============================================================================
