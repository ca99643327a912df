---------------------------- MODULE CaptainDesk -----------------------------
(* What the tool broker promises of tools with a side effect: under one        *)
(* idempotency key the effect takes place at most once, a caller is told of    *)
(* success only when there is one under the caller's key, and of failure only  *)
(* when the call has made none.                                                *)

CONSTANTS Keys, None

VARIABLES
  done,       \* keys whose side effect has taken place
  asked,      \* the key of the call that is out, None between calls
  made,       \* whether the last call has made a side effect
  told        \* the last answer, [key, success], None while a call is out

deskVars == <<done, asked, made, told>>

Init == done = {} /\ asked = None /\ made = FALSE /\ told = None

Ask(k) ==
  /\ asked = None
  /\ asked' = k /\ made' = FALSE /\ told' = None
  /\ UNCHANGED done

Act ==
  /\ asked # None /\ asked \notin done
  /\ done' = done \cup {asked} /\ made' = TRUE
  /\ UNCHANGED <<asked, told>>

Answer(success) ==
  /\ asked # None
  /\ IF success THEN asked \in done ELSE ~ made
  /\ told' = [key |-> asked, success |-> success]
  /\ asked' = None
  /\ UNCHANGED <<done, made>>

Next == (\E k \in Keys : Ask(k)) \/ Act \/ \E success \in BOOLEAN : Answer(success)

Spec == Init /\ [][Next]_deskVars
=============================================================================
