------------------------------- MODULE RpcCalls -------------------------------
(***************************************************************************)
(* What a Client promises its users, whatever the codec and the peer do:   *)
(* a call made on a live client ends once, with its own answer, with an    *)
(* error of the connection or refused; a call made on a client that is     *)
(* closing or shut down ends once, refused; and an outcome, once given to  *)
(* the user, never changes.                                                *)
(***************************************************************************)
CONSTANT Calls

VARIABLES
  phase,      \* "new", "issued" (client up), "late" (client down) or "done"
  outcome,    \* "none" until done, then how the call ended
  up          \* the client still accepts calls

callsVars == <<phase, outcome, up>>

Outcomes == {"answered", "failed", "refused"}

CallsInit ==
  /\ phase = [c \in Calls |-> "new"]
  /\ outcome = [c \in Calls |-> "none"]
  /\ up = TRUE

Issue(c) ==
  /\ phase[c] = "new"
  /\ phase' = [phase EXCEPT ![c] = IF up THEN "issued" ELSE "late"]
  /\ UNCHANGED <<outcome, up>>

End(c) ==
  /\ phase[c] \in {"issued", "late"}
  /\ phase' = [phase EXCEPT ![c] = "done"]
  /\ \E o \in IF phase[c] = "late" THEN {"refused"} ELSE Outcomes :
       outcome' = [outcome EXCEPT ![c] = o]
  /\ UNCHANGED up

GoDown ==
  /\ up
  /\ up' = FALSE
  /\ UNCHANGED <<phase, outcome>>

CallsNext ==
  \/ \E c \in Calls : Issue(c) \/ End(c)
  \/ GoDown

CallsSpec == CallsInit /\ [][CallsNext]_callsVars
=============================================================================
