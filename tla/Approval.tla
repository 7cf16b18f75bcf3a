------------------------------ MODULE Approval ------------------------------
(***************************************************************************)
(* What Interlock promises about one tool call of an agent, whatever the   *)
(* threads, the restarts and the sandbox do: the call is decided once; an  *)
(* escalated call waits for a human, who resolves it once; and a call has  *)
(* its effect at most once, and only when it was allowed or approved.      *)
(***************************************************************************)
EXTENDS Naturals

CONSTANT Calls

VARIABLES stage, effects
vars == <<stage, effects>>

Stages == {"none", "halted", "allowed", "escalated",
           "pending", "approved", "rejected"}

Init == stage = [e \in Calls |-> "none"] /\ effects = [e \in Calls |-> 0]

Move(e, from, to) ==
  stage[e] \in from /\ \E s \in to : stage' = [stage EXCEPT ![e] = s]

Decide(e) == Move(e, {"none"}, {"halted", "allowed", "escalated"}) /\ UNCHANGED effects
Record(e) == Move(e, {"escalated"}, {"pending"}) /\ UNCHANGED effects
Resolve(e) == Move(e, {"pending"}, {"approved", "rejected"}) /\ UNCHANGED effects

Perform(e) ==
  /\ stage[e] \in {"allowed", "approved"} /\ effects[e] = 0
  /\ effects' = [effects EXCEPT ![e] = 1]
  /\ UNCHANGED stage

Next == \E e \in Calls : Decide(e) \/ Record(e) \/ Resolve(e) \/ Perform(e)

Spec == Init /\ [][Next]_vars
=============================================================================
