--------------------------- MODULE MCControlPlane ---------------------------
(***************************************************************************)
(* One human client at a time has two policies to choose from, one of them *)
(* without the right to delete, and one guardrail that forbids it.         *)
(***************************************************************************)
EXTENDS ControlPlane, MCEscalation

WidePolicy == [AgentPolicy EXCEPT !.forbidden = {}]
MCSubmitted == {WidePolicy, [WidePolicy EXCEPT !.dbOps = {"SELECT"}]}
MCPatternOf == [g \in Guardrails |-> "DELETE"]
PlaneHits == [p \in {"DELETE"} |-> {DeleteSessions}]
EffectivePolicies ==
  { WithGlobalGuardrails(p, Patterns(gs)) : p \in MCSubmitted, gs \in SUBSET Guardrails }
PlaneActions == {DeleteSessions}
=============================================================================
