---------------------------- MODULE PolicyReview ----------------------------
(***************************************************************************)
(* The review of a drafted policy.  The human takes entries away one at a  *)
(* time (the JSON editor of the dashboard, then PUT /policy), which        *)
(* narrows the draft except where a list is unscoped by it, or adds a      *)
(* guardrail; the editor is external, and what the code does is in the     *)
(* operators applied to each policy the review passes through: it is       *)
(* enforced against every action, and compared, as the baseline of a       *)
(* release, with the candidates that widen it.                             *)
(***************************************************************************)
EXTENDS ReleaseControl

CONSTANTS
  Actions,      \* what agents propose
  Contexts,     \* enforcement contexts
  Patterns,     \* forbidden patterns a guardrail may carry
  Drafts,       \* the policies a review starts from
  OtherAssets,  \* assets a policy may be scoped to
  Expiries,     \* expiry dates a policy may be given
  Grants,       \* field |-> what a later release may add to it
  Traces,       \* labelled traces of the regression cases
  MaxEdits      \* bound: edits in one review

\* The lists of a policy that the surface captures.
CapturedFields == (AuthorityFields \union ScopingFields) \ {"assets"}

\* Amounts and epochs are integers, as their types in models.py say.
ASSUME ActionsAssumption ==
  \A a \in Actions : a.tool \in Tools /\ (a.tool = "transfer" => a.cents \in Int)
ASSUME ContextsAssumption ==
  \A c \in Contexts : c.epoch \in Int /\ c.criticality \in Int /\ c.spent \in Int
ASSUME DraftsAssumption == \A p \in Drafts : IsPolicy(p)
ASSUME ExpiriesAssumption == Expiries \subseteq Nat
ASSUME GrantsAssumption == DOMAIN Grants \subseteq CapturedFields
ASSUME TracesAssumption ==
  Traces \subseteq Seq([safe : BOOLEAN, action : Actions, context : Contexts])

VARIABLES policy, edits
vars == <<policy, edits>>

Init == policy \in Drafts /\ edits = 0

Drop(f, x) == policy' = [policy EXCEPT ![f] = @ \ {x}]

\* Allow-lists whose empty value grants nothing may lose any entry.
DropGrant ==
  \E f \in {"tools", "roots", "dbTables", "dbOps"} :
    \E x \in policy[f] : Drop(f, x)

\* So may the lists whose empty value is unscoped, the last one included.
DropIdentity ==
  \E f \in ScopingFields : \E x \in policy[f] : Drop(f, x)

ScopeAssets ==
  /\ policy.assets = {}
  /\ \E x \in OtherAssets : policy' = [policy EXCEPT !.assets = {x}]

LowerCeiling ==
  \/ policy.cap > 0 /\ policy' = [policy EXCEPT !.cap = @ - 1]
  \/ policy.maxCriticality > 0 /\ policy' = [policy EXCEPT !.maxCriticality = @ - 1]

SetExpiry ==
  /\ policy.expires = NoExpiry
  /\ \E t \in Expiries : policy' = [policy EXCEPT !.expires = t]

AddGuardrail ==
  \E p \in Patterns \ policy.forbidden :
    policy' = WithGlobalGuardrails(policy, {p})

Next ==
  /\ edits < MaxEdits
  /\ edits' = edits + 1
  /\ \/ DropGrant \/ DropIdentity \/ ScopeAssets
     \/ LowerCeiling \/ SetExpiry \/ AddGuardrail

Spec == Init /\ [][Next]_vars

-----------------------------------------------------------------------------
(* rules.md, "Fail closed": whatever the policy lists, an action whose      *)
(* reversibility is unknown halts.  enforce has no rule that says so: an    *)
(* unknown statement passes the operation check when its keyword is listed, *)
(* and only the table extractor, which knows four keywords, stops it.       *)
UnknownHalts ==
  \A a \in Actions, c \in Contexts :
    Classify(a) = "unknown" => Decision(a, policy, c) = "halt"

(* rules.md, "Do not approve-gate reads": nothing that changes a table, a   *)
(* file, a balance or a repository is allowed without approval, and nothing *)
(* else asks for it.  What has an effect is said here without the           *)
(* classifier, which decides it in the code.                                *)
HasEffect(a) ==
  \/ a.tool \in {"transfer", "fs_write"}
  \/ a.tool = "db" /\ a.sql.keyword \notin {"SELECT", "EXPLAIN"}
  \/ a.tool = "github" /\ a.operation \notin {"read_issue", "read_pull_request"}
ApprovalIffConsequential ==
  \A a \in Actions, c \in Contexts :
    /\ Decision(a, policy, c) = "allow" => ~HasEffect(a)
    /\ Decision(a, policy, c) = "escalate" => HasEffect(a)

(* Composing approved guardrails (_with_global_guardrails) with a confirmed *)
(* policy turns no halt into anything else and no escalation into an allow: *)
(* a verdict stays as it was, or becomes a halt.                            *)
GuardrailsOnlyHalt ==
  \A a \in Actions, c \in Contexts, ps \in SUBSET Patterns :
    Decision(a, WithGlobalGuardrails(policy, ps), c)
      \in {Decision(a, policy, c), "halt"}

\* The edit unscopes f: it takes away the last entry of the list.
Empties(f) == policy[f] # {} /\ policy'[f] = {}

\* The rule that refuses what a list leaves out.
ListRule(f) ==
  CASE f = "agents" -> "allowed_agent_ids"
    [] f = "principals" -> "allowed_human_principals"
    [] f = "environments" -> "allowed_environments"
    [] f = "assets" -> "allowed_asset_ids"
    [] f = "githubOps" -> "allowed_github_operations"
    [] f = "githubRepos" -> "allowed_github_repositories"

(* What a human may trust when taking an entry away: the edit narrows the   *)
(* policy and raises no verdict, unless it empties an identity or GitHub    *)
(* list, which unscopes it (scope.py:48); and then nothing rises but what   *)
(* this very list refused.                                                  *)
NarrowingNeverGrants ==
  [][/\ (\A f \in ScopingFields : ~Empties(f)) => Narrows(policy', policy)
     /\ \A a \in Actions, c \in Contexts :
          \/ Rank(Decision(a, policy', c)) <= Rank(Decision(a, policy, c))
          \/ \E f \in ScopingFields :
               Empties(f) /\ Enforce(a, policy, c).rule = ListRule(f)]_vars

(* rules.md:66, "Paths are checked by canonical containment beneath         *)
(* approved sandbox roots": the file an approved write lands in is beneath  *)
(* a root of the policy, as the server resolves that root.                  *)
WrittenPathInScope ==
  \A a \in Actions :
    (a.tool = "fs_write" /\ Decision(a, policy, DefaultContext) = "escalate"
       /\ SandboxAccepts(a.path))
      => \E root \in policy.roots :
           IsPrefix(Resolve(Cwd, root), SandboxTarget(a.path))

-----------------------------------------------------------------------------
(* Change control: releases that differ from the policy under review.       *)

\* A release that grants one more value, in a field that is scoped already.
Widened(p) ==
  { [p EXCEPT ![g.field] = @ \union {g.value}] :
      g \in UNION { [field : {f}, value : Grants[f]] :
                      f \in {h \in DOMAIN Grants : h \in ScopingFields => p[h] # {}} } }
  \union { [p EXCEPT !.cap = @ + 1] }

\* The same release, or one that gives up its spend cap with it.
Candidates(p) == Widened(p) \union { [q EXCEPT !.cap = 0] : q \in Widened(p) }

Advice(baseline, candidate, trace) ==
  EvaluateChange(Surface(baseline), Surface(candidate),
                 << ReplayCase(candidate, trace) >>).action

(* models.py:171, has_expansion says "Whether a candidate release can       *)
(* perform anything newly consequential": when the advice on a release is   *)
(* to continue, no verdict of the engine rises with it, and its replayed    *)
(* case ran its safe steps and stopped its unsafe ones.  It relates the     *)
(* delta, which reads lists, to enforce, which reads actions.               *)
AdvisedChangeIsSafe ==
  \A q \in Candidates(policy), trace \in Traces :
    Advice(policy, q, trace) = "continue_advisory" =>
      /\ \A a \in Actions, c \in Contexts :
           Rank(Decision(a, q, c)) <= Rank(Decision(a, policy, c))
      /\ \A i \in DOMAIN trace :
           trace[i].safe <=> Decision(trace[i].action, q, trace[i].context) = "allow"

(* docs/IMPLEMENTATION_PLAN_CHANGE_CONTROL.md:84, "a narrower policy never  *)
(* appears as an expansion": a step of the review that narrows the policy   *)
(* and whose case still passes is advised to continue.                      *)
NarrowingIsAdvised ==
  [][\A trace \in Traces :
       Narrows(policy', policy) /\ ReplayCase(policy', trace).passed =>
         Advice(policy, policy', trace) = "continue_advisory"]_vars

=============================================================================
