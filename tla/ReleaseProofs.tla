---------------------------- MODULE ReleaseProofs ----------------------------
(***************************************************************************)
(* How far the authority delta can be trusted: which narrowing it calls no *)
(* expansion, and what it takes for no expansion to be a narrowing.  The   *)
(* hypotheses are the dimensions the surface does not hold.  From it, and  *)
(* from what EngineProofs shows of the engine, the properties of a review, *)
(* for all drafts, actions, contexts, guardrails, releases and traces.     *)
(***************************************************************************)
EXTENDS PolicyReview, EngineProofs, FiniteSetTheorems

Delta(p, q) == CompareAuthority(Surface(p), Surface(q))

\* No captured list of q is newly scoped; no list at all is newly unscoped.
NothingScoped(p, q) == \A f \in ScopingFields \ {"assets"} : p[f] = {} => q[f] = {}
NothingUnscoped(p, q) == \A f \in ScopingFields : q[f] = {} => p[f] = {}

\* q is no wider than p where the surface does not look.
UncapturedWithin(q, p) ==
  /\ p.forbidden \subseteq q.forbidden
  /\ q.maxCriticality <= p.maxCriticality
  /\ q.assets \subseteq p.assets
  /\ p.expires = NoExpiry \/ (q.expires # NoExpiry /\ q.expires <= p.expires)

(* An expansion is a new entry in one of the captured lists or a higher     *)
(* spend cap: the approval flag of a captured surface is a constant.        *)
LEMMA ExpansionCases ==
  ASSUME NEW p, NEW q, IsPolicy(p), IsPolicy(q)
  PROVE  HasExpansion(Delta(p, q)) <=>
           \/ ~(q.agents \subseteq p.agents /\ q.principals \subseteq p.principals)
           \/ ~(q.tools \subseteq p.tools /\ q.roots \subseteq p.roots)
           \/ ~(q.dbOps \subseteq p.dbOps /\ q.dbTables \subseteq p.dbTables)
           \/ ~(q.githubOps \subseteq p.githubOps /\ q.githubRepos \subseteq p.githubRepos)
           \/ ~(q.environments \subseteq p.environments)
           \/ q.cap > p.cap
<1> DEFINE added(f) == Surface(q)[f] \ Surface(p)[f]
<1>1. HasExpansion(Delta(p, q)) <=>
        (\E f \in AuthorityFields : added(f) # {}) \/ q.cap > p.cap
  <2> DEFINE d == Delta(p, q)
  <2>1. \A f \in AuthorityFields : d.added[f] = added(f)
    BY DEF Delta, CompareAuthority
  <2>2. Surface(p).cap = p.cap /\ Surface(q).cap = q.cap
    BY DEF Surface
  <2>3. d.capIncrease = IF q.cap > p.cap THEN q.cap - p.cap ELSE 0
    BY <2>2 DEF Delta, CompareAuthority
  <2>4. d.capIncrease > 0 <=> q.cap > p.cap
    BY <2>3 DEF IsPolicy
  <2>5. ~d.approvalRemoved
    BY DEF Delta, CompareAuthority, Surface
  <2> HIDE DEF d, added
  <2>6. HasExpansion(d) <=> (\E f \in AuthorityFields : added(f) # {}) \/ q.cap > p.cap
    BY <2>1, <2>4, <2>5 DEF HasExpansion
  <2> QED
    BY <2>6 DEF d
<1>2. added("principals") = {} <=>
        q.agents \subseteq p.agents /\ q.principals \subseteq p.principals
  <2> DEFINE labels(x) == ({"agent"} \X x.agents) \union ({"human"} \X x.principals)
  <2>1. added("principals") = labels(q) \ labels(p)
    BY DEF Surface
  <2>2. \A x, a : <<"agent", a>> \in labels(x) <=> a \in x.agents
    OBVIOUS
  <2>3. \A x, h : <<"human", h>> \in labels(x) <=> h \in x.principals
    OBVIOUS
  <2>4. \A l \in labels(q) : (\E a \in q.agents : l = <<"agent", a>>)
                             \/ (\E h \in q.principals : l = <<"human", h>>)
    OBVIOUS
  <2> QED
    BY <2>1, <2>2, <2>3, <2>4
<1>3. /\ added("tools") = q.tools \ p.tools
      /\ added("roots") = q.roots \ p.roots
      /\ added("dbOps") = q.dbOps \ p.dbOps
      /\ added("dbTables") = q.dbTables \ p.dbTables
      /\ added("githubOps") = q.githubOps \ p.githubOps
      /\ added("githubRepos") = q.githubRepos \ p.githubRepos
      /\ added("environments") = q.environments \ p.environments
  BY DEF Surface
<1> HIDE DEF added
<1> QED
  BY <1>1, <1>2, <1>3 DEF AuthorityFields

(* docs/IMPLEMENTATION_PLAN_CHANGE_CONTROL.md:84, "a narrower policy never  *)
(* appears as an expansion", for every two policies: it holds unless the    *)
(* narrower one scopes a list the wider one left unscoped.                  *)
THEOREM NarrowerIsNoExpansion ==
  ASSUME NEW p, NEW q, IsPolicy(p), IsPolicy(q),
         Narrows(q, p), NothingScoped(p, q)
  PROVE  ~HasExpansion(Delta(p, q))
<1>1. \A f \in ScopingFields \ {"assets"} : q[f] \subseteq p[f]
  BY DEF Narrows, NothingScoped, ScopingFields, ScopeWithin
<1>2. /\ q.tools \subseteq p.tools /\ q.roots \subseteq p.roots
      /\ q.dbOps \subseteq p.dbOps /\ q.dbTables \subseteq p.dbTables
      /\ ~(q.cap > p.cap)
  BY DEF Narrows, IsPolicy
<1> QED
  BY <1>1, <1>2, ExpansionCases DEF ScopingFields

(* The converse: without a reported expansion the candidate is narrower,    *)
(* provided that no list was emptied and the fields the surface leaves out  *)
(* did not grow.                                                            *)
THEOREM NoExpansionIsNarrower ==
  ASSUME NEW p, NEW q, IsPolicy(p), IsPolicy(q), ~HasExpansion(Delta(p, q)),
         NothingUnscoped(p, q), UncapturedWithin(q, p)
  PROVE  Narrows(q, p)
<1>1. /\ \A f \in ScopingFields : q[f] \subseteq p[f]
      /\ q.tools \subseteq p.tools /\ q.roots \subseteq p.roots
      /\ q.dbOps \subseteq p.dbOps /\ q.dbTables \subseteq p.dbTables
      /\ q.cap <= p.cap
  BY ExpansionCases DEF ScopingFields, UncapturedWithin, IsPolicy
<1>2. \A f \in ScopingFields : ScopeWithin(q[f], p[f])
  BY <1>1 DEF NothingUnscoped, ScopeWithin
<1> QED
  BY <1>1, <1>2 DEF Narrows, UncapturedWithin, ScopingFields

(* Advice to continue is given on verified evidence only: no expansion, at  *)
(* least one replayed case, and none that failed.                           *)
THEOREM ContinueIsEarned ==
  ASSUME NEW baseline, NEW candidate, NEW replays,
         EvaluateChange(baseline, candidate, replays).action = "continue_advisory"
  PROVE  /\ ~HasExpansion(CompareAuthority(baseline, candidate))
         /\ replays # <<>>
         /\ \A i \in DOMAIN replays : replays[i].passed
<1> DEFINE delta == CompareAuthority(baseline, candidate)
           verdict == VerdictFor(delta, replays)
           bundle == BuildEvidence(baseline, candidate, delta, replays)
<1>1. bundle.evidence.verdict = verdict
  BY DEF BuildEvidence
<1>2. FixtureCallback(bundle).action = "continue_advisory"
  BY DEF EvaluateChange
<1>3. verdict \in {"pass", "fail", "inconclusive"}
  BY DEF VerdictFor
<1> HIDE DEF bundle, verdict
<1>4. verdict = "pass"
  BY <1>1, <1>2, <1>3 DEF FixtureCallback
<1> QED
  BY <1>4 DEF verdict, VerdictFor

(* The advice is sound for every baseline, candidate and action, as far as  *)
(* the surface sees: no verdict rises with a release that it lets continue. *)
THEOREM AdviceIsSound ==
  ASSUME NEW p, NEW q, NEW replays, NEW a, NEW c, IsPolicy(p), IsPolicy(q),
         NothingUnscoped(p, q), UncapturedWithin(q, p),
         EvaluateChange(Surface(p), Surface(q), replays).action = "continue_advisory",
         c.epoch \in Int, c.criticality \in Int, c.spent \in Int,
         a.tool = "transfer" => a.cents \in Int
  PROVE  Rank(Enforce(a, q, c).decision) <= Rank(Enforce(a, p, c).decision)
<1>1. ~HasExpansion(Delta(p, q))
  BY ContinueIsEarned DEF Delta
<1>2. Narrows(q, p)
  BY <1>1, NoExpansionIsNarrower
<1> QED
  BY <1>2, NarrowingIsMonotone

(* A skill is admitted on an active, reviewed case and on advice to         *)
(* continue only, so admitting one raises no verdict either.                *)
THEOREM AdmissionIsSound ==
  ASSUME NEW p, NEW q, NEW case, NEW replays, NEW a, NEW c,
         IsPolicy(p), IsPolicy(q), NothingUnscoped(p, q), UncapturedWithin(q, p),
         AdmitSkill(case, Surface(p), Surface(q), replays).admissible,
         c.epoch \in Int, c.criticality \in Int, c.spent \in Int,
         a.tool = "transfer" => a.cents \in Int
  PROVE  /\ case.status = "active" /\ case.reviewed
         /\ replays # <<>> /\ \A i \in DOMAIN replays : replays[i].passed
         /\ Rank(Enforce(a, q, c).decision) <= Rank(Enforce(a, p, c).decision)
<1> DEFINE advice == EvaluateChange(Surface(p), Surface(q), replays)
<1>1. /\ case.status = "active" /\ case.reviewed
      /\ advice.action = "continue_advisory"
  BY DEF AdmitSkill
<1>2. replays # <<>> /\ \A i \in DOMAIN replays : replays[i].passed
  BY <1>1, ContinueIsEarned
<1> QED
  BY <1>1, <1>2, AdviceIsSound

-----------------------------------------------------------------------------
(* The review: every policy it reaches is one, and every edit narrows it or *)
(* unscopes one list.                                                       *)

\* What IsPolicy says of the shape.
Fielded(q) == q = [g \in PolicyFields |-> q[g]]

\* q is p with v in the one field f.
Assigned(q, p, f, v) ==
  Fielded(q) /\ q[f] = v /\ \A g \in PolicyFields \ {f} : q[g] = p[g]

(* What an assignment to one field of a policy does.                        *)
LEMMA OneField ==
  ASSUME NEW p, IsPolicy(p), NEW f \in PolicyFields, NEW v,
         NEW q, q = [p EXCEPT ![f] = v]
  PROVE  Assigned(q, p, f, v)
BY DEF IsPolicy, Fielded, Assigned

LEMMA EditNarrows ==
  ASSUME IsPolicy(policy), Next
  PROVE  /\ IsPolicy(policy')
         /\ \/ Narrows(policy', policy)
            \/ \E f \in ScopingFields :
                 policy[f] # {} /\ Assigned(policy', policy, f, {})
<1> USE ExpiriesAssumption
<1>1. CASE DropGrant
  <2>1. PICK f \in {"tools", "roots", "dbTables", "dbOps"} : \E x \in policy[f] : Drop(f, x)
    BY <1>1 DEF DropGrant
  <2>2. PICK x \in policy[f] : Drop(f, x)
    BY <2>1
  <2> DEFINE v == policy[f] \ {x}
  <2>3. f \in PolicyFields
    BY DEF PolicyFields
  <2>4. Assigned(policy', policy, f, v)
    <3>1. policy' = [policy EXCEPT ![f] = v]
      BY <2>2 DEF Drop
    <3> HIDE DEF v
    <3> QED
      BY <2>3, <3>1, OneField
  <2> QED
    BY <2>1, <2>4 DEF Assigned, Fielded, IsPolicy, Narrows, ScopeWithin, PolicyFields
<1>2. CASE DropIdentity
  <2>1. PICK f \in ScopingFields : \E x \in policy[f] : Drop(f, x)
    BY <1>2 DEF DropIdentity
  <2>2. PICK x \in policy[f] : Drop(f, x)
    BY <2>1
  <2> DEFINE v == policy[f] \ {x}
  <2>3. f \in PolicyFields
    BY DEF PolicyFields, ScopingFields
  <2>4. Assigned(policy', policy, f, v)
    <3>1. policy' = [policy EXCEPT ![f] = v]
      BY <2>2 DEF Drop
    <3> HIDE DEF v
    <3> QED
      BY <2>3, <3>1, OneField
  <2>5. CASE v = {}
    BY <2>2, <2>4, <2>5 DEF Assigned, Fielded, IsPolicy, ScopingFields, PolicyFields
  <2>6. CASE v # {}
    <3>1. policy'[f] # {} /\ policy'[f] \subseteq policy[f]
      BY <2>4, <2>6 DEF Assigned
    <3> QED
      BY <2>4, <3>1 DEF Assigned, Fielded, IsPolicy, Narrows, ScopeWithin, ScopingFields,
                        PolicyFields
  <2> QED
    BY <2>5, <2>6
<1>3. CASE ScopeAssets
  BY <1>3 DEF ScopeAssets, IsPolicy, Narrows, ScopeWithin, PolicyFields
<1>4. CASE LowerCeiling
  BY <1>4 DEF LowerCeiling, IsPolicy, Narrows, ScopeWithin, PolicyFields
<1>5. CASE SetExpiry
  BY <1>5 DEF SetExpiry, IsPolicy, Narrows, ScopeWithin, NoExpiry, PolicyFields
<1>6. CASE AddGuardrail
  BY <1>6 DEF AddGuardrail, WithGlobalGuardrails, IsPolicy, Narrows, ScopeWithin, PolicyFields
<1> QED
  BY <1>1, <1>2, <1>3, <1>4, <1>5, <1>6 DEF Next

THEOREM PoliciesStayPolicies == Spec => []IsPolicy(policy)
<1>1. Init => IsPolicy(policy)
  BY DraftsAssumption DEF Init
<1>2. IsPolicy(policy) /\ [Next]_vars => IsPolicy(policy)'
  BY EditNarrows DEF vars, IsPolicy
<1> QED
  BY <1>1, <1>2, PTL DEF Spec

(* rules.md, "Fail closed", for every policy a review reaches.              *)
THEOREM UnknownHaltsAlways == Spec => []UnknownHalts
<1>1. UnknownHalts
  BY UnknownAlwaysHalts, ActionsAssumption DEF UnknownHalts, Decision
<1> QED
  BY <1>1, PTL

(* rules.md, "Do not approve-gate reads", and its converse.                 *)
THEOREM ApprovalForConsequences == Spec => []ApprovalIffConsequential
<1>1. ASSUME NEW a \in Actions, NEW c \in Contexts, Decision(a, policy, c) = "allow"
      PROVE  ~HasEffect(a)
  BY <1>1, AllowedIsReversible, ActionsAssumption
  DEF Decision, HasEffect, Tools, Classify, ClassifySql, LeadingKeyword,
      ReadOnlySql, NoName
<1>2. ASSUME NEW a \in Actions, NEW c \in Contexts, Decision(a, policy, c) = "escalate"
      PROVE  HasEffect(a)
  BY <1>2, EscalatedIsIrreversible, ActionsAssumption
  DEF Decision, HasEffect, Tools, Classify, ClassifySql, LeadingKeyword,
      MutatingSql, NoName
<1>3. ApprovalIffConsequential
  BY <1>1, <1>2 DEF ApprovalIffConsequential
<1> QED
  BY <1>3, PTL

(* Guardrails never loosen a policy under review.                           *)
THEOREM GuardrailsHalt == Spec => []GuardrailsOnlyHalt
<1>1. IsPolicy(policy) => GuardrailsOnlyHalt
  BY CompositionOnlyHalts DEF GuardrailsOnlyHalt, Decision
<1> QED
  BY <1>1, PoliciesStayPolicies, PTL

(* A policy that gives up the scope of one list refuses what it refused     *)
(* before, but for what this list refused.                                  *)
LEMMA UnscopingIsLocal ==
  ASSUME NEW a, NEW p, NEW q, NEW c, NEW f \in ScopingFields, Assigned(q, p, f, {}),
         Enforce(a, p, c).rule # ListRule(f)
  PROVE  Rank(Decision(a, q, c)) <= Rank(Decision(a, p, c))
<1>1. q[f] = {} /\ \A g \in PolicyFields \ {f} : q[g] = p[g]
  BY DEF Assigned
<1>2. EffectRefusal(a, q, c) = EffectRefusal(a, p, c)
  <2>1. \A g \in {"roots", "dbOps", "dbTables", "cap"} : q[g] = p[g]
    BY <1>1 DEF PolicyFields, ScopingFields
  <2> QED
    BY <2>1 DEF EffectRefusal
<1>3. ScopeRefusal(a, p, c) # ListRule(f)
  BY DEF Enforce, Verdict, ListRule, ScopingFields, NoName
<1>4. ASSUME ScopeRefusal(a, q, c) = NoName PROVE ScopeRefusal(a, p, c) = NoName
  <2> USE <1>1, <1>3, <1>4 DEF ScopeRefusal, ValueInScope, ListRule, NoName, PolicyFields
  <2>1. CASE f = "agents"
    BY <2>1
  <2>2. CASE f = "principals"
    BY <2>2
  <2>3. CASE f = "environments"
    BY <2>3
  <2>4. CASE f = "assets"
    BY <2>4
  <2>5. CASE f = "githubOps"
    BY <2>5
  <2>6. CASE f = "githubRepos"
    BY <2>6
  <2> QED
    BY <2>1, <2>2, <2>3, <2>4, <2>5, <2>6 DEF ScopingFields
<1>5. Decision(a, q, c) \in {Decision(a, p, c), "halt"}
  BY <1>2, <1>4, DecisionCases
<1>6. Decision(a, p, c) \in Decisions
  BY DecisionTyped DEF Decision
<1> QED
  BY <1>5, <1>6 DEF Decisions, Rank

(* An edit of a review raises no verdict, except that emptying a list       *)
(* raises what that list refused.                                           *)
THEOREM ReviewNeverGrants == Spec => NarrowingNeverGrants
<1> DEFINE Local(a, c) ==
             \/ Rank(Decision(a, policy', c)) <= Rank(Decision(a, policy, c))
             \/ \E f \in ScopingFields :
                  Empties(f) /\ Enforce(a, policy, c).rule = ListRule(f)
           A == /\ (\A f \in ScopingFields : ~Empties(f)) => Narrows(policy', policy)
                /\ \A a \in Actions, c \in Contexts : Local(a, c)
<1>1. ASSUME IsPolicy(policy), Next PROVE A
  <2>1. CASE Narrows(policy', policy)
    <3>1. IsPolicy(policy')
      BY <1>1, EditNarrows
    <3> QED
      BY <1>1, <2>1, <3>1, NarrowingIsMonotone, ActionsAssumption, ContextsAssumption
      DEF Decision
  <2>2. CASE ~Narrows(policy', policy)
    <3>1. PICK f \in ScopingFields : policy[f] # {} /\ Assigned(policy', policy, f, {})
      BY <1>1, <2>2, EditNarrows
    <3>2. Empties(f)
      BY <3>1 DEF Empties, Assigned
    <3>3. ASSUME NEW a \in Actions, NEW c \in Contexts PROVE Local(a, c)
      <4>1. CASE Enforce(a, policy, c).rule = ListRule(f)
        BY <3>2, <4>1
      <4>2. CASE Enforce(a, policy, c).rule # ListRule(f)
        <5>1. PICK q : q = policy'
          OBVIOUS
        <5>2. Rank(Decision(a, q, c)) <= Rank(Decision(a, policy, c))
          BY <3>1, <4>2, <5>1, UnscopingIsLocal
        <5> QED
          BY <5>1, <5>2
      <4> QED
        BY <4>1, <4>2
    <3> QED
      BY <3>2, <3>3
  <2> QED
    BY <2>1, <2>2
<1>2. IsPolicy(policy) /\ [Next]_vars => [A]_vars
  BY <1>1
<1> QED
  BY <1>2, PoliciesStayPolicies, PTL DEF Spec, NarrowingNeverGrants

(* The converse of ContinueIsEarned: advice to continue is not withheld     *)
(* from a change without expansion whose cases pass.                        *)
LEMMA ContinueIsGiven ==
  ASSUME NEW baseline, NEW candidate, NEW replays,
         ~HasExpansion(CompareAuthority(baseline, candidate)),
         replays # <<>>, \A i \in DOMAIN replays : replays[i].passed
  PROVE  EvaluateChange(baseline, candidate, replays).action = "continue_advisory"
<1> DEFINE delta == CompareAuthority(baseline, candidate)
           bundle == BuildEvidence(baseline, candidate, delta, replays)
<1>1. VerdictFor(delta, replays) = "pass"
  BY DEF VerdictFor
<1>2. /\ bundle.evidence.verdict = VerdictFor(delta, replays)
      /\ bundle.evidence.delta = delta /\ bundle.evidence.replays = replays
      /\ bundle.digest = Payload(bundle.evidence)
  BY DEF BuildEvidence
<1> HIDE DEF bundle, delta
<1>3. FixtureCallback(bundle).action = "continue_advisory"
  BY <1>1, <1>2 DEF FixtureCallback, VerifyEvidence
<1> QED
  BY <1>3 DEF EvaluateChange, bundle, delta

(* A review's own edits are never held back by change control.              *)
THEOREM ReviewIsAdvised == Spec => NarrowingIsAdvised
<1> DEFINE A == \A trace \in Traces :
                  Narrows(policy', policy) /\ ReplayCase(policy', trace).passed =>
                    Advice(policy, policy', trace) = "continue_advisory"
<1>1. ASSUME IsPolicy(policy), Next PROVE A
  <2>1. IsPolicy(policy')
    BY <1>1, EditNarrows
  <2>2. NothingScoped(policy, policy')
    <3>1. \E f \in PolicyFields :
            /\ \E v : policy' = [policy EXCEPT ![f] = v]
            /\ f \in ScopingFields \ {"assets"} => policy[f] # {}
      <4> USE DEF PolicyFields, ScopingFields
      <4>1. CASE DropGrant
        BY <1>1, <4>1 DEF DropGrant, Drop
      <4>2. CASE DropIdentity
        BY <1>1, <4>2 DEF DropIdentity, Drop
      <4>3. CASE ScopeAssets
        BY <1>1, <4>3 DEF ScopeAssets
      <4>4. CASE LowerCeiling
        BY <1>1, <4>4 DEF LowerCeiling
      <4>5. CASE SetExpiry
        BY <1>1, <4>5 DEF SetExpiry
      <4>6. CASE AddGuardrail
        BY <1>1, <4>6 DEF AddGuardrail, WithGlobalGuardrails
      <4> QED
        BY <1>1, <4>1, <4>2, <4>3, <4>4, <4>5, <4>6 DEF Next
    <3>2. PICK f \in PolicyFields :
            /\ \E v : policy' = [policy EXCEPT ![f] = v]
            /\ f \in ScopingFields \ {"assets"} => policy[f] # {}
      BY <3>1
    <3>3. \A g \in PolicyFields \ {f} : policy'[g] = policy[g]
      BY <1>1, <3>2, OneField DEF Assigned
    <3> QED
      BY <3>2, <3>3 DEF NothingScoped, ScopingFields, PolicyFields
  <2>3. Narrows(policy', policy) =>
          ~HasExpansion(CompareAuthority(Surface(policy), Surface(policy')))
    BY <1>1, <2>1, <2>2, NarrowerIsNoExpansion DEF Delta
  <2>4. ASSUME NEW trace \in Traces, Narrows(policy', policy),
               ReplayCase(policy', trace).passed
        PROVE  Advice(policy, policy', trace) = "continue_advisory"
    <3> DEFINE replays == << ReplayCase(policy', trace) >>
    <3>1. replays # <<>> /\ \A i \in DOMAIN replays : replays[i].passed
      BY <2>4
    <3> QED
      BY <2>3, <2>4, <3>1, ContinueIsGiven DEF Advice
  <2> QED
    BY <2>4
<1>2. IsPolicy(policy) /\ [Next]_vars => [A]_vars
  BY <1>1
<1> QED
  BY <1>2, PoliciesStayPolicies, PTL DEF Spec, NarrowingIsAdvised

(* A replayed trace that passes had its safe steps allowed and no other.    *)
LEMMA PassedReplay ==
  ASSUME NEW q, NEW trace \in Traces, ReplayCase(q, trace).passed,
         NEW i \in DOMAIN trace
  PROVE  trace[i].safe <=> Decision(trace[i].action, q, trace[i].context) = "allow"
<1> DEFINE allowed == [j \in DOMAIN trace |->
                         Decision(trace[j].action, q, trace[j].context) = "allow"]
           picked(safe, ok) ==
             { j \in DOMAIN trace : trace[j].safe = safe /\ allowed[j] = ok }
<1>1. /\ Simulate(q, trace).blockedSafe = Cardinality(picked(TRUE, FALSE))
      /\ Simulate(q, trace).missedUnsafe = Cardinality(picked(FALSE, TRUE))
  BY DEF Simulate, Decision
<1>2. Cardinality(picked(TRUE, FALSE)) = 0 /\ Cardinality(picked(FALSE, TRUE)) = 0
  BY <1>1 DEF ReplayCase, ReplayPasses
<1> DEFINE Steps == [safe : BOOLEAN, action : Actions, context : Contexts]
<1>3. trace \in Seq(Steps)
  BY TracesAssumption
<1>4. IsFiniteSet(DOMAIN trace)
  BY <1>3, FS_Interval
<1>5. \A safe, ok : IsFiniteSet(picked(safe, ok))
  BY <1>4, FS_Subset
<1>6. picked(TRUE, FALSE) = {} /\ picked(FALSE, TRUE) = {}
  <2> HIDE DEF picked
  <2> QED
    BY <1>2, <1>5, FS_EmptySet
<1>7. trace[i] \in Steps
  <2> HIDE DEF Steps
  <2> QED
    BY <1>3
<1>8. trace[i].safe \in BOOLEAN
  BY <1>7
<1> QED
  BY <1>6, <1>8

LEMMA CandidatesAreCaptured ==
  ASSUME IsPolicy(policy), NEW q \in Candidates(policy)
  PROVE  IsPolicy(q) /\ NothingUnscoped(policy, q) /\ UncapturedWithin(q, policy)
<1>1. ASSUME NEW w \in Widened(policy)
      PROVE  /\ IsPolicy(w)
             /\ \A f \in ScopingFields : policy[f] = {} <=> w[f] = {}
             /\ \A f \in {"forbidden", "maxCriticality", "assets", "expires"} :
                  w[f] = policy[f]
  <2>1. CASE w = [policy EXCEPT !.cap = @ + 1]
    BY <2>1 DEF IsPolicy, ScopingFields, PolicyFields
  <2>2. CASE w # [policy EXCEPT !.cap = @ + 1]
    <3>1. PICK g \in UNION { [field : {f}, value : Grants[f]] :
                 f \in {h \in DOMAIN Grants : h \in ScopingFields => policy[h] # {}} } :
            w = [policy EXCEPT ![g.field] = policy[g.field] \union {g.value}]
      BY <1>1, <2>2 DEF Widened
    <3>. DEFINE f == g.field
                x == g.value
                v == policy[f] \union {x}
    <3>2. f \in DOMAIN Grants /\ (f \in ScopingFields => policy[f] # {})
      OBVIOUS
    <3>. HIDE DEF f, x
    <3>3. f \in CapturedFields
      BY <3>2, GrantsAssumption
    <3>4. f \in PolicyFields
      BY <3>3 DEF CapturedFields, AuthorityFields, ScopingFields, PolicyFields
    <3>5. Assigned(w, policy, f, v)
      <4>1. w = [policy EXCEPT ![f] = v]
        BY <3>1 DEF f, x
      <4> HIDE DEF v
      <4> QED
        BY <4>1, <3>4, OneField
    <3> QED
      BY <3>2, <3>3, <3>5
      DEF Assigned, Fielded, IsPolicy, CapturedFields, AuthorityFields,
          ScopingFields, PolicyFields
  <2> QED
    BY <2>1, <2>2
<1>2. PICK w \in Widened(policy) : q = w \/ q = [w EXCEPT !.cap = 0]
  BY DEF Candidates
<1>3. IsPolicy(q) /\ \A f \in PolicyFields \ {"cap"} : q[f] = w[f]
  BY <1>1, <1>2 DEF IsPolicy, PolicyFields
<1> QED
  BY <1>1, <1>2, <1>3 DEF NothingUnscoped, UncapturedWithin, IsPolicy, ScopingFields,
                          PolicyFields

(* Whatever release a reviewed policy is compared with, as long as it       *)
(* widens captured fields that are scoped: advice to continue is safe.      *)
THEOREM AdvisedChangesAreSafe == Spec => []AdvisedChangeIsSafe
<1>1. ASSUME IsPolicy(policy), NEW q \in Candidates(policy), NEW trace \in Traces,
             Advice(policy, q, trace) = "continue_advisory"
      PROVE  /\ \A a \in Actions, c \in Contexts :
                  Rank(Decision(a, q, c)) <= Rank(Decision(a, policy, c))
             /\ \A i \in DOMAIN trace :
                  trace[i].safe <=>
                    Decision(trace[i].action, q, trace[i].context) = "allow"
  <2> DEFINE replays == << ReplayCase(q, trace) >>
  <2>1. IsPolicy(q) /\ NothingUnscoped(policy, q) /\ UncapturedWithin(q, policy)
    BY <1>1, CandidatesAreCaptured
  <2>2. EvaluateChange(Surface(policy), Surface(q), replays).action = "continue_advisory"
    BY <1>1 DEF Advice
  <2>3. ReplayCase(q, trace).passed
    <3>1. \A i \in DOMAIN replays : replays[i].passed
      BY <2>2, ContinueIsEarned
    <3>2. 1 \in DOMAIN replays /\ replays[1] = ReplayCase(q, trace)
      OBVIOUS
    <3> QED
      BY <3>1, <3>2
  <2> HIDE DEF replays
  <2> QED
    BY <1>1, <2>1, <2>2, <2>3, AdviceIsSound, PassedReplay, ActionsAssumption,
       ContextsAssumption DEF Decision
<1>2. IsPolicy(policy) => AdvisedChangeIsSafe
  BY <1>1 DEF AdvisedChangeIsSafe
<1> QED
  BY <1>2, PoliciesStayPolicies, PTL
=============================================================================
