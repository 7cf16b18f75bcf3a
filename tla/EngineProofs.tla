---------------------------- MODULE EngineProofs ----------------------------
(***************************************************************************)
(* What the policy engine guarantees for every action, policy and context, *)
(* whatever the patterns match and wherever the server runs.               *)
(***************************************************************************)
EXTENDS Engine, TLAPS

(* A verdict is a halt exactly when some rule refuses, and otherwise        *)
(* depends on the classification alone.                                     *)
LEMMA DecisionCases ==
  ASSUME NEW a, NEW p, NEW c
  PROVE  LET refused == \/ ScopeRefusal(a, p, c) # NoName
                        \/ EffectRefusal(a, p, c) # NoName
         IN  /\ refused => Decision(a, p, c) = "halt"
             /\ ~refused /\ Classify(a) = "reversible" => Decision(a, p, c) = "allow"
             /\ ~refused /\ Classify(a) # "reversible" =>
                  Decision(a, p, c) = "escalate"
BY DEF Decision, Enforce, Verdict

(* enforce always answers one of the three decisions.                       *)
THEOREM DecisionTyped ==
  ASSUME NEW a, NEW p, NEW c PROVE Enforce(a, p, c).decision \in Decisions
BY DecisionCases DEF Decision, Decisions

(* Nothing but a reversible action is ever let through without a human.     *)
THEOREM AllowedIsReversible ==
  ASSUME NEW a, NEW p, NEW c, Enforce(a, p, c).decision = "allow"
  PROVE  Classify(a) = "reversible"
BY DecisionCases DEF Decision

(* The classifier leaves an action of a known tool unknown only when it is  *)
(* an SQL text whose keyword has no table extractor.                        *)
LEMMA UnknownIsSql ==
  ASSUME NEW a, a.tool \in Tools, Classify(a) = "unknown"
  PROVE  a.tool = "db" /\ TargetTable(a.sql) = NoName
BY DEF Tools, Classify, ClassifySql, ReadOnlySql, MutatingSql, TargetTable,
       TableKeywords

(* rules.md, "Fail closed": an action of unknown reversibility halts under  *)
(* every policy, including one that lists its keyword and its table.        *)
THEOREM UnknownAlwaysHalts ==
  ASSUME NEW a, NEW p, NEW c, a.tool \in Tools, Classify(a) = "unknown"
  PROVE  Enforce(a, p, c).decision = "halt"
<1>1. a.tool = "db" /\ ~DbTableAllowed(a.sql, p.dbTables)
  BY UnknownIsSql DEF DbTableAllowed
<1>2. EffectRefusal(a, p, c) # NoName
  BY <1>1 DEF EffectRefusal, NoName
<1> QED
  BY <1>2, DecisionCases DEF Decision

(* Only an irreversible action asks a human.                                *)
THEOREM EscalatedIsIrreversible ==
  ASSUME NEW a, NEW p, NEW c, a.tool \in Tools,
         Enforce(a, p, c).decision = "escalate"
  PROVE  Classify(a) = "irreversible"
<1>1. Classify(a) # "unknown"
  BY UnknownAlwaysHalts
<1>2. Classify(a) # "reversible"
  BY DecisionCases DEF Decision
<1> QED
  BY <1>1, <1>2 DEF Classify, ClassifySql

-----------------------------------------------------------------------------
(* A rule that the narrower policy does not raise is not raised by the      *)
(* wider one either: identity, environment and tool rules.                  *)
LEMMA NarrowScope ==
  ASSUME NEW a, NEW p, NEW q, NEW c, IsPolicy(p), IsPolicy(q), Narrows(q, p),
         c.epoch \in Int, c.criticality \in Int,
         ScopeRefusal(a, q, c) = NoName
  PROVE  ScopeRefusal(a, p, c) = NoName
<1>1. ~(p.expires # NoExpiry /\ c.epoch > p.expires)
  BY DEF ScopeRefusal, NoName, NoExpiry, Narrows, IsPolicy
<1>2. /\ ValueInScope(c.agent, p.agents)
      /\ ValueInScope(c.principal, p.principals)
      /\ ValueInScope(c.environment, p.environments)
      /\ ValueInScope(c.asset, p.assets)
  BY DEF ScopeRefusal, NoName, Narrows, ScopeWithin, ValueInScope
<1>3. CriticalityInScope(c.criticality, p.maxCriticality)
  BY DEF ScopeRefusal, NoName, Narrows, CriticalityInScope, IsPolicy
<1>4. a.tool \in p.tools
  BY DEF ScopeRefusal, NoName, Narrows
<1>5. a.tool = "github" => /\ ValueInScope(a.operation, p.githubOps)
                           /\ ValueInScope(a.repository, p.githubRepos)
  BY DEF ScopeRefusal, NoName, Narrows, ScopeWithin, ValueInScope
<1>6. ~MatchesForbidden(a, p.forbidden)
  BY DEF ScopeRefusal, NoName, Narrows, MatchesForbidden
<1> QED
  BY <1>1, <1>2, <1>3, <1>4, <1>5, <1>6 DEF ScopeRefusal

(* The same for the rules about the effect: roots, SQL scope and spend.     *)
LEMMA NarrowEffect ==
  ASSUME NEW a, NEW p, NEW q, NEW c, IsPolicy(p), IsPolicy(q), Narrows(q, p),
         c.spent \in Int, a.tool = "transfer" => a.cents \in Int,
         EffectRefusal(a, q, c) = NoName
  PROVE  EffectRefusal(a, p, c) = NoName
<1>1. a.tool = "fs_write" /\ Classify(a) # "reversible" => PathInScope(a.path, p.roots)
  BY DEF EffectRefusal, NoName, Narrows, PathInScope
<1>2. a.tool = "db" => /\ DbOpAllowed(a.sql, p.dbOps)
                       /\ DbTableAllowed(a.sql, p.dbTables)
  BY DEF EffectRefusal, NoName, Narrows, DbOpAllowed, DbTableAllowed
<1>3. a.tool = "transfer" /\ Classify(a) # "reversible" =>
        WithinSpend(c.spent, a.cents, p.cap)
  BY DEF EffectRefusal, NoName, Narrows, WithinSpend, IsPolicy
<1> QED
  BY <1>1, <1>2, <1>3 DEF EffectRefusal

(* Narrowing a policy never raises the verdict of any action: what halted   *)
(* still halts, and what needed a human never stops needing one.            *)
THEOREM NarrowingIsMonotone ==
  ASSUME NEW a, NEW p, NEW q, NEW c, IsPolicy(p), IsPolicy(q), Narrows(q, p),
         c.epoch \in Int, c.criticality \in Int, c.spent \in Int,
         a.tool = "transfer" => a.cents \in Int
  PROVE  Rank(Enforce(a, q, c).decision) <= Rank(Enforce(a, p, c).decision)
<1>1. CASE Decision(a, q, c) = "halt"
  BY <1>1, DecisionTyped DEF Decision, Decisions, Rank
<1>2. CASE Decision(a, q, c) # "halt"
  <2>1. ScopeRefusal(a, q, c) = NoName /\ EffectRefusal(a, q, c) = NoName
    BY <1>2, DecisionCases
  <2>2. ScopeRefusal(a, p, c) = NoName /\ EffectRefusal(a, p, c) = NoName
    BY <2>1, NarrowScope, NarrowEffect
  <2>3. Decision(a, p, c) = Decision(a, q, c)
    BY <2>1, <2>2, DecisionCases
  <2>4. Decision(a, q, c) \in Decisions
    BY DecisionTyped DEF Decision
  <2> QED
    BY <2>3, <2>4 DEF Decision, Decisions, Rank
<1> QED
  BY <1>1, <1>2

(* Approved guardrails only take away: a verdict under the composed policy  *)
(* is the verdict under the confirmed one, or a halt.                       *)
THEOREM CompositionOnlyHalts ==
  ASSUME NEW a, NEW p, NEW c, NEW patterns, IsPolicy(p)
  PROVE  Enforce(a, WithGlobalGuardrails(p, patterns), c).decision
           \in {Enforce(a, p, c).decision, "halt"}
<1> DEFINE q == WithGlobalGuardrails(p, patterns)
<1>1. /\ \A f \in PolicyFields \ {"forbidden"} : q[f] = p[f]
      /\ q.forbidden = p.forbidden \union patterns
  BY DEF WithGlobalGuardrails, IsPolicy, PolicyFields
<1>2. EffectRefusal(a, q, c) = EffectRefusal(a, p, c)
  BY <1>1 DEF EffectRefusal, PolicyFields
<1>3. ScopeRefusal(a, q, c) = NoName => ScopeRefusal(a, p, c) = NoName
  BY <1>1 DEF ScopeRefusal, NoName, MatchesForbidden, PolicyFields
<1> HIDE DEF q
<1>4. Decision(a, q, c) \in {Decision(a, p, c), "halt"}
  BY <1>2, <1>3, DecisionCases
<1> QED
  BY <1>4 DEF Decision, q
=============================================================================
