------------------------------- MODULE Engine -------------------------------
(***************************************************************************)
(* The deterministic policy engine (interlock/engine): classification of a *)
(* typed action, the scope checks, and the decision of `enforce`.          *)
(*                                                                         *)
(* Everything here is a function of its arguments, as in the code, which   *)
(* imports no clock, no randomness and no network.  Data is abstracted to  *)
(* what a decision tells apart:                                            *)
(*   - an SQL text is the record [single, keyword, named, touched]:        *)
(*     whether it is one comment-free statement, its leading keyword in    *)
(*     upper case, the tables that it names where the extractor looks for  *)
(*     one, in order, and the tables that it reads or writes when it runs: *)
(*     a join, a comma list or a subquery touches more than the first one  *)
(*     named, and a string literal names what is not touched;              *)
(*   - a path is [absolute, names], names being its components;            *)
(*   - a forbidden pattern is a name, Hits says which actions it matches,  *)
(*     and InvalidPatterns are those that are not regular expressions.     *)
(***************************************************************************)
EXTENDS Integers, SequencesExt

CONSTANTS
  Cwd,              \* working directory of the server, as a sequence of names
  SandboxRoot,      \* Sandbox.root, as a sequence of names
  InvalidPatterns,  \* forbidden patterns that re.search cannot compile
  Hits              \* valid pattern |-> the actions whose JSON it matches

NoName == "none"          \* Python's None, for a keyword, a table or a rule
NoExpiry == -1            \* policy.expires_at_epoch is None

Reversibilities == {"reversible", "irreversible", "unknown"}
Decisions == {"allow", "halt", "escalate"}
Tools == {"db", "transfer", "fs_write", "inspect", "github"}

-----------------------------------------------------------------------------
(* SQL grammar helpers (sqlkw.py) and the classifier (catalog.py). *)

LeadingKeyword(sql) == IF sql.single THEN sql.keyword ELSE NoName

\* The keywords whose statement shape the table extractor knows.
TableKeywords == {"DELETE", "INSERT", "SELECT", "UPDATE"}

\* Mutant: the extractor knows every keyword.
MutTargetTable(sql) ==
  IF LeadingKeyword(sql) # NoName /\ sql.named # <<>>
  THEN Head(sql.named) ELSE NoName

\* pattern.search: the first table found, and no other.
TargetTable(sql) ==
  IF LeadingKeyword(sql) \in TableKeywords /\ sql.named # <<>>
  THEN Head(sql.named) ELSE NoName

ReadOnlySql == {"SELECT", "EXPLAIN"}
MutatingSql == {"ALTER", "ANALYZE", "ATTACH", "CREATE", "DELETE", "DETACH",
                "DROP", "INSERT", "PRAGMA", "REINDEX", "REPLACE", "UPDATE",
                "VACUUM"}

\* Mutant: a mutating keyword among the read-only ones.
MutClassifySql(sql) ==
  CASE LeadingKeyword(sql) \in ReadOnlySql \union {"DELETE"} -> "reversible"
    [] LeadingKeyword(sql) \in MutatingSql -> "irreversible"
    [] OTHER -> "unknown"

ClassifySql(sql) ==
  CASE LeadingKeyword(sql) \in ReadOnlySql -> "reversible"
    [] LeadingKeyword(sql) \in MutatingSql -> "irreversible"
    [] OTHER -> "unknown"

Classify(action) ==
  CASE action.tool = "inspect" -> "reversible"
    [] action.tool \in {"transfer", "fs_write"} -> "irreversible"
    [] action.tool = "github" ->
         IF action.operation \in {"read_issue", "read_pull_request"}
         THEN "reversible" ELSE "irreversible"
    [] action.tool = "db" -> ClassifySql(action.sql)
    [] OTHER -> "unknown"

-----------------------------------------------------------------------------
(* Scope checks (scope.py) and forbidden patterns (patterns.py). *)

\* Path.resolve: a relative path is taken from base, and ".." drops a name.
Resolve(base, path) ==
  LET step(names, name) ==
        IF name # ".." THEN Append(names, name)
        ELSE IF names = <<>> THEN names ELSE Front(names)
  IN  FoldLeft(step, IF path.absolute THEN <<>> ELSE base, path.names)

PathInScope(path, roots) ==
  \E root \in roots : IsPrefix(Resolve(Cwd, root), Resolve(Cwd, path))

DbOpAllowed(sql, ops) ==
  LeadingKeyword(sql) # NoName /\ LeadingKeyword(sql) \in ops

DbTableAllowed(sql, tables) ==
  TargetTable(sql) # NoName /\ TargetTable(sql) \in tables

WithinSpend(spent, requested, cap) ==
  requested >= 0 /\ spent >= 0 /\ spent + requested <= cap

\* An empty list leaves the dimension unscoped.
ValueInScope(value, allowed) == allowed = {} \/ value \in allowed

CriticalityInScope(actual, maximum) == actual <= maximum

\* Mutant: a list with an invalid pattern is ignored instead of halting.
MutMatchesForbidden(action, patterns) ==
  /\ patterns \intersect InvalidPatterns = {}
  /\ \E p \in patterns : action \in Hits[p]

\* Some pattern matches, or is met first and does not compile.  Which of the
\* two only chooses the text of matched_rule, which is left out.
MatchesForbidden(action, patterns) ==
  \E p \in patterns : p \in InvalidPatterns \/ action \in Hits[p]

-----------------------------------------------------------------------------
(* enforce (enforcer.py): the rules in the order the code tries them. *)

\* The first rule about who, where and which tool that refuses the action.
ScopeRefusal(action, policy, context) ==
  IF policy.expires # NoExpiry /\ context.epoch > policy.expires
    THEN "expires_at_epoch"
  ELSE IF ~ValueInScope(context.agent, policy.agents)
    THEN "allowed_agent_ids"
  ELSE IF ~ValueInScope(context.principal, policy.principals)
    THEN "allowed_human_principals"
  ELSE IF ~ValueInScope(context.environment, policy.environments)
    THEN "allowed_environments"
  ELSE IF ~ValueInScope(context.asset, policy.assets)
    THEN "allowed_asset_ids"
  ELSE IF ~CriticalityInScope(context.criticality, policy.maxCriticality)
    THEN "max_asset_criticality"
  ELSE IF action.tool \notin policy.tools
    THEN "allowed_tools"
  ELSE IF action.tool = "github"
          /\ ~ValueInScope(action.operation, policy.githubOps)
    THEN "allowed_github_operations"
  ELSE IF action.tool = "github"
          /\ ~ValueInScope(action.repository, policy.githubRepos)
    THEN "allowed_github_repositories"
  ELSE IF MatchesForbidden(action, policy.forbidden)
    THEN "forbidden_pattern"
  ELSE NoName

\* The first rule about the effect itself that refuses the action.  A
\* reversible action only meets the database rules.
EffectRefusal(action, policy, context) ==
  LET consequential == Classify(action) # "reversible"
  IN  IF action.tool = "fs_write" /\ consequential
         /\ ~PathInScope(action.path, policy.roots)
        THEN "allowed_roots"
      ELSE IF action.tool = "db" /\ ~DbOpAllowed(action.sql, policy.dbOps)
        THEN "allowed_db_ops"
      ELSE IF action.tool = "db" /\ ~DbTableAllowed(action.sql, policy.dbTables)
        THEN "allowed_db_tables"
      ELSE IF action.tool = "transfer" /\ consequential
              /\ ~WithinSpend(context.spent, action.cents, policy.cap)
        THEN "spend_cap"
      ELSE NoName

Verdict(decision, reversibility, rule) ==
  [decision |-> decision, reversibility |-> reversibility, rule |-> rule]

Enforce(action, policy, context) ==
  LET scope == ScopeRefusal(action, policy, context)
      effect == EffectRefusal(action, policy, context)
  IN  IF scope # NoName THEN Verdict("halt", "unknown", scope)
      ELSE IF effect # NoName THEN Verdict("halt", Classify(action), effect)
      ELSE IF Classify(action) = "reversible"
        THEN Verdict("allow", "reversible", "reversible")
      ELSE Verdict("escalate", Classify(action), "irreversible_in_scope")

Decision(action, policy, context) == Enforce(action, policy, context).decision

-----------------------------------------------------------------------------
(* What surrounds the engine and shapes its arguments. *)

\* EnforcementContext(): the value every caller in the repository passes.
DefaultContext ==
  [spent |-> 0, agent |-> "local-demo-agent", principal |-> "local-demo-user",
   environment |-> "local", asset |-> "local-sandbox", criticality |-> 0,
   epoch |-> 0]

\* Policy(task=...): what is left when the compiler fails; it allows nothing.
DenyAll ==
  [tools |-> {}, roots |-> {}, dbOps |-> {}, dbTables |-> {}, cap |-> 0,
   forbidden |-> {}, agents |-> {}, principals |-> {}, environments |-> {},
   assets |-> {}, githubOps |-> {}, githubRepos |-> {}, maxCriticality |-> 2,
   expires |-> NoExpiry]

\* Mutant: the global patterns replace the policy's own.
MutWithGlobalGuardrails(policy, patterns) ==
  [policy EXCEPT !.forbidden = patterns]

WithGlobalGuardrails(policy, patterns) ==
  [policy EXCEPT !.forbidden = @ \union patterns]

\* Sandbox.fs_write: the file that a dispatched path is written to.
SandboxTarget(path) == Resolve(SandboxRoot, path)
SandboxAccepts(path) == IsPrefix(SandboxRoot, SandboxTarget(path))

-----------------------------------------------------------------------------
(* The order of policies a reviewer has in mind: q grants no more than p in *)
(* any field.  An empty identity or GitHub list is unscoped, so it is the   *)
(* widest value of its field and not the narrowest.                         *)

PolicyFields ==
  {"tools", "roots", "dbOps", "dbTables", "cap", "forbidden", "agents",
   "principals", "environments", "assets", "githubOps", "githubRepos",
   "maxCriticality", "expires"}
IsPolicy(p) ==
  /\ p = [field \in PolicyFields |-> p[field]]
  /\ p.cap \in Int /\ p.maxCriticality \in Int /\ p.expires \in Int

ScopeWithin(q, p) == p = {} \/ (q # {} /\ q \subseteq p)

Narrows(q, p) ==
  /\ q.tools \subseteq p.tools /\ q.roots \subseteq p.roots
  /\ q.dbOps \subseteq p.dbOps /\ q.dbTables \subseteq p.dbTables
  /\ q.cap <= p.cap /\ q.maxCriticality <= p.maxCriticality
  /\ p.forbidden \subseteq q.forbidden
  /\ \A f \in {"agents", "principals", "environments", "assets",
               "githubOps", "githubRepos"} : ScopeWithin(q[f], p[f])
  /\ p.expires = NoExpiry \/ (q.expires # NoExpiry /\ q.expires <= p.expires)

Rank(decision) ==
  CASE decision = "halt" -> 0 [] decision = "escalate" -> 1 [] decision = "allow" -> 2
=============================================================================
