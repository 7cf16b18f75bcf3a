--------------------------- MODULE ReleaseControl ---------------------------
(***************************************************************************)
(* Report-only change control (interlock/assurance): the authority surface *)
(* captured from a policy, the delta of two surfaces, the replay of a      *)
(* labelled trace, and the evidence and advice built from both.            *)
(*                                                                         *)
(* All of it is a function of its arguments, like the engine it reads.     *)
(* Identifiers, component digests, correlation ids and the texts of the    *)
(* report are left out, as is the count of impacted sessions.  The digest  *)
(* of a bundle is the payload it hashes: SHA-256 is taken as injective.    *)
(***************************************************************************)
EXTENDS Engine, FiniteSets

\* The fields of a surface that compare_authority compares as sets.
AuthorityFields ==
  {"principals", "tools", "roots", "dbOps", "dbTables", "githubOps",
   "githubRepos", "environments"}

\* The lists of a policy whose empty value leaves the dimension unscoped.
ScopingFields ==
  {"agents", "principals", "environments", "assets", "githubOps", "githubRepos"}

-----------------------------------------------------------------------------
(* Capture and delta. *)

\* Agents and humans share one field, told apart by the prefix of the label.
\* Assets, criticality, forbidden patterns and the expiry are not captured.
Surface(policy) ==
  [principals |-> ({"agent"} \X policy.agents) \union ({"human"} \X policy.principals),
   tools |-> policy.tools, roots |-> policy.roots,
   dbOps |-> policy.dbOps, dbTables |-> policy.dbTables,
   githubOps |-> policy.githubOps, githubRepos |-> policy.githubRepos,
   environments |-> policy.environments,
   unrestricted |-> { f \in ScopingFields : policy[f] = {} },
   cap |-> policy.cap, approvalRequired |-> TRUE]

\* Mutant: the arguments swapped.
MutCompareAuthority(baseline, candidate) ==
  [added |-> [f \in AuthorityFields |-> baseline[f] \ candidate[f]],
   removed |-> [f \in AuthorityFields |-> candidate[f] \ baseline[f]],
   capIncrease |-> IF candidate.cap > baseline.cap
                   THEN candidate.cap - baseline.cap ELSE 0,
   approvalRemoved |-> baseline.approvalRequired /\ ~candidate.approvalRequired]

CompareAuthority(baseline, candidate) ==
  [added |-> [f \in AuthorityFields |-> candidate[f] \ baseline[f]],
   removed |-> [f \in AuthorityFields |-> baseline[f] \ candidate[f]],
   capIncrease |-> IF candidate.cap > baseline.cap
                   THEN candidate.cap - baseline.cap ELSE 0,
   approvalRemoved |-> baseline.approvalRequired /\ ~candidate.approvalRequired]

\* Mutant: one of the ten terms is forgotten.
MutHasExpansion(delta) ==
  \/ \E f \in AuthorityFields \ {"dbTables"} : delta.added[f] # {}
  \/ delta.capIncrease > 0
  \/ delta.approvalRemoved

HasExpansion(delta) ==
  \/ \E f \in AuthorityFields : delta.added[f] # {}
  \/ delta.capIncrease > 0
  \/ delta.approvalRemoved

-----------------------------------------------------------------------------
(* Replay: a trace is a sequence of [safe, action, context]. *)

Simulate(policy, steps) ==
  LET allowed == [i \in DOMAIN steps |->
        Enforce(steps[i].action, policy, steps[i].context).decision = "allow"]
      count(safe, ok) ==
        Cardinality({ i \in DOMAIN steps : steps[i].safe = safe /\ allowed[i] = ok })
  IN  [allowedSafe |-> count(TRUE, TRUE), blockedSafe |-> count(TRUE, FALSE),
       stoppedUnsafe |-> count(FALSE, FALSE), missedUnsafe |-> count(FALSE, TRUE)]

ReplayPasses(metrics) == metrics.blockedSafe = 0 /\ metrics.missedUnsafe = 0

ReplayCase(policy, steps) ==
  [passed |-> ReplayPasses(Simulate(policy, steps)),
   metrics |-> Simulate(policy, steps)]

-----------------------------------------------------------------------------
(* Evidence and the advice an orchestrator gets. *)

VerdictFor(delta, replays) ==
  IF HasExpansion(delta) \/ \E i \in DOMAIN replays : ~replays[i].passed
    THEN "fail"
  ELSE IF replays = <<>> THEN "inconclusive" ELSE "pass"

Payload(bundle) ==
  [field \in {"baseline", "candidate", "delta", "replays", "verdict"} |->
     bundle[field]]

BuildEvidence(baseline, candidate, delta, replays) ==
  LET evidence ==
        [baseline |-> baseline, candidate |-> candidate, delta |-> delta,
         replays |-> replays, verdict |-> VerdictFor(delta, replays)]
  IN  [evidence |-> evidence, digest |-> Payload(evidence)]

VerifyEvidence(bundle) ==
  /\ bundle.evidence.verdict = VerdictFor(bundle.evidence.delta,
                                          bundle.evidence.replays)
  /\ bundle.digest = Payload(bundle.evidence)

FixtureCallback(bundle) ==
  IF ~VerifyEvidence(bundle)
    THEN [verdict |-> "inconclusive", action |-> "quarantine"]
  ELSE [verdict |-> bundle.evidence.verdict,
        action |-> CASE bundle.evidence.verdict = "pass" -> "continue_advisory"
                     [] bundle.evidence.verdict = "fail" -> "reviewer_required"
                     [] OTHER -> "quarantine"]

EvaluateChange(baseline, candidate, replays) ==
  FixtureCallback(
    BuildEvidence(baseline, candidate,
                  CompareAuthority(baseline, candidate), replays))

\* Admission of a skill, on the case it was reviewed in.  The case counts for
\* its status and its reviewer alone: which cases the replays belong to is
\* not looked at.
AdmitSkill(case, baseline, candidate, replays) ==
  IF case.status # "active" \/ ~case.reviewed
    THEN [admissible |-> FALSE,
          callback |-> [verdict |-> "inconclusive", action |-> "quarantine"]]
  ELSE LET callback == EvaluateChange(baseline, candidate, replays)
       IN  [admissible |-> callback.verdict = "pass"
                           /\ callback.action = "continue_advisory",
            callback |-> callback]

=============================================================================
