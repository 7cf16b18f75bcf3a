----------------------------- MODULE Escalation -----------------------------
(***************************************************************************)
(* The runtime enforcement path: agent runs and their guarded calls        *)
(* (interceptor.py, api/main.py), the audit and escalation tables          *)
(* (api/eventlog.py), the threads that resolve escalations, and the local  *)
(* sandbox all of them share (tools/sandbox.py).                           *)
(*                                                                         *)
(* guarded_call has no await, so a task keeps the event loop from its      *)
(* decision to its return.  resolve_escalation is a sync endpoint: each    *)
(* request is a thread of its own, interleaved with the loop and with the  *)
(* others between any two SQLite transactions.  An action is one           *)
(* transaction.  The database survives a crash; tasks, threads and the     *)
(* loop do not.  What is external is the agent: it proposes any action in  *)
(* Actions, in any order, and ends when it likes.                          *)
(***************************************************************************)
EXTENDS Engine

CONSTANTS
  Runs,        \* ids of run rows
  DemoRuns,    \* the runs started by POST /demo; the others by POST /run
  Policies,    \* effective policies a run may be started with, guardrails composed in
  Approvers,   \* threads serving POST /escalation/{id}/{resolution}
  Actions,     \* what agents propose
  Opening,     \* opening_balance_cents of the sandbox ledger
  NoRow,       \* the ledger table is empty
  None,        \* no run, no action
  Free,        \* nobody holds the event loop
  MaxEvents,   \* bound: rows of the events table
  MaxCrashes   \* bound: crashes in one behaviour

ASSUME NullAssumption ==
  NoRow \notin Int /\ None \notin Runs /\ None \notin Policies /\ Free \notin Runs
  /\ \A a \in Actions : a # None
ASSUME BoundAssumption == MaxEvents \in Nat /\ MaxCrashes \in Nat
ASSUME OpeningAssumption == Opening \in Nat
\* Cents are never negative (the action type refuses them), and no proposed
\* SQL touches the ledger, which only transfers and resets then change.
ASSUME ActionAssumption ==
  /\ DemoRuns \subseteq Runs
  /\ \A a \in Actions : /\ a.tool \in Tools
                        /\ a.tool = "transfer" => a.cents \in Nat
                        /\ a.tool = "db" => "ledger" \notin a.sql.touched

Ids == 1..MaxEvents

\* The safety demo: an allowed read, then a destructive statement.
DemoScript ==
  << [tool |-> "inspect", resource |-> "db_schema"],
     [tool |-> "db",
      sql |-> [single |-> TRUE, keyword |-> "DROP", named |-> <<"users">>,
               touched |-> {"users"}]] >>

Proposable == Actions \union { DemoScript[i] : i \in DOMAIN DemoScript }

VARIABLES
  event,       \* events table: id |-> [run, action, decision]
  escalation,  \* escalations table: id |-> [status, action, policy]
  granted,     \* run |-> the policy of its guard context, kept after its end
  ledger,      \* the one row of the sandbox ledger
  loop,        \* the run whose task holds the event loop
  task,        \* run |-> where its task is, on which call
  approver,    \* thread |-> where it is, on which call, the balance it read
  crashes,
  effects,     \* history: how often each call took effect
  debited      \* history: cents transferred since the last reset

history == <<effects, debited>>
vars == <<event, escalation, granted, ledger, loop, task, approver, crashes,
          effects, debited>>

NoEvent == [run |-> None, action |-> None, decision |-> "none"]
NoEscalation == [status |-> "absent", action |-> None, policy |-> None]
Resting == [pc |-> "idle", call |-> 0, balance |-> 0]

TypeOK ==
  /\ event \in [Ids -> [run : Runs \union {None}, action : Proposable \union {None},
                       decision : Decisions \union {"none"}]]
  /\ escalation \in [Ids -> [status : {"absent", "pending", "approved", "rejected"},
                            action : Proposable \union {None},
                            policy : Policies \union {None}]]
  /\ granted \in [Runs -> Policies \union {None}]
  /\ ledger \in Int \union {NoRow}
  /\ loop \in Runs \union {Free}
  /\ task \in [Runs -> [pc : {"absent", "accepted", "wiped", "ready", "escalating",
                             "dispatching", "ended"},
                       call : 0..MaxEvents, step : Nat]]
  /\ approver \in [Approvers ->
       [pc : {"idle", "claimed", "cleared", "opened", "read"},
        call : 0..MaxEvents, balance : Int]]
  /\ crashes \in 0..MaxCrashes
  /\ effects \in [Ids -> Nat] /\ debited \in Nat

Init ==
  /\ event = [e \in Ids |-> NoEvent]
  /\ escalation = [e \in Ids |-> NoEscalation]
  /\ granted = [r \in Runs |-> None]
  /\ ledger = NoRow
  /\ loop = Free
  /\ task = [r \in Runs |-> [pc |-> "absent", call |-> 0, step |-> 0]]
  /\ approver = [p \in Approvers |-> Resting]
  /\ crashes = 0
  /\ effects = [e \in Ids |-> 0] /\ debited = 0

-----------------------------------------------------------------------------
(* Starting a run.  Sandbox(root) resets the shared database: each DELETE   *)
(* of its script commits by itself, the ledger row is inserted afterwards.  *)

\* A background task gives the loop up between calls; the demo handler, whose
\* awaits never suspend, keeps it from start to end.
Holder(r) == IF r \in DemoRuns THEN r ELSE Free

Goto(r, pc, call) == task' = [task EXCEPT ![r].pc = pc, ![r].call = call]

\* The run's row is there already (PolicyGate); its task gets its policy.
StartRun(r, p) ==
  /\ task[r].pc = "absent" /\ loop = Free
  /\ granted' = [granted EXCEPT ![r] = p]
  /\ Goto(r, "accepted", 0)
  /\ loop' = Holder(r)
  /\ UNCHANGED <<event, escalation, ledger, approver, crashes, history>>

WipeSandbox(r) ==
  /\ task[r].pc = "accepted" /\ loop = Holder(r)
  /\ ledger' = NoRow
  /\ debited' = 0
  /\ Goto(r, "wiped", 0)
  /\ loop' = r
  /\ UNCHANGED <<event, escalation, granted, approver, crashes, effects>>

SeedSandbox(r) ==
  /\ task[r].pc = "wiped" /\ ledger = NoRow
  /\ ledger' = Opening
  /\ Goto(r, "ready", 0)
  /\ loop' = Holder(r)
  /\ UNCHANGED <<event, escalation, granted, approver, crashes, history>>

\* A thread has put the row back: the INSERT raises, and the run is over.
SeedFails(r) ==
  /\ task[r].pc = "wiped" /\ ledger # NoRow
  /\ Goto(r, "ended", 0)
  /\ loop' = Free
  /\ UNCHANGED <<event, escalation, granted, ledger, approver, crashes, history>>

-----------------------------------------------------------------------------
(* guarded_call. *)

Fresh(e) == event[e].decision = "none" /\ \A d \in 1..(e - 1) : event[d].decision # "none"

Proposed(r) ==
  IF r \notin DemoRuns THEN Actions
  ELSE { DemoScript[i] : i \in {task[r].step + 1} \intersect DOMAIN DemoScript }

\* Mutant: the sink offers no record_escalation, and none is required.
MutDecide(r, a, e) ==
  /\ task[r].pc = "ready" /\ loop = Holder(r)
  /\ a \in Proposed(r) /\ Fresh(e)
  /\ LET decision == Enforce(a, granted[r], DefaultContext).decision
     IN  /\ event' = [event EXCEPT ![e] =
                        [run |-> r, action |-> a, decision |-> decision]]
         /\ task' = [task EXCEPT ![r].step = IF r \in DemoRuns THEN @ + 1 ELSE @,
                                 ![r].call = IF decision = "allow" THEN e ELSE 0,
                                 ![r].pc = IF decision = "allow" THEN "dispatching"
                                                                 ELSE "ready"]
         /\ loop' = IF decision = "allow" THEN r ELSE Holder(r)
  /\ UNCHANGED <<escalation, granted, ledger, approver, crashes, history>>

\* Mutant: the policy is a global that another run has set since.
MutDecideGlobal(r, a, e) ==
  /\ task[r].pc = "ready" /\ loop = Holder(r)
  /\ a \in Proposed(r) /\ Fresh(e)
  /\ \E q \in {s \in Runs : granted[s] # None} :
       LET decision == Enforce(a, granted[q], DefaultContext).decision
       IN  /\ event' = [event EXCEPT ![e] =
                          [run |-> r, action |-> a, decision |-> decision]]
           /\ task' = [task EXCEPT ![r].step = IF r \in DemoRuns THEN @ + 1 ELSE @,
                                   ![r].call = IF decision = "halt" THEN 0 ELSE e,
                                   ![r].pc = CASE decision = "halt" -> "ready"
                                               [] decision = "escalate" -> "escalating"
                                               [] decision = "allow" -> "dispatching"]
           /\ loop' = IF decision = "halt" THEN Holder(r) ELSE r
  /\ UNCHANGED <<escalation, granted, ledger, approver, crashes, history>>

\* enforce, then emit commits the audit row; a halt returns at once.
Decide(r, a, e) ==
  /\ task[r].pc = "ready" /\ loop = Holder(r)
  /\ a \in Proposed(r) /\ Fresh(e)
  /\ LET decision == Enforce(a, granted[r], DefaultContext).decision
     IN  /\ event' = [event EXCEPT ![e] =
                        [run |-> r, action |-> a, decision |-> decision]]
         /\ task' = [task EXCEPT ![r].step = IF r \in DemoRuns THEN @ + 1 ELSE @,
                                 ![r].call = IF decision = "halt" THEN 0 ELSE e,
                                 ![r].pc = CASE decision = "halt" -> "ready"
                                             [] decision = "escalate" -> "escalating"
                                             [] decision = "allow" -> "dispatching"]
         /\ loop' = IF decision = "halt" THEN Holder(r) ELSE r
  /\ UNCHANGED <<escalation, granted, ledger, approver, crashes, history>>

RecordEscalation(r) ==
  /\ task[r].pc = "escalating"
  /\ LET e == task[r].call
     IN  escalation' = [escalation EXCEPT ![e] =
           [status |-> "pending", action |-> event[e].action, policy |-> granted[r]]]
  /\ Goto(r, "ready", 0)
  /\ loop' = Holder(r)
  /\ UNCHANGED <<event, granted, ledger, approver, crashes, history>>

\* _dispatch of an allowed action: a read, which changes no table.
DispatchAllowed(r) ==
  /\ task[r].pc = "dispatching"
  /\ effects' = [effects EXCEPT ![task[r].call] = @ + 1]
  /\ Goto(r, "ready", 0)
  /\ loop' = Holder(r)
  /\ UNCHANGED <<event, escalation, granted, ledger, approver, crashes, debited>>

\* The runner returned or raised; the demo went through its script.
FinishRun(r) ==
  /\ task[r].pc = "ready" /\ loop = Holder(r)
  /\ r \in DemoRuns => task[r].step = Len(DemoScript)
  /\ Goto(r, "ended", 0)
  /\ loop' = Free
  /\ UNCHANGED <<event, escalation, granted, ledger, approver, crashes, history>>

-----------------------------------------------------------------------------
(* resolve_escalation, in a thread.  A request for a call that is not       *)
(* pending answers 409 and changes nothing.                                 *)

Rest(p) == approver' = [approver EXCEPT ![p] = Resting]

\* Mutant: the UPDATE lost its "AND status = 'pending'".
MutClaimAny(p, e) ==
  /\ approver[p].pc = "idle"
  /\ escalation[e].status # "absent"
  /\ \E resolution \in {"approved", "rejected"} :
       /\ escalation' = [escalation EXCEPT ![e].status = resolution]
       /\ approver' = IF resolution = "rejected" THEN approver
                      ELSE [approver EXCEPT ![p].pc = "claimed", ![p].call = e]
  /\ UNCHANGED <<event, granted, ledger, loop, task, crashes, history>>

\* Mutant: the handler goes on whichever way the claim was resolved.
MutClaimBoth(p, e) ==
  /\ approver[p].pc = "idle"
  /\ escalation[e].status = "pending"
  /\ \E resolution \in {"approved", "rejected"} :
       escalation' = [escalation EXCEPT ![e].status = resolution]
  /\ approver' = [approver EXCEPT ![p].pc = "claimed", ![p].call = e]
  /\ UNCHANGED <<event, granted, ledger, loop, task, crashes, history>>

\* claim_escalation: the guarded UPDATE and the SELECT, one transaction.
Claim(p, e) ==
  /\ approver[p].pc = "idle"
  /\ escalation[e].status = "pending"
  /\ \E resolution \in {"approved", "rejected"} :
       /\ escalation' = [escalation EXCEPT ![e].status = resolution]
       /\ approver' = IF resolution = "rejected" THEN approver
                      ELSE [approver EXCEPT ![p].pc = "claimed", ![p].call = e]
  /\ UNCHANGED <<event, granted, ledger, loop, task, crashes, history>>

Claimed(p) == escalation[approver[p].call]

\* The stored pair is enforced again, on a fresh default context.
\* Mutant: the endpoint stamps the context with the current time.
MutRecheckContext == [DefaultContext EXCEPT !.epoch = 1]
RecheckContext == DefaultContext
RecheckPasses(p) ==
  Enforce(Claimed(p).action, Claimed(p).policy, RecheckContext).decision = "escalate"

Recheck(p) ==
  /\ approver[p].pc = "claimed"
  /\ IF RecheckPasses(p) THEN approver' = [approver EXCEPT ![p].pc = "cleared"]
                         ELSE Rest(p)
  /\ UNCHANGED <<event, escalation, granted, ledger, loop, task, crashes, history>>

\* Sandbox(root, reset=False): INSERT OR IGNORE of the ledger row.
OpenSandbox(p) ==
  /\ approver[p].pc = "cleared"
  /\ ledger' = IF ledger = NoRow THEN Opening ELSE ledger
  /\ approver' = [approver EXCEPT ![p].pc = "opened"]
  /\ UNCHANGED <<event, escalation, granted, loop, task, crashes, history>>

\* Mutant: the balance is not compared with the amount.
MutReadBalance(p) ==
  /\ approver[p].pc = "opened" /\ Claimed(p).action.tool = "transfer"
  /\ IF ledger # NoRow
     THEN approver' = [approver EXCEPT ![p].pc = "read", ![p].balance = ledger]
     ELSE Rest(p)
  /\ UNCHANGED <<event, escalation, granted, ledger, loop, task, crashes, history>>

\* Mutant: an approval waits for the balance instead of failing.
MutReadBalanceWaits(p) ==
  /\ approver[p].pc = "opened" /\ Claimed(p).action.tool = "transfer"
  /\ ledger # NoRow /\ Claimed(p).action.cents <= ledger
  /\ approver' = [approver EXCEPT ![p].pc = "read", ![p].balance = ledger]
  /\ UNCHANGED <<event, escalation, granted, ledger, loop, task, crashes, history>>

\* Sandbox.transfer: the SELECT opens no transaction.  An empty table or an
\* insufficient balance raises.
ReadBalance(p) ==
  /\ approver[p].pc = "opened" /\ Claimed(p).action.tool = "transfer"
  /\ IF ledger # NoRow /\ Claimed(p).action.cents <= ledger
     THEN approver' = [approver EXCEPT ![p].pc = "read", ![p].balance = ledger]
     ELSE Rest(p)
  /\ UNCHANGED <<event, escalation, granted, ledger, loop, task, crashes, history>>

\* ... and the UPDATE stores balance - cents, or matches no row.
WriteBalance(p) ==
  /\ approver[p].pc = "read"
  /\ LET cents == Claimed(p).action.cents
     IN  /\ ledger' = IF ledger = NoRow THEN NoRow ELSE approver[p].balance - cents
         /\ debited' = debited + cents
  /\ effects' = [effects EXCEPT ![approver[p].call] = @ + 1]
  /\ Rest(p)
  /\ UNCHANGED <<event, escalation, granted, loop, task, crashes>>

\* run_db, fs_write and the GitHub adapter.
Apply(p) ==
  /\ approver[p].pc = "opened"
  /\ LET a == Claimed(p).action
     IN  a.tool # "transfer" /\ (a.tool = "fs_write" => SandboxAccepts(a.path))
  /\ effects' = [effects EXCEPT ![approver[p].call] = @ + 1]
  /\ Rest(p)
  /\ UNCHANGED <<event, escalation, granted, ledger, loop, task, crashes, debited>>

\* SQLite refuses the statement, or the sandbox the path.
ApplyFails(p) ==
  /\ approver[p].pc = "opened"
  /\ LET a == Claimed(p).action
     IN  a.tool = "db" \/ (a.tool = "fs_write" /\ ~SandboxAccepts(a.path))
  /\ Rest(p)
  /\ UNCHANGED <<event, escalation, granted, ledger, loop, task, crashes, history>>

-----------------------------------------------------------------------------
\* The process dies and is started again over the same files.
Crash ==
  /\ crashes < MaxCrashes
  /\ crashes' = crashes + 1
  /\ task' = [r \in Runs |-> IF task[r].pc = "absent" THEN task[r]
                             ELSE [pc |-> "ended", call |-> 0, step |-> task[r].step]]
  /\ approver' = [p \in Approvers |-> Resting]
  /\ loop' = Free
  /\ UNCHANGED <<event, escalation, granted, ledger, history>>

TaskStep(r) ==
  \/ WipeSandbox(r) \/ SeedSandbox(r) \/ SeedFails(r)
  \/ RecordEscalation(r) \/ DispatchAllowed(r) \/ FinishRun(r)

ApproverStep(p) ==
  \/ Recheck(p) \/ OpenSandbox(p) \/ ReadBalance(p) \/ WriteBalance(p)
  \/ Apply(p) \/ ApplyFails(p)

Next ==
  \/ \E r \in Runs : (\E p \in Policies : StartRun(r, p)) \/ TaskStep(r)
  \/ \E r \in Runs, e \in Ids : \E a \in Proposed(r) : Decide(r, a, e)
  \/ \E p \in Approvers, e \in Ids : Claim(p, e)
  \/ \E p \in Approvers : ApproverStep(p)
  \/ Crash

Spec == Init /\ [][Next]_vars

\* A task inside a call and a thread inside a request are scheduled to the
\* end of it; agents need not propose and humans need not resolve anything.
FairSpec ==
  /\ Spec
  /\ \A r \in Runs : WF_vars(RecordEscalation(r))
  /\ \A p \in Approvers : WF_vars(ApproverStep(p))

-----------------------------------------------------------------------------
(* The refinement mapping onto what Interlock promises per call.            *)
Stage(e) ==
  CASE event[e].decision = "none" -> "none"
    [] event[e].decision = "halt" -> "halted"
    [] event[e].decision = "allow" -> "allowed"
    [] OTHER -> IF escalation[e].status = "absent" THEN "escalated"
                ELSE escalation[e].status

Promise == INSTANCE Approval WITH
             Calls <- Ids, stage <- [e \in Ids |-> Stage(e)], effects <- effects

(* The runtime path implements the abstract promise, through every          *)
(* interleaving of tasks, threads and crashes.                              *)
ImplementsApproval == Promise!Spec

(* README.md, "human approval": a call with an irreversible effect had it   *)
(* only after its audit row said escalate and a human approved that very    *)
(* action; any other call had its effect only if its row said allow.        *)
EffectAuthorized ==
  \A e \in Ids : effects[e] > 0 =>
    \/ event[e].decision = "allow" /\ Classify(event[e].action) = "reversible"
    \/ /\ event[e].decision = "escalate"
       /\ escalation[e].status = "approved"
       /\ escalation[e].action = event[e].action

(* rules.md, "Fail closed", end to end: whatever had an effect was within   *)
(* the policy its own run was given, whichever run, thread or restart it    *)
(* went through between its decision and its effect.  Of an SQL text that   *)
(* goes for the first table it names, and of transfers for each by itself.  *)
EffectsInPolicy ==
  \A e \in Ids : effects[e] > 0 =>
    LET a == event[e].action
        p == granted[event[e].run]
    IN  /\ a.tool \in p.tools /\ ~MatchesForbidden(a, p.forbidden)
        /\ a.tool = "db" => /\ a.sql.single /\ a.sql.keyword \in p.dbOps
                            /\ Head(a.sql.named) \in p.dbTables
        /\ a.tool = "transfer" => a.cents <= p.cap
        /\ a.tool = "fs_write" => PathInScope(a.path, p.roots)

(* Two threads approving one call, or an approval repeated after a restart, *)
(* never apply it twice.                                                    *)
AtMostOnce == \A e \in Ids : effects[e] <= 1

(* The first resolution of an escalation stands, through every race of      *)
(* approve and reject and every restart.                                    *)
ResolutionFinal ==
  [][\A e \in Ids : escalation[e].status \in {"approved", "rejected"} =>
       escalation'[e] = escalation[e]]_vars

(* Re-enforcing a claimed escalation always answers escalate: the claim,    *)
(* which cannot be undone, is never spent on a 409.  It holds because the   *)
(* stored policy is the composed one and both contexts are the default.     *)
RecheckNeverRefuses ==
  \A p \in Approvers : approver[p].pc = "claimed" => RecheckPasses(p)

(* However transfers, resets and restarts interleave, a balance is never    *)
(* driven below zero.                                                       *)
NeverOverdrawn == ledger # NoRow => ledger >= 0

(* Unless the server stops, an audit row that says escalate gets the row a  *)
(* human can approve.                                                       *)
EscalationRecorded ==
  \A e \in Ids :
    event[e].decision = "escalate" ~>
      escalation[e].status # "absent" \/ crashes > 0

(* An approval request is always answered, whatever the sandbox holds.      *)
ApprovalAnswered ==
  \A p \in Approvers : approver[p].pc # "idle" ~> approver[p].pc = "idle"

-----------------------------------------------------------------------------
(* What a comment, a document or a test says, and the code does not do.     *)

(* eventlog.py:72, "so approval survives a process restart": an escalated   *)
(* call can be approved, or has been rejected, or is performed or about to  *)
(* be performed.                                                            *)
ApprovalSurvives ==
  \A e \in Ids : event[e].decision = "escalate" =>
    CASE escalation[e].status = "absent" ->
           \E r \in Runs : task[r].pc = "escalating" /\ task[r].call = e
      [] escalation[e].status = "approved" ->
           effects[e] > 0 \/ \E p \in Approvers : approver[p].call = e
      [] OTHER -> TRUE

(* A transfer debits the ledger: since the last reset, the balance is the   *)
(* opening one less every transfer performed.                               *)
TransfersDebited == ledger # NoRow => ledger = Opening - debited
=============================================================================
