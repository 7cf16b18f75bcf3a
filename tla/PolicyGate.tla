----------------------------- MODULE PolicyGate -----------------------------
(***************************************************************************)
(* The gate between a drafted policy and an agent run: AppState.policy and *)
(* AppState.confirmed in api/main.py, the guardrail and run tables of the  *)
(* event log, and what carries a run out: a background task for POST /run, *)
(* and for POST /demo the handler itself.                                  *)
(*                                                                         *)
(* FastAPI runs the async handlers (draft, run) on the event loop, which a *)
(* handler keeps until it awaits, and the sync handlers (confirm, the      *)
(* guardrail endpoints) on threads of a pool, which interleave with the    *)
(* loop and with each other between any two statements.  An action is one  *)
(* access to shared state: an assignment, a read, or one SQLite            *)
(* transaction.  Refused requests (409, 422) change nothing and are left   *)
(* out: their guards are those of the accepted ones.                       *)
(***************************************************************************)
EXTENDS Naturals

CONSTANTS
  Policies,       \* what a draft compiles to and what a human may submit
  NoPolicy,       \* state.policy is None
  Guardrails,     \* ids of guardrail rows
  Runs,           \* ids of run rows
  DemoRuns,       \* those that POST /demo starts; POST /run starts the others
  NoRun,          \* the request has no row
  Clients,        \* HTTP clients, each with at most one request in flight
  Free,           \* no handler holds the event loop
  MaxCrashes      \* bound: process crashes in one behaviour

ASSUME NullAssumption ==
  NoPolicy \notin Policies /\ Free \notin Clients /\ NoRun \notin Runs
ASSUME DemoAssumption == DemoRuns \subseteq Runs
ASSUME BoundAssumption == MaxCrashes \in Nat

VARIABLES
  policy, confirmed,  \* AppState, lost with the process
  guardrail,          \* status column of the guardrails table
  run,                \* status column of the runs table
  request,            \* where each client's request is in its handler
  loop,               \* the client whose handler holds the event loop
  task,               \* the agent of each run, with what it was given
  crashes,
  inForce,            \* history: the confirmation nothing has since revoked
  everConfirmed,      \* history: policies submitted with confirmed = true
  overlapped          \* history: two policy or run requests were in flight

stateVars == <<policy, confirmed, inForce, everConfirmed>>
vars == <<policy, confirmed, guardrail, run, request, loop, task, crashes,
          inForce, everConfirmed, overlapped>>

MaybePolicy == Policies \union {NoPolicy}
Approved == { g \in Guardrails : guardrail[g] = "approved" }

Idle == [at |-> "idle", row |-> NoRun, policy |-> NoPolicy, flag |-> FALSE,
         inForce |-> NoPolicy, known |-> {}, patterns |-> {}]
NoTask == [live |-> FALSE, policy |-> NoPolicy, inForce |-> NoPolicy,
           known |-> {}, patterns |-> {}]

Request ==
  [at : {"idle", "compiling", "drafted", "confirming",
         "starting", "checked", "read", "composed", "demo"},
   row : DemoRuns \union {NoRun}, policy : MaybePolicy, flag : BOOLEAN, inForce : MaybePolicy,
   known : SUBSET Guardrails, patterns : SUBSET Guardrails]
Task ==
  [live : BOOLEAN, policy : MaybePolicy, inForce : MaybePolicy,
   known : SUBSET Guardrails, patterns : SUBSET Guardrails]

TypeOK ==
  /\ policy \in MaybePolicy /\ confirmed \in BOOLEAN
  /\ guardrail \in [Guardrails -> {"absent", "pending", "approved", "rejected"}]
  /\ run \in [Runs -> {"absent", "running", "completed", "failed"}]
  /\ request \in [Clients -> Request]
  /\ loop \in Clients \union {Free}
  /\ task \in [Runs -> Task]
  /\ crashes \in 0..MaxCrashes
  /\ inForce \in MaybePolicy /\ everConfirmed \subseteq Policies
  /\ overlapped \in BOOLEAN

Init ==
  /\ policy = NoPolicy /\ confirmed = FALSE
  /\ guardrail = [g \in Guardrails |-> "absent"]
  /\ run = [r \in Runs |-> "absent"]
  /\ request = [c \in Clients |-> Idle]
  /\ loop = Free
  /\ task = [r \in Runs |-> NoTask]
  /\ crashes = 0
  /\ inForce = NoPolicy /\ everConfirmed = {} /\ overlapped = FALSE

\* A policy or run request reaches the server.
Send(c) ==
  /\ request[c].at = "idle"
  /\ overlapped' = (overlapped \/ \E d \in Clients : request[d].at # "idle")

-----------------------------------------------------------------------------
(* POST /policy: draft_policy, async. *)

\* `await state.policy_compiler(...)` gives the loop up.
DraftRequest(c) ==
  /\ Send(c) /\ loop = Free
  /\ request' = [request EXCEPT ![c].at = "compiling"]
  /\ UNCHANGED <<guardrail, run, loop, task, crashes, stateVars>>

\* state.policy = <the compiled draft>
DraftStore(c) ==
  /\ request[c].at = "compiling" /\ loop = Free
  /\ \E p \in Policies : policy' = p
  /\ loop' = c
  /\ request' = [request EXCEPT ![c].at = "drafted"]
  /\ UNCHANGED <<confirmed, guardrail, run, task, crashes, overlapped, inForce, everConfirmed>>

\* state.confirmed = False
DraftUnconfirm(c) ==
  /\ request[c].at = "drafted"
  /\ confirmed' = FALSE /\ inForce' = NoPolicy
  /\ loop' = Free
  /\ request' = [request EXCEPT ![c] = Idle]
  /\ UNCHANGED <<policy, guardrail, run, task, crashes, overlapped, everConfirmed>>

-----------------------------------------------------------------------------
(* PUT /policy: confirm_policy, sync. *)

\* state.policy = <the submitted policy>; the human's say-so is in the body.
ConfirmStore(c) ==
  /\ Send(c)
  /\ \E p \in Policies, flag \in BOOLEAN :
       /\ policy' = p
       /\ request' = [request EXCEPT ![c] =
                        [Idle EXCEPT !.at = "confirming", !.policy = p, !.flag = flag]]
       /\ everConfirmed' = IF flag THEN everConfirmed \union {p} ELSE everConfirmed
  /\ UNCHANGED <<confirmed, guardrail, run, loop, task, crashes, inForce>>

\* state.confirmed = update.confirmed
ConfirmFlag(c) ==
  /\ request[c].at = "confirming"
  /\ confirmed' = request[c].flag
  /\ inForce' = IF request[c].flag THEN request[c].policy ELSE NoPolicy
  /\ request' = [request EXCEPT ![c] = Idle]
  /\ UNCHANGED <<policy, guardrail, run, loop, task, crashes, overlapped, everConfirmed>>

-----------------------------------------------------------------------------
(* Guardrail endpoints: sync, one transaction each. *)

CreateGuardrail(g) ==
  /\ guardrail[g] = "absent"
  /\ guardrail' = [guardrail EXCEPT ![g] = "pending"]
  /\ UNCHANGED <<run, request, loop, task, crashes, overlapped, stateVars>>

ResolveGuardrail(g) ==
  /\ guardrail[g] = "pending"
  /\ \E status \in {"approved", "rejected"} :
       guardrail' = [guardrail EXCEPT ![g] = status]
  /\ UNCHANGED <<run, request, loop, task, crashes, overlapped, stateVars>>

-----------------------------------------------------------------------------
(* POST /run and POST /demo: run_agent and run_safety_demo, async.  Neither *)
(* waits for anything, so they keep the loop.                               *)

\* Mutant: only the presence of a policy is checked.
MutAccept(c, at) ==
  /\ Send(c) /\ loop = Free
  /\ policy # NoPolicy
  /\ request' = [request EXCEPT ![c] =
                   [Idle EXCEPT !.at = at, !.inForce = inForce, !.known = Approved]]
  /\ loop' = c
  /\ UNCHANGED <<guardrail, run, task, crashes, stateVars>>

\* if state.policy is None or not state.confirmed: raise 409
Accept(c, at) ==
  /\ Send(c) /\ loop = Free
  /\ policy # NoPolicy /\ confirmed
  /\ request' = [request EXCEPT ![c] =
                   [Idle EXCEPT !.at = at, !.inForce = inForce, !.known = Approved]]
  /\ loop' = c
  /\ UNCHANGED <<guardrail, run, task, crashes, stateVars>>

\* Bound: Cardinality(Runs) rows.
RunCheck(c) == (\E r \in Runs \ DemoRuns : run[r] = "absent") /\ Accept(c, "checked")
DemoCheck(c) == (\E r \in DemoRuns : run[r] = "absent") /\ Accept(c, "starting")

\* The demo commits its row before it reads what it will enforce.
DemoStartRow(c, r) ==
  /\ request[c].at = "starting"
  /\ run[r] = "absent"
  /\ run' = [run EXCEPT ![r] = "running"]
  /\ request' = [request EXCEPT ![c].at = "checked", ![c].row = r]
  /\ UNCHANGED <<guardrail, loop, task, crashes, overlapped, stateVars>>

\* _with_global_guardrails(state.policy, ...): the policy is read again.
RunReadPolicy(c) ==
  /\ request[c].at = "checked"
  /\ request' = [request EXCEPT ![c].at = "read", ![c].policy = policy]
  /\ UNCHANGED <<guardrail, run, loop, task, crashes, overlapped, stateVars>>

\* Mutant: candidates count as long as nobody has rejected them.
MutRunReadGuardrails(c) ==
  /\ request[c].at = "read"
  /\ request' = [request EXCEPT ![c].at = "composed",
                   ![c].patterns = { g \in Guardrails :
                                       guardrail[g] \in {"pending", "approved"} }]
  /\ UNCHANGED <<guardrail, run, loop, task, crashes, overlapped, stateVars>>

\* SELECT pattern FROM guardrails WHERE status = 'approved'
RunReadGuardrails(c) ==
  /\ request[c].at = "read"
  /\ request' = [request EXCEPT ![c].at = "composed", ![c].patterns = Approved]
  /\ UNCHANGED <<guardrail, run, loop, task, crashes, overlapped, stateVars>>

Launch(c) ==
  [live |-> TRUE, policy |-> request[c].policy, inForce |-> request[c].inForce,
   known |-> request[c].known, patterns |-> request[c].patterns]

\* Mutant: the row is left for the background task to write.
MutStartTaskOnly(c, r) ==
  /\ request[c].at = "composed" /\ request[c].row = NoRun
  /\ run[r] = "absent"
  /\ task' = [task EXCEPT ![r] = Launch(c)]
  /\ loop' = Free
  /\ request' = [request EXCEPT ![c] = Idle]
  /\ UNCHANGED <<run, guardrail, crashes, overlapped, stateVars>>

\* start_run commits the row, then the background task is registered.
StartRun(c, r) ==
  /\ request[c].at = "composed" /\ request[c].row = NoRun
  /\ run[r] = "absent"
  /\ run' = [run EXCEPT ![r] = "running"]
  /\ task' = [task EXCEPT ![r] = Launch(c)]
  /\ loop' = Free
  /\ request' = [request EXCEPT ![c] = Idle]
  /\ UNCHANGED <<guardrail, crashes, overlapped, stateVars>>

\* The demo goes on in its handler, which keeps the loop.
DemoLaunch(c) ==
  /\ request[c].at = "composed" /\ request[c].row # NoRun
  /\ task' = [task EXCEPT ![request[c].row] = Launch(c)]
  /\ request' = [request EXCEPT ![c].at = "demo"]
  /\ UNCHANGED <<guardrail, run, loop, crashes, overlapped, stateVars>>

\* Mutant: the UPDATE lost its "WHERE id = ?".
MutFinishDemo(c) ==
  /\ request[c].at = "demo"
  /\ \E status \in {"running", "completed", "failed"} :
       run' = [r \in Runs |-> IF run[r] = "absent" THEN run[r] ELSE status]
  /\ task' = [task EXCEPT ![request[c].row] = NoTask]
  /\ request' = [request EXCEPT ![c] = Idle]
  /\ loop' = Free
  /\ UNCHANGED <<guardrail, crashes, overlapped, stateVars>>

\* The demo's calls returned or raised.  A sandbox that cannot be reset raises
\* outside the try block, and leaves the row at running.
FinishDemo(c) ==
  /\ request[c].at = "demo"
  /\ \E status \in {"running", "completed", "failed"} :
       run' = [run EXCEPT ![request[c].row] = status]
  /\ task' = [task EXCEPT ![request[c].row] = NoTask]
  /\ request' = [request EXCEPT ![c] = Idle]
  /\ loop' = Free
  /\ UNCHANGED <<guardrail, crashes, overlapped, stateVars>>

\* Mutant: the exception handler forgets to store the failure.
MutFinishRun(r) ==
  /\ task[r].live /\ loop = Free
  /\ \E status \in {"completed", "running"} : run' = [run EXCEPT ![r] = status]
  /\ task' = [task EXCEPT ![r] = NoTask]
  /\ UNCHANGED <<guardrail, request, loop, crashes, overlapped, stateVars>>

\* _execute_agent_run: the runner returned or raised; its status is stored.
FinishRun(r) ==
  /\ task[r].live /\ loop = Free
  /\ \E status \in {"completed", "failed"} : run' = [run EXCEPT ![r] = status]
  /\ task' = [task EXCEPT ![r] = NoTask]
  /\ UNCHANGED <<guardrail, request, loop, crashes, overlapped, stateVars>>

\* The process dies and is started again: create_app builds a new AppState
\* over the same database.
Crash ==
  /\ crashes < MaxCrashes
  /\ crashes' = crashes + 1
  /\ policy' = NoPolicy /\ confirmed' = FALSE
  /\ request' = [c \in Clients |-> Idle]
  /\ loop' = Free
  /\ task' = [r \in Runs |-> NoTask]
  /\ inForce' = NoPolicy /\ everConfirmed' = {} /\ overlapped' = FALSE
  /\ UNCHANGED <<guardrail, run>>

Handler(c) ==
  \/ DraftStore(c) \/ DraftUnconfirm(c) \/ ConfirmFlag(c)
  \/ RunReadPolicy(c) \/ RunReadGuardrails(c)
  \/ DemoLaunch(c) \/ FinishDemo(c)
  \/ \E r \in Runs \ DemoRuns : StartRun(c, r)
  \/ \E r \in DemoRuns : DemoStartRow(c, r)

Next ==
  \/ \E c \in Clients : \/ DraftRequest(c) \/ ConfirmStore(c)
                        \/ RunCheck(c) \/ DemoCheck(c) \/ Handler(c)
  \/ \E g \in Guardrails : CreateGuardrail(g) \/ ResolveGuardrail(g)
  \/ \E r \in Runs \ DemoRuns : FinishRun(r)
  \/ Crash

Spec == Init /\ [][Next]_vars
\* Threads are scheduled, the ready queue of the event loop is first in,
\* first out, so a task that keeps becoming ready runs (SF), and the runner
\* returns, for the SDK bounds the turns of an agent.  Clients owe nothing.
FairSpec == Spec /\ (\A c \in Clients : WF_vars(Handler(c)))
                 /\ (\A r \in Runs \ DemoRuns : SF_vars(FinishRun(r)))

-----------------------------------------------------------------------------
(* Every run was given a policy that some human had submitted with          *)
(* confirmed = true in the life of this process, whatever the drafts and    *)
(* edits that the handlers interleaved with it.                             *)
RunsOnlyConfirmed ==
  \A r \in Runs : task[r].live => task[r].policy \in everConfirmed

(* The stronger form, as long as no two policy or run requests overlapped   *)
(* since the server started: a run is given exactly the confirmation in     *)
(* force when it was asked for, which a later draft, a later unconfirmed    *)
(* edit or a restart has revoked.                                           *)
RunsInForce ==
  ~overlapped =>
    \A r \in Runs : task[r].live =>
      task[r].policy # NoPolicy /\ task[r].policy = task[r].inForce

(* A run enforces every guardrail approved before it was asked for, and     *)
(* none that a human has not approved, although threads resolve guardrails  *)
(* between the handler's steps.                                             *)
GuardrailsApplied ==
  \A r \in Runs : task[r].live =>
    task[r].known \subseteq task[r].patterns /\ task[r].patterns \subseteq Approved

(* A live task is one the runs table calls running: no run goes on after    *)
(* its terminal state is stored, or before its row is.                      *)
LiveTaskIsRunning == \A r \in Runs : task[r].live => run[r] = "running"

(* eventlog.py:147, "Approve or reject a pending guardrail exactly once":   *)
(* the first resolution stands.                                             *)
GuardrailFinal ==
  [][\A g \in Guardrails :
       guardrail[g] \in {"approved", "rejected"} => guardrail'[g] = guardrail[g]]_vars

(* A terminal run row is never rewritten, although finish_run and start_run *)
(* do not look at the status they overwrite.                                *)
RunFinal ==
  [][\A r \in Runs :
       run[r] \in {"completed", "failed"} => run'[r] = run[r]]_vars

(* Unless the server stops, every run accepted by POST /run reaches a       *)
(* stored terminal state, whatever its runner does.                         *)
RunEnds ==
  \A r \in Runs \ DemoRuns :
    run[r] = "running" ~> run[r] \in {"completed", "failed"} \/ crashes > 0
=============================================================================
