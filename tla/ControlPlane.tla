---------------------------- MODULE ControlPlane ----------------------------
(***************************************************************************)
(* The whole runtime side of a server: the policy gate and the enforcement *)
(* path in one process, over one database and one event loop.              *)
(*                                                                         *)
(* A run request that PolicyGate accepts is where Escalation's runs come   *)
(* from: the handler composes the confirmed policy with the approved       *)
(* guardrails and hands that to the agent.  The two modules share the run  *)
(* ids, the crashes, and the loop: an async handler and an agent's task    *)
(* never run at the same time, except that a demo's handler is its agent.  *)
(***************************************************************************)
EXTENDS Escalation

CONSTANTS
  Submitted,   \* what a draft compiles to and what a human may submit
  NoPolicy,    \* state.policy is None
  Guardrails,  \* ids of guardrail rows
  PatternOf,   \* guardrail |-> its pattern column
  NoRun,       \* a request without a row
  Clients      \* HTTP clients, each with at most one request in flight

VARIABLES
  policy, confirmed, guardrail, run, request, inForce, everConfirmed, overlapped,
  handler,     \* the client whose handler holds the event loop
  job,         \* what each run's task was given, while it lives
  origin       \* history: what stood behind each run when it was asked for

Gate == INSTANCE PolicyGate WITH Policies <- Submitted, loop <- handler, task <- job

Patterns(gs) == { PatternOf[g] : g \in gs }

ASSUME GateAssumption ==
  NoPolicy \notin Submitted /\ Free \notin Clients /\ NoRun \notin Runs
ASSUME SubmittedAssumption ==
  \A p \in Submitted :
    IsPolicy(p) /\ \A gs \in SUBSET Guardrails :
                     WithGlobalGuardrails(p, Patterns(gs)) \in Policies

gateSide == <<policy, confirmed, guardrail, run, request, handler, job,
              inForce, everConfirmed, overlapped, origin>>
runtimeSide == <<event, escalation, granted, ledger, loop, task, approver,
                 effects, debited, origin>>
planeVars == <<vars, gateSide>>

NoOrigin == [inForce |-> NoPolicy, known |-> {}, serial |-> FALSE]

PlaneInit == Init /\ Gate!Init /\ origin = [r \in Runs |-> NoOrigin]

-----------------------------------------------------------------------------
(* _with_global_guardrails, and the task that gets its result.              *)

\* Mutant: the run gets the policy as it was confirmed.
MutEffective(c) == request[c].policy

Effective(c) == WithGlobalGuardrails(request[c].policy, Patterns(request[c].patterns))

Given(c) == [inForce |-> request[c].inForce, known |-> request[c].known,
             serial |-> ~overlapped]

LaunchRun(c, r) ==
  /\ Gate!StartRun(c, r) /\ StartRun(r, Effective(c))
  /\ origin' = [origin EXCEPT ![r] = Given(c)]

LaunchDemo(c) ==
  /\ Gate!DemoLaunch(c) /\ StartRun(request[c].row, Effective(c))
  /\ origin' = [origin EXCEPT ![request[c].row] = Given(c)]

\* Mutant: the row is finished when the runner is started, not when it ends.
MutEndRun(r) == Gate!FinishRun(r) /\ UNCHANGED runtimeSide

\* The runner returned or raised; a sandbox without its row has it raise.
EndRun(r) ==
  /\ Gate!FinishRun(r)
  /\ FinishRun(r) \/ (SeedFails(r) /\ run'[r] = "failed")
  /\ UNCHANGED origin

EndDemo(c) ==
  LET r == request[c].row
  IN  /\ Gate!FinishDemo(c)
      /\ IF run'[r] = "running" THEN SeedFails(r) ELSE FinishRun(r)
      /\ UNCHANGED origin

-----------------------------------------------------------------------------
(* What only one side does.                                                 *)

\* Handlers that the loop starts or resumes: no task may be using it.
LoopRequest(c) ==
  /\ loop = Free
  /\ Gate!DraftRequest(c) \/ Gate!DraftStore(c) \/ Gate!RunCheck(c) \/ Gate!DemoCheck(c)
  /\ UNCHANGED runtimeSide

\* Handlers that have the loop, or are threads of their own.
HandlerStep(c) ==
  /\ \/ Gate!DraftUnconfirm(c) \/ Gate!ConfirmStore(c) \/ Gate!ConfirmFlag(c)
     \/ Gate!RunReadPolicy(c) \/ Gate!RunReadGuardrails(c)
     \/ \E r \in DemoRuns : Gate!DemoStartRow(c, r)
  /\ UNCHANGED runtimeSide

GuardrailStep(g) ==
  /\ Gate!CreateGuardrail(g) \/ Gate!ResolveGuardrail(g)
  /\ UNCHANGED runtimeSide

\* A background task needs the loop, which a demo's handler has already.
AgentStep(r) ==
  /\ r \in DemoRuns \/ handler = Free
  /\ \/ WipeSandbox(r) \/ SeedSandbox(r) \/ RecordEscalation(r) \/ DispatchAllowed(r)
     \/ \E e \in Ids : \E a \in Proposed(r) : Decide(r, a, e)
  /\ UNCHANGED gateSide

HumanStep(p) ==
  /\ ApproverStep(p) \/ \E e \in Ids : Claim(p, e)
  /\ UNCHANGED gateSide

Restart == Gate!Crash /\ Crash /\ UNCHANGED origin

PlaneNext ==
  \/ \E c \in Clients : \/ LoopRequest(c) \/ HandlerStep(c)
                        \/ LaunchDemo(c) \/ EndDemo(c)
                        \/ \E r \in Runs \ DemoRuns : LaunchRun(c, r)
  \/ \E g \in Guardrails : GuardrailStep(g)
  \/ \E r \in Runs \ DemoRuns : EndRun(r)
  \/ \E r \in Runs : AgentStep(r)
  \/ \E p \in Approvers : HumanStep(p)
  \/ Restart

PlaneSpec == PlaneInit /\ [][PlaneNext]_planeVars

-----------------------------------------------------------------------------
(* README.md:125, "Human confirmation and policy-as-code remain the final   *)
(* authority for every governed tool action": whatever took effect, the     *)
(* policy in force when its run was asked for decides as its audit row      *)
(* says, unless requests overlapped by then.                                *)
EffectsInForce ==
  \A e \in Ids : effects[e] > 0 =>
    LET o == origin[event[e].run]
    IN  o.serial => /\ o.inForce # NoPolicy
                    /\ event[e].decision
                         = Decision(event[e].action, o.inForce, DefaultContext)

(* No action matching a guardrail that was approved before its run was      *)
(* asked for ever takes effect, whoever approves it and after any restart.  *)
GuardrailsBind ==
  \A e \in Ids : effects[e] > 0 =>
    ~MatchesForbidden(event[e].action, Patterns(origin[event[e].run].known))

(* A call is decided only while the runs table says its run is running: a   *)
(* run whose end has been stored proposes nothing any more.                 *)
DecidedWhileRunning ==
  [][\A e \in Ids : event'[e] # event[e] => run[event'[e].run] = "running"]_planeVars
=============================================================================
