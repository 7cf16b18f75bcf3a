------------------------- MODULE ControlPlaneProofs -------------------------
(***************************************************************************)
(* Proofs about the whole server: that it is both of its halves, and what  *)
(* their invariants give together, for every value of the constants.       *)
(***************************************************************************)
EXTENDS ControlPlane, EscalationProofs

GateFacts == INSTANCE PolicyGateProofs
               WITH Policies <- Submitted, loop <- handler, task <- job

(* The theorems about the gate are about the gate of the server.            *)
LEMMA SameGate == Gate!Spec => GateFacts!Spec
BY PTL DEF Gate!Spec, GateFacts!Spec, Gate!Init, GateFacts!Init, Gate!Next, GateFacts!Next,
  Gate!vars, GateFacts!vars, Gate!stateVars, GateFacts!stateVars, Gate!Idle, GateFacts!Idle,
  Gate!NoTask, GateFacts!NoTask, Gate!Send, GateFacts!Send, Gate!Approved, GateFacts!Approved,
  Gate!DraftRequest, GateFacts!DraftRequest, Gate!DraftStore, GateFacts!DraftStore,
  Gate!DraftUnconfirm, GateFacts!DraftUnconfirm, Gate!ConfirmStore, GateFacts!ConfirmStore,
  Gate!ConfirmFlag, GateFacts!ConfirmFlag, Gate!CreateGuardrail, GateFacts!CreateGuardrail,
  Gate!ResolveGuardrail, GateFacts!ResolveGuardrail, Gate!Accept, GateFacts!Accept,
  Gate!RunCheck, GateFacts!RunCheck, Gate!DemoCheck, GateFacts!DemoCheck,
  Gate!DemoStartRow, GateFacts!DemoStartRow, Gate!RunReadPolicy, GateFacts!RunReadPolicy,
  Gate!RunReadGuardrails, GateFacts!RunReadGuardrails, Gate!Launch, GateFacts!Launch,
  Gate!StartRun, GateFacts!StartRun, Gate!DemoLaunch, GateFacts!DemoLaunch,
  Gate!FinishDemo, GateFacts!FinishDemo, Gate!FinishRun, GateFacts!FinishRun,
  Gate!Crash, GateFacts!Crash, Gate!Handler, GateFacts!Handler

(* Every step of the server is a step of its gate, or none.                 *)
LEMMA GateStep == [PlaneNext]_planeVars => [Gate!Next]_(Gate!vars)
<1> SUFFICES ASSUME [PlaneNext]_planeVars, ~Gate!Next PROVE UNCHANGED Gate!vars
  OBVIOUS
<1>1. ASSUME NEW c \in Clients PROVE ~LoopRequest(c) /\ ~HandlerStep(c)
  BY <1>1 DEF LoopRequest, HandlerStep, Gate!Next, Gate!Handler
<1>2. ASSUME NEW c \in Clients
      PROVE  ~LaunchDemo(c) /\ ~EndDemo(c) /\ \A r \in Runs \ DemoRuns : ~LaunchRun(c, r)
  BY <1>2 DEF LaunchDemo, EndDemo, LaunchRun, Gate!Next, Gate!Handler
<1>3. /\ \A g \in Guardrails : ~GuardrailStep(g)
      /\ \A r \in Runs \ DemoRuns : ~EndRun(r)
      /\ ~Restart
  BY DEF GuardrailStep, EndRun, Restart, Gate!Next
<1>4. ASSUME NEW r \in Runs, AgentStep(r) PROVE UNCHANGED Gate!vars
  BY <1>4 DEF AgentStep, gateSide, WipeSandbox, SeedSandbox, RecordEscalation,
              DispatchAllowed, Decide, Gate!vars
<1>5. ASSUME NEW p \in Approvers, HumanStep(p) PROVE UNCHANGED Gate!vars
  BY <1>5 DEF HumanStep, gateSide, Claim, ApproverStep, Recheck, OpenSandbox, ReadBalance,
              WriteBalance, Apply, ApplyFails, Gate!vars
<1>6. CASE UNCHANGED planeVars
  BY <1>6 DEF planeVars, vars, gateSide, Gate!vars
<1> QED
  BY <1>1, <1>2, <1>3, <1>4, <1>5, <1>6 DEF PlaneNext

(* The server behaves like its policy gate.                                 *)
THEOREM ServerKeepsGate == PlaneSpec => Gate!Spec
<1>1. PlaneInit => Gate!Init
  BY DEF PlaneInit
<1> QED
  BY <1>1, GateStep, PTL DEF PlaneSpec, Gate!Spec

(* What the gate guarantees of any behaviour holds in the server.           *)
GateInv ==
  /\ GateFacts!TypeOK /\ GateFacts!HandlersReady
  /\ GateFacts!GuardrailsApplied /\ GateFacts!LiveTaskIsRunning /\ GateFacts!RunsInForce

LEMMA GateInvariance == PlaneSpec => []GateInv
\* The assumptions of PolicyGate, under which its theorems hold.
<1>1. (DemoRuns \subseteq Runs) /\ (MaxCrashes \in Nat)
  BY ActionAssumption, BoundAssumption
<1>2. PlaneSpec => GateFacts!Spec
  BY ServerKeepsGate, SameGate, PTL
<1> QED
  BY <1>1, <1>2, GateAssumption, GateFacts!TypeCorrect, GateFacts!HandlersStayReady,
     GateFacts!GuardrailsAlwaysApplied, GateFacts!LiveTasksAreRunning,
     GateFacts!SerialRunsInForce, PTL DEF GateInv

(* What a handler composes is a policy the runtime path knows.              *)
LEMMA EffectiveIsPolicy ==
  ASSUME GateInv, NEW c \in Clients, request[c].at = "composed"
  PROVE  request[c].policy \in Submitted /\ Effective(c) \in Policies
<1>1. request[c].policy \in Submitted /\ request[c].patterns \in SUBSET Guardrails
  BY DEF GateInv, GateFacts!HandlersReady, GateFacts!TypeOK, GateFacts!Request
<1> QED
  BY <1>1, SubmittedAssumption DEF Effective

(* Every step of the server is a step of its runtime path, or none.         *)
LEMMA RuntimeStep == GateInv /\ [PlaneNext]_planeVars => [Next]_vars
<1> SUFFICES ASSUME GateInv, [PlaneNext]_planeVars, ~Next PROVE UNCHANGED vars
  OBVIOUS
<1>1. ASSUME NEW c \in Clients, LoopRequest(c) \/ HandlerStep(c) PROVE UNCHANGED vars
  BY <1>1 DEF LoopRequest, HandlerStep, runtimeSide, vars, history,
     Gate!DraftRequest, Gate!DraftStore, Gate!RunCheck, Gate!DemoCheck, Gate!Accept,
     Gate!DraftUnconfirm, Gate!ConfirmStore, Gate!ConfirmFlag, Gate!RunReadPolicy,
     Gate!RunReadGuardrails, Gate!DemoStartRow
<1>2. ASSUME NEW g \in Guardrails, GuardrailStep(g) PROVE UNCHANGED vars
  BY <1>2 DEF GuardrailStep, runtimeSide, vars, history, Gate!CreateGuardrail,
     Gate!ResolveGuardrail
<1>3. ASSUME NEW c \in Clients, NEW r \in Runs PROVE ~LaunchRun(c, r)
  BY <1>3, EffectiveIsPolicy DEF LaunchRun, Gate!StartRun, Next
<1>4. ASSUME NEW c \in Clients PROVE ~LaunchDemo(c) /\ ~EndDemo(c)
  <2>1. Gate!DemoLaunch(c) => request[c].row \in Runs /\ Effective(c) \in Policies
    BY ActionAssumption, EffectiveIsPolicy
       DEF Gate!DemoLaunch, GateInv, GateFacts!TypeOK, GateFacts!Request
  <2>2. Gate!FinishDemo(c) => request[c].row \in Runs
    BY ActionAssumption DEF Gate!FinishDemo, GateInv, GateFacts!HandlersReady
  <2> QED
    BY <2>1, <2>2 DEF LaunchDemo, EndDemo, Next, TaskStep
<1>5. ASSUME NEW r \in Runs PROVE ~EndRun(r) /\ ~AgentStep(r)
  BY <1>5 DEF EndRun, AgentStep, Next, TaskStep
<1>6. (\A p \in Approvers : ~HumanStep(p)) /\ ~Restart
  BY DEF HumanStep, Restart, Next
<1>7. CASE UNCHANGED planeVars
  BY <1>7 DEF planeVars
<1> QED
  BY <1>1, <1>2, <1>3, <1>4, <1>5, <1>6, <1>7 DEF PlaneNext

(* The server behaves like its runtime path, so its agents keep the promise *)
(* of Approval whatever clients do to the policy meanwhile.                 *)
THEOREM ServerKeepsRuntime == PlaneSpec => Spec
<1>1. PlaneInit => Init
  BY DEF PlaneInit
<1> QED
  BY <1>1, RuntimeStep, GateInvariance, PTL DEF PlaneSpec, Spec

-----------------------------------------------------------------------------
(* The inductive invariant of the composition: what the two sides know of   *)
(* each other.  An agent's policy is one a human submitted, with at least   *)
(* the guardrails known when the run was asked for, and it is the one in    *)
(* force then if that run was served alone; and an agent that goes on has   *)
(* its job, so its row says running.                                        *)
GrantedByGate ==
  \A r \in Runs : granted[r] # None =>
    \E p \in Submitted, gs \in SUBSET Guardrails :
      /\ granted[r] = WithGlobalGuardrails(p, Patterns(gs))
      /\ origin[r].known \subseteq gs
      /\ origin[r].serial => p = origin[r].inForce

AgentsHaveJobs ==
  \A r \in Runs : task[r].pc \notin {"absent", "ended"} => job[r].live

PlaneInv == DOMAIN origin = Runs /\ GrantedByGate /\ AgentsHaveJobs

LEMMA PlaneInvInit == PlaneInit => PlaneInv
BY DEF PlaneInit, Init, PlaneInv, GrantedByGate, AgentsHaveJobs

(* A step of one side that moves no agent into or out of its run.           *)
LEMMA PlaneInvKept ==
  ASSUME PlaneInv, UNCHANGED <<granted, origin, job>>,
         \A r \in Runs : task'[r].pc \notin {"absent", "ended"} =>
           task[r].pc \notin {"absent", "ended"}
  PROVE  PlaneInv'
BY DEF PlaneInv, GrantedByGate, AgentsHaveJobs

(* A launch gives one agent its policy, and records what stands behind it.  *)
LEMMA PlaneInvLaunch ==
  ASSUME PlaneInv, TypeOK, GateInv, GateInv', NEW c \in Clients, NEW r \in Runs,
         request[c].at = "composed", StartRun(r, Effective(c)), UNCHANGED overlapped,
         job' = [job EXCEPT ![r] = Gate!Launch(c)],
         origin' = [origin EXCEPT ![r] = Given(c)]
  PROVE  PlaneInv'
<1> DEFINE p == request[c].policy
           gs == request[c].patterns
<1>1. p \in Submitted /\ gs \in SUBSET Guardrails
  BY EffectiveIsPolicy DEF GateInv, GateFacts!TypeOK, GateFacts!Request
<1>2. job'[r] = Gate!Launch(c) /\ \A q \in Runs : q # r => job'[q] = job[q]
  BY DEF GateInv, GateFacts!TypeOK
<1>3. job'[r].live /\ job'[r].policy = p /\ job'[r].patterns = gs
      /\ job'[r].known = request[c].known /\ job'[r].inForce = request[c].inForce
  BY <1>2 DEF Gate!Launch
<1>4. request[c].known \subseteq gs /\ (~overlapped => p = request[c].inForce)
  BY <1>3 DEF GateInv, GateFacts!GuardrailsApplied, GateFacts!RunsInForce
<1>5. /\ granted'[r] = WithGlobalGuardrails(p, Patterns(gs))
      /\ origin'[r].known = request[c].known /\ origin'[r].serial = ~overlapped
      /\ origin'[r].inForce = request[c].inForce
      /\ \A q \in Runs : q # r => granted'[q] = granted[q] /\ origin'[q] = origin[q]
  BY DEF StartRun, TypeOK, Effective, Given, PlaneInv
<1>6. GrantedByGate'
  <2> HIDE DEF p, gs
  <2> SUFFICES ASSUME NEW q \in Runs, granted'[q] # None
               PROVE  \E s \in Submitted, hs \in SUBSET Guardrails :
                        /\ granted'[q] = WithGlobalGuardrails(s, Patterns(hs))
                        /\ origin'[q].known \subseteq hs
                        /\ origin'[q].serial => s = origin'[q].inForce
    BY DEF GrantedByGate
  <2>1. CASE q = r
    BY <1>1, <1>4, <1>5, <2>1
  <2>2. CASE q # r
    BY <1>5, <2>2 DEF PlaneInv, GrantedByGate
  <2> QED
    BY <2>1, <2>2
<1>7. AgentsHaveJobs'
  BY <1>2, <1>3 DEF StartRun, Goto, TypeOK, PlaneInv, AgentsHaveJobs
<1> QED
  BY <1>6, <1>7 DEF PlaneInv

(* A run that ends ends on both sides.                                      *)
LEMMA PlaneInvEnd ==
  ASSUME PlaneInv, TypeOK, GateInv, NEW r \in Runs, SeedFails(r) \/ FinishRun(r),
         job' = [job EXCEPT ![r] = Gate!NoTask], UNCHANGED origin
  PROVE  PlaneInv'
<1>1. \A q \in Runs : q # r => task'[q] = task[q] /\ job'[q] = job[q]
  BY DEF SeedFails, FinishRun, Goto, TypeOK, GateInv, GateFacts!TypeOK
<1>2. task'[r].pc = "ended" /\ UNCHANGED granted
  BY DEF SeedFails, FinishRun, Goto, TypeOK
<1> QED
  BY <1>1, <1>2 DEF PlaneInv, GrantedByGate, AgentsHaveJobs

LEMMA PlaneInvStep ==
  PlaneInv /\ IInv /\ GateInv /\ GateInv' /\ [PlaneNext]_planeVars => PlaneInv'
<1> SUFFICES ASSUME PlaneInv, IInv, GateInv, GateInv', [PlaneNext]_planeVars
             PROVE  PlaneInv'
  OBVIOUS
<1>1. TypeOK
  BY DEF IInv
<1>2. ASSUME NEW c \in Clients, LoopRequest(c) \/ HandlerStep(c) PROVE PlaneInv'
  <2>1. UNCHANGED <<granted, origin, job, task>>
    BY <1>2 DEF LoopRequest, HandlerStep, runtimeSide,
       Gate!DraftRequest, Gate!DraftStore, Gate!RunCheck, Gate!DemoCheck, Gate!Accept,
       Gate!DraftUnconfirm, Gate!ConfirmStore, Gate!ConfirmFlag, Gate!RunReadPolicy,
       Gate!RunReadGuardrails, Gate!DemoStartRow
  <2> QED
    BY <2>1, PlaneInvKept
<1>3. ASSUME NEW g \in Guardrails, GuardrailStep(g) PROVE PlaneInv'
  <2>1. UNCHANGED <<granted, origin, job, task>>
    BY <1>3 DEF GuardrailStep, runtimeSide, Gate!CreateGuardrail, Gate!ResolveGuardrail
  <2> QED
    BY <2>1, PlaneInvKept
<1>4. ASSUME NEW c \in Clients, NEW r \in Runs, LaunchRun(c, r) PROVE PlaneInv'
  <2>1. /\ request[c].at = "composed" /\ StartRun(r, Effective(c)) /\ UNCHANGED overlapped
        /\ job' = [job EXCEPT ![r] = Gate!Launch(c)]
        /\ origin' = [origin EXCEPT ![r] = Given(c)]
    BY <1>4 DEF LaunchRun, Gate!StartRun
  <2> QED
    BY <1>1, <2>1, PlaneInvLaunch
<1>5. ASSUME NEW c \in Clients, LaunchDemo(c) PROVE PlaneInv'
  <2> DEFINE r == request[c].row
  <2>1. /\ request[c].at = "composed" /\ StartRun(r, Effective(c)) /\ UNCHANGED overlapped
        /\ job' = [job EXCEPT ![r] = Gate!Launch(c)]
        /\ origin' = [origin EXCEPT ![r] = Given(c)]
    BY <1>5 DEF LaunchDemo, Gate!DemoLaunch
  <2>2. r \in Runs
    BY <1>5, ActionAssumption
       DEF LaunchDemo, Gate!DemoLaunch, GateInv, GateFacts!TypeOK, GateFacts!Request
  <2> HIDE DEF r
  <2> QED
    BY <1>1, <2>1, <2>2, PlaneInvLaunch
<1>6. ASSUME NEW r \in Runs, EndRun(r) PROVE PlaneInv'
  BY <1>1, <1>6, PlaneInvEnd DEF EndRun, Gate!FinishRun
<1>7. ASSUME NEW c \in Clients, EndDemo(c) PROVE PlaneInv'
  <2>1. request[c].row \in Runs
    BY <1>7, ActionAssumption
       DEF EndDemo, Gate!FinishDemo, GateInv, GateFacts!HandlersReady
  <2> QED
    BY <1>1, <1>7, <2>1, PlaneInvEnd DEF EndDemo, Gate!FinishDemo
<1>8. ASSUME NEW r \in Runs, AgentStep(r) PROVE PlaneInv'
  <2>1. UNCHANGED <<granted, origin, job>>
    BY <1>8 DEF AgentStep, gateSide, WipeSandbox, SeedSandbox, RecordEscalation,
                DispatchAllowed, Decide
  <2>2. \A q \in Runs : task'[q].pc \notin {"absent", "ended"} =>
          task[q].pc \notin {"absent", "ended"}
    BY <1>1, <1>8 DEF AgentStep, WipeSandbox, SeedSandbox, RecordEscalation,
                      DispatchAllowed, Decide, Goto, TypeOK
  <2> QED
    BY <2>1, <2>2, PlaneInvKept
<1>9. ASSUME NEW p \in Approvers, HumanStep(p) PROVE PlaneInv'
  <2>1. UNCHANGED <<granted, origin, job, task>>
    BY <1>9 DEF HumanStep, gateSide, Claim, ApproverStep, Recheck, OpenSandbox,
                ReadBalance, WriteBalance, Apply, ApplyFails
  <2> QED
    BY <2>1, PlaneInvKept
<1>10. ASSUME Restart PROVE PlaneInv'
  <2>1. UNCHANGED <<granted, origin>> /\ \A r \in Runs : task'[r].pc \in {"absent", "ended"}
    BY <1>10 DEF Restart, Crash
  <2> QED
    BY <2>1 DEF PlaneInv, GrantedByGate, AgentsHaveJobs
<1>11. CASE UNCHANGED planeVars
  BY <1>11, PlaneInvKept DEF planeVars, vars, gateSide
<1> QED
  BY <1>2, <1>3, <1>4, <1>5, <1>6, <1>7, <1>8, <1>9, <1>10, <1>11 DEF PlaneNext

LEMMA PlaneInvariance == PlaneSpec => [](PlaneInv /\ IInv /\ GateInv)
BY PlaneInvInit, PlaneInvStep, GateInvariance, ServerKeepsRuntime, Invariance, PTL
   DEF PlaneSpec

-----------------------------------------------------------------------------
(* An effect was decided by the engine under a policy a human submitted,    *)
(* extended by guardrails, and so under that policy alone.                  *)
LEMMA EffectsOfSubmitted ==
  ASSUME PlaneInv, IInv, NEW e \in Ids, effects[e] > 0
  PROVE  LET r == event[e].run
             a == event[e].action
         IN  \E p \in Submitted, gs \in SUBSET Guardrails :
               /\ event[e].decision = Decision(a, p, DefaultContext)
               /\ ~MatchesForbidden(a, Patterns(gs))
               /\ origin[r].known \subseteq gs
               /\ origin[r].serial => p = origin[r].inForce
<1> DEFINE r == event[e].run
           a == event[e].action
<1>1. event[e].decision \in {"allow", "escalate"}
  BY DEF IInv, EffectsAllowed
<1>2. /\ r \in Runs /\ granted[r] # None
      /\ event[e].decision = Decision(a, granted[r], DefaultContext)
  BY <1>1 DEF IInv, EventsDecided, RunsGranted, Decision
<1>3. PICK p \in Submitted, gs \in SUBSET Guardrails :
        /\ granted[r] = WithGlobalGuardrails(p, Patterns(gs))
        /\ origin[r].known \subseteq gs
        /\ origin[r].serial => p = origin[r].inForce
  BY <1>2 DEF PlaneInv, GrantedByGate
<1>4. IsPolicy(p)
  BY SubmittedAssumption
<1>5. event[e].decision = Decision(a, p, DefaultContext)
  BY <1>1, <1>2, <1>3, <1>4, CompositionOnlyHalts DEF Decision
<1>6. ScopeRefusal(a, granted[r], DefaultContext) = NoName
  BY <1>1, <1>2, DecisionCases
<1>7. ~MatchesForbidden(a, granted[r].forbidden)
  BY <1>6 DEF ScopeRefusal, NoName
<1>8. granted[r].forbidden = p.forbidden \union Patterns(gs)
  BY <1>3, <1>4 DEF WithGlobalGuardrails, IsPolicy, PolicyFields
<1>9. ~MatchesForbidden(a, Patterns(gs))
  BY <1>7, <1>8 DEF MatchesForbidden
<1> QED
  BY <1>3, <1>5, <1>9

(* README.md:125, "the final authority": for every set of clients, runs,    *)
(* threads, policies and guardrails, what takes effect is decided as the    *)
(* policy in force when its run was asked for decides it.                   *)
THEOREM EffectsAreInForce == PlaneSpec => []EffectsInForce
<1>1. PlaneInv /\ IInv => EffectsInForce
  BY EffectsOfSubmitted, GateAssumption DEF EffectsInForce
<1> QED
  BY <1>1, PlaneInvariance, PTL

(* A guardrail that a human had approved before a run was asked for stops   *)
(* every matching action of that run, also one that a human approves later. *)
THEOREM GuardrailsAlwaysBind == PlaneSpec => []GuardrailsBind
<1>1. PlaneInv /\ IInv => GuardrailsBind
  <2> SUFFICES ASSUME PlaneInv, IInv, NEW e \in Ids, effects[e] > 0
               PROVE  ~MatchesForbidden(event[e].action,
                                        Patterns(origin[event[e].run].known))
    BY DEF GuardrailsBind
  <2>1. PICK gs \in SUBSET Guardrails : /\ ~MatchesForbidden(event[e].action, Patterns(gs))
                                        /\ origin[event[e].run].known \subseteq gs
    BY EffectsOfSubmitted
  <2> QED
    BY <2>1 DEF MatchesForbidden, Patterns
<1> QED
  BY <1>1, PlaneInvariance, PTL

(* A run whose end is stored has no agent left that could propose a call.   *)
THEOREM CallsAreOfRunningRuns == PlaneSpec => DecidedWhileRunning
<1> DEFINE Running == \A e \in Ids : event'[e] # event[e] => run[event'[e].run] = "running"
<1>1. PlaneInv /\ IInv /\ GateInv /\ [PlaneNext]_planeVars => Running
  <2> SUFFICES ASSUME PlaneInv, IInv, GateInv, [PlaneNext]_planeVars PROVE Running
    OBVIOUS
  <2>1. CASE UNCHANGED event
    BY <2>1
  <2>2. ASSUME NEW r \in Runs, NEW d \in Ids, NEW a \in Proposed(r), Decide(r, a, d)
        PROVE  Running
    <3>1. run[r] = "running"
      BY <2>2 DEF Decide, PlaneInv, AgentsHaveJobs, GateInv, GateFacts!LiveTaskIsRunning
    <3>2. \A e \in Ids : event'[e] # event[e] => event'[e].run = r
      BY <2>2 DEF Decide, IInv, TypeOK
    <3> QED
      BY <3>1, <3>2
  <2>3. [Next]_vars
    BY RuntimeStep
  <2>4. UNCHANGED event \/ \E r \in Runs, d \in Ids : \E a \in Proposed(r) : Decide(r, a, d)
    BY <2>3 DEF Next, vars, TaskStep, ApproverStep, StartRun, WipeSandbox, SeedSandbox,
       SeedFails, RecordEscalation, DispatchAllowed, FinishRun, Claim, Recheck,
       OpenSandbox, ReadBalance, WriteBalance, Apply, ApplyFails, Crash
  <2> QED
    BY <2>1, <2>2, <2>4
<1>2. PlaneInv /\ IInv /\ GateInv /\ [PlaneNext]_planeVars => [Running]_planeVars
  BY <1>1
<1> QED
  BY <1>2, PlaneInvariance, PTL DEF PlaneSpec, DecidedWhileRunning
=============================================================================
