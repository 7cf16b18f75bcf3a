-------------------------- MODULE PolicyGateProofs --------------------------
(***************************************************************************)
(* Proofs about PolicyGate for every set of policies, guardrails, runs and *)
(* clients and every bound on crashes.                                     *)
(***************************************************************************)
EXTENDS PolicyGate, TLAPS

(* The null request and the null task are records of the right type.        *)
LEMMA NullsTyped == Idle \in Request /\ NoTask \in Task
BY DEF Idle, NoTask, Request, Task, MaybePolicy

LEMMA TypeInit == Init => TypeOK
<1> SUFFICES ASSUME Init PROVE TypeOK
  OBVIOUS
<1>1. request \in [Clients -> Request] /\ task \in [Runs -> Task]
  BY NullsTyped DEF Init
<1>2. crashes \in 0..MaxCrashes
  BY BoundAssumption DEF Init
<1> QED
  BY <1>1, <1>2 DEF Init, TypeOK, MaybePolicy

(* Every action, and a stuttering step, keeps every variable in its type.   *)
LEMMA TypeStep == TypeOK /\ [Next]_vars => TypeOK'
<1> SUFFICES ASSUME TypeOK, [Next]_vars PROVE TypeOK'
  OBVIOUS
<1>1. ASSUME NEW c \in Clients, DraftRequest(c) PROVE TypeOK'
  BY <1>1 DEF DraftRequest, Send, TypeOK, stateVars, Request
<1>2. ASSUME NEW c \in Clients, DraftStore(c) PROVE TypeOK'
  BY <1>2 DEF DraftStore, TypeOK, Request, MaybePolicy
<1>3. ASSUME NEW c \in Clients, DraftUnconfirm(c) PROVE TypeOK'
  BY <1>3, NullsTyped DEF DraftUnconfirm, TypeOK, MaybePolicy
<1>4. ASSUME NEW c \in Clients, ConfirmStore(c) PROVE TypeOK'
  <2>1. PICK p \in Policies, flag \in BOOLEAN :
          /\ policy' = p
          /\ request' = [request EXCEPT ![c] =
               [Idle EXCEPT !.at = "confirming", !.policy = p, !.flag = flag]]
          /\ everConfirmed' = IF flag THEN everConfirmed \union {p}
                                      ELSE everConfirmed
    BY <1>4 DEF ConfirmStore
  <2>2. [Idle EXCEPT !.at = "confirming", !.policy = p, !.flag = flag] \in Request
    BY DEF Idle, Request, MaybePolicy
  <2>3. request' \in [Clients -> Request]
    BY <2>1, <2>2 DEF TypeOK
  <2> QED
    BY <1>4, <2>1, <2>3 DEF ConfirmStore, Send, TypeOK, MaybePolicy
<1>5. ASSUME NEW c \in Clients, ConfirmFlag(c) PROVE TypeOK'
  BY <1>5, NullsTyped DEF ConfirmFlag, TypeOK, Request, MaybePolicy
<1>6. ASSUME NEW c \in Clients, NEW at \in {"checked", "starting"}, Accept(c, at)
      PROVE  TypeOK'
  <2>1. [Idle EXCEPT !.at = at, !.inForce = inForce, !.known = Approved] \in Request
    BY DEF Idle, Request, MaybePolicy, TypeOK, Approved
  <2> QED
    BY <1>6, <2>1 DEF Accept, Send, TypeOK, stateVars
<1>7. ASSUME NEW c \in Clients, RunReadPolicy(c) PROVE TypeOK'
  <2>1. [request[c] EXCEPT !.at = "read", !.policy = policy] \in Request
    BY DEF TypeOK, Request
  <2>2. request' = [request EXCEPT ![c] = [@ EXCEPT !.at = "read", !.policy = policy]]
    BY <1>7 DEF RunReadPolicy, TypeOK, Request
  <2> QED
    BY <1>7, <2>1, <2>2 DEF RunReadPolicy, TypeOK, stateVars
<1>8. ASSUME NEW c \in Clients, RunReadGuardrails(c) PROVE TypeOK'
  <2>1. [request[c] EXCEPT !.at = "composed", !.patterns = Approved] \in Request
    BY DEF TypeOK, Request, Approved
  <2>2. request' = [request EXCEPT ![c] =
                      [@ EXCEPT !.at = "composed", !.patterns = Approved]]
    BY <1>8 DEF RunReadGuardrails, TypeOK, Request
  <2> QED
    BY <1>8, <2>1, <2>2 DEF RunReadGuardrails, TypeOK, stateVars
<1>9. ASSUME NEW c \in Clients, NEW r \in Runs, StartRun(c, r) PROVE TypeOK'
  <2>1. Launch(c) \in Task
    BY DEF Launch, Task, Request, TypeOK
  <2> QED
    BY <1>9, <2>1, NullsTyped DEF StartRun, TypeOK, stateVars
<1>10. ASSUME NEW g \in Guardrails, CreateGuardrail(g) \/ ResolveGuardrail(g)
       PROVE  TypeOK'
  BY <1>10 DEF CreateGuardrail, ResolveGuardrail, TypeOK, stateVars
<1>11. ASSUME NEW r \in Runs, FinishRun(r) PROVE TypeOK'
  BY <1>11, NullsTyped DEF FinishRun, TypeOK, stateVars
<1>12. ASSUME Crash PROVE TypeOK'
  <2>1. request' \in [Clients -> Request] /\ task' \in [Runs -> Task]
    BY <1>12, NullsTyped DEF Crash
  <2>2. crashes' \in 0..MaxCrashes
    BY <1>12, BoundAssumption DEF Crash, TypeOK
  <2> QED
    BY <1>12, <2>1, <2>2 DEF Crash, TypeOK, MaybePolicy
<1>13. ASSUME UNCHANGED vars PROVE TypeOK'
  BY <1>13 DEF vars, TypeOK
<1>15. ASSUME NEW c \in Clients, NEW r \in DemoRuns, DemoStartRow(c, r) PROVE TypeOK'
  <2>1. [request[c] EXCEPT !.at = "checked", !.row = r] \in Request
    BY DEF TypeOK, Request
  <2>2. request' = [request EXCEPT ![c] = [@ EXCEPT !.at = "checked", !.row = r]]
    BY <1>15 DEF DemoStartRow, TypeOK, Request
  <2>3. run' \in [Runs -> {"absent", "running", "completed", "failed"}]
    BY <1>15, DemoAssumption DEF DemoStartRow, TypeOK
  <2> QED
    BY <1>15, <2>1, <2>2, <2>3 DEF DemoStartRow, TypeOK, stateVars
<1>16. ASSUME NEW c \in Clients, DemoLaunch(c) PROVE TypeOK'
  <2>1. Launch(c) \in Task
    BY DEF Launch, Task, Request, TypeOK
  <2>2. task' \in [Runs -> Task]
    BY <1>16, <2>1 DEF DemoLaunch, TypeOK
  <2>3. request' \in [Clients -> Request]
    BY <1>16 DEF DemoLaunch, TypeOK, Request
  <2> QED
    BY <1>16, <2>2, <2>3 DEF DemoLaunch, TypeOK, stateVars
<1>17. ASSUME NEW c \in Clients, FinishDemo(c) PROVE TypeOK'
  BY <1>17, NullsTyped DEF FinishDemo, TypeOK, stateVars
<1>14. ASSUME NEW c \in Clients, Handler(c) PROVE TypeOK'
  BY <1>2, <1>3, <1>5, <1>7, <1>8, <1>9, <1>14, <1>15, <1>16, <1>17 DEF Handler
<1> QED
  BY <1>1, <1>4, <1>6, <1>10, <1>11, <1>12, <1>13, <1>14 DEF Next, RunCheck, DemoCheck

(* Type correctness, for every value of the constants.                      *)
THEOREM TypeCorrect == Spec => []TypeOK
BY TypeInit, TypeStep, PTL DEF Spec
-----------------------------------------------------------------------------
(***************************************************************************)
(* What a handler carries from one step to the next: the guardrails known  *)
(* when the run was asked for stay approved, because no transaction        *)
(* changes a resolved guardrail, and the composed patterns include them;   *)
(* and the row of a demo, running and of no other request.                 *)
(***************************************************************************)
RunInv ==
  /\ GuardrailsApplied
  /\ LiveTaskIsRunning
  /\ \A c, d \in Clients : request[c].row # NoRun =>
       /\ run[request[c].row] = "running"
       /\ request[d].row = request[c].row => c = d
  /\ \A c \in Clients :
       /\ request[c].known \subseteq Approved
       /\ request[c].at = "composed" =>
            /\ request[c].known \subseteq request[c].patterns
            /\ request[c].patterns \subseteq Approved

LEMMA RunInvInit == Init => RunInv
BY DEF Init, RunInv, GuardrailsApplied, LiveTaskIsRunning, Idle, NoTask

(* A step that leaves guardrails, tasks and rows alone keeps RunInv if the  *)
(* one request it changes still satisfies it.                               *)
LEMMA RunInvRequestStep ==
  ASSUME RunInv, TypeOK, NEW c \in Clients, NEW q,
         request' = [request EXCEPT ![c] = q],
         UNCHANGED <<guardrail, run, task>>,
         q.row \in {NoRun, request[c].row},
         q.known \subseteq Approved,
         q.at = "composed" => /\ q.known \subseteq q.patterns
                              /\ q.patterns \subseteq Approved
  PROVE  RunInv'
BY DEF RunInv, TypeOK, GuardrailsApplied, LiveTaskIsRunning, Approved

LEMMA RunInvStep == TypeOK /\ RunInv /\ [Next]_vars => RunInv'
<1> SUFFICES ASSUME TypeOK, RunInv, [Next]_vars PROVE RunInv'
  OBVIOUS
<1> DEFINE Keep(c, q) ==
      /\ request' = [request EXCEPT ![c] = q]
      /\ UNCHANGED <<guardrail, run, task>>
      /\ q.row \in {NoRun, request[c].row}
      /\ q.known \subseteq Approved
      /\ q.at # "composed"
<1>1. ASSUME NEW c \in Clients, NEW q, Keep(c, q) PROVE RunInv'
  BY <1>1, RunInvRequestStep
<1>2. ASSUME NEW c \in Clients,
             \/ DraftRequest(c) \/ DraftStore(c) \/ DraftUnconfirm(c)
             \/ ConfirmStore(c) \/ ConfirmFlag(c)
      PROVE  RunInv'
  <2>1. CASE DraftRequest(c)
    <3>1. Keep(c, [request[c] EXCEPT !.at = "compiling"])
      BY <2>1 DEF DraftRequest, TypeOK, Request, RunInv
    <3> QED BY <3>1, <1>1
  <2>2. CASE DraftStore(c)
    <3>1. Keep(c, [request[c] EXCEPT !.at = "drafted"])
      BY <2>2 DEF DraftStore, TypeOK, Request, RunInv
    <3> QED BY <3>1, <1>1
  <2>3. CASE DraftUnconfirm(c) \/ ConfirmFlag(c)
    <3>1. Keep(c, Idle)
      BY <2>3 DEF DraftUnconfirm, ConfirmFlag, Idle
    <3> QED BY <3>1, <1>1
  <2>4. CASE ConfirmStore(c)
    <3>1. PICK p \in Policies, flag \in BOOLEAN :
            request' = [request EXCEPT ![c] =
              [Idle EXCEPT !.at = "confirming", !.policy = p, !.flag = flag]]
      BY <2>4 DEF ConfirmStore
    <3>2. Keep(c, [Idle EXCEPT !.at = "confirming", !.policy = p, !.flag = flag])
      BY <2>4, <3>1 DEF ConfirmStore, Idle
    <3> QED BY <3>2, <1>1
  <2> QED
    BY <1>2, <2>1, <2>2, <2>3, <2>4
<1>3. ASSUME NEW c \in Clients, NEW at \in {"checked", "starting"}, Accept(c, at)
      PROVE  RunInv'
  <2>1. Keep(c, [Idle EXCEPT !.at = at, !.inForce = inForce, !.known = Approved])
    BY <1>3 DEF Accept, Idle
  <2> QED BY <2>1, <1>1
<1>4. ASSUME NEW c \in Clients, RunReadPolicy(c) PROVE RunInv'
  <2>1. Keep(c, [request[c] EXCEPT !.at = "read", !.policy = policy])
    BY <1>4 DEF RunReadPolicy, TypeOK, Request, RunInv
  <2> QED BY <2>1, <1>1
<1>5. ASSUME NEW c \in Clients, RunReadGuardrails(c) PROVE RunInv'
  <2> DEFINE q == [request[c] EXCEPT !.at = "composed", !.patterns = Approved]
  <2>1. /\ request' = [request EXCEPT ![c] = q]
        /\ UNCHANGED <<guardrail, run, task>>
        /\ q.known \subseteq Approved /\ q.patterns = Approved
        /\ q.row = request[c].row
    BY <1>5 DEF RunReadGuardrails, TypeOK, Request, RunInv
  <2> HIDE DEF q
  <2> QED BY <2>1, RunInvRequestStep
<1>6. ASSUME NEW c \in Clients, NEW r \in Runs \ DemoRuns, StartRun(c, r)
      PROVE  RunInv'
  BY <1>6, DemoAssumption, NullAssumption
     DEF StartRun, Launch, Idle, TypeOK, Task, Request, RunInv,
         GuardrailsApplied, LiveTaskIsRunning, Approved
<1>7. ASSUME NEW g \in Guardrails, CreateGuardrail(g) \/ ResolveGuardrail(g)
      PROVE  RunInv'
  <2>1. Approved \subseteq Approved'
    BY <1>7 DEF CreateGuardrail, ResolveGuardrail, Approved, TypeOK
  <2>2. UNCHANGED <<run, request, task>>
    BY <1>7 DEF CreateGuardrail, ResolveGuardrail
  <2> QED
    BY <2>1, <2>2 DEF RunInv, GuardrailsApplied, LiveTaskIsRunning
<1>8. ASSUME NEW r \in Runs \ DemoRuns, FinishRun(r) PROVE RunInv'
  BY <1>8, DemoAssumption, NullAssumption
     DEF FinishRun, NoTask, TypeOK, Request, RunInv, GuardrailsApplied,
         LiveTaskIsRunning, Approved
<1>9. ASSUME Crash PROVE RunInv'
  BY <1>9 DEF Crash, Idle, NoTask, RunInv, GuardrailsApplied, LiveTaskIsRunning
<1>10. ASSUME UNCHANGED vars PROVE RunInv'
  BY <1>10 DEF vars, RunInv, GuardrailsApplied, LiveTaskIsRunning, Approved
<1>12. ASSUME NEW c \in Clients, NEW r \in DemoRuns, DemoStartRow(c, r) PROVE RunInv'
  <2>1. \A d \in Clients : request[d].row # r
    BY <1>12, DemoAssumption, NullAssumption DEF DemoStartRow, RunInv
  <2>2. /\ request'[c].row = r /\ request'[c].known = request[c].known
        /\ request'[c].at # "composed" /\ run'[r] = "running"
        /\ \A d \in Clients : d # c => request'[d] = request[d]
        /\ \A q \in Runs : q # r => run'[q] = run[q]
        /\ \A d \in Clients : request[d].row \in DemoRuns \union {NoRun}
        /\ UNCHANGED <<guardrail, task>>
    BY <1>12, DemoAssumption DEF DemoStartRow, TypeOK, Request
  <2> QED
    BY <2>1, <2>2, DemoAssumption
       DEF RunInv, GuardrailsApplied, LiveTaskIsRunning, Approved
<1>13. ASSUME NEW c \in Clients, DemoLaunch(c) PROVE RunInv'
  <2>1. request[c].row \in Runs /\ run[request[c].row] = "running"
    BY <1>13, DemoAssumption DEF DemoLaunch, TypeOK, Request, RunInv
  <2>2. /\ task'[request[c].row] = Launch(c)
        /\ \A q \in Runs : q # request[c].row => task'[q] = task[q]
        /\ request'[c].row = request[c].row /\ request'[c].known = request[c].known
        /\ request'[c].at # "composed"
        /\ \A d \in Clients : d # c => request'[d] = request[d]
        /\ UNCHANGED <<guardrail, run>>
    BY <1>13, <2>1 DEF DemoLaunch, TypeOK, Request
  <2>3. /\ Launch(c).known \subseteq Launch(c).patterns
        /\ Launch(c).patterns \subseteq Approved
    BY <1>13 DEF DemoLaunch, Launch, RunInv
  <2> QED
    BY <2>1, <2>2, <2>3 DEF RunInv, GuardrailsApplied, LiveTaskIsRunning, Approved
<1>14. ASSUME NEW c \in Clients, FinishDemo(c) PROVE RunInv'
  <2>1. CASE request[c].row = NoRun
    BY <1>14, <2>1, NullAssumption
       DEF FinishDemo, Idle, NoTask, TypeOK, RunInv, GuardrailsApplied,
           LiveTaskIsRunning, Approved
  <2>2. CASE request[c].row # NoRun
    BY <1>14, <2>2, DemoAssumption
       DEF FinishDemo, Idle, NoTask, TypeOK, Request, RunInv, GuardrailsApplied,
           LiveTaskIsRunning, Approved
  <2> QED
    BY <2>1, <2>2
<1>11. ASSUME NEW c \in Clients, Handler(c) PROVE RunInv'
  BY <1>2, <1>4, <1>5, <1>6, <1>11, <1>12, <1>13, <1>14 DEF Handler
<1> QED
  BY <1>2, <1>3, <1>7, <1>8, <1>9, <1>10, <1>11 DEF Next, RunCheck, DemoCheck

(* Every live run enforces the guardrails approved before it was asked for, *)
(* and only approved ones, however the guardrail threads interleave with    *)
(* the handler of POST /run.                                                *)
THEOREM GuardrailsAlwaysApplied == Spec => []GuardrailsApplied
<1>1. RunInv => GuardrailsApplied
  BY DEF RunInv
<1> QED
  BY <1>1, RunInvInit, RunInvStep, TypeInit, TypeStep, PTL DEF Spec

(* No task outlives the running status of its row.                          *)
THEOREM LiveTasksAreRunning == Spec => []LiveTaskIsRunning
<1>1. RunInv => LiveTaskIsRunning
  BY DEF RunInv
<1> QED
  BY <1>1, RunInvInit, RunInvStep, TypeInit, TypeStep, PTL DEF Spec

(* The handlers of runs and demos read state.policy a second time, and what *)
(* they read is still a policy: no request takes it away, and a restart     *)
(* takes the handlers with it.  A demo under way has its row.               *)
HandlersReady ==
  \A c \in Clients :
    /\ request[c].at = "demo" => request[c].row \in DemoRuns
    /\ request[c].at \in {"starting", "checked"} => policy \in Policies
    /\ request[c].at \in {"read", "composed"} => request[c].policy \in Policies

LEMMA ReadyInit == Init => HandlersReady
BY DEF Init, Idle, HandlersReady

LEMMA ReadyStep == TypeOK /\ HandlersReady /\ [Next]_vars => HandlersReady'
<1> SUFFICES ASSUME TypeOK, HandlersReady, [Next]_vars PROVE HandlersReady'
  OBVIOUS
<1> USE DEF HandlersReady, TypeOK, Request
<1>1. ASSUME NEW c \in Clients,
             \/ DraftRequest(c) \/ DraftStore(c) \/ DraftUnconfirm(c)
             \/ ConfirmStore(c) \/ ConfirmFlag(c)
      PROVE  HandlersReady'
  <2>1. CASE ConfirmStore(c)
    <3>1. PICK p \in Policies, flag \in BOOLEAN :
            /\ policy' = p
            /\ request' = [request EXCEPT ![c] =
                 [Idle EXCEPT !.at = "confirming", !.policy = p, !.flag = flag]]
      BY <2>1 DEF ConfirmStore
    <3> QED
      BY <2>1, <3>1 DEF Idle
  <2> QED
    BY <1>1, <2>1 DEF DraftRequest, DraftStore, DraftUnconfirm, ConfirmFlag, Idle, stateVars
<1>2. ASSUME NEW c \in Clients, NEW at \in {"checked", "starting"}, Accept(c, at)
      PROVE  HandlersReady'
  BY <1>2 DEF Accept, Idle, MaybePolicy, stateVars
<1>3. ASSUME NEW c \in Clients,
             RunReadPolicy(c) \/ RunReadGuardrails(c) \/ DemoLaunch(c) \/ FinishDemo(c)
      PROVE  HandlersReady'
  BY <1>3 DEF RunReadPolicy, RunReadGuardrails, DemoLaunch, FinishDemo, Idle, stateVars
<1>4. ASSUME NEW c \in Clients, NEW r \in Runs,
             StartRun(c, r) \/ (r \in DemoRuns /\ DemoStartRow(c, r))
      PROVE  HandlersReady'
  BY <1>4 DEF StartRun, DemoStartRow, Idle, stateVars
<1>5. ASSUME NEW g \in Guardrails, CreateGuardrail(g) \/ ResolveGuardrail(g)
      PROVE  HandlersReady'
  BY <1>5 DEF CreateGuardrail, ResolveGuardrail, stateVars
<1>6. ASSUME NEW r \in Runs, FinishRun(r) PROVE HandlersReady'
  BY <1>6 DEF FinishRun, stateVars
<1>7. ASSUME Crash PROVE HandlersReady'
  BY <1>7 DEF Crash, Idle
<1>8. ASSUME UNCHANGED vars PROVE HandlersReady'
  BY <1>8 DEF vars
<1> USE DEF Handler, RunCheck, DemoCheck
<1> QED
  BY <1>1, <1>2, <1>3, <1>4, <1>5, <1>6, <1>7, <1>8, DemoAssumption DEF Next

(* No run or demo handler, past its check, finds the policy gone.           *)
THEOREM HandlersStayReady == Spec => []HandlersReady
BY ReadyInit, ReadyStep, TypeInit, TypeStep, PTL DEF Spec

-----------------------------------------------------------------------------
(***************************************************************************)
(* One request at a time.  The confirmed flag then speaks for the policy   *)
(* beside it, except inside the two handlers that write the pair, and the  *)
(* run handler carries the confirmation it was checked against.            *)
(***************************************************************************)
Writing(c) == request[c].at \in {"drafted", "confirming"}

SerialParts ==
  /\ \A c, d \in Clients :
       request[c].at # "idle" /\ request[d].at # "idle" => c = d
  /\ (\A c \in Clients : ~Writing(c)) /\ confirmed =>
       policy # NoPolicy /\ policy = inForce
  /\ \A c \in Clients :
       /\ request[c].at = "confirming" =>
            request[c].policy \in Policies /\ request[c].policy = policy
       /\ request[c].at \in {"starting", "checked"} =>
            /\ policy # NoPolicy /\ policy = inForce
            /\ request[c].inForce = inForce
       /\ request[c].at \in {"read", "composed"} =>
            /\ request[c].policy # NoPolicy
            /\ request[c].policy = request[c].inForce

SerialInv == RunsInForce /\ (~overlapped => SerialParts)

LEMMA SerialInit == Init => SerialInv
BY DEF Init, SerialInv, SerialParts, Writing, RunsInForce, Idle, NoTask

LEMMA SerialStep == TypeOK /\ SerialInv /\ [Next]_vars => SerialInv'
<1> SUFFICES ASSUME TypeOK, SerialInv, [Next]_vars PROVE SerialInv'
  OBVIOUS
<1> USE NullAssumption
<1>1. ASSUME NEW c \in Clients, DraftRequest(c) PROVE SerialInv'
  BY <1>1 DEF DraftRequest, Send, stateVars, SerialInv, SerialParts, Writing, RunsInForce,
     TypeOK, Request
<1>2. ASSUME NEW c \in Clients, DraftStore(c) PROVE SerialInv'
  BY <1>2 DEF DraftStore, SerialInv, SerialParts, Writing, RunsInForce, TypeOK, Request
<1>3. ASSUME NEW c \in Clients, DraftUnconfirm(c) PROVE SerialInv'
  BY <1>3 DEF DraftUnconfirm, Idle, SerialInv, SerialParts, Writing, RunsInForce, TypeOK, Request
<1>4. ASSUME NEW c \in Clients, ConfirmStore(c) PROVE SerialInv'
  <2>1. PICK p \in Policies, flag \in BOOLEAN :
          /\ policy' = p
          /\ request' = [request EXCEPT ![c] =
               [Idle EXCEPT !.at = "confirming", !.policy = p, !.flag = flag]]
    BY <1>4 DEF ConfirmStore
  <2> DEFINE q == [Idle EXCEPT !.at = "confirming", !.policy = p, !.flag = flag]
  <2>2. q.at = "confirming" /\ q.policy = p
    BY DEF Idle
  <2>3. request'[c] = q /\ \A d \in Clients \ {c} : request'[d] = request[d]
    BY <2>1 DEF TypeOK
  <2>4. /\ ~overlapped' => ~overlapped /\ \A d \in Clients : request[d].at = "idle"
        /\ overlapped \/ ~overlapped
    BY <1>4 DEF ConfirmStore, Send, TypeOK
  <2> HIDE DEF q
  <2>5. ~overlapped' => SerialParts'
    BY <1>4, <2>1, <2>2, <2>3, <2>4
       DEF ConfirmStore, SerialInv, SerialParts, Writing
  <2>6. RunsInForce'
    BY <1>4, <2>4 DEF ConfirmStore, SerialInv, RunsInForce
  <2> QED
    BY <2>5, <2>6 DEF SerialInv
<1>5. ASSUME NEW c \in Clients, ConfirmFlag(c) PROVE SerialInv'
  BY <1>5 DEF ConfirmFlag, Idle, SerialInv, SerialParts, Writing, RunsInForce, TypeOK, Request
<1>6. ASSUME NEW c \in Clients, NEW at \in {"checked", "starting"}, Accept(c, at)
      PROVE  SerialInv'
  BY <1>6 DEF Accept, Send, Idle, stateVars, SerialInv, SerialParts, Writing, RunsInForce,
     TypeOK, Request
<1>7. ASSUME NEW c \in Clients, RunReadPolicy(c) PROVE SerialInv'
  BY <1>7 DEF RunReadPolicy, stateVars, SerialInv, SerialParts, Writing, RunsInForce, TypeOK,
     Request
<1>8. ASSUME NEW c \in Clients, RunReadGuardrails(c) PROVE SerialInv'
  BY <1>8 DEF RunReadGuardrails, stateVars, SerialInv, SerialParts, Writing, RunsInForce, TypeOK,
     Request
<1>9. ASSUME NEW c \in Clients, NEW r \in Runs, StartRun(c, r) PROVE SerialInv'
  BY <1>9 DEF StartRun, Launch, Idle, stateVars, SerialInv, SerialParts, Writing, RunsInForce,
     TypeOK, Request, Task
<1>10. ASSUME NEW g \in Guardrails, CreateGuardrail(g) \/ ResolveGuardrail(g)
       PROVE  SerialInv'
  BY <1>10 DEF CreateGuardrail, ResolveGuardrail, stateVars, SerialInv, SerialParts, Writing,
     RunsInForce
<1>11. ASSUME NEW r \in Runs, FinishRun(r) PROVE SerialInv'
  BY <1>11 DEF FinishRun, NoTask, stateVars, SerialInv, SerialParts, Writing, RunsInForce, TypeOK
<1>12. ASSUME Crash PROVE SerialInv'
  BY <1>12 DEF Crash, Idle, NoTask, SerialInv, SerialParts, Writing, RunsInForce
<1>13. ASSUME UNCHANGED vars PROVE SerialInv'
  BY <1>13 DEF vars, SerialInv, SerialParts, Writing, RunsInForce
<1>15. ASSUME NEW c \in Clients, NEW r \in DemoRuns, DemoStartRow(c, r)
       PROVE  SerialInv'
  BY <1>15 DEF DemoStartRow, stateVars, SerialInv, SerialParts, Writing, RunsInForce, TypeOK,
     Request
<1>16. ASSUME NEW c \in Clients, DemoLaunch(c) PROVE SerialInv'
  BY <1>16 DEF DemoLaunch, Launch, stateVars, SerialInv, SerialParts, Writing, RunsInForce,
     TypeOK, Request, Task
<1>17. ASSUME NEW c \in Clients, FinishDemo(c) PROVE SerialInv'
  BY <1>17 DEF FinishDemo, NoTask, Idle, stateVars, SerialInv, SerialParts, Writing,
     RunsInForce, TypeOK
<1>14. ASSUME NEW c \in Clients, Handler(c) PROVE SerialInv'
  BY <1>2, <1>3, <1>5, <1>7, <1>8, <1>9, <1>14, <1>15, <1>16, <1>17 DEF Handler
<1> QED
  BY <1>1, <1>4, <1>6, <1>10, <1>11, <1>12, <1>13, <1>14 DEF Next, RunCheck, DemoCheck

(* As long as no two policy or run requests overlapped, every run gets      *)
(* exactly the confirmation in force when it was asked for.                 *)
THEOREM SerialRunsInForce == Spec => []RunsInForce
<1>1. SerialInv => RunsInForce
  BY DEF SerialInv
<1> QED
  BY <1>1, SerialInit, SerialStep, TypeInit, TypeStep, PTL DEF Spec
-----------------------------------------------------------------------------
(* eventlog.py:147, "exactly once": no thread re-decides a guardrail.       *)
THEOREM GuardrailsFinal == Spec => GuardrailFinal
<1>1. ASSUME TypeOK, [Next]_vars, NEW g \in Guardrails,
             guardrail[g] \in {"approved", "rejected"}
      PROVE  guardrail'[g] = guardrail[g]
  BY <1>1
  DEF TypeOK, Next, Handler, vars, DraftRequest, DraftStore, DraftUnconfirm,
      ConfirmStore, ConfirmFlag, CreateGuardrail, ResolveGuardrail, RunCheck,
      DemoCheck, Accept, DemoStartRow, DemoLaunch, FinishDemo, RunReadPolicy,
      RunReadGuardrails, StartRun, FinishRun, Crash
<1>2. TypeOK /\ [Next]_vars =>
        [\A g \in Guardrails : guardrail[g] \in {"approved", "rejected"} =>
           guardrail'[g] = guardrail[g]]_vars
  BY <1>1
<1> QED
  BY <1>2, TypeInit, TypeStep, PTL DEF Spec, GuardrailFinal

(* start_run and finish_run write a row whatever its status is: that a      *)
(* terminal row stands rests on LiveTaskIsRunning, on the fresh row id, and *)
(* on a demo's handler being the only one to have its row.                  *)
THEOREM RunsFinal == Spec => RunFinal
<1>1. ASSUME TypeOK, RunInv, [Next]_vars, NEW r \in Runs,
             run[r] \in {"completed", "failed"}
      PROVE  run'[r] = run[r]
  <2>1. ASSUME NEW c \in Clients, FinishDemo(c) PROVE run'[r] = run[r]
    <3>1. request[c].row # r
      BY <1>1, NullAssumption DEF RunInv
    <3> QED
      BY <1>1, <2>1, <3>1 DEF FinishDemo, TypeOK
  <2> QED
    BY <1>1, <2>1, DemoAssumption
    DEF TypeOK, RunInv, LiveTaskIsRunning, Next, Handler, vars, DraftRequest,
        DraftStore, DraftUnconfirm, ConfirmStore, ConfirmFlag, CreateGuardrail,
        ResolveGuardrail, RunCheck, DemoCheck, Accept, DemoStartRow, DemoLaunch,
        RunReadPolicy, RunReadGuardrails, StartRun, FinishRun, Crash
<1>2. TypeOK /\ RunInv /\ [Next]_vars =>
        [\A r \in Runs : run[r] \in {"completed", "failed"} => run'[r] = run[r]]_vars
  BY <1>1
<1> QED
  BY <1>2, RunInvInit, RunInvStep, TypeInit, TypeStep, PTL DEF Spec, RunFinal
=============================================================================
