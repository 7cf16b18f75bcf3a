-------------------------- MODULE EscalationProofs --------------------------
(***************************************************************************)
(* Proofs about Escalation for every set of runs, threads and actions,     *)
(* every assignment of policies to runs and every bound on events and      *)
(* crashes.                                                                *)
(***************************************************************************)
EXTENDS Escalation, EngineProofs

EventRow == [run : Runs \union {None}, action : Proposable \union {None},
             decision : Decisions \union {"none"}]
EscalationRow == [status : {"absent", "pending", "approved", "rejected"},
                  action : Proposable \union {None},
                  policy : Policies \union {None}]
TaskRow == [pc : {"absent", "accepted", "wiped", "ready", "escalating",
                  "dispatching", "ended"},
            call : 0..MaxEvents, step : Nat]
ApproverRow == [pc : {"idle", "claimed", "cleared", "opened", "read"},
                call : 0..MaxEvents, balance : Int]

LEMMA CallBounds == 0 \in 0..MaxEvents /\ Ids \subseteq 0..MaxEvents
BY BoundAssumption DEF Ids

(* What an agent may propose has a known tool and, if it transfers, an      *)
(* amount that is not negative.                                             *)
LEMMA ProposableActions ==
  ASSUME NEW a \in Proposable
  PROVE  a.tool \in Tools /\ (a.tool = "transfer" => a.cents \in Nat)
<1>1. CASE a \in Actions
  BY <1>1, ActionAssumption
<1>2. CASE a \in { DemoScript[i] : i \in DOMAIN DemoScript }
  BY <1>2 DEF DemoScript, Tools
<1> QED
  BY <1>1, <1>2 DEF Proposable

LEMMA ProposedIsProposable ==
  ASSUME NEW r \in Runs, NEW a \in Proposed(r)
  PROVE  a \in Proposable
BY DEF Proposed, Proposable

(* A step that moves one task, and a step that moves one thread, keep the   *)
(* two arrays in their types.                                               *)
LEMMA GotoTyped ==
  ASSUME TypeOK, NEW r \in Runs, NEW call \in 0..MaxEvents,
         NEW pc \in {"absent", "accepted", "wiped", "ready", "escalating",
                     "dispatching", "ended"},
         Goto(r, pc, call)
  PROVE  task' \in [Runs -> TaskRow]
BY DEF Goto, TypeOK, TaskRow

LEMMA RestTyped ==
  ASSUME TypeOK, NEW p \in Approvers, Rest(p)
  PROVE  approver' \in [Approvers -> ApproverRow]
BY CallBounds DEF Rest, Resting, TypeOK, ApproverRow

LEMMA EffectTyped ==
  ASSUME TypeOK, NEW e, effects' = [effects EXCEPT ![e] = @ + 1]
  PROVE  effects' \in [Ids -> Nat]
<1>1. CASE e \in Ids
  BY <1>1 DEF TypeOK
<1>2. CASE e \notin Ids
  BY <1>2 DEF TypeOK
<1> QED
  BY <1>1, <1>2

LEMMA TypeInit == Init => TypeOK
<1> SUFFICES ASSUME Init PROVE TypeOK
  OBVIOUS
<1>1. event \in [Ids -> EventRow] /\ escalation \in [Ids -> EscalationRow]
  BY DEF Init, NoEvent, NoEscalation, EventRow, EscalationRow
<1>2. task \in [Runs -> TaskRow] /\ approver \in [Approvers -> ApproverRow]
  BY CallBounds DEF Init, Resting, TaskRow, ApproverRow
<1>3. crashes \in 0..MaxCrashes
  BY BoundAssumption DEF Init
<1> QED
  BY <1>1, <1>2, <1>3 DEF Init, TypeOK, EventRow, EscalationRow, TaskRow, ApproverRow

LEMMA TypeRunStep ==
  ASSUME TypeOK, NEW r \in Runs,
         (\E p \in Policies : StartRun(r, p)) \/ TaskStep(r)
  PROVE  TypeOK'
<1>1. Holder(r) \in Runs \union {Free}
  BY DEF Holder
<1>2. CASE \E p \in Policies : StartRun(r, p)
  BY <1>1, <1>2, GotoTyped, CallBounds DEF StartRun, TypeOK, TaskRow, history
<1>3. CASE WipeSandbox(r)
  BY <1>1, <1>3, GotoTyped, CallBounds DEF WipeSandbox, TypeOK, TaskRow
<1>4. CASE SeedSandbox(r)
  BY <1>1, <1>4, GotoTyped, CallBounds, OpeningAssumption
     DEF SeedSandbox, TypeOK, TaskRow, history
<1>5. CASE SeedFails(r)
  BY <1>1, <1>5, GotoTyped, CallBounds DEF SeedFails, TypeOK, TaskRow, history
<1>6. CASE RecordEscalation(r)
  <2>1. task' \in [Runs -> TaskRow]
    BY <1>6, GotoTyped, CallBounds DEF RecordEscalation
  <2>2. escalation' \in [Ids -> EscalationRow]
    <3>1. CASE task[r].call \in Ids
      BY <1>6, <3>1 DEF RecordEscalation, TypeOK, EscalationRow
    <3>2. CASE task[r].call \notin Ids
      BY <1>6, <3>2 DEF RecordEscalation, TypeOK, EscalationRow
    <3> QED
      BY <3>1, <3>2
  <2> QED
    BY <1>1, <1>6, <2>1, <2>2 DEF RecordEscalation, TypeOK, TaskRow, EscalationRow, history
<1>7. CASE DispatchAllowed(r)
  <2>1. task' \in [Runs -> TaskRow]
    BY <1>7, GotoTyped, CallBounds DEF DispatchAllowed
  <2>2. effects' \in [Ids -> Nat]
    BY <1>7, EffectTyped DEF DispatchAllowed
  <2> QED
    BY <1>1, <1>7, <2>1, <2>2 DEF DispatchAllowed, TypeOK, TaskRow
<1>8. CASE FinishRun(r)
  <2>1. task' \in [Runs -> TaskRow]
    BY <1>8, GotoTyped, CallBounds DEF FinishRun
  <2> QED
    BY <1>8, <2>1 DEF FinishRun, TypeOK, TaskRow, history
<1> QED
  BY <1>2, <1>3, <1>4, <1>5, <1>6, <1>7, <1>8 DEF TaskStep

LEMMA TypeDecide ==
  ASSUME TypeOK, NEW r \in Runs, NEW e \in Ids, NEW a \in Proposed(r), Decide(r, a, e)
  PROVE  TypeOK'
<1> DEFINE decision == Enforce(a, granted[r], DefaultContext).decision
<1>1. decision \in Decisions
  BY DecisionTyped
<1>2. event' = [event EXCEPT ![e] = [run |-> r, action |-> a, decision |-> decision]]
  BY DEF Decide
<1>3. event' \in [Ids -> EventRow]
  BY <1>1, <1>2, ProposedIsProposable DEF TypeOK, EventRow
<1>4. PICK step \in Nat, call \in 0..MaxEvents,
          pc \in {"ready", "escalating", "dispatching"} :
        task' = [task EXCEPT ![r].step = step, ![r].call = call, ![r].pc = pc]
  <2>1. (IF r \in DemoRuns THEN task[r].step + 1 ELSE task[r].step) \in Nat
    BY DEF TypeOK
  <2>2. e \in 0..MaxEvents /\ 0 \in 0..MaxEvents
    BY CallBounds
  <2>3. CASE decision = "halt"
    BY <2>1, <2>2, <2>3 DEF Decide
  <2>4. CASE decision = "escalate"
    BY <2>1, <2>2, <2>4 DEF Decide
  <2>5. CASE decision = "allow"
    BY <2>1, <2>2, <2>5 DEF Decide
  <2> QED
    BY <1>1, <2>3, <2>4, <2>5 DEF Decisions
<1>5. task' \in [Runs -> TaskRow]
  <2>1. task \in [Runs -> TaskRow]
    BY DEF TypeOK, TaskRow
  <2>2. pc \in {"absent", "accepted", "wiped", "ready", "escalating",
                 "dispatching", "ended"}
    OBVIOUS
  <2>3. [task[r] EXCEPT !.step = step, !.call = call, !.pc = pc] \in TaskRow
    BY <2>1, <2>2 DEF TaskRow
  <2>4. task' = [task EXCEPT ![r] = [@ EXCEPT !.step = step, !.call = call, !.pc = pc]]
    BY <1>4, <2>1 DEF TaskRow
  <2> QED
    BY <2>1, <2>3, <2>4
<1>6. loop' \in Runs \union {Free}
  BY DEF Decide, Holder
<1> QED
  BY <1>3, <1>5, <1>6 DEF Decide, TypeOK, EventRow, TaskRow, history

LEMMA TypeClaim ==
  ASSUME TypeOK, NEW p \in Approvers, NEW e \in Ids, Claim(p, e)
  PROVE  TypeOK'
<1>1. PICK resolution \in {"approved", "rejected"} :
        /\ escalation' = [escalation EXCEPT ![e].status = resolution]
        /\ approver' = IF resolution = "rejected" THEN approver
                       ELSE [approver EXCEPT ![p].pc = "claimed", ![p].call = e]
  BY DEF Claim
<1>2. escalation' \in [Ids -> EscalationRow]
  <2>1. escalation \in [Ids -> EscalationRow]
    BY DEF TypeOK, EscalationRow
  <2>2. [escalation[e] EXCEPT !.status = resolution] \in EscalationRow
    BY <2>1 DEF EscalationRow
  <2> QED
    BY <1>1, <2>1, <2>2
<1>3. approver' \in [Approvers -> ApproverRow]
  <2>1. e \in 0..MaxEvents
    BY CallBounds
  <2>2. CASE resolution = "rejected"
    BY <1>1, <2>2 DEF TypeOK, ApproverRow
  <2>3. CASE resolution # "rejected"
    <3>1. approver \in [Approvers -> ApproverRow]
      BY DEF TypeOK, ApproverRow
    <3>2. approver' = [approver EXCEPT ![p].pc = "claimed", ![p].call = e]
      BY <1>1, <2>3
    <3> QED
      BY <2>1, <3>1, <3>2 DEF ApproverRow
  <2> QED
    BY <2>2, <2>3
<1> QED
  BY <1>2, <1>3 DEF Claim, TypeOK, EscalationRow, ApproverRow, history

-----------------------------------------------------------------------------
(* The inductive invariant.  What authorizes an effect is established when  *)
(* a call is decided and when it is claimed, and is used several steps      *)
(* later: so every call in flight carries its authorization with it.        *)

(* Only one task is inside a call, or between the halves of a reset.        *)
LoopHeld ==
  \A r \in Runs :
    task[r].pc \in {"wiped", "escalating", "dispatching"} => loop = r

(* An audit row holds the decision of the engine under its run's policy.    *)
EventsDecided ==
  \A e \in Ids : event[e].decision # "none" =>
    /\ event[e].run \in Runs /\ event[e].action \in Proposable
    /\ event[e].decision =
         Enforce(event[e].action, granted[event[e].run], DefaultContext).decision

(* An escalation row copies the action and the policy of its audit row.     *)
EscalationsMatch ==
  \A e \in Ids : escalation[e].status # "absent" =>
    /\ event[e].decision = "escalate"
    /\ escalation[e].action = event[e].action
    /\ escalation[e].policy = granted[event[e].run]

(* A run that has started has its policy, and only such a run has rows: the *)
(* policy of a decided call is never replaced.                              *)
RunsGranted ==
  /\ \A r \in Runs : task[r].pc # "absent" => granted[r] # None
  /\ \A e \in Ids : event[e].decision # "none" => task[event[e].run].pc # "absent"

TaskCalls ==
  \A r \in Runs :
    /\ task[r].pc = "escalating" =>
         /\ task[r].call \in Ids
         /\ event[task[r].call].decision = "escalate"
         /\ event[task[r].call].run = r
         /\ escalation[task[r].call].status = "absent"
    /\ task[r].pc = "dispatching" =>
         /\ task[r].call \in Ids
         /\ event[task[r].call].decision = "allow"
         /\ effects[task[r].call] = 0

(* A claimed call is approved, not yet performed, and claimed by one thread.*)
ApproverCalls ==
  \A p \in Approvers : approver[p].pc # "idle" =>
    /\ approver[p].call \in Ids
    /\ escalation[approver[p].call].status = "approved"
    /\ effects[approver[p].call] = 0
    /\ \A q \in Approvers : q # p /\ approver[q].pc # "idle" =>
         approver[q].call # approver[p].call
    /\ approver[p].pc = "read" =>
         /\ Claimed(p).action.tool = "transfer"
         /\ Claimed(p).action.cents <= approver[p].balance

EffectsAllowed ==
  \A e \in Ids :
    /\ effects[e] \in {0, 1}
    /\ effects[e] = 1 =>
         \/ event[e].decision = "allow"
         \/ event[e].decision = "escalate" /\ escalation[e].status = "approved"

IInv ==
  /\ TypeOK
  /\ LoopHeld /\ EventsDecided /\ RunsGranted /\ EscalationsMatch
  /\ TaskCalls /\ ApproverCalls /\ EffectsAllowed
  /\ NeverOverdrawn

CallInv ==
  /\ EventsDecided /\ RunsGranted /\ EscalationsMatch
  /\ TaskCalls /\ ApproverCalls /\ EffectsAllowed

LEMMA InvInit == Init => IInv
<1> SUFFICES ASSUME Init PROVE IInv
  OBVIOUS
<1>1. TypeOK
  BY TypeInit
<1>2. LoopHeld /\ TaskCalls
  BY DEF Init, LoopHeld, TaskCalls
<1>3. EventsDecided /\ RunsGranted /\ EscalationsMatch /\ EffectsAllowed
  BY DEF Init, NoEvent, NoEscalation, EventsDecided, RunsGranted, EscalationsMatch,
         EffectsAllowed
<1>4. ApproverCalls
  BY DEF Init, Resting, ApproverCalls
<1>5. NeverOverdrawn
  BY DEF Init, NeverOverdrawn
<1> QED
  BY <1>1, <1>2, <1>3, <1>4, <1>5 DEF IInv

(* A task that moves outside a call disturbs no call, and a task that       *)
(* starts has none.                                                         *)
LEMMA QuietStep ==
  ASSUME IInv, NEW r \in Runs,
         NEW pc \in {"accepted", "wiped", "ready", "ended"}, Goto(r, pc, 0),
         UNCHANGED <<event, escalation, approver, effects>>,
         \/ task[r].pc # "absent" /\ UNCHANGED granted
         \/ /\ task[r].pc = "absent"
            /\ \E p \in Policies : granted' = [granted EXCEPT ![r] = p]
  PROVE  CallInv'
<1>3. /\ \A q \in Runs : q # r => task'[q] = task[q] /\ granted'[q] = granted[q]
      /\ task'[r].pc # "absent" /\ granted'[r] # None
  BY NullAssumption DEF Goto, IInv, TypeOK, RunsGranted
<1>4. \A e \in Ids : event[e].decision # "none" =>
        event[e].run \in Runs /\ granted'[event[e].run] = granted[event[e].run]
  BY <1>3 DEF IInv, EventsDecided, RunsGranted
<1>5. RunsGranted' /\ EventsDecided'
  BY <1>3, <1>4 DEF IInv, TypeOK, EventsDecided, RunsGranted
<1>6. EscalationsMatch'
  BY <1>4 DEF IInv, EscalationsMatch
<1>1. TaskCalls'
  BY DEF IInv, TypeOK, Goto, TaskCalls
<1>2. ApproverCalls'
  BY DEF IInv, ApproverCalls, Claimed
<1> QED
  BY <1>1, <1>2, <1>5, <1>6 DEF IInv, CallInv, EffectsAllowed

LEMMA InvRunStep ==
  ASSUME IInv, NEW r \in Runs, (\E p \in Policies : StartRun(r, p)) \/ TaskStep(r)
  PROVE  IInv'
<1>1. TypeOK'
  BY TypeRunStep DEF IInv
<1>2. CASE \E p \in Policies : StartRun(r, p)
  <2>1. LoopHeld'
    BY <1>2, NullAssumption DEF StartRun, Goto, IInv, TypeOK, LoopHeld
  <2>2. CallInv'
    BY <1>2, QuietStep DEF StartRun, history
  <2>3. NeverOverdrawn'
    BY <1>2 DEF StartRun, IInv, NeverOverdrawn
  <2> QED
    BY <1>1, <2>1, <2>2, <2>3 DEF IInv, CallInv
<1>3. CASE WipeSandbox(r)
  <2>1. LoopHeld'
    BY <1>3, NullAssumption DEF WipeSandbox, Holder, Goto, IInv, TypeOK, LoopHeld
  <2>2. CallInv'
    BY <1>3, QuietStep DEF WipeSandbox
  <2>3. NeverOverdrawn'
    BY <1>3 DEF WipeSandbox, NeverOverdrawn
  <2> QED
    BY <1>1, <2>1, <2>2, <2>3 DEF IInv, CallInv
<1>4. CASE SeedSandbox(r)
  <2>1. LoopHeld'
    BY <1>4 DEF SeedSandbox, Goto, IInv, TypeOK, LoopHeld
  <2>2. CallInv'
    BY <1>4, QuietStep DEF SeedSandbox, history
  <2>3. NeverOverdrawn'
    BY <1>4, OpeningAssumption DEF SeedSandbox, NeverOverdrawn
  <2> QED
    BY <1>1, <2>1, <2>2, <2>3 DEF IInv, CallInv
<1>5. CASE SeedFails(r)
  <2>1. LoopHeld'
    BY <1>5 DEF SeedFails, Goto, IInv, TypeOK, LoopHeld
  <2>2. CallInv'
    BY <1>5, QuietStep DEF SeedFails, history
  <2>3. NeverOverdrawn'
    BY <1>5 DEF SeedFails, IInv, NeverOverdrawn
  <2> QED
    BY <1>1, <2>1, <2>2, <2>3 DEF IInv, CallInv
<1>6. CASE FinishRun(r)
  <2>1. LoopHeld'
    BY <1>6, NullAssumption DEF FinishRun, Holder, Goto, IInv, TypeOK, LoopHeld
  <2>2. CallInv'
    BY <1>6, QuietStep DEF FinishRun, history
  <2>3. NeverOverdrawn'
    BY <1>6 DEF FinishRun, IInv, NeverOverdrawn
  <2> QED
    BY <1>1, <2>1, <2>2, <2>3 DEF IInv, CallInv
<1>7. CASE RecordEscalation(r)
  <2> DEFINE e == task[r].call
  <2>1. /\ e \in Ids /\ event[e].decision = "escalate" /\ event[e].run = r
        /\ escalation[e].status = "absent"
    BY <1>7 DEF RecordEscalation, IInv, TaskCalls
  <2>2. escalation' = [escalation EXCEPT ![e] =
          [status |-> "pending", action |-> event[e].action, policy |-> granted[r]]]
    BY <1>7 DEF RecordEscalation
  <2>3. LoopHeld'
    BY <1>7 DEF RecordEscalation, Goto, IInv, TypeOK, LoopHeld
  <2>4. EscalationsMatch'
    BY <1>7, <2>1, <2>2 DEF RecordEscalation, IInv, TypeOK, EscalationsMatch
  <2>5. TaskCalls'
    <3>1. \A q \in Runs : q # r => task[q].pc \notin {"escalating", "dispatching"}
      BY <1>7 DEF RecordEscalation, IInv, LoopHeld
    <3> QED
      BY <1>7, <3>1 DEF RecordEscalation, Goto, IInv, TypeOK, TaskCalls
  <2>6. ApproverCalls'
    <3>1. \A p \in Approvers : approver[p].pc # "idle" =>
            approver[p].call # e /\ (Claimed(p))' = Claimed(p)
      BY <1>7, <2>1, <2>2 DEF RecordEscalation, IInv, TypeOK, ApproverCalls, Claimed
    <3> QED
      BY <1>7, <2>2, <3>1 DEF RecordEscalation, history, IInv, TypeOK, ApproverCalls
  <2>7. EventsDecided' /\ RunsGranted' /\ NeverOverdrawn'
    BY <1>7 DEF RecordEscalation, Goto, IInv, TypeOK, EventsDecided, RunsGranted,
                NeverOverdrawn
  <2>8. EffectsAllowed'
    BY <1>7, <2>1, <2>2 DEF RecordEscalation, history, IInv, TypeOK, EffectsAllowed
  <2> QED
    BY <1>1, <2>3, <2>4, <2>5, <2>6, <2>7, <2>8 DEF IInv
<1>8. CASE DispatchAllowed(r)
  <2> DEFINE e == task[r].call
  <2>1. e \in Ids /\ event[e].decision = "allow" /\ effects[e] = 0
    BY <1>8 DEF DispatchAllowed, IInv, TaskCalls
  <2>2. effects' = [effects EXCEPT ![e] = 1]
    BY <1>8, <2>1 DEF DispatchAllowed
  <2>3. LoopHeld'
    BY <1>8 DEF DispatchAllowed, Goto, IInv, TypeOK, LoopHeld
  <2>4. TaskCalls'
    <3>1. \A q \in Runs : q # r => task[q].pc \notin {"escalating", "dispatching"}
      BY <1>8 DEF DispatchAllowed, IInv, LoopHeld
    <3> QED
      BY <1>8, <3>1 DEF DispatchAllowed, Goto, IInv, TypeOK, TaskCalls
  <2>5. ApproverCalls'
    <3>1. \A p \in Approvers : approver[p].pc # "idle" => approver[p].call # e
      BY <2>1 DEF IInv, ApproverCalls, EscalationsMatch
    <3>2. \A p \in Approvers : (Claimed(p))' = Claimed(p)
      BY <1>8 DEF DispatchAllowed, Claimed
    <3> QED
      BY <1>8, <2>2, <3>1, <3>2 DEF DispatchAllowed, IInv, TypeOK, ApproverCalls
  <2>6. EventsDecided' /\ RunsGranted' /\ EscalationsMatch' /\ NeverOverdrawn'
    BY <1>8 DEF DispatchAllowed, Goto, IInv, TypeOK, EventsDecided, RunsGranted,
                EscalationsMatch, NeverOverdrawn
  <2>7. EffectsAllowed'
    BY <1>8, <2>1, <2>2 DEF DispatchAllowed, IInv, TypeOK, EffectsAllowed
  <2> QED
    BY <1>1, <2>3, <2>4, <2>5, <2>6, <2>7 DEF IInv
<1> QED
  BY <1>2, <1>3, <1>4, <1>5, <1>6, <1>7, <1>8 DEF TaskStep

(* Deciding a call writes a row nobody refers to yet.                       *)
LEMMA InvDecide ==
  ASSUME IInv, NEW r \in Runs, NEW e \in Ids, NEW a \in Proposed(r), Decide(r, a, e)
  PROVE  IInv'
<1> DEFINE decision == Enforce(a, granted[r], DefaultContext).decision
<1>1. TypeOK'
  BY TypeDecide DEF IInv
<1>2. /\ event[e].decision = "none" /\ task[r].pc = "ready" /\ loop = Holder(r)
      /\ event' = [event EXCEPT ![e] = [run |-> r, action |-> a, decision |-> decision]]
      /\ UNCHANGED <<escalation, granted, ledger, approver, crashes, effects>>
  BY DEF Decide, Fresh, history
<1>3. decision \in Decisions /\ a \in Proposable
  BY DecisionTyped, ProposedIsProposable
<1>4. effects[e] = 0 /\ escalation[e].status = "absent"
  BY <1>2 DEF IInv, TypeOK, EscalationsMatch, EffectsAllowed
<1>5. /\ \A q \in Runs : q # r => task'[q] = task[q]
      /\ task'[r].pc = CASE decision = "halt" -> "ready"
                         [] decision = "escalate" -> "escalating"
                         [] decision = "allow" -> "dispatching"
      /\ decision # "halt" => task'[r].call = e
  BY DEF Decide, IInv, TypeOK
<1>6. \A q \in Runs : q # r => task[q].pc \notin {"wiped", "escalating", "dispatching"}
  BY <1>2, NullAssumption DEF Holder, IInv, LoopHeld
<1>7. LoopHeld'
  <2>1. task'[r].pc # "ready" => loop' = r
    BY <1>3, <1>5 DEF Decide, Decisions
  <2>2. task'[r].pc \in {"ready", "escalating", "dispatching"}
    BY <1>3, <1>5 DEF Decisions
  <2> QED
    BY <1>5, <1>6, <2>1, <2>2 DEF LoopHeld
<1>8. EventsDecided'
  BY <1>2, <1>3 DEF IInv, TypeOK, EventsDecided
<1>9. EscalationsMatch'
  BY <1>2, <1>4 DEF IInv, TypeOK, EscalationsMatch
<1>10. TaskCalls'
  BY <1>2, <1>3, <1>4, <1>5, <1>6 DEF IInv, TypeOK, TaskCalls, Decisions
<1>11. ApproverCalls'
  BY <1>2 DEF IInv, ApproverCalls, Claimed
<1>12. EffectsAllowed'
  BY <1>2, <1>4 DEF IInv, TypeOK, EffectsAllowed
<1>13. NeverOverdrawn'
  BY <1>2 DEF IInv, NeverOverdrawn
<1>14. RunsGranted'
  <2>1. \A q \in Runs : task[q].pc # "absent" => task'[q].pc # "absent"
    BY <1>3, <1>5 DEF Decisions
  <2>2. task'[r].pc # "absent" /\ \A q \in Runs : task'[q].pc # "absent" =>
                                    task[q].pc # "absent"
    BY <1>2, <1>3, <1>5 DEF Decisions
  <2> QED
    BY <1>2, <2>1, <2>2 DEF IInv, TypeOK, EventsDecided, RunsGranted
<1> QED
  BY <1>1, <1>7, <1>8, <1>9, <1>10, <1>11, <1>12, <1>13, <1>14 DEF IInv

(* Claiming takes a pending row, which no thread and no task works on.      *)
LEMMA InvClaim ==
  ASSUME IInv, NEW p \in Approvers, NEW e \in Ids, Claim(p, e)
  PROVE  IInv'
<1>1. TypeOK'
  BY TypeClaim DEF IInv
<1>2. PICK resolution \in {"approved", "rejected"} :
        /\ escalation' = [escalation EXCEPT ![e].status = resolution]
        /\ approver' = IF resolution = "rejected" THEN approver
                       ELSE [approver EXCEPT ![p].pc = "claimed", ![p].call = e]
  BY DEF Claim
<1>3. /\ approver[p].pc = "idle" /\ escalation[e].status = "pending"
      /\ UNCHANGED <<event, granted, ledger, loop, task, effects>>
  BY DEF Claim, history
<1>4. /\ \A d \in Ids : /\ d # e => escalation'[d] = escalation[d]
                        /\ escalation'[d].action = escalation[d].action
                        /\ escalation'[d].policy = escalation[d].policy
      /\ escalation'[e].status = resolution
  BY <1>2 DEF IInv, TypeOK
<1>5. event[e].decision = "escalate" /\ effects[e] = 0
  BY <1>3 DEF IInv, EscalationsMatch, EffectsAllowed
<1>6. EscalationsMatch'
  BY <1>3, <1>4, <1>5 DEF IInv, EscalationsMatch
<1>7. TaskCalls'
  BY <1>3, <1>4 DEF IInv, TaskCalls
<1>8. \A q \in Approvers : approver[q].pc # "idle" => approver[q].call # e
  BY <1>3 DEF IInv, ApproverCalls
<1>9. ApproverCalls'
  <2>1. CASE resolution = "rejected"
    BY <1>2, <1>3, <1>4, <1>8, <2>1 DEF IInv, ApproverCalls, Claimed
  <2>2. CASE resolution = "approved"
    <3>1. /\ \A q \in Approvers : q # p => approver'[q] = approver[q]
          /\ approver'[p].pc = "claimed" /\ approver'[p].call = e
      BY <1>2, <2>2 DEF IInv, TypeOK
    <3> QED
      BY <1>3, <1>4, <1>5, <1>8, <2>2, <3>1 DEF IInv, ApproverCalls, Claimed
  <2> QED
    BY <2>1, <2>2
<1>10. EffectsAllowed'
  BY <1>3, <1>4, <1>5 DEF IInv, EffectsAllowed
<1>11. LoopHeld' /\ EventsDecided' /\ RunsGranted' /\ NeverOverdrawn'
  BY <1>3 DEF IInv, LoopHeld, EventsDecided, RunsGranted, NeverOverdrawn
<1> QED
  BY <1>1, <1>6, <1>7, <1>9, <1>10, <1>11 DEF IInv

(* What the thread of a claimed call works on: an action an agent proposed. *)
LEMMA ClaimedAction ==
  ASSUME IInv, NEW p \in Approvers, approver[p].pc # "idle"
  PROVE  /\ approver[p].call \in Ids
         /\ event[approver[p].call].decision = "escalate"
         /\ Claimed(p).action \in Proposable
         /\ Claimed(p).action = event[approver[p].call].action
BY DEF IInv, ApproverCalls, EscalationsMatch, EventsDecided, Claimed

(* A thread that moves on within its request, or gives it up, disturbs no   *)
(* call: it keeps its call or rests.                                        *)
LEMMA ThreadMoves ==
  ASSUME IInv, NEW p \in Approvers, approver[p].pc # "idle",
         NEW row \in ApproverRow, approver' = [approver EXCEPT ![p] = row],
         \/ row.pc = "idle"
         \/ /\ row.call = approver[p].call
            /\ row.pc = "read" => /\ Claimed(p).action.tool = "transfer"
                                  /\ Claimed(p).action.cents <= row.balance,
         UNCHANGED <<event, escalation, granted, task, loop, effects>>
  PROVE  LoopHeld' /\ CallInv'
<1>1. ApproverCalls'
  <2>1. /\ \A q \in Approvers : q # p => approver'[q] = approver[q]
        /\ approver'[p] = row
    BY DEF IInv, TypeOK
  <2> QED
    BY <2>1 DEF IInv, ApproverCalls, Claimed
<1> QED
  BY <1>1 DEF IInv, LoopHeld, CallInv, EventsDecided, RunsGranted, EscalationsMatch,
              TaskCalls, EffectsAllowed

(* ... and one that performs its call, which is approved and not performed  *)
(* yet, is the only one to do so.                                           *)
LEMMA ThreadPerforms ==
  ASSUME IInv, NEW p \in Approvers, approver[p].pc # "idle", Rest(p),
         effects' = [effects EXCEPT ![approver[p].call] = @ + 1],
         UNCHANGED <<event, escalation, granted, task, loop>>
  PROVE  LoopHeld' /\ CallInv' /\ effects' \in [Ids -> Nat]
<1> DEFINE e == approver[p].call
<1>1. /\ e \in Ids /\ event[e].decision = "escalate" /\ effects[e] = 0
      /\ escalation[e].status = "approved"
  BY ClaimedAction DEF IInv, ApproverCalls
<1>2. effects' = [effects EXCEPT ![e] = 1]
  BY <1>1
<1>3. /\ \A q \in Approvers : q # p => approver'[q] = approver[q]
      /\ approver'[p].pc = "idle"
  BY DEF Rest, Resting, IInv, TypeOK
<1>4. ApproverCalls'
  <2>1. \A q \in Approvers : q # p /\ approver[q].pc # "idle" =>
          approver[q].call \in Ids /\ approver[q].call # e
    BY DEF IInv, TypeOK, ApproverCalls
  <2> HIDE DEF e
  <2>2. effects \in [Ids -> Nat]
    BY DEF IInv, TypeOK
  <2>3. \A d \in Ids : d # e => effects'[d] = effects[d]
    BY <1>2, <2>2
  <2> QED
    BY <1>3, <2>1, <2>3 DEF IInv, ApproverCalls, Claimed
<1>5. TaskCalls'
  BY <1>1, <1>2 DEF IInv, TypeOK, TaskCalls
<1>6. EffectsAllowed' /\ effects' \in [Ids -> Nat]
  BY <1>1, <1>2 DEF IInv, TypeOK, EffectsAllowed
<1> QED
  BY <1>4, <1>5, <1>6 DEF IInv, LoopHeld, CallInv, EventsDecided, RunsGranted,
                          EscalationsMatch

LEMMA InvApproverStep ==
  ASSUME IInv, NEW p \in Approvers, ApproverStep(p)
  PROVE  IInv'
<1>1. approver \in [Approvers -> ApproverRow] /\ Resting \in ApproverRow
  BY CallBounds DEF IInv, TypeOK, ApproverRow, Resting
<1>2. approver[p].pc # "idle"
  BY DEF ApproverStep, Recheck, OpenSandbox, ReadBalance, WriteBalance, Apply, ApplyFails
<1>3. Claimed(p).action.tool = "transfer" => Claimed(p).action.cents \in Nat
  BY <1>2, ClaimedAction, ProposableActions
\* The three ways the array moves, each with a row of the right type.
<1>4. ASSUME NEW pc \in {"cleared", "opened"}, approver' = [approver EXCEPT ![p].pc = pc],
             UNCHANGED <<event, escalation, granted, task, loop, effects>>
      PROVE  LoopHeld' /\ CallInv' /\ approver' \in [Approvers -> ApproverRow]
  <2>1. [approver[p] EXCEPT !.pc = pc] \in ApproverRow
    BY <1>1 DEF ApproverRow
  <2>2. approver' = [approver EXCEPT ![p] = [approver[p] EXCEPT !.pc = pc]]
    BY <1>1, <1>4
  <2> HIDE DEF ApproverRow
  <2>3. /\ [approver[p] EXCEPT !.pc = pc].call = approver[p].call
        /\ [approver[p] EXCEPT !.pc = pc].pc # "read"
    BY <1>1 DEF ApproverRow
  <2> QED
    BY <1>1, <1>2, <1>4, <2>1, <2>2, <2>3, ThreadMoves
<1>5. ASSUME Rest(p), UNCHANGED <<event, escalation, granted, task, loop, effects>>
      PROVE  LoopHeld' /\ CallInv' /\ approver' \in [Approvers -> ApproverRow]
  <2>1. Resting.pc = "idle"
    BY DEF Resting
  <2> QED
    BY <1>1, <1>2, <1>5, <2>1, ThreadMoves DEF Rest
<1>6. CASE Recheck(p)
  <2>1. LoopHeld' /\ CallInv' /\ approver' \in [Approvers -> ApproverRow]
    BY <1>4, <1>5, <1>6 DEF Recheck, history
  <2> QED
    BY <1>6, <2>1 DEF Recheck, IInv, CallInv, TypeOK, ApproverRow, NeverOverdrawn, history
<1>7. CASE OpenSandbox(p)
  <2>1. LoopHeld' /\ CallInv' /\ approver' \in [Approvers -> ApproverRow]
    BY <1>4, <1>7 DEF OpenSandbox, history
  <2>2. ledger' \in Int \union {NoRow} /\ NeverOverdrawn'
    BY <1>7, OpeningAssumption DEF OpenSandbox, IInv, TypeOK, NeverOverdrawn
  <2> QED
    BY <1>7, <2>1, <2>2 DEF OpenSandbox, IInv, CallInv, TypeOK, ApproverRow, history
<1>8. CASE ReadBalance(p)
  <2>1. CASE ledger # NoRow /\ Claimed(p).action.cents <= ledger
    <3> DEFINE row == [approver[p] EXCEPT !.pc = "read", !.balance = ledger]
    <3>1. approver' = [approver EXCEPT ![p] = row] /\ row \in ApproverRow
      BY <1>1, <1>8, <2>1 DEF ReadBalance, IInv, TypeOK, ApproverRow
    <3>2. row.pc = "read" /\ row.balance = ledger /\ row.call = approver[p].call
      BY <1>1 DEF ApproverRow
    <3>3. Claimed(p).action.tool = "transfer"
      BY <1>8 DEF ReadBalance
    <3>4. UNCHANGED <<event, escalation, granted, task, loop, effects>>
      BY <1>8 DEF ReadBalance, history
    <3> HIDE DEF row
    <3>5. LoopHeld' /\ CallInv'
      BY <1>2, <2>1, <3>1, <3>2, <3>3, <3>4, ThreadMoves
    <3>6. approver' \in [Approvers -> ApproverRow]
      BY <1>1, <3>1
    <3> QED
      BY <1>8, <3>5, <3>6 DEF ReadBalance, IInv, CallInv, TypeOK, ApproverRow,
                              NeverOverdrawn, history
  <2>2. CASE ~(ledger # NoRow /\ Claimed(p).action.cents <= ledger)
    <3>1. LoopHeld' /\ CallInv' /\ approver' \in [Approvers -> ApproverRow]
      BY <1>5, <1>8, <2>2 DEF ReadBalance, history
    <3> QED
      BY <1>8, <3>1 DEF ReadBalance, IInv, CallInv, TypeOK, ApproverRow,
                        NeverOverdrawn, history
  <2> QED
    BY <2>1, <2>2
<1>9. CASE WriteBalance(p)
  <2>1. /\ Claimed(p).action.cents \in Nat
        /\ Claimed(p).action.cents <= approver[p].balance
        /\ approver[p].balance \in Int
    BY <1>1, <1>2, <1>3, <1>9 DEF WriteBalance, IInv, ApproverCalls, ApproverRow
  <2>2. LoopHeld' /\ CallInv' /\ effects' \in [Ids -> Nat]
    BY <1>2, <1>9, ThreadPerforms DEF WriteBalance
  <2>3. approver' \in [Approvers -> ApproverRow]
    BY <1>9, RestTyped DEF WriteBalance, IInv
  <2>4. /\ ledger' \in Int \union {NoRow} /\ NeverOverdrawn'
        /\ debited' \in Nat
    BY <1>9, <2>1 DEF WriteBalance, IInv, TypeOK, NeverOverdrawn
  <2> QED
    BY <1>9, <2>2, <2>3, <2>4 DEF WriteBalance, IInv, CallInv, TypeOK, ApproverRow
<1>10. CASE Apply(p)
  <2>1. LoopHeld' /\ CallInv' /\ effects' \in [Ids -> Nat]
    BY <1>2, <1>10, ThreadPerforms DEF Apply
  <2>2. approver' \in [Approvers -> ApproverRow]
    BY <1>10, RestTyped DEF Apply, IInv
  <2> QED
    BY <1>10, <2>1, <2>2 DEF Apply, IInv, CallInv, TypeOK, ApproverRow, NeverOverdrawn
<1>11. CASE ApplyFails(p)
  <2>1. LoopHeld' /\ CallInv' /\ approver' \in [Approvers -> ApproverRow]
    BY <1>5, <1>11 DEF ApplyFails, history
  <2> QED
    BY <1>11, <2>1 DEF ApplyFails, IInv, CallInv, TypeOK, ApproverRow,
                       NeverOverdrawn, history
<1> QED
  BY <1>6, <1>7, <1>8, <1>9, <1>10, <1>11 DEF ApproverStep

LEMMA InvCrash == IInv /\ Crash => IInv'
<1> SUFFICES ASSUME IInv, Crash PROVE IInv'
  OBVIOUS
<1>1. \A r \in Runs : task'[r].pc \in {"absent", "ended"}
  BY DEF Crash
<1>2. \A p \in Approvers : approver'[p].pc = "idle"
  BY DEF Crash, Resting
<1>3. LoopHeld' /\ TaskCalls'
  BY <1>1 DEF LoopHeld, TaskCalls
<1>4. ApproverCalls'
  BY <1>2 DEF ApproverCalls
<1>5. task' \in [Runs -> TaskRow]
  BY CallBounds DEF Crash, IInv, TypeOK, TaskRow
<1>6. approver' \in [Approvers -> ApproverRow]
  BY CallBounds DEF Crash, Resting, ApproverRow
<1>7. crashes' \in 0..MaxCrashes
  BY BoundAssumption DEF Crash, IInv, TypeOK
<1>8. TypeOK'
  BY <1>5, <1>6, <1>7 DEF Crash, IInv, TypeOK, TaskRow, ApproverRow, history
<1>9. RunsGranted'
  <2>1. \A r \in Runs : task'[r].pc # "absent" <=> task[r].pc # "absent"
    BY DEF Crash
  <2> QED
    BY <2>1 DEF Crash, IInv, EventsDecided, RunsGranted
<1> QED
  BY <1>3, <1>4, <1>8, <1>9 DEF Crash, IInv, EventsDecided, EscalationsMatch,
                          EffectsAllowed, NeverOverdrawn, history

LEMMA InvStep == IInv /\ [Next]_vars => IInv'
<1> SUFFICES ASSUME IInv, [Next]_vars PROVE IInv'
  OBVIOUS
<1>1. CASE UNCHANGED vars
  BY <1>1 DEF vars, IInv, TypeOK, LoopHeld, EventsDecided, RunsGranted, EscalationsMatch,
              TaskCalls, ApproverCalls, Claimed, EffectsAllowed, NeverOverdrawn
<1> QED
  BY <1>1, InvRunStep, InvDecide, InvClaim, InvApproverStep, InvCrash DEF Next

LEMMA Invariance == Spec => []IInv
BY InvInit, InvStep, PTL DEF Spec

-----------------------------------------------------------------------------
(* Every variable stays in its type.                                        *)
THEOREM TypeCorrect == Spec => []TypeOK
<1>1. IInv => TypeOK
  BY DEF IInv
<1> QED
  BY <1>1, Invariance, PTL

(* README.md, "human approval": whatever agents propose and however tasks,  *)
(* threads and crashes interleave, a call has its effect only if the engine *)
(* allowed it, and then it is reversible, or a human approved that action.  *)
THEOREM EffectsAreAuthorized == Spec => []EffectAuthorized
<1>1. IInv => EffectAuthorized
  <2> SUFFICES ASSUME IInv, NEW e \in Ids, effects[e] > 0
               PROVE  \/ /\ event[e].decision = "allow"
                         /\ Classify(event[e].action) = "reversible"
                      \/ /\ event[e].decision = "escalate"
                         /\ escalation[e].status = "approved"
                         /\ escalation[e].action = event[e].action
    BY DEF EffectAuthorized
  <2>1. effects[e] = 1
    BY DEF IInv, EffectsAllowed
  <2>2. CASE event[e].decision = "allow"
    BY <2>2, AllowedIsReversible DEF IInv, EventsDecided
  <2>3. CASE event[e].decision = "escalate" /\ escalation[e].status = "approved"
    BY <2>3 DEF IInv, EscalationsMatch
  <2> QED
    BY <2>1, <2>2, <2>3 DEF IInv, EffectsAllowed
<1> QED
  BY <1>1, Invariance, PTL

(* rules.md, "Fail closed", end to end: whatever had an effect was within   *)
(* the policy its own run was given, for every assignment of policies and   *)
(* every interleaving of runs, approvals and restarts.                      *)
THEOREM EffectsStayInPolicy == Spec => []EffectsInPolicy
<1>1. IInv => EffectsInPolicy
  <2> SUFFICES ASSUME IInv, NEW e \in Ids, effects[e] > 0,
                      NEW a, a = event[e].action, NEW p, p = granted[event[e].run]
               PROVE  /\ a.tool \in p.tools /\ ~MatchesForbidden(a, p.forbidden)
                      /\ a.tool = "db" => /\ a.sql.single /\ a.sql.keyword \in p.dbOps
                                          /\ Head(a.sql.named) \in p.dbTables
                      /\ a.tool = "transfer" => a.cents <= p.cap
                      /\ a.tool = "fs_write" => PathInScope(a.path, p.roots)
    BY DEF EffectsInPolicy
  <2>1. event[e].decision \in {"allow", "escalate"}
    BY DEF IInv, EffectsAllowed
  <2>2. a \in Proposable /\ Decision(a, p, DefaultContext) \in {"allow", "escalate"}
    BY <2>1 DEF IInv, EventsDecided, Decision
  <2>3. /\ ScopeRefusal(a, p, DefaultContext) = NoName
        /\ EffectRefusal(a, p, DefaultContext) = NoName
    BY <2>2, DecisionCases
  <2>4. a.tool \in p.tools /\ ~MatchesForbidden(a, p.forbidden)
    BY <2>3 DEF ScopeRefusal, NoName
  <2>5. a.tool \in {"transfer", "fs_write"} => Classify(a) # "reversible"
    BY DEF Classify
  <2>6. /\ a.tool = "db" => /\ DbOpAllowed(a.sql, p.dbOps)
                            /\ DbTableAllowed(a.sql, p.dbTables)
        /\ a.tool = "transfer" => WithinSpend(0, a.cents, p.cap)
        /\ a.tool = "fs_write" => PathInScope(a.path, p.roots)
    BY <2>3, <2>5 DEF EffectRefusal, NoName, DefaultContext
  <2>7. a.tool = "db" => /\ a.sql.single /\ a.sql.keyword \in p.dbOps
                         /\ Head(a.sql.named) \in p.dbTables
    BY <2>6 DEF DbOpAllowed, DbTableAllowed, LeadingKeyword, TargetTable
  <2>8. a.tool = "transfer" => a.cents <= p.cap
    BY <2>2, <2>6, ProposableActions DEF WithinSpend
  <2> QED
    BY <2>4, <2>6, <2>7, <2>8
<1> QED
  BY <1>1, Invariance, PTL

(* No interleaving of approvals, restarts and tasks performs a call twice.  *)
THEOREM EffectsHappenOnce == Spec => []AtMostOnce
<1>1. IInv => AtMostOnce
  BY DEF IInv, EffectsAllowed, AtMostOnce
<1> QED
  BY <1>1, Invariance, PTL

(* Re-enforcing a claimed call never refuses it, so no claim is spent on a  *)
(* 409: the stored policy and context are those of the first decision.      *)
THEOREM RecheckAlwaysPasses == Spec => []RecheckNeverRefuses
<1>1. IInv => RecheckNeverRefuses
  BY DEF IInv, ApproverCalls, EscalationsMatch, EventsDecided, Claimed,
         RecheckNeverRefuses, RecheckPasses, RecheckContext
<1> QED
  BY <1>1, Invariance, PTL

(* No interleaving of transfers and resets drives the balance below zero.   *)
THEOREM LedgerNeverOverdrawn == Spec => []NeverOverdrawn
<1>1. IInv => NeverOverdrawn
  BY DEF IInv
<1> QED
  BY <1>1, Invariance, PTL

(* The first resolution of an escalation stands: approve, reject, restart   *)
(* and every other step leave a resolved row as it is.                      *)
THEOREM ResolutionsAreFinal == Spec => ResolutionFinal
<1> DEFINE Kept == \A e \in Ids : escalation[e].status \in {"approved", "rejected"} =>
                     escalation'[e] = escalation[e]
<1>1. IInv /\ [Next]_vars => Kept
  <2> SUFFICES ASSUME IInv, [Next]_vars PROVE Kept
    OBVIOUS
  <2>1. CASE UNCHANGED escalation
    BY <2>1
  <2>2. ASSUME NEW r \in Runs, RecordEscalation(r) PROVE Kept
    <3>1. escalation[task[r].call].status = "absent"
      BY <2>2 DEF RecordEscalation, IInv, TaskCalls
    <3> QED
      BY <2>2, <3>1 DEF RecordEscalation, IInv, TypeOK
  <2>3. ASSUME NEW p \in Approvers, NEW d \in Ids, Claim(p, d) PROVE Kept
    <3>1. escalation[d].status = "pending"
      BY <2>3 DEF Claim
    <3> QED
      BY <2>3, <3>1 DEF Claim, IInv, TypeOK
  <2>4. ASSUME NEW r \in Runs, (\E p \in Policies : StartRun(r, p)) \/ TaskStep(r)
        PROVE  RecordEscalation(r) \/ UNCHANGED escalation
    BY <2>4 DEF TaskStep, StartRun, WipeSandbox, SeedSandbox, SeedFails,
                DispatchAllowed, FinishRun
  <2>5. ASSUME NEW p \in Approvers, ApproverStep(p) PROVE UNCHANGED escalation
    BY <2>5 DEF ApproverStep, Recheck, OpenSandbox, ReadBalance, WriteBalance,
                Apply, ApplyFails
  <2>6. ASSUME NEW r \in Runs, NEW e \in Ids, NEW a \in Proposed(r), Decide(r, a, e)
        PROVE  UNCHANGED escalation
    BY <2>6 DEF Decide
  <2>7. Crash \/ UNCHANGED vars => UNCHANGED escalation
    BY DEF Crash, vars
  <2> QED
    BY <2>1, <2>2, <2>3, <2>4, <2>5, <2>6, <2>7 DEF Next
<1>2. IInv /\ [Next]_vars => [Kept]_vars
  BY <1>1
<1> QED
  BY <1>2, Invariance, PTL DEF Spec, ResolutionFinal

-----------------------------------------------------------------------------
(* Refinement: what a step does to the stage and the effects of each call.  *)

LEMMA StageKept ==
  ASSUME UNCHANGED <<event, escalation>>
  PROVE  [e \in Ids |-> Stage(e)]' = [e \in Ids |-> Stage(e)]
BY DEF Stage

LEMMA StageMoves ==
  ASSUME NEW e \in Ids, \A d \in Ids : d # e => Stage(d)' = Stage(d)
  PROVE  [d \in Ids |-> Stage(d)]'
           = [[d \in Ids |-> Stage(d)] EXCEPT ![e] = Stage(e)']
OBVIOUS

LEMMA RefineDecide ==
  ASSUME IInv, NEW r \in Runs, NEW e \in Ids, NEW a \in Proposed(r), Decide(r, a, e)
  PROVE  Promise!Decide(e)
<1> DEFINE decision == Enforce(a, granted[r], DefaultContext).decision
<1>1. /\ event[e].decision = "none"
      /\ event' = [event EXCEPT ![e] = [run |-> r, action |-> a, decision |-> decision]]
      /\ UNCHANGED <<escalation, effects>>
  BY DEF Decide, Fresh, history
<1>2. escalation[e].status = "absent"
  BY <1>1 DEF IInv, EscalationsMatch
<1>3. Stage(e) = "none"
  BY <1>1 DEF Stage
<1>4. event'[e].decision = decision /\ \A d \in Ids : d # e => event'[d] = event[d]
  BY <1>1 DEF IInv, TypeOK
<1>5. Stage(e)' \in {"halted", "allowed", "escalated"}
  BY <1>1, <1>2, <1>4, DecisionTyped DEF Stage, Decisions
<1>6. \A d \in Ids : d # e => Stage(d)' = Stage(d)
  BY <1>1, <1>4 DEF Stage
<1> QED
  BY <1>1, <1>3, <1>5, <1>6, StageMoves DEF Promise!Decide, Promise!Move

LEMMA RefineRecord ==
  ASSUME IInv, NEW r \in Runs, RecordEscalation(r)
  PROVE  task[r].call \in Ids /\ Promise!Record(task[r].call)
<1>1. PICK e \in Ids : /\ e = task[r].call /\ event[e].decision = "escalate"
                       /\ escalation[e].status = "absent"
  BY DEF RecordEscalation, IInv, TaskCalls
<1>2. /\ escalation'[e].status = "pending"
      /\ \A d \in Ids : d # e => escalation'[d] = escalation[d]
      /\ UNCHANGED <<event, effects>>
  BY <1>1 DEF RecordEscalation, IInv, TypeOK, history
<1>3. Stage(e) = "escalated" /\ Stage(e)' = "pending"
  BY <1>1, <1>2 DEF Stage
<1>4. \A d \in Ids : d # e => Stage(d)' = Stage(d)
  BY <1>2 DEF Stage
<1> QED
  BY <1>1, <1>2, <1>3, <1>4, StageMoves DEF Promise!Record, Promise!Move

LEMMA RefineResolve ==
  ASSUME IInv, NEW p \in Approvers, NEW e \in Ids, Claim(p, e)
  PROVE  Promise!Resolve(e)
<1>1. escalation[e].status = "pending" /\ UNCHANGED <<event, effects>>
  BY DEF Claim, history
<1>2. event[e].decision = "escalate"
  BY <1>1 DEF IInv, EscalationsMatch
<1>3. /\ escalation'[e].status \in {"approved", "rejected"}
      /\ \A d \in Ids : d # e => escalation'[d] = escalation[d]
  BY DEF Claim, IInv, TypeOK
<1>4. Stage(e) = "pending" /\ Stage(e)' \in {"approved", "rejected"}
  BY <1>1, <1>2, <1>3 DEF Stage
<1>5. \A d \in Ids : d # e => Stage(d)' = Stage(d)
  BY <1>1, <1>3 DEF Stage
<1> QED
  BY <1>1, <1>4, <1>5, StageMoves DEF Promise!Resolve, Promise!Move

LEMMA RefinePerform ==
  ASSUME IInv, NEW e \in Ids, effects[e] = 0,
         \/ event[e].decision = "allow"
         \/ event[e].decision = "escalate" /\ escalation[e].status = "approved",
         effects' = [effects EXCEPT ![e] = @ + 1],
         UNCHANGED <<event, escalation>>
  PROVE  Promise!Perform(e)
<1>1. Stage(e) \in {"allowed", "approved"}
  BY DEF Stage
<1> QED
  BY <1>1, StageKept DEF Promise!Perform

(* The runtime path keeps the promise of Approval, for any number of runs,  *)
(* approvers and calls: decided once, resolved once, performed at most once *)
(* and only when allowed or approved.                                       *)
THEOREM RuntimeKeepsPromise == Spec => ImplementsApproval
<1>1. Init => Promise!Init
  BY DEF Init, NoEvent, Promise!Init, Stage
<1>2. IInv /\ [Next]_vars => [Promise!Next]_(Promise!vars)
  <2> SUFFICES ASSUME IInv, [Next]_vars, ~Promise!Next PROVE UNCHANGED Promise!vars
    OBVIOUS
  <2>1. CASE UNCHANGED <<event, escalation, effects>>
    BY <2>1, StageKept DEF Promise!vars
  <2>2. ASSUME NEW r \in Runs, (\E p \in Policies : StartRun(r, p)) \/ TaskStep(r)
        PROVE  UNCHANGED <<event, escalation, effects>>
    <3>1. CASE RecordEscalation(r)
      BY <3>1, RefineRecord DEF Promise!Next
    <3>2. CASE DispatchAllowed(r)
      <4>1. /\ task[r].call \in Ids /\ effects[task[r].call] = 0
            /\ event[task[r].call].decision = "allow"
        BY <3>2 DEF DispatchAllowed, IInv, TaskCalls
      <4> QED
        BY <3>2, <4>1, RefinePerform DEF DispatchAllowed, Promise!Next
    <3> QED
      BY <2>2, <3>1, <3>2 DEF TaskStep, StartRun, WipeSandbox, SeedSandbox, SeedFails,
                              FinishRun, history
  <2>3. ASSUME NEW r \in Runs, NEW e \in Ids, NEW a \in Proposed(r)
        PROVE  ~Decide(r, a, e)
    BY <2>3, RefineDecide DEF Promise!Next
  <2>4. ASSUME NEW p \in Approvers, NEW e \in Ids PROVE ~Claim(p, e)
    BY <2>4, RefineResolve DEF Promise!Next
  <2>5. ASSUME NEW p \in Approvers, ApproverStep(p)
        PROVE  UNCHANGED <<event, escalation, effects>>
    <3>1. CASE WriteBalance(p) \/ Apply(p)
      <4>1. approver[p].pc # "idle" /\ UNCHANGED <<event, escalation>>
            /\ effects' = [effects EXCEPT ![approver[p].call] = @ + 1]
        BY <3>1 DEF WriteBalance, Apply
      <4>2. /\ approver[p].call \in Ids /\ effects[approver[p].call] = 0
            /\ event[approver[p].call].decision = "escalate"
            /\ escalation[approver[p].call].status = "approved"
        BY <4>1, ClaimedAction DEF IInv, ApproverCalls
      <4> QED
        BY <4>1, <4>2, RefinePerform DEF Promise!Next
    <3> QED
      BY <2>5, <3>1 DEF ApproverStep, Recheck, OpenSandbox, ReadBalance, ApplyFails,
                        history
  <2>6. Crash \/ UNCHANGED vars => UNCHANGED <<event, escalation, effects>>
    BY DEF Crash, vars, history
  <2> QED
    BY <2>1, <2>2, <2>3, <2>4, <2>5, <2>6 DEF Next
<1> QED
  BY <1>1, <1>2, Invariance, PTL DEF Spec, ImplementsApproval, Promise!Spec

=============================================================================
