# Interlock, specified

Interlock is a local authorization layer for AI agents.  A human confirms a
policy that was drafted from a task; every tool call of an agent is typed,
classified and enforced against that policy by a deterministic engine; a
consequential call that the policy allows in principle waits for a human, who
approves or rejects that one call; a dashboard follows along.  Around it, an
assurance layer keeps reviewed cases, fixtures and audit rows, and a tenant
layer keeps tenants and their memberships, cases, release evidence and callback
receipts.

This directory specifies the parts of it that have state, in TLA+.  The modules
are checked on small instances with TLC, and the most important properties are
proved for all instances with TLAPS.  Everything is translated from the Python
under `src/interlock`; `PROJECT.json` names, for each definition, the lines it
stands for, and for each property a mutation of the code that breaks it.

## 1. The system: parts, state, operations, interactions

| part | code | state it keeps | operations | modelled by |
|---|---|---|---|---|
| policy engine | `engine/{catalog,enforcer,models,patterns,scope,sqlkw}.py` | none | `classify`, `enforce`, scope checks | `Engine` |
| policy gate | `api/main.py`, `intent.py` | `AppState.policy`, `AppState.confirmed` (memory) | draft, confirm, run, demo | `PolicyGate`, `ControlPlane` |
| runtime path | `interceptor.py`, `agent.py`, `api/main.py` | tasks and request threads | `guarded_call`, `resolve_escalation`, demo | `Escalation`, `Approval`, `ControlPlane` |
| event log | `api/eventlog.py` | SQLite tables events, runs, escalations, guardrails; subscriber queues (memory) | append, claim, start/finish run, create/resolve guardrail, subscribe | `Escalation`, `PolicyGate`, `EventFeed` (queues) |
| sandbox | `tools/sandbox.py` | SQLite ledger, users, sessions; files | reset, transfer, run_db, fs_write | `Escalation` (ledger), `Engine` (paths) |
| assurance case store | `assurance/store.py`, `assurance/cli.py` | SQLite cases, fixtures, audit; snapshot file | create, review, retire, expire, attach, export, import | `AssuranceStore`, `CaseLife` |
| callback outbox | `assurance/tenant_outbox.py`, `assurance/staging_transport.py` | SQLite receipts; delivered set (memory) | enqueue, list, process, mark delivered, record failure | `TenantOutbox`, `Delivery` |
| event stream, dashboard | `api/eventlog.py`, `api/main.py`, `web/app/page.tsx` | queues, the page's event list | stream, history, append | `EventFeed` |
| tenant registry, authorization, cases | `assurance/{tenant_store,tenant_authorization,tenancy}.py` | SQLite tenants, workspaces, memberships, cases; contexts held by requests | create, add, suspend, authorize, create/list/get case | `TenantRegistry` |
| tenant evidence | `assurance/{tenant_evidence,tenant_evidence_store}.py` | SQLite bundles; snapshot files | bind, verify, record, export, import | `TenantEvidence` |
| change control | `assurance/{capture,delta,evidence,multica_adapter,skill_admission}.py` | none | capture, compare, build and verify evidence, advise, admit a skill | `ReleaseControl`, `PolicyReview` |
| simulator, replay | `engine/simulator.py`, `assurance/replay.py` | none | `simulate`, `replay_case` | `ReleaseControl` |
| checks, trials, effects, baseline, normalization, metrics | `assurance/{check,trials,effects,baseline,normalization,metrics,tenant_metrics}.py` | counters | renderings and counts | not modelled |
| tracing, layout, infrastructure, CI, corpus | `tracing.py`, `web`, `infra`, `eval` | none that decides anything | | not modelled |

How they interact.  The gate owns the confirmed policy and composes it with the
approved guardrails into the policy of a run.  A run is a task on the one event
loop; each of its calls goes through `guarded_call`, which asks the engine,
writes the audit row and, for an escalation, a second row.  The resolution of
an escalation is a sync endpoint, so it runs in a pool thread beside the loop:
it claims the row, asks the engine again and performs the call on the sandbox,
which all runs share.  Verdicts reach the dashboard twice over: by `GET /events`,
which reads the table, and by `GET /stream`, which is fed by the server's own
`EventLog` object only.  The case store and the stores of the tenant plane are
separate SQLite databases used by server threads and by CLI or worker processes;
the tenant stores have the scope, a tenant and a workspace, in common and
nothing else.

What is hard in it, and what would make each part correct:

* **Two fields, two assignments.**  `policy` and `confirmed` are read and
  written one at a time by handlers of the loop and of the thread pool.  A run
  must get the policy a human confirmed, and no other.
* **Claim, then act.**  An approval is committed before its effect, across a
  database that survives a crash and a thread that does not.  An effect must
  be authorized, and must happen once; an approved call should not vanish.
* **A shared sandbox.**  Read-compute-write on a ledger without a transaction,
  and resets of it by starting runs.
* **Three readings of one SQL text.**  The classifier, the operation check and
  the table extractor must not disagree in the agent's favour, and enforcement
  must fail closed although no rule of `enforce` says so.
* **Check, then write.**  Expiry, fixture attachment, import and export of the
  case store each read in one transaction and write in another.
* **A report about the engine.**  Change control compares lists and advises;
  the engine decides on actions.  A release it lets continue must not raise a
  verdict.
* **Dispatch, then mark.**  A worker's memory of what it delivered dies with
  it, and the receipt it works from is a copy.
* **Commit, then push.**  An event is durable before it is streamed, streamed
  only by the log object it was appended through, and combined on the page with
  a history that comes when it likes.
* **A scope in every query.**  Ids run over all tenants, and a context once
  given is never looked up again.  Data of one workspace must not show up in
  another, and a suspended one must admit nobody new.
* **Count, then insert.**  Restoring tenant evidence reads a count outside the
  transaction that inserts.

`PROJECT.json` lists these, and the smaller ones, at their lines as hazards,
each with the properties that watch it or a note why none does.

## 2. Modules

    Engine  <-- ReleaseControl  <-- PolicyReview  <-- MCEngine
            <-- EngineProofs    <-- ReleaseProofs (with PolicyReview)
            <-- Escalation      <-- MCEscalation
                                <-- EscalationProofs (with EngineProofs)
    PolicyGate      <-- MCPolicyGate,  PolicyGateProofs
    Escalation      <-- ControlPlane  <-- MCControlPlane (with MCEscalation)
                                      <-- ControlPlaneProofs (with EscalationProofs)
    Escalation --INSTANCE--> Approval
    AssuranceStore --INSTANCE--> CaseLife
    TenantOutbox --INSTANCE--> Delivery
    ControlPlane --INSTANCE--> PolicyGate
    ControlPlaneProofs --INSTANCE--> PolicyGateProofs
    AssuranceStore  <-- MCAssuranceStore,  AssuranceStoreProofs
    EventFeed       <-- MCEventFeed,  MCSideBySide,  EventFeedProofs
    Tenancy  <-- TenantOutbox    <-- MCSideBySide,  TenantProofs
             <-- TenantRegistry  <-- MCSideBySide,  TenantProofs
             <-- TenantEvidence  <-- MCSideBySide,  TenantProofs

(`<--` is EXTENDS.)

**`Engine`** — pure operators.  `Classify`, `Enforce` and the checks they
call, rule by rule in the order of `enforcer.py`.  Data is abstracted to what a
decision tells apart: an SQL text is whether it is a single comment-free
statement, its leading keyword, the tables it *names* where the extractor looks
for one, in order, and the tables it *touches* when it runs; a path is a
sequence of names resolved against a base, `..` included; a forbidden pattern
is a name with the set of actions it matches, or one that does not compile.
`TargetTable` is the first table named, as the regular expressions of `sqlkw.py`
take it: texts that join a second table, that reach one by a subquery, or that
name one in a string literal only are among the actions.  Verdict texts are
left out except the name of the rule.  `Narrows` is the order
on policies a reviewer has in mind; it has no code of its own.

**`ReleaseControl`** — pure operators over `Engine`: the authority `Surface` of
a policy, the delta of two surfaces and `HasExpansion`, the replay of a labelled
trace through `Enforce`, the evidence bundle with its verification, and the
advice of the fixture adapter, and the admission of a skill on a case and that
advice.  A digest is the payload it hashes.  The surface
of a policy is what `manifest_from_policy` captures, which leaves out assets,
criticality, forbidden patterns and the expiry, and records which lists are
unscoped without comparing that.

**`PolicyReview`** — a human reviews a drafted policy, one edit at a time: an
entry is taken away, the last one of a list included, a ceiling is lowered, a
scope, an expiry or a guardrail is added.  The editor is the dashboard's and external; what the code contributes is what is
asked of every policy on the way: its verdict on each action in each context,
before and after guardrails are composed with it, and the advice of change
control on the releases that widen it.

**`PolicyGate`** — one action per access to shared state of the handlers
`draft_policy` (`DraftRequest`, `DraftStore`, `DraftUnconfirm`),
`confirm_policy` (`ConfirmStore`, `ConfirmFlag`), `run_agent` (`RunCheck`,
`RunReadPolicy`, `RunReadGuardrails`, `StartRun`) and `run_safety_demo`
(`DemoCheck`, `DemoStartRow`, the same two reads, `DemoLaunch`, `FinishDemo`), of
the guardrail endpoints, and of `_execute_agent_run` (`FinishRun`).  A demo
commits its row before it reads the policy and is its own agent: its handler
keeps the loop until the last call has returned.  `loop` is who holds the event loop:
async handlers keep it until they await, sync handlers need none.  `Crash`
forgets everything but the tables.  The compiler may return any policy.

**`Escalation`** — the runtime path.  A call is an id of the events table, and
its row, its escalation row and its effects are indexed by it.  An action is
one SQLite transaction, or one autocommitted statement where the code opens no
transaction (the reset of the sandbox, the two statements of `transfer`).
`Decide` is `enforce` followed by the commit of `emit`; `RecordEscalation` the
second row; `Claim` is `claim_escalation`; `Recheck` the second enforcement;
`OpenSandbox`, `ReadBalance`, `WriteBalance`, `Apply`, `ApplyFails` the
dispatch.  `granted` is the policy that a run was started with, and each run decides under
its own.  `DemoRuns` are the runs of `POST /demo`, which follow `DemoScript`
and keep the loop from start to end.  The agent is external: it proposes any
action of `Actions`, in any order, and stops when it likes.

**`Approval`** — the abstract promise: a call is decided once, an escalated
call gets its pending row, is resolved once, and has at most one effect, which
was allowed or approved.  `Escalation` implements it under the mapping `Stage`,
read off the two rows of a call; the threads, the sandbox, the loop and crashes
all map to stuttering.

**`ControlPlane`** — the two in one process.  `PolicyGate` is an instance over
the variables of `Escalation` where they mean the same thing (`crashes`, the run
ids), and the actions that are two halves of one statement are joined:
`LaunchRun` and `LaunchDemo` hand `Effective`, the confirmed policy composed with
the approved guardrails, to the runtime; `EndRun` and `EndDemo` store the end of
the run that ended; `Restart` is both crashes.  `handler` and `loop` together say
who has the event loop: a handler starts or resumes only when no task uses it,
and a background task only when no handler does, while a demo's handler and its
agent are one coroutine.  `origin` remembers what stood behind each run when it
was asked for.

**`AssuranceStore`** — one action per transaction or bare SELECT.  Audit rows
are kept per case, in order; `StatusAfter` is what they say.  `export_snapshot`
is three steps, `import_snapshot` two, `expire_cases` two,
`attach_replay_fixture` two.  `malformed` are rows that are refused after their
commit.  `LoseStore` replaces the database by an empty one while the snapshot
file survives.

**`CaseLife`** — the abstract promise of the case store, every call done at
once: a case is created, reviewed once, active only by that review, closed for
good, and keeps the first fixture it is given; a saved file has the statuses of
its moment and may miss fixtures but holds no others; a restore is whole and
beside existing cases only.  `AssuranceStore` implements it with the audit rows
and the dates hidden and `saved` the files that may still be restored: the
snapshot file, and what an import has read and not yet written.  The reading
steps, and calls that come too late, map to stuttering or to a file forgotten.
What the two-step calls cost is visible in it: `Expire` and `Attach` may find a
case closed since they looked.

**`TenantOutbox`** — receipts by scope and idempotency key; workers that hold
a *copy* of a row.  `process` is `Dispatch` (validation of the copy and the
transport's answer) and `MarkDelivered`; `RecordFailure` is a caller recording
what `process` reported; `Restart` empties the worker's transport.  The callers
of the worker are not in the repository: the model lets them enqueue, list and
process in any order, record a failure once or not at all, and not report
deliveries that no worker dispatched.

**`Delivery`** — the abstract promise of the outbox: a callback has the content
it was first queued with, only that is ever sent, it is confirmed only after it
was sent, and it settles once.  `TenantOutbox` implements it under a mapping of
its rows and of the history of emissions; workers, transports, failed attempts
and restarts are hidden.  `Send` has no guard against a second time or a settled
callback, because the code has none across workers.

**`EventFeed`** — what a dashboard shows.  `ServerEmit` and `Push` are the two
halves of `emit` as `POST /demo` calls it; `RunEmit` is `emit` on the `EventLog`
a run makes for itself over the same file, which has no subscribers.
`Subscribe` and `Unsubscribe` are the two ends of `GET /stream`,
`AnswerHistory` is `GET /events`, and `Deliver`, `ShowHistory`, `LoseHistory`,
`Break` and `Reload` are the first effect of the page: the stream appends what
it does not have yet, the history *replaces* the list, a broken `EventSource`
opens again without asking for the history.  `ServerRestart` may come between
commit and push and keeps the rows only.  `joined` remembers how many rows there
were when a page's connection was opened, and `overwritten` which ids its
history has removed from the list since (`ShowHistory`): a history that was read
before an event was appended and is set after it was streamed.  The event loop is free (`LoopFree`) except
between a commit and its push.

**`Tenancy`** — scopes and roles, which the three tenant modules share.

**`TenantRegistry`** — the tables of tenants, workspaces and memberships, the
requests that hold a `TenantContext`, and the table of cases.  `Authorize` is
the claims' check against the membership joined with two active rows; from then
on a request acts on its context alone, until `EndRequest`.  Case ids are the
positions of one sequence over all tenants.  `outlived` remembers which
requests were authorized before their scope was suspended.

**`TenantEvidence`** — rows per scope and evidence digest.  A bundle says which
scope it is for and which one its scope digest was made for; `Verified` compares
both with the caller's.  `Record` takes any bundle whatever, forged ones
included.  `import_snapshot` is `ImportCount` and `ImportInsert`; a key that
came in between makes the transaction fail as a whole.  `LoseDatabase` keeps
the snapshot files.

**`MCSideBySide`** — the three tenant stores and the event feed side by side:
`acting` chooses which of them moves in a behaviour.  They share no variable and
no table, and each property is about one of them, so interleaving them would
only multiply states; one run checks all four.

Definitions named `Mut...` are not part of the model.  Each is the preceding or
following definition with one plausible mistake in it, and serves to show that
the property it is paired with in `PROJECT.json` can fail.

History variables (`inForce`, `everConfirmed`, `overlapped`, `known` in the
gate; `effects`, `debited` in the runtime path; `explained` in the store;
`emitted` in the outbox; `joined`, `overwritten` in the feed; `outlived` in the registry;
`acknowledged`, `recorded` in the evidence store; `origin` in the composed
server) appear only in properties and never in a guard.

## 3. What TLC checks

| run | module | instance | shows |
|---|---|---|---|
| `MCEngine` | `MCEngine` | 26 actions, 3 contexts, 3 edits of two drafts | `UnknownHalts`, `ApprovalIffConsequential`: fail closed, and approval for exactly the irreversible.  `GuardrailsOnlyHalt`, `NarrowingNeverGrants`: nothing a reviewer takes away or a guardrail adds raises a verdict, unless an identity or GitHub list is emptied, and then only what that list refused.  `AdvisedChangeIsSafe`, `NarrowingIsAdvised`: what change control lets continue raises none either, and it does let a narrowing continue. |
| `Gate` | `MCPolicyGate` | 2 clients, 2 policies, 1 guardrail, a background run, a demo, 1 crash | `RunsInForce`: a run that no request overlapped gets exactly the confirmation in force.  `GuardrailsApplied`, `LiveTaskIsRunning`, `RunFinal` in every interleaving; `RunEnds` under fairness. |
| `EscalationPromise` | `MCEscalation` | a background run, a demo, 2 policies, 2 threads, 6 actions, 2 calls, 1 crash | `EffectAuthorized`, `EffectsInPolicy`, `RecheckNeverRefuses`, `NeverOverdrawn`, the refinement `ImplementsApproval`, and under fairness `EscalationRecorded`, `ApprovalAnswered`. |
| `ControlPlane` | `MCControlPlane` | 1 client, 1 approver, a background run, a demo, 2 submitted policies, 1 guardrail, 1 action, 2 calls, 1 crash | `EffectsInForce`: what takes effect is what the confirmation in force when its run was asked for decides.  `GuardrailsBind`: nothing that a guardrail of that moment matches takes effect.  `DecidedWhileRunning`: no call is decided for a run whose end is stored. |
| `StoreRecovery` | `MCAssuranceStore` | 1 case, 2 fixtures, 3 workers, 2 losses | `ActiveWasReviewed`, `SnapshotImportable`, `AuditExplainsStatus`, `ClosedStaysClosed`, `AuditAppendOnly` and the refinement `ImplementsCaseLife`: reviews, expiries, attachments, exports and imports race, the database is lost and restored, and lost again. |
| `SideBySide` | `MCSideBySide` | 2 tenants with one workspace name; 1 key, 2 digests, 2 workers, limits 1 and 2, 1 restart; 1 subject, 2 requests, 2 cases; 2 evidence digests, 2 clients, 2 losses; 1 page, 2 connections, 3 events, 1 server restart | Outbox: `EmittedAsQueued`, `OncePerTransport`, `RetriesBounded`, the refinement `ImplementsDelivery`, and under fairness `DispatchSettles`.  Registry: `SuspensionAdmitsNoOne`, `CasesStayInScope`.  Evidence: `EvidenceStaysInScope`, `AcknowledgedExactly`.  Feed: `ShownInOrder`: the list is in audit order without repeats; `StreamIsLossless`: of what the server's own log appends nothing is lost on the way to a connected page, but what a late history overwrites; under fairness `VerdictShown`: what is committed while a page is connected gets into its list, if only for a late history to replace it. |

Six more runs state what a document, comment or test of the repository says
and show how the code departs from it:

| run | property | what happens |
|---|---|---|
| `GateUnconfirmedRun` | `RunsOnlyConfirmed` | An unconfirmed edit has stored its policy and not yet its flag; a run starts under it. |
| `MCEnginePaths` | `WrittenPathInScope` | A relative path is checked against the server's directory and written under the sandbox root. |
| `EscalationLost` | `ApprovalSurvives` | An escalation is lost between its two rows, or between its claim and its effect. |
| `EscalationLedger` | `TransfersDebited` | Two transfers read one balance, or a reset empties the row between read and write. |
| `StoreTorn` | `SnapshotPreserves` | A review between the SELECTs of an export: a status its audit rows do not explain. |
| `FeedMisses` | `VerdictsStreamed` | A page is connected, a run decides a call through its own `EventLog`, and the stream brings nothing. |

Bounds.  Two of everything that races (clients, threads, workers) is what each
of the check-then-write windows of this code needs: one to stand in the window
and one to act in it.  One crash suffices because a crash resets all volatile
state, so a second one meets nothing new; two calls let one call disturb
another, and the two approving threads also race over one.  In the case
store a third worker can export while two others race, and a second loss lets a
restored store be lost again; one case is enough for TLC, because every
property but the refinement is about one case at a time, and
`AssuranceStoreProofs` proves all six for any number, where a restore may meet
cases that the file does not hold.  Two tenants whose workspaces have the same name are what a
query that forgets the tenant needs; two limits let callers disagree about the
retry limit.  Three events let the history hold one, the stream another and a
queue the third; one page is enough, because pages share nothing but the
queues, and it has two connections, so that a broken one lingers while the next
is open; `EventFeedProofs` is about any number of both.
In the composed server one client suffices, because requests that overlap are
what `Gate` explores and what `EffectsInForce` sets apart; the guardrail
endpoints, the approver, the agents and the restart still come between any two
steps, and one policy without the right to delete, one guardrail against it and
one deletion are what the properties tell apart.
Names: `MaxEdits`, `MaxCrashes`, `MaxEvents`, `MaxCases`, `MaxLosses`,
`MaxRestarts`, `MaxServerRestarts`, `MaxDbLosses`, and the sizes of the sets.  In the gate the number of run rows is bounded by
`Runs` in `RunCheck` and `DemoCheck`.  Every passing configuration of a temporal property
runs without symmetry; `StoreRecovery` uses the permutations of its three
workers and of its fixtures, for invariants and step properties only.  Deadlock is not checked: with all ids
used up and nobody acting, these systems rightly stop.

Fairness, and why the code gives it:

* `PolicyGate!FairSpec`: weak fairness of the continuation of each accepted
  handler — a started thread or coroutine with no await is scheduled to its
  end — and strong fairness of `FinishRun`, because it needs the loop, which
  others take and release, and the loop's ready queue is first in, first out;
  the SDK bounds the turns of an agent, so the runner returns.  The demo's last
  step is part of its handler.  No client is
  obliged to send anything, so `RunEnds` is not bought by a busy client.
* `Escalation!FairSpec`: weak fairness of `RecordEscalation` (straight-line
  code of a task that holds the loop) and of the steps of a thread inside a
  request.  Agents need not propose and humans need not resolve.
* `TenantOutbox!FairSpec`, and `MCSpec` of `MCSideBySide`: weak fairness of the
  second half of `process`.
* `EventFeed!FeedFairSpec`, and `MCSpec` of `MCSideBySide`: weak fairness of `Push`, straight-line code after the
  commit, and of `Deliver`: a connection that stays up hands over what is queued
  for it.  Connections may break at any time, which is why `VerdictShown` says
  "or the connection is gone".

All liveness properties are conditional on the process not stopping, since
nothing in this code resumes work after a restart.

## 4. What TLAPS proves

The theorems hold for every value of the constants, under the named ASSUMEs
of the modules (null values are outside the sets they complete, bounds are
naturals, amounts are naturals, the set of workers is finite, retry limits are
positive and have a smallest and a largest, amounts and epochs of actions and
contexts are integers, drafts and submitted policies are policies, no proposed
SQL text touches the ledger table, and whatever can be composed is among the
policies of the runtime).  The type invariants of `PolicyGate`, `Escalation`,
`AssuranceStore`, `TenantOutbox`, `EventFeed` and `TenantRegistry` are theorems
(`TypeCorrect`, `RegistryTypeCorrect`), so no run spends time on them; the one of
`TenantEvidence` is a conjunct of its inductive invariant.

*`EngineProofs`.*  Directly from the definitions.  `UnknownAlwaysHalts` is the
one that matters: `enforce` has no rule against unknown reversibility; the
proof shows an action of a known tool is unknown only if it is an SQL text
whose keyword the table extractor does not know, and such a text has no target
table and is halted by `DbTableAllowed`.  `NarrowingIsMonotone` follows rule by
rule: each refusal of the wider policy is one of the narrower
(`NarrowScope`, `NarrowEffect`).  `CompositionOnlyHalts` states what global
guardrails may do.

*`ReleaseProofs`.*  `ExpansionCases` says what an expansion is in terms of the
two policies.  `NarrowerIsNoExpansion` and `NoExpansionIsNarrower` are then the
two directions between `HasExpansion` and `Narrows`, each with the hypothesis
it really needs: that no list is newly scoped, and that no list is emptied and
nothing grows that the surface does not hold.  With `ContinueIsEarned` and
`NarrowingIsMonotone` this gives `AdviceIsSound`, and `AdmissionIsSound` for an
admitted skill.  The second half is about `PolicyReview`, for all drafts,
actions, contexts, patterns and edits.  `PoliciesStayPolicies` is the inductive
invariant, and six theorems, one for each property of `MCEngine`, rest on it:
what the engine does under any policy of a review (`UnknownHaltsAlways`,
`ApprovalForConsequences`, `GuardrailsHalt`), what an edit may do
(`ReviewNeverGrants`, since an edit `Narrows` or unscopes one list, and by
`UnscopingIsLocal` a policy that unscopes one list refuses all that it refused
before by another rule; `ReviewIsAdvised`, since an edit that narrows removes
entries of scoped lists and the delta counts added ones), and `AdvisedChangesAreSafe`: a candidate that widens is an expansion
unless what it adds was there, and so continues only if it is the baseline, or
the baseline with a lower cap.

*`PolicyGateProofs`.*  `TypeCorrect`.  `GuardrailsAlwaysApplied` and
`LiveTasksAreRunning` through `RunInv`, which adds to them what a handler
carries between its steps: guardrails known at the check stay approved, since
a resolved guardrail never changes, and the composed patterns contain them.
`SerialRunsInForce` through `SerialInv`: while no two policy or run requests
have overlapped, at most one is in flight, and outside the two handlers that
write the pair, the flag speaks for the policy beside it.  `GuardrailsFinal`
needs the types; `RunsFinal` needs `RunInv`, since `finish_run` itself looks at
no status: no two demos have one row, and the row of a demo that is not over
says running.  `HandlersStayReady` says that handlers have what their next step
uses; it is what the composed server needs to know of the gate.

*`EscalationProofs`.*  One inductive invariant `IInv` carries everything.
`EffectAuthorized` is not inductive: it has to be known who is about to perform
which call.  So `IInv` adds that runs which propose have been granted a policy
that stays (`RunsGranted`), that an escalation row repeats its audit row and
the policy it was decided under (`EscalationsMatch`), that decisions are the
engine's (`EventsDecided`), that at most one task is inside a call and that it
holds the loop (`LoopHeld`, `TaskCalls`), and that a claimed call is approved,
not yet performed, and claimed by one thread only, which has read a balance no
smaller than the amount (`ApproverCalls`).  From it: `EffectsAreAuthorized`,
`EffectsStayInPolicy`, `EffectsHappenOnce`, `RecheckAlwaysPasses` (the second enforcement sees the
same action, policy and context as the first), `LedgerNeverOverdrawn` (a write
stores a balance that was at least the amount when read, which bounds the
ledger although debits may be lost), `ResolutionsAreFinal`, and
`RuntimeKeepsPromise`, the refinement: `Decide`, `RecordEscalation`, `Claim`
and the performing steps map to the actions of `Approval`, all others to
stuttering.

*`ControlPlaneProofs`.*  `ServerKeepsGate` and `ServerKeepsRuntime`: each step of
the server is a step of its gate or stutters there, and likewise for the
runtime.  Every theorem about either therefore holds of the server, the gate's
through the instance `GateFacts`, whose definitions are those of `Gate`
(`SameGate`).  The refinement of `Approval` is carried over with the runtime's.
`PlaneInv` is what neither half can say: a run's granted policy is a submitted
one composed with approved guardrails, among them all that were approved when
it was asked for, and is the confirmation in force unless requests overlapped
(`GrantedByGate`); and an agent that can still act has a live job
(`AgentsHaveJobs`).  With the invariants of both halves it gives
`EffectsAreInForce`, by way of `CompositionOnlyHalts` (a guardrail changes no
verdict but into a halt, and what took effect was not halted),
`GuardrailsAlwaysBind`, and `CallsAreOfRunningRuns`.

*`TenantProofs`, the outbox.*  `IInv` says that a copy which is still dispatchable
agrees with its row in the digest (the row's status may have moved on), that a
worker in the middle of `process` holds such a copy, and that what a transport
remembers was emitted.  From it `EmissionsAreQueued` and
`DeliveriesWereEmitted`; `ReceiptsAreFinal` needs only the types.
`EmissionsBounded` counts: a digest was emitted at most once for each transport
that remembers its key and each restart that made one forget it (`Remembered`).
`AttemptsBounded` bounds the attempts of each row by its status (`Counted`).
`OutboxKeepsDelivery` is the refinement: `Enqueue` of a new key queues, an
emitting `Dispatch` sends what `CopiesAgree` says is the row's content,
`MarkDelivered` confirms what `BusyHolds` says was sent, the last
`RecordFailure` gives up, and all else stutters.

*`AssuranceStoreProofs`.*  The invariant has to say what workers have *read*
and not written yet.  `Bound`: what an expiry selected, an attachment checked
and an export collected belongs to cases that are there, and that were active
once where a fixture or an expiry is concerned; it stays so because no step but
the loss of the file moves a status backwards (`Forward`).  From it
`SnapshotsImportable` and `ClosedCasesStay`, and also `FixturesImmutable` and
`AuditsAppendOnly`, since an import that replaces the tables must be known to
keep every row of a case that is there.  `StoreKeepsCaseLife` is the refinement,
one step for each action; beside `Bound` it needs `FixturesRead`, that what an
export has read of the fixtures is still in the table, which `FixtureStays`
keeps true.  `Explained` adds that the audit rows of every case, of every
job and of the snapshot read like the life of one case, with at most one review
(`SoundLog`), unless a torn snapshot was restored; from it `AuditsExplain` and
`ActiveCasesReviewed`.

*`EventFeedProofs`.*  `IInv` says where ids can be: queues are increasing, hold
rows of the server's log only and older ones than the row being pushed, which is
the newest (`Server`); a page's connection is a subscriber and its own
(`Connected`); and what a queue still brings is on its page's increasing list
already or comes after all of it, although the history replaces that list
(`Pages`).  From it `ListsInOrder` and, step by step, `FeedIsLossless`: an id that
is being pushed, queued, shown or overwritten stays one of the four
(`LosslessStep`).

*`TenantProofs`, registry and evidence.*  For the registry: a held context names a scope whose member it
is (`ContextsStand`), and an inactive scope's contexts have outlived it (`SuspensionCloses`);
memberships are for good, so every case has a member who may write
(`CasesAreScoped`).  For the evidence: imports under way hold bundles of their
own scope only (`ImportsOwn`), from which `EvidenceIsScoped` and
`ImportsAreAtomic`.

Only model-checked: the liveness properties (`RunEnds`, `EscalationRecorded`,
`ApprovalAnswered`, `DispatchSettles`, `VerdictShown`), which the prover does not
reach, and the properties that the six runs of the second table refute.  Every
invariant, every action property and every refinement of a passing run is a
theorem.  Conversely, six properties are proved and not run, as the type
invariants are: `AtMostOnce` and `ResolutionFinal`, which the refinement of
`Approval` implies, `FixtureImmutable`, which that of `CaseLife` implies,
`DeliveredWasEmitted` and `ReceiptFinal`, which that of `Delivery` implies or
nearly so (a settled row keeps its attempts, too), and `GuardrailFinal`.

## 5. Disagreements seen and not given a run

These came up while modelling; the actions reproduce them, and no run is spent
on them.

* `EXPLAIN` is classified read-only (`catalog.py:14`) but the table extractor
  does not know it, so an `EXPLAIN` of a listed table always halts, where
  `rules.md:19` lets recognized reads flow.
* The design asks for the database operation *and* table to be in the policy,
  "operations alone are insufficient"
  (`docs/superpowers/specs/2026-07-16-interlock-design.md:107`, `:138`).
  `target_table` takes the first table that a text names (`sqlkw.py:37-48`), so
  `SELECT * FROM sessions JOIN users` is allowed, and a `DELETE FROM sessions`
  with a subquery on `users` is escalated, under a policy that lists `sessions`
  only; a `FROM` in a string literal is taken for one.  `MCEngine` enforces such
  texts, and what is claimed of them is what holds: `EffectsInPolicy` speaks of
  the first table named.
* `has_expansion` answers "Whether a candidate release can perform anything
  newly consequential" (`assurance/models.py:171`) by added entries only.  A
  release that empties an identity or GitHub list unscopes it and adds nothing;
  one that drops a forbidden pattern, lengthens the expiry or raises the
  criticality or the assets is not seen at all.  In the other direction
  `docs/IMPLEMENTATION_PLAN_CHANGE_CONTROL.md:84` says "a narrower policy never
  appears as an expansion", but scoping a list that was unscoped adds entries.
  `AdvisedChangeIsSafe` ranges over candidates that widen a scoped field, and
  `NarrowingIsAdvised` over the edits that narrow; an edit that empties a list
  is in the model, and `NarrowingNeverGrants` bounds what it raises, but change
  control would advise to continue with it.  The hypotheses of `ReleaseProofs`
  are exactly these cases.
* The spend cap is documented as cumulative (`scope.py:43`, "stays within a
  cumulative cap") and never accumulates: nothing adds to `spent_cents`, the agent
  carries one default context (`agent.py:82`) and each approval makes a new one
  (`main.py:485`).  `EffectsInPolicy` is what does hold: each transfer by itself
  is within the cap.
* A run row stays `running` after a restart (`main.py:428-437`, `521`), and
  after a demo whose sandbox reset fails, because it is outside the `try`
  (`main.py:451-454`; `PolicyGate!FinishDemo`, `Escalation!SeedFails`).
* "Per-run local sandbox" (`sandbox.py:8`) is one directory per server, so an
  approved effect may land in a state another run has reset since.
* `expire_cases` updates rows without their status (`store.py:115`), so a case
  retired in between becomes expired; `ClosedStaysClosed` allows exactly that.
* `attach_replay_fixture` may bind a fixture to a case retired in between
  (`store.py:216-231`).
* `create_candidate` commits before `AssuranceCase` validates (`store.py:42-52`);
  a refused row stays and makes later listings and exports raise.
* A restarted worker, or a second one, may emit a callback again
  (`staging_transport.py:98-102`), where the execution plan
  (`AZURE_MULTITENANT_WATERFALL_EXECUTION_PLAN.md:98`) asks for no duplicate
  emission; `OncePerTransport` is what does hold.
* A receipt may be quarantined although its callback was sent, when a failure is
  recorded before the delivery is marked (`tenant_outbox.py:82`): the failure is
  the caller's word.  `Delivery!GiveUp` allows it.
* An `EventSource` that reconnects gets what is appended from then on, and the
  page does not ask for the history again (`page.tsx:83-87`): what was appended
  in between, or committed before a stop and not yet pushed, is missing until a
  reload.  So is an event of a connected page that a history read before it and
  set after it removes (`overwritten`).
* `import_snapshot` promises to restore "only into an empty target scope"
  (`tenant_evidence_store.py:86`).  The count and the inserts are apart, so a
  bundle recorded in between stays, and the import succeeds beside it when
  their keys differ; `AcknowledgedExactly` is what holds.  Conversely, after a
  loss the first record keeps a snapshot from being restored at all.
* `docs/AZURE_MULTITENANT_PRODUCTION_PLAN.md:23` says "cross-tenant access is a
  denial, not an empty success"; the stores answer `None` or an empty list
  (`tenant_store.py:57-75`).
* A suspension does not end the requests that hold a context
  (`tenant_store.py:114`): they go on reading and creating cases.
* A skill is admitted on a case that is `active` by its row although its expiry
  date may have passed (only `expire_cases` looks at it), where
  `docs/WATERFALL_MASTER_PLAN.md:252` keeps expired cases out of a release; and
  the replays it is judged by are not compared with that case
  (`skill_admission.py:29-36`).

## 6. What is not modelled, and why

* Regular expressions, SQL parsing, JSON, URL and path syntax: abstracted to
  the outcomes a decision depends on.  A symbolic link on a path is left out.
* The language model, the policy compiler and the agent SDK: external, any
  answer.
* `users` and `sessions` rows and file contents in the sandbox: no decision
  reads them.  An SQL statement on them may succeed or fail.
* What the agents propose is any action, except that no SQL text touches the
  table `ledger` (`Escalation!ActionAssumption`): the code does not enforce it
  beyond the policy's tables and, by the first table named, cannot; the balance
  that `NeverOverdrawn` speaks of is the one that `transfer` writes.
* An allowed read that raises in the sandbox (`Escalation!DispatchAllowed`) is
  not told apart from one that answers: neither changes anything, and the call
  was authorized either way.
* Contexts of the registry come from `Authorize` (`tenant_authorization.py`).
  `TenantCaseStore.create` takes any `TenantContext` (`tenant_store.py:45`), and
  a caller that makes one up may create a case for a scope without members; that
  every case has a member who may write, the second half of `CasesStayInScope`,
  is about the contexts that were given.
* The file of an export is written with the last of its three SELECTs
  (`AssuranceStore!ExportCases`; `store.py:158`, `cli.py:198`): a file truncated
  by a kill in the middle of the write is left out.  It is no JSON, and an import
  refuses it.
* Refused requests (409, 422, 403) and denied roles: they change nothing.
* SQLite: transactions are atomic and durable.  A locked database that times
  out would make a transaction of the models fail as a refused call does.
* The page's other effects and forms, which load lists once and send requests;
  the checks, trials, effects, baseline and normalization of the assurance
  layer, which render or count what `ReleaseControl` models and feed nothing
  back; metrics, which nothing reads.
* Tracing, rendering, infrastructure and CI keep no state that decides anything.

## 7. Plan

Done, in the order of what matters most: `Engine`, `PolicyGate`,
`Approval`/`Escalation`, `AssuranceStore`, the tenant plane, `ReleaseControl`,
`EventFeed`, `PolicyReview`, `ControlPlane`, `CaseLife`, `Delivery`, and the
proofs above.

Next:

1. `ReleaseControl` extended by repeated trials and by the impact counts of the
   simulator, and its skill admission joined with `AssuranceStore`, so that a
   case may change between the read and the decision.
