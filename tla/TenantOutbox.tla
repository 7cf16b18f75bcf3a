---------------------------- MODULE TenantOutbox ----------------------------
(***************************************************************************)
(* Callback receipts of tenants' workspaces (assurance/tenant_outbox.py)   *)
(* and the workers that deliver them (assurance/staging_transport.py).     *)
(*                                                                         *)
(* The outbox is one SQLite table; each of its operations is one           *)
(* transaction.  A worker is a process of its own with a transport of its  *)
(* own, and works from a CallbackReceipt, a copy of a row that may be old  *)
(* when it is processed.  process is two steps: the dispatch, remembered   *)
(* in memory only, and the row's update.  A worker may stop between them,  *)
(* and starts again with an empty transport.  The callers of the worker    *)
(* are external: they enqueue, list, process, and record the failures that *)
(* process reports.  A disabled worker dispatches nothing.                 *)
(***************************************************************************)
EXTENDS Tenancy, Naturals, FiniteSets, FiniteSetsExt

CONSTANTS
  Keys,        \* idempotency keys
  Digests,     \* payload and evidence digests
  Workers,
  Limits,      \* the max_attempts callers use
  NoReceipt,   \* the worker holds no receipt
  MaxRestarts  \* bound: restarts of workers in one behaviour

ASSUME LimitAssumption ==
  /\ Limits \subseteq Nat \ {0} /\ MaxRestarts \in Nat
  /\ \E least, most \in Limits : \A limit \in Limits : least <= limit /\ limit <= most
ASSUME WorkerAssumption == IsFiniteSet(Workers)
ASSUME NullAssumption == NoReceipt \notin Digests /\ NoReceipt \notin Scopes \X Keys

Receipts == Scopes \X Keys

VARIABLES
  outbox,     \* receipt |-> its row: status, digest, attempt_count, failure_class
  held,       \* worker |-> the copy it works from: of, digest, status
  worker,     \* worker |-> what its last process call has come to
  transport,  \* worker |-> [available, delivered], in memory
  restarts,
  emitted     \* history: receipt |-> digest |-> callbacks emitted

vars == <<outbox, held, worker, transport, restarts, emitted>>

NoRow == [status |-> "absent", digest |-> NoReceipt, attempts |-> 0, failed |-> FALSE]
NothingHeld == [of |-> NoReceipt, digest |-> NoReceipt, status |-> "absent"]
Statuses == {"absent", "pending", "delivered", "dead_letter"}

Row ==
  [status : Statuses, digest : Digests \union {NoReceipt}, attempts : Nat,
   failed : BOOLEAN]
CallbackReceipt ==
  [of : Receipts, digest : Digests \union {NoReceipt}, status : Statuses]

TypeOK ==
  /\ outbox \in [Receipts -> Row]
  /\ held \in [Workers -> CallbackReceipt \union {NothingHeld}]
  /\ worker \in [Workers -> {"idle", "dispatched", "unavailable"}]
  /\ transport \in [Workers -> [available : BOOLEAN, delivered : SUBSET Receipts]]
  /\ restarts \in 0..MaxRestarts
  /\ emitted \in [Receipts -> [Digests -> Nat]]

Init ==
  /\ outbox = [r \in Receipts |-> NoRow]
  /\ held = [w \in Workers |-> NothingHeld]
  /\ worker = [w \in Workers |-> "idle"]
  /\ transport \in [Workers -> [available : BOOLEAN, delivered : {{}}]]
  /\ restarts = 0
  /\ emitted = [r \in Receipts |-> [d \in Digests |-> 0]]

Copy(r) == [of |-> r, digest |-> outbox[r].digest, status |-> outbox[r].status]

\* A caller is not inside process: it may leave a failure it was told of
\* unrecorded and go on.
Begin(w) ==
  /\ worker[w] # "dispatched"
  /\ worker' = [worker EXCEPT ![w] = "idle"]

\* Mutant: INSERT OR REPLACE, which refreshes the digest of a pending row.
MutEnqueue(w, r, d) ==
  /\ Begin(w)
  /\ outbox' = IF outbox[r].status \in {"absent", "pending"}
               THEN [outbox EXCEPT ![r] = [@ EXCEPT !.status = "pending", !.digest = d]]
               ELSE outbox
  /\ held' = [held EXCEPT ![w] = Copy(r)']
  /\ UNCHANGED <<transport, restarts, emitted>>

\* INSERT OR IGNORE, and the row that is there now, in whatever status.
Enqueue(w, r, d) ==
  /\ Begin(w)
  /\ outbox' = IF outbox[r].status = "absent"
               THEN [outbox EXCEPT ![r] = [@ EXCEPT !.status = "pending", !.digest = d]]
               ELSE outbox
  /\ held' = [held EXCEPT ![w] = Copy(r)']
  /\ UNCHANGED <<transport, restarts, emitted>>

\* One receipt of pending(context).
TakePending(w, r) ==
  /\ Begin(w)
  /\ outbox[r].status = "pending"
  /\ held' = [held EXCEPT ![w] = Copy(r)]
  /\ UNCHANGED <<outbox, transport, restarts, emitted>>

\* What the transport does with an admitted receipt of key r.
Transmit(w, r, digest) ==
  LET t == transport[w]
      new == t.available /\ r \notin t.delivered
  IN  /\ worker' = [worker EXCEPT ![w] = IF t.available THEN "dispatched" ELSE "unavailable"]
      /\ transport' = IF new THEN [transport EXCEPT ![w].delivered = @ \union {r}]
                             ELSE transport
      /\ emitted' = IF new THEN [emitted EXCEPT ![r][digest] = @ + 1] ELSE emitted

\* Mutant: process compares the digests and forgets the scopes.
MutDispatch(w, scope, callback) ==
  /\ worker[w] # "dispatched"
  /\ held[w].status = "pending" /\ held[w].digest = callback
  /\ Transmit(w, <<scope, held[w].of[2]>>, callback)
  /\ UNCHANGED <<outbox, held, restarts>>

\* Mutant: the transport keeps no set of delivered keys.
MutDispatchForgets(w, scope, callback) ==
  /\ worker[w] # "dispatched"
  /\ held[w].status = "pending" /\ held[w].digest = callback
  /\ held[w].of[1] = scope
  /\ worker' = [worker EXCEPT ![w] =
                  IF transport[w].available THEN "dispatched" ELSE "unavailable"]
  /\ emitted' = [emitted EXCEPT ![held[w].of][callback] =
                   IF transport[w].available /\ @ < 4 THEN @ + 1 ELSE @]
  /\ UNCHANGED <<outbox, held, transport, restarts>>

\* process, up to the answer of the transport.  A receipt of another scope,
\* one whose copy is not pending, or a callback with other evidence answers
\* "invalid" and changes nothing.
Dispatch(w, scope, callback) ==
  /\ worker[w] # "dispatched"
  /\ held[w].status = "pending" /\ held[w].digest = callback
  /\ held[w].of[1] = scope
  /\ Transmit(w, held[w].of, callback)
  /\ UNCHANGED <<outbox, held, restarts>>

Delivered(row) == [row EXCEPT !.status = "delivered", !.failed = FALSE]

\* Mutant: only a receipt that never failed is marked.
MutMarkUnfailed(w) ==
  /\ worker[w] = "dispatched"
  /\ LET r == held[w].of
     IN  outbox' = IF outbox[r].status = "pending" /\ ~outbox[r].failed
                   THEN [outbox EXCEPT ![r].status = "delivered"] ELSE outbox
  /\ worker' = [worker EXCEPT ![w] = "idle"]
  /\ UNCHANGED <<held, transport, restarts, emitted>>

\* The rest of process, for "delivered" and "duplicate" alike.
MarkDelivered(w) ==
  /\ worker[w] = "dispatched"
  /\ LET r == held[w].of
     IN  outbox' = IF outbox[r].status = "pending"
                   THEN [outbox EXCEPT ![r] = Delivered(@)]
                   ELSE outbox
  /\ worker' = [worker EXCEPT ![w] = "idle"]
  /\ UNCHANGED <<held, transport, restarts, emitted>>

Failed(row, limit) ==
  [row EXCEPT !.attempts = @ + 1, !.failed = TRUE,
              !.status = IF row.attempts + 1 >= limit THEN "dead_letter" ELSE "pending"]

\* Mutant: the CASE compares the old count with the limit.
MutRecordFailure(w, limit) ==
  /\ worker[w] = "unavailable"
  /\ LET r == held[w].of
     IN  outbox' = IF outbox[r].status = "pending"
                   THEN [outbox EXCEPT ![r].attempts = @ + 1, ![r].failed = TRUE,
                           ![r].status = IF outbox[r].attempts >= limit
                                         THEN "dead_letter" ELSE "pending"]
                   ELSE outbox
  /\ worker' = [worker EXCEPT ![w] = "idle"]
  /\ UNCHANGED <<held, transport, restarts, emitted>>

\* The caller records what process reported, with a retry limit of its own.
RecordFailure(w, limit) ==
  /\ worker[w] = "unavailable"
  /\ LET r == held[w].of
     IN  outbox' = IF outbox[r].status = "pending"
                   THEN [outbox EXCEPT ![r] = Failed(@, limit)] ELSE outbox
  /\ worker' = [worker EXCEPT ![w] = "idle"]
  /\ UNCHANGED <<held, transport, restarts, emitted>>

\* A worker stops, anywhere, and starts with a new transport.
Restart(w) ==
  /\ restarts < MaxRestarts
  /\ restarts' = restarts + 1
  /\ held' = [held EXCEPT ![w] = NothingHeld]
  /\ worker' = [worker EXCEPT ![w] = "idle"]
  /\ \E available \in BOOLEAN :
       transport' = [transport EXCEPT ![w] = [available |-> available, delivered |-> {}]]
  /\ UNCHANGED <<outbox, emitted>>

Next ==
  \E w \in Workers :
    \/ \E r \in Receipts, d \in Digests : Enqueue(w, r, d)
    \/ \E r \in Receipts : TakePending(w, r)
    \/ \E scope \in Scopes, callback \in Digests : Dispatch(w, scope, callback)
    \/ MarkDelivered(w)
    \/ \E limit \in Limits : RecordFailure(w, limit)
    \/ Restart(w)

Spec == Init /\ [][Next]_vars

\* A worker that has dispatched goes on to its update unless it stops.
FairSpec == Spec /\ \A w \in Workers : WF_vars(MarkDelivered(w))

-----------------------------------------------------------------------------
(* The workers, with their old copies and forgetful transports, keep the    *)
(* promise of Delivery.                                                     *)
Callbacks == INSTANCE Delivery WITH
  Callbacks <- Receipts, NoDigest <- NoReceipt,
  stage <- [r \in Receipts |-> outbox[r].status],
  content <- [r \in Receipts |-> outbox[r].digest],
  sent <- { s \in Receipts \X Digests : emitted[s[1]][s[2]] > 0 }

(* No second enqueue, late answer, failure counted by another worker or     *)
(* restart between a dispatch and its update sends other content, confirms  *)
(* what was not sent, or moves a receipt that has settled.                  *)
ImplementsDelivery == Callbacks!Spec

(* What is emitted under a key is what was queued under it first, in that   *)
(* very scope: no second enqueue, no old copy and no receipt of another     *)
(* workspace makes a worker emit anything else.                             *)
EmittedAsQueued ==
  \A r \in Receipts, d \in Digests :
    emitted[r][d] > 0 => outbox[r].status # "absent" /\ outbox[r].digest = d

(* A receipt says delivered only if its callback was emitted, by some       *)
(* worker, before.                                                          *)
DeliveredWasEmitted ==
  \A r \in Receipts :
    outbox[r].status = "delivered" => emitted[r][outbox[r].digest] > 0

(* One transport emits a key at most once, however old the copies it is     *)
(* given are; more emissions take more workers, or a worker started again.  *)
OncePerTransport ==
  \A r \in Receipts, d \in Digests :
    emitted[r][d] <= Cardinality(Workers) + restarts

(* Counting failures from several workers never retries beyond the largest  *)
(* limit any of them uses, and never quarantines before the smallest.       *)
RetriesBounded ==
  \A r \in Receipts :
    /\ outbox[r].status = "pending" => outbox[r].attempts < Max(Limits)
    /\ outbox[r].status = "dead_letter" => outbox[r].attempts \in Min(Limits)..Max(Limits)

(* The first terminal state of a receipt stands: a worker that answers late *)
(* neither revives nor quarantines it.                                      *)
ReceiptFinal ==
  [][\A r \in Receipts : outbox[r].status \in {"delivered", "dead_letter"} =>
       outbox'[r] = outbox[r]]_vars

(* A receipt some worker has dispatched is not dispatched for ever: it      *)
(* leaves the pending list, unless the worker stops before its update.      *)
DispatchSettles ==
  \A w \in Workers, r \in Receipts :
    worker[w] = "dispatched" /\ held[w].of = r
      ~> outbox[r].status # "pending" \/ restarts > 0
=============================================================================
