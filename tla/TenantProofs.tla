---------------------------- MODULE TenantProofs ----------------------------
(***************************************************************************)
(* Proofs about the three stores of the tenant plane, for every set of     *)
(* tenants, workspaces, subjects and requests, of keys, digests, workers,  *)
(* retry limits and restarts, and of clients of the evidence store.        *)
(***************************************************************************)
EXTENDS TenantOutbox, TenantRegistry, TenantEvidence, FiniteSetTheorems, TLAPS

-----------------------------------------------------------------------------
(* The outbox.                                                              *)

(* Type correctness, kept by every operation of the outbox and its workers. *)
LEMMA TypeInit == Init => TypeOK
<1>1. NoRow \in Row
  BY DEF NoRow, Row, Statuses
<1> QED
  BY <1>1, LimitAssumption DEF Init, TypeOK

(* Every change an operation makes to a row leaves a row.                   *)
LEMMA RowsTyped ==
  ASSUME NEW row \in Row, NEW limit \in Nat
  PROVE  Delivered(row) \in Row /\ Failed(row, limit) \in Row
<1>2. Delivered(row) \in Row
  BY DEF Row, Delivered, Statuses
<1>3. row.attempts + 1 \in Nat
  BY DEF Row
<1>4. Failed(row, limit) \in Row
  BY <1>3 DEF Row, Failed, Statuses
<1> QED
  BY <1>2, <1>4

LEMMA CopyTyped ==
  ASSUME NEW r \in Receipts, outbox \in [Receipts -> Row]
  PROVE  Copy(r) \in CallbackReceipt
BY DEF Copy, CallbackReceipt, Row

LEMMA TypeStep == TypeOK /\ [Next]_vars => TypeOK'
<1> SUFFICES ASSUME TypeOK, [Next]_vars PROVE TypeOK'
  OBVIOUS
<1> USE DEF TypeOK
<1>1. ASSUME NEW w \in Workers, NEW r \in Receipts, NEW d \in Digests, Enqueue(w, r, d)
      PROVE  TypeOK'
  <2>1. outbox' \in [Receipts -> Row]
    <3>1. \A row \in Row : [row EXCEPT !.status = "pending", !.digest = d] \in Row
      BY DEF Row, Statuses
    <3> QED
      BY <1>1, <3>1 DEF Enqueue
  <2>2. Copy(r)' \in CallbackReceipt
    BY <2>1 DEF Copy, CallbackReceipt, Row
  <2> QED
    BY <1>1, <2>1, <2>2 DEF Enqueue, Begin
<1>2. ASSUME NEW w \in Workers, NEW r \in Receipts, TakePending(w, r) PROVE TypeOK'
  BY <1>2, CopyTyped DEF TakePending, Begin
<1>3. ASSUME NEW w \in Workers, MarkDelivered(w) PROVE TypeOK'
  <2>1. \A row \in Row : Delivered(row) \in Row
    BY DEF Row, Delivered, Statuses
  <2>2. outbox' \in [Receipts -> Row]
    BY <1>3, <2>1 DEF MarkDelivered
  <2> QED
    BY <1>3, <2>2 DEF MarkDelivered
<1>4. ASSUME NEW w \in Workers, NEW limit \in Limits, RecordFailure(w, limit)
      PROVE  TypeOK'
  <2>1. outbox' \in [Receipts -> Row]
    <3>1. \A row \in Row : Failed(row, limit) \in Row
      BY LimitAssumption, RowsTyped
    <3> QED
      BY <1>4, <3>1 DEF RecordFailure
  <2> QED
    BY <1>4, <2>1 DEF RecordFailure
<1>5. ASSUME NEW w \in Workers, Restart(w) PROVE TypeOK'
  BY <1>5, LimitAssumption DEF Restart
<1>6. ASSUME NEW w \in Workers, NEW scope \in Scopes, NEW d \in Digests,
             Dispatch(w, scope, d)
      PROVE  TypeOK'
  <2>2. held[w].of \in Receipts
    BY <1>6 DEF Dispatch, NothingHeld, CallbackReceipt
  <2>1. /\ worker' \in [Workers -> {"idle", "dispatched", "unavailable"}]
        /\ emitted' \in [Receipts -> [Digests -> Nat]]
    <3>1. [emitted EXCEPT ![held[w].of][d] = @ + 1] \in [Receipts -> [Digests -> Nat]]
      <4>1. emitted[held[w].of] \in [Digests -> Nat] /\ emitted[held[w].of][d] + 1 \in Nat
        BY <2>2
      <4> QED
        BY <4>1
    <3> QED
      BY <1>6, <3>1 DEF Dispatch, Transmit
  <2>3. transport' \in [Workers -> [available : BOOLEAN, delivered : SUBSET Receipts]]
    <3>1. \A t \in [available : BOOLEAN, delivered : SUBSET Receipts] :
            [t EXCEPT !.delivered = @ \union {held[w].of}]
              \in [available : BOOLEAN, delivered : SUBSET Receipts]
      BY <2>2
    <3>2. [transport EXCEPT ![w].delivered = @ \union {held[w].of}]
            \in [Workers -> [available : BOOLEAN, delivered : SUBSET Receipts]]
      BY <3>1
    <3> QED
      BY <1>6, <3>2 DEF Dispatch, Transmit
  <2> QED
    BY <1>6, <2>1, <2>3 DEF Dispatch
<1>7. CASE UNCHANGED vars
  BY <1>7 DEF vars
<1> QED
  BY <1>1, <1>2, <1>3, <1>4, <1>5, <1>6, <1>7 DEF Next

(* Type correctness for every value of the constants.                       *)
THEOREM OutboxTypeCorrect == Spec => []TypeOK
BY TypeInit, TypeStep, PTL DEF Spec

-----------------------------------------------------------------------------
(* The inductive invariant.  A copy a worker may still dispatch agrees with *)
(* its row in the digest, which no operation changes, though the row's      *)
(* status may have moved on; what a worker dispatched, and what a transport *)
(* remembers, was emitted.                                                  *)
CopiesAgree ==
  \A w \in Workers : held[w].status = "pending" =>
    /\ held[w].of \in Receipts
    /\ outbox[held[w].of].status # "absent"
    /\ outbox[held[w].of].digest = held[w].digest

QueuedDigest ==
  \A r \in Receipts : outbox[r].status # "absent" => outbox[r].digest \in Digests

BusyHolds ==
  \A w \in Workers :
    /\ worker[w] # "idle" => held[w].status = "pending"
    /\ worker[w] = "dispatched" => emitted[held[w].of][held[w].digest] > 0

MemoryTrue ==
  \A w \in Workers : \A r \in transport[w].delivered :
    outbox[r].status # "absent" /\ emitted[r][outbox[r].digest] > 0

IInv ==
  /\ TypeOK /\ QueuedDigest /\ CopiesAgree /\ BusyHolds /\ MemoryTrue
  /\ EmittedAsQueued /\ DeliveredWasEmitted

LEMMA IInvInit == Init => IInv
BY TypeInit
   DEF Init, IInv, QueuedDigest, CopiesAgree, BusyHolds, MemoryTrue, EmittedAsQueued,
       DeliveredWasEmitted, NoRow, NothingHeld

LEMMA IInvStep == IInv /\ [Next]_vars => IInv'
<1> SUFFICES ASSUME IInv, [Next]_vars PROVE IInv'
  OBVIOUS
<1> USE DEF IInv
<1>t. TypeOK'
  BY TypeStep
<1>q. QueuedDigest'
  <2>1. ASSUME NEW w \in Workers, NEW r \in Receipts, NEW d \in Digests, Enqueue(w, r, d)
        PROVE  QueuedDigest'
    BY <2>1 DEF Enqueue, QueuedDigest, TypeOK, Row
  <2>2. ASSUME NEW w \in Workers, MarkDelivered(w) PROVE QueuedDigest'
    BY <2>2 DEF MarkDelivered, Delivered, QueuedDigest, TypeOK, Row
  <2>3. ASSUME NEW w \in Workers, NEW limit \in Limits, RecordFailure(w, limit)
        PROVE  QueuedDigest'
    BY <2>3 DEF RecordFailure, Failed, QueuedDigest, TypeOK, Row
  <2>4. ASSUME UNCHANGED outbox PROVE QueuedDigest'
    BY <2>4 DEF QueuedDigest
  <2> QED
    BY <2>1, <2>2, <2>3, <2>4 DEF Next, vars, TakePending, Dispatch, Restart
<1>1. ASSUME NEW w \in Workers, NEW r \in Receipts, NEW d \in Digests, Enqueue(w, r, d)
      PROVE  IInv'
  <2>1. /\ \A q \in Receipts : outbox[q].status # "absent" => outbox'[q] = outbox[q]
        /\ outbox'[r].status # "absent"
        /\ \A q \in Receipts : outbox[q].status = "absent" => outbox'[q].status # "delivered"
    BY <1>1 DEF Enqueue, TypeOK, Statuses
  <2>2. /\ held'[w] = [of |-> r, digest |-> outbox'[r].digest, status |-> outbox'[r].status]
        /\ \A v \in Workers \ {w} : held'[v] = held[v] /\ worker'[v] = worker[v]
        /\ worker'[w] = "idle"
        /\ transport' = transport /\ emitted' = emitted
    BY <1>1 DEF Enqueue, Begin, Copy, TypeOK
  <2>3. CopiesAgree'
    BY <2>1, <2>2 DEF CopiesAgree
  <2>4. BusyHolds'
    BY <2>2 DEF BusyHolds
  <2>5. MemoryTrue'
    BY <2>1, <2>2 DEF MemoryTrue, TypeOK
  <2>6. EmittedAsQueued' /\ DeliveredWasEmitted'
    BY <2>1, <2>2 DEF EmittedAsQueued, DeliveredWasEmitted
  <2> QED
    BY <1>t, <1>q, <2>3, <2>4, <2>5, <2>6
<1>2. ASSUME NEW w \in Workers, NEW r \in Receipts, TakePending(w, r) PROVE IInv'
  <2>1. /\ outbox[r].status = "pending"
        /\ held' = [held EXCEPT ![w] = Copy(r)] /\ worker' = [worker EXCEPT ![w] = "idle"]
        /\ outbox' = outbox /\ transport' = transport /\ emitted' = emitted
    BY <1>2 DEF TakePending, Begin
  <2>2. CopiesAgree' /\ BusyHolds'
    BY <2>1 DEF CopiesAgree, BusyHolds, Copy, TypeOK
  <2>3. MemoryTrue' /\ EmittedAsQueued' /\ DeliveredWasEmitted'
    BY <2>1 DEF MemoryTrue, EmittedAsQueued, DeliveredWasEmitted
  <2> QED
    BY <1>t, <1>q, <2>2, <2>3
<1>3. ASSUME NEW w \in Workers, NEW scope \in Scopes, NEW d \in Digests,
             Dispatch(w, scope, d)
      PROVE  IInv'
  <2> DEFINE r == held[w].of
  <2>1. /\ held[w].status = "pending" /\ held[w].digest = d
        /\ outbox' = outbox /\ held' = held
        /\ r \in Receipts /\ outbox[r].status # "absent" /\ outbox[r].digest = d
    BY <1>3 DEF Dispatch, CopiesAgree
  <2>e. /\ emitted[r][d] \in Nat
        /\ emitted' = emitted \/ emitted' = [emitted EXCEPT ![r][d] = @ + 1]
        /\ transport[w].available /\ r \notin transport[w].delivered =>
             emitted' = [emitted EXCEPT ![r][d] = @ + 1]
    BY <1>3, <2>1 DEF Dispatch, Transmit, TypeOK
  <2>2. /\ \A q \in Receipts, e \in Digests :
             emitted'[q][e] = emitted[q][e] \/ (q = r /\ e = d)
        /\ \A q \in Receipts, e \in Digests :
             emitted[q][e] > 0 => emitted'[q][e] > 0
    <3>1. CASE emitted' = emitted
      BY <3>1
    <3>2. CASE emitted' = [emitted EXCEPT ![r][d] = @ + 1]
      <4>1. /\ \A q \in Receipts \ {r} : emitted'[q] = emitted[q]
            /\ emitted'[r] = [emitted[r] EXCEPT ![d] = @ + 1]
        BY <2>1, <3>2 DEF TypeOK
      <4>2. emitted[r] \in [Digests -> Nat] /\ emitted'[r][d] > 0
        BY <2>1, <2>e, <4>1 DEF TypeOK
      <4> QED
        BY <4>1, <4>2
    <3> QED
      BY <2>e, <3>1, <3>2
  <2>3. transport[w].available => emitted'[r][d] > 0
    <3>1. CASE r \in transport[w].delivered
      BY <3>1, <2>1, <2>2 DEF MemoryTrue
    <3>2. CASE r \notin transport[w].delivered
      BY <3>2, <2>1, <2>e DEF TypeOK
    <3> QED
      BY <3>1, <3>2
  <2>4. /\ \A v \in Workers \ {w} : worker'[v] = worker[v]
        /\ worker'[w] = "dispatched" => transport[w].available
    BY <1>3 DEF Dispatch, Transmit, TypeOK
  <2>5. /\ \A v \in Workers : transport'[v].delivered \subseteq transport[v].delivered \union {r}
        /\ \A v \in Workers : r \in transport'[v].delivered =>
             r \in transport[v].delivered \/ transport[w].available
    BY <1>3 DEF Dispatch, Transmit, TypeOK
  <2>6. CopiesAgree'
    BY <2>1 DEF CopiesAgree
  <2>7. BusyHolds'
    BY <2>1, <2>2, <2>3, <2>4 DEF BusyHolds, CopiesAgree, QueuedDigest, TypeOK
  <2>8. MemoryTrue'
    BY <2>1, <2>2, <2>3, <2>5 DEF MemoryTrue, QueuedDigest, TypeOK
  <2>9. EmittedAsQueued' /\ DeliveredWasEmitted'
    BY <2>1, <2>2 DEF EmittedAsQueued, DeliveredWasEmitted, QueuedDigest
  <2> QED
    BY <1>t, <1>q, <2>6, <2>7, <2>8, <2>9
<1>4. ASSUME NEW w \in Workers, MarkDelivered(w) PROVE IInv'
  <2> DEFINE r == held[w].of
  <2>1. /\ held[w].status = "pending" /\ r \in Receipts
        /\ emitted[r][outbox[r].digest] > 0
    BY <1>4 DEF MarkDelivered, BusyHolds, CopiesAgree
  <2>2. \A q \in Receipts : /\ outbox'[q].digest = outbox[q].digest
                            /\ outbox'[q].status = outbox[q].status
                               \/ (q = r /\ outbox'[q].status = "delivered")
    BY <1>4, <2>1 DEF MarkDelivered, Delivered, Row, TypeOK
  <2>3. /\ held' = held /\ transport' = transport /\ emitted' = emitted
        /\ worker' = [worker EXCEPT ![w] = "idle"]
    BY <1>4 DEF MarkDelivered
  <2>4. CopiesAgree' /\ BusyHolds'
    BY <2>2, <2>3 DEF CopiesAgree, BusyHolds, TypeOK
  <2>5. MemoryTrue' /\ EmittedAsQueued' /\ DeliveredWasEmitted'
    <3>1. MemoryTrue' /\ EmittedAsQueued'
      BY <2>2, <2>3 DEF MemoryTrue, EmittedAsQueued, TypeOK
    <3>2. DeliveredWasEmitted'
      BY <2>1, <2>2, <2>3 DEF DeliveredWasEmitted
    <3> QED
      BY <3>1, <3>2
  <2> QED
    BY <1>t, <1>q, <2>4, <2>5
<1>5. ASSUME NEW w \in Workers, NEW limit \in Limits, RecordFailure(w, limit)
      PROVE  IInv'
  <2> DEFINE r == held[w].of
  <2>1. r \in Receipts
    BY <1>5 DEF RecordFailure, BusyHolds, CopiesAgree
  <2>2. \A q \in Receipts : /\ outbox'[q].digest = outbox[q].digest
                            /\ outbox'[q].status = outbox[q].status
                               \/ (q = r /\ outbox'[q].status = "dead_letter")
    BY <1>5, <2>1 DEF RecordFailure, Failed, Row, TypeOK
  <2>3. /\ held' = held /\ transport' = transport /\ emitted' = emitted
        /\ worker' = [worker EXCEPT ![w] = "idle"]
    BY <1>5 DEF RecordFailure
  <2>4. CopiesAgree' /\ BusyHolds'
    BY <2>2, <2>3 DEF CopiesAgree, BusyHolds, TypeOK
  <2>5. MemoryTrue' /\ EmittedAsQueued' /\ DeliveredWasEmitted'
    BY <2>2, <2>3 DEF MemoryTrue, EmittedAsQueued, DeliveredWasEmitted, TypeOK
  <2> QED
    BY <1>t, <1>q, <2>4, <2>5
<1>6. ASSUME NEW w \in Workers, Restart(w) PROVE IInv'
  <2>1. /\ outbox' = outbox /\ emitted' = emitted
        /\ held' = [held EXCEPT ![w] = NothingHeld]
        /\ worker' = [worker EXCEPT ![w] = "idle"]
        /\ \A v \in Workers : transport'[v].delivered \subseteq transport[v].delivered
    BY <1>6 DEF Restart, TypeOK
  <2>2. CopiesAgree' /\ BusyHolds'
    BY <2>1 DEF CopiesAgree, BusyHolds, NothingHeld, TypeOK
  <2>3. MemoryTrue' /\ EmittedAsQueued' /\ DeliveredWasEmitted'
    BY <2>1 DEF MemoryTrue, EmittedAsQueued, DeliveredWasEmitted
  <2> QED
    BY <1>t, <1>q, <2>2, <2>3
<1>7. CASE UNCHANGED vars
  BY <1>7, <1>t, <1>q
     DEF vars, CopiesAgree, BusyHolds, MemoryTrue, EmittedAsQueued, DeliveredWasEmitted
<1> QED
  BY <1>1, <1>2, <1>3, <1>4, <1>5, <1>6, <1>7 DEF Next

LEMMA Invariance == Spec => []IInv
BY IInvInit, IInvStep, PTL DEF Spec

(* tenant_outbox.py:41, staging_transport.py:92-95: whatever is emitted     *)
(* under a key is what was queued under it first, in that scope.            *)
THEOREM EmissionsAreQueued == Spec => []EmittedAsQueued
BY Invariance, PTL DEF IInv

(* staging_transport.py:101-102: no receipt says delivered without an       *)
(* emission before it.                                                      *)
THEOREM DeliveriesWereEmitted == Spec => []DeliveredWasEmitted
BY Invariance, PTL DEF IInv

(* The guarded UPDATEs of mark_delivered and record_failure: the first      *)
(* terminal state of a receipt stands.                                      *)
THEOREM ReceiptsAreFinal == Spec => ReceiptFinal
<1>1. ASSUME TypeOK, [Next]_vars, NEW r \in Receipts,
             outbox[r].status \in {"delivered", "dead_letter"}
      PROVE  outbox'[r] = outbox[r]
  BY <1>1
     DEF TypeOK, Next, vars, Enqueue, TakePending, Dispatch, MarkDelivered,
         RecordFailure, Restart
<1>2. TypeOK /\ [Next]_vars =>
        [\A r \in Receipts : outbox[r].status \in {"delivered", "dead_letter"} =>
           outbox'[r] = outbox[r]]_vars
  BY <1>1
<1> QED
  BY <1>2, OutboxTypeCorrect, PTL DEF Spec, ReceiptFinal

-----------------------------------------------------------------------------
(* The outbox implements Delivery.  What its rows and its emissions look    *)
(* like from there:                                                         *)
Stages == [r \in Receipts |-> outbox[r].status]
Contents == [r \in Receipts |-> outbox[r].digest]
Sent == { s \in Receipts \X Digests : emitted[s[1]][s[2]] > 0 }

(* A step that leaves the rows, or the emissions, is seen to leave them.    *)
LEMMA RowsUnseen == ASSUME outbox' = outbox PROVE UNCHANGED <<Stages, Contents>>
BY DEF Stages, Contents

LEMMA SentSame == ASSUME emitted' = emitted PROVE Sent' = Sent
BY DEF Sent

(* An update of one row is seen at that receipt.                            *)
LEMMA RowSeen ==
  ASSUME TypeOK, NEW r \in Receipts, NEW row, outbox' = [outbox EXCEPT ![r] = row]
  PROVE  /\ Stages' = [Stages EXCEPT ![r] = row.status]
         /\ Contents' = [Contents EXCEPT ![r] = row.digest]
<1>1. \A q \in Receipts : outbox'[q] = IF q = r THEN row ELSE outbox[q]
  BY DEF TypeOK
<1>2. \A q \in Receipts :
        /\ outbox'[q].status = IF q = r THEN row.status ELSE outbox[q].status
        /\ outbox'[q].digest = IF q = r THEN row.digest ELSE outbox[q].digest
  BY <1>1
<1>3. Stages' = [Stages EXCEPT ![r] = row.status]
  <2>1. Stages' = [q \in Receipts |-> IF q = r THEN row.status ELSE outbox[q].status]
    BY <1>2 DEF Stages
  <2> QED
    BY <2>1 DEF Stages
<1>4. Contents' = [Contents EXCEPT ![r] = row.digest]
  <2>1. Contents' = [q \in Receipts |-> IF q = r THEN row.digest ELSE outbox[q].digest]
    BY <1>2 DEF Contents
  <2> QED
    BY <2>1 DEF Contents
<1> QED
  BY <1>3, <1>4

LEMMA DeliveryInit == Init => Callbacks!Init
BY DEF Init, NoRow, Callbacks!Init

LEMMA DeliveryStep == IInv /\ [Next]_vars => [Callbacks!Next]_(Callbacks!vars)
<1> SUFFICES ASSUME IInv, [Next]_vars PROVE [Callbacks!Next]_(Callbacks!vars)
  OBVIOUS
<1>t. TypeOK
  BY DEF IInv
<1>u. ASSUME outbox' = outbox, emitted' = emitted PROVE UNCHANGED Callbacks!vars
  BY <1>u, RowsUnseen, SentSame DEF Callbacks!vars, Stages, Contents, Sent
<1>1. ASSUME NEW w \in Workers, NEW r \in Receipts, NEW d \in Digests, Enqueue(w, r, d)
      PROVE  [Callbacks!Next]_(Callbacks!vars)
  <2>1. emitted' = emitted
    BY <1>1 DEF Enqueue
  <2>2. CASE outbox' = outbox
    BY <2>1, <2>2, <1>u
  <2>3. CASE outbox[r].status = "absent"
    <3> DEFINE row == [outbox[r] EXCEPT !.status = "pending", !.digest = d]
    <3>1. outbox' = [outbox EXCEPT ![r] = row]
      BY <1>1, <2>3 DEF Enqueue
    <3>2. row.status = "pending" /\ row.digest = d
      BY <1>t DEF TypeOK, Row
    <3> HIDE DEF row
    <3>3. /\ Stages' = [Stages EXCEPT ![r] = "pending"]
          /\ Contents' = [Contents EXCEPT ![r] = d] /\ Sent' = Sent
      BY <1>t, <2>1, <3>1, <3>2, RowSeen, SentSame
    <3>4. Stages[r] = "absent"
      BY <2>3 DEF Stages
    <3>5. Callbacks!Queue(r, d)
      BY <3>3, <3>4 DEF Callbacks!Queue, Callbacks!Move, Stages, Contents, Sent
    <3> QED
      BY <3>5 DEF Callbacks!Next
  <2> QED
    BY <1>1, <2>2, <2>3 DEF Enqueue
<1>2. ASSUME NEW w \in Workers, NEW scope \in Scopes, NEW d \in Digests,
             Dispatch(w, scope, d)
      PROVE  [Callbacks!Next]_(Callbacks!vars)
  <2>1. PICK r \in Receipts :
          /\ r = held[w].of /\ outbox[r].status # "absent" /\ outbox[r].digest = d
          /\ outbox' = outbox
    BY <1>2 DEF Dispatch, IInv, CopiesAgree
  <2>2. CASE emitted' = emitted
    BY <2>1, <2>2, <1>u
  <2>3. CASE emitted' = [emitted EXCEPT ![r][d] = @ + 1]
    <3>1. /\ \A q \in Receipts \ {r} : emitted'[q] = emitted[q]
          /\ emitted'[r] = [emitted[r] EXCEPT ![d] = @ + 1]
          /\ emitted[r] \in [Digests -> Nat]
      BY <2>1, <2>3, <1>t DEF TypeOK
    <3>2. \A q \in Receipts, e \in Digests :
            emitted'[q][e] > 0 <=> emitted[q][e] > 0 \/ <<q, e>> = <<r, d>>
      BY <2>1, <3>1
    <3>3. Sent' = Sent \union {<<r, d>>}
      BY <2>1, <3>2 DEF Sent
    <3>4. /\ UNCHANGED <<Stages, Contents>>
          /\ Stages[r] # "absent" /\ Contents[r] = d
      BY <2>1, RowsUnseen DEF Stages, Contents
    <3>5. Callbacks!Send(r)
      BY <3>3, <3>4 DEF Callbacks!Send, Stages, Contents, Sent
    <3> QED
      BY <2>1, <3>5 DEF Callbacks!Next
  <2> QED
    BY <1>2, <2>1, <2>2, <2>3 DEF Dispatch, Transmit
<1>3. ASSUME NEW w \in Workers, MarkDelivered(w) PROVE [Callbacks!Next]_(Callbacks!vars)
  <2>1. PICK r \in Receipts :
          r = held[w].of /\ emitted[r][outbox[r].digest] > 0 /\ emitted' = emitted
    BY <1>3 DEF MarkDelivered, IInv, BusyHolds, CopiesAgree
  <2>2. CASE outbox' = outbox
    BY <2>1, <2>2, <1>u
  <2>3. CASE outbox[r].status = "pending" /\ outbox' = [outbox EXCEPT ![r] = Delivered(outbox[r])]
    <3> DEFINE row == Delivered(outbox[r])
    <3>0. outbox' = [outbox EXCEPT ![r] = row]
      BY <2>3
    <3>1. /\ row.status = "delivered" /\ row.digest = outbox[r].digest
          /\ outbox[r].digest \in Digests
      BY <2>1, <2>3, <1>t DEF TypeOK, Row, Delivered, IInv, QueuedDigest
    <3> HIDE DEF row
    <3>r. /\ Stages' = [Stages EXCEPT ![r] = row.status]
          /\ Contents' = [Contents EXCEPT ![r] = row.digest]
      BY <1>t, <3>0, RowSeen
    <3>2. /\ Stages' = [Stages EXCEPT ![r] = "delivered"]
          /\ Contents' = [Contents EXCEPT ![r] = outbox[r].digest] /\ Sent' = Sent
      BY <2>1, <3>1, <3>r, SentSame
    <3>3. Stages[r] = "pending" /\ <<r, Contents[r]>> \in Sent /\ Contents' = Contents
      BY <2>1, <2>3, <3>1, <3>2 DEF Stages, Contents, Sent
    <3>4. Callbacks!Confirm(r)
      BY <3>2, <3>3 DEF Callbacks!Confirm, Callbacks!Move, Stages, Contents, Sent
    <3> QED
      BY <2>1, <3>4 DEF Callbacks!Next
  <2> QED
    BY <1>3, <2>1, <2>2, <2>3 DEF MarkDelivered
<1>4. ASSUME NEW w \in Workers, NEW limit \in Limits, RecordFailure(w, limit)
      PROVE  [Callbacks!Next]_(Callbacks!vars)
  <2>1. PICK r \in Receipts : r = held[w].of /\ emitted' = emitted
    BY <1>4 DEF RecordFailure, IInv, BusyHolds, CopiesAgree
  <2>2. CASE outbox' = outbox
    BY <2>1, <2>2, <1>u
  <2>3. CASE outbox[r].status = "pending" /\ outbox' = [outbox EXCEPT ![r] = Failed(outbox[r], limit)]
    <3> DEFINE row == Failed(outbox[r], limit)
    <3>0. outbox' = [outbox EXCEPT ![r] = row]
      BY <2>3
    <3>1. row.status \in {"pending", "dead_letter"} /\ row.digest = outbox[r].digest
      BY <2>1, <1>t DEF TypeOK, Row, Failed
    <3> HIDE DEF row
    <3>r. /\ Stages' = [Stages EXCEPT ![r] = row.status]
          /\ Contents' = [Contents EXCEPT ![r] = row.digest]
      BY <1>t, <3>0, RowSeen
    <3>2. /\ Stages' = [Stages EXCEPT ![r] = row.status]
          /\ Contents' = [Contents EXCEPT ![r] = outbox[r].digest] /\ Sent' = Sent
      BY <2>1, <3>1, <3>r, SentSame
    <3>3. Stages[r] = "pending" /\ Contents' = Contents
      BY <2>1, <2>3, <3>2 DEF Stages, Contents
    <3>4. CASE row.status = "pending"
      <4>1. Stages' = Stages
        BY <3>2, <3>3, <3>4 DEF Stages
      <4> QED
        BY <3>2, <3>3, <4>1 DEF Callbacks!vars, Stages, Contents, Sent
    <3>5. CASE row.status = "dead_letter"
      <4>1. Callbacks!GiveUp(r)
        BY <3>2, <3>3, <3>5 DEF Callbacks!GiveUp, Callbacks!Move, Stages, Contents, Sent
      <4> QED
        BY <2>1, <4>1 DEF Callbacks!Next
    <3> QED
      BY <3>1, <3>4, <3>5
  <2> QED
    BY <1>4, <2>1, <2>2, <2>3 DEF RecordFailure
<1>5. ASSUME UNCHANGED <<outbox, emitted>> PROVE [Callbacks!Next]_(Callbacks!vars)
  BY <1>5, <1>u
<1> QED
  BY <1>1, <1>2, <1>3, <1>4, <1>5 DEF Next, TakePending, Restart, vars

(* The outbox implements Delivery, for any number of workers, keys, retry   *)
(* limits and restarts: content, confirmation and settlement are what one   *)
(* transaction would make them.                                             *)
THEOREM OutboxKeepsDelivery == Spec => ImplementsDelivery
BY DeliveryInit, DeliveryStep, Invariance, PTL DEF Spec, ImplementsDelivery, Callbacks!Spec

-----------------------------------------------------------------------------
(* The two bounds.  A transport emits a key once in its life, so a digest   *)
(* was emitted no more often than there are workers that remember the key   *)
(* and restarts that made one forget it.                                    *)
Rememberers(r) == { w \in Workers : r \in transport[w].delivered }

Remembered ==
  \A r \in Receipts, d \in Digests :
    emitted[r][d] <= Cardinality(Rememberers(r)) + restarts

LEMMA RememberersCounted ==
  ASSUME NEW r
  PROVE  /\ IsFiniteSet(Rememberers(r))
         /\ Cardinality(Rememberers(r)) \in Nat /\ Cardinality(Workers) \in Nat
         /\ Cardinality(Rememberers(r)) <= Cardinality(Workers)
<1>1. Rememberers(r) \in SUBSET Workers
  BY DEF Rememberers
<1>2. IsFiniteSet(Rememberers(r)) /\ Cardinality(Rememberers(r)) <= Cardinality(Workers)
  BY <1>1, WorkerAssumption, FS_Subset
<1> QED
  BY <1>2, WorkerAssumption, FS_CardinalityType

LEMMA RememberedStep == TypeOK /\ Remembered /\ [Next]_vars => Remembered'
<1> SUFFICES ASSUME TypeOK, Remembered, [Next]_vars,
                    NEW r \in Receipts, NEW d \in Digests
             PROVE  emitted'[r][d] <= Cardinality(Rememberers(r))' + restarts'
  BY DEF Remembered
<1> DEFINE before == Rememberers(r)
           after == { w \in Workers : r \in transport'[w].delivered }
<1>a. after = Rememberers(r)'
  BY DEF Rememberers
<1>b. /\ IsFiniteSet(before) /\ Cardinality(before) \in Nat
      /\ emitted[r][d] <= Cardinality(before) + restarts
      /\ emitted[r][d] \in Nat /\ restarts \in Nat
  BY RememberersCounted, LimitAssumption DEF Remembered, TypeOK
<1>1. ASSUME NEW w \in Workers, NEW scope \in Scopes, NEW callback \in Digests,
             Dispatch(w, scope, callback)
      PROVE  emitted'[r][d] <= Cardinality(after) + restarts'
  <2> DEFINE of == held[w].of
  <2>1. of \in Receipts /\ restarts' = restarts
    BY <1>1 DEF Dispatch, TypeOK, NothingHeld, CallbackReceipt
  <2>2. CASE transport[w].available /\ of \notin transport[w].delivered
    <3>1. /\ transport' = [transport EXCEPT ![w].delivered = @ \union {of}]
          /\ emitted' = [emitted EXCEPT ![of][callback] = @ + 1]
      BY <1>1, <2>2 DEF Dispatch, Transmit
    <3> HIDE DEF of
    <3>2. CASE r = of
      <4>1. after = before \union {w} /\ w \notin before
        <5>1. \A v \in Workers : transport'[v].delivered =
                IF v = w THEN transport[v].delivered \union {r} ELSE transport[v].delivered
          BY <3>1, <3>2 DEF TypeOK
        <5> QED
          BY <2>2, <3>2, <5>1 DEF Rememberers
      <4>2. Cardinality(after) = Cardinality(before) + 1
        BY <1>b, <4>1, FS_AddElement
      <4>3. emitted'[r][d] = emitted[r][d] \/ emitted'[r][d] = emitted[r][d] + 1
        BY <3>1, <3>2 DEF TypeOK
      <4> HIDE DEF before, after
      <4> QED
        BY <1>b, <2>1, <4>2, <4>3
    <3>3. CASE r # of
      <4>1. after = before
        <5>1. \A v \in Workers : r \in transport'[v].delivered <=> r \in transport[v].delivered
          BY <3>1, <3>3 DEF TypeOK
        <5> QED
          BY <5>1 DEF Rememberers
      <4>2. emitted'[r][d] = emitted[r][d]
        BY <2>1, <3>1, <3>3 DEF TypeOK
      <4> QED
        BY <1>b, <2>1, <4>1, <4>2
    <3> QED
      BY <3>2, <3>3
  <2>3. CASE ~(transport[w].available /\ of \notin transport[w].delivered)
    <3>1. transport' = transport /\ emitted' = emitted
      BY <1>1, <2>3 DEF Dispatch, Transmit
    <3> QED
      BY <1>b, <2>1, <3>1 DEF Rememberers
  <2> QED
    BY <2>2, <2>3
<1>2. ASSUME NEW w \in Workers, Restart(w)
      PROVE  emitted'[r][d] <= Cardinality(after) + restarts'
  <2>1. emitted' = emitted /\ restarts' = restarts + 1
    BY <1>2 DEF Restart
  <2>2. after = before \ {w}
    <3>1. \A v \in Workers : transport'[v].delivered =
            IF v = w THEN {} ELSE transport[v].delivered
      BY <1>2 DEF Restart, TypeOK
    <3> QED
      BY <3>1 DEF Rememberers
  <2>3. Cardinality(after) = IF w \in before THEN Cardinality(before) - 1
                             ELSE Cardinality(before)
    BY <1>b, <2>2, FS_RemoveElement
  <2> HIDE DEF before, after
  <2> QED
    BY <1>b, <2>1, <2>3
<1>3. ASSUME UNCHANGED <<transport, restarts, emitted>>
      PROVE  emitted'[r][d] <= Cardinality(after) + restarts'
  BY <1>3, <1>b DEF Rememberers
<1> HIDE DEF before, after
<1>4. emitted'[r][d] <= Cardinality(after) + restarts'
  BY <1>1, <1>2, <1>3
  DEF Next, vars, Enqueue, TakePending, MarkDelivered, RecordFailure
<1> QED
  BY <1>a, <1>4

(* tenant_outbox.py keeps no memory of emissions, and staging_transport.py  *)
(* a set in memory: a key goes out at most once per worker and restart.     *)
THEOREM EmissionsBounded == Spec => []OncePerTransport
<1>1. Init => Remembered
  <2>1. \A r : Cardinality(Rememberers(r)) \in Nat
    BY RememberersCounted
  <2> QED
    BY <2>1 DEF Init, Remembered
<1>2. TypeOK /\ Remembered => OncePerTransport
  <2> SUFFICES ASSUME TypeOK, Remembered, NEW r \in Receipts, NEW d \in Digests
               PROVE  emitted[r][d] <= Cardinality(Workers) + restarts
    BY DEF OncePerTransport
  <2>1. /\ emitted[r][d] <= Cardinality(Rememberers(r)) + restarts
        /\ emitted[r][d] \in Nat /\ restarts \in Nat
    BY LimitAssumption DEF Remembered, TypeOK
  <2> QED
    BY <2>1, RememberersCounted
<1> QED
  BY <1>1, <1>2, RememberedStep, OutboxTypeCorrect, PTL DEF Spec

LEMMA LimitRange ==
  /\ Max(Limits) \in Nat /\ Min(Limits) \in Nat \ {0}
  /\ \A limit \in Limits : Min(Limits) <= limit /\ limit <= Max(Limits)
<1>1. PICK least \in Limits, most \in Limits :
        \A limit \in Limits : least <= limit /\ limit <= most
  BY LimitAssumption
<1>2. \A l \in Limits : l \in Nat \ {0}
  BY LimitAssumption
<1>3. Max(Limits) \in Limits /\ \A limit \in Limits : Max(Limits) >= limit
  <2>1. \A limit \in Limits : most >= limit
    BY <1>1, <1>2
  <2> QED
    BY <1>1, <2>1 DEF Max
<1>4. Min(Limits) \in Limits /\ \A limit \in Limits : Min(Limits) =< limit
  BY <1>1 DEF Min
<1> QED
  BY <1>2, <1>3, <1>4

(* A row below the largest limit is still pending, and one that is not      *)
(* between the limits is not quarantined; a row that is absent is fresh.    *)
Counted ==
  /\ RetriesBounded
  /\ \A r \in Receipts : outbox[r].status = "absent" => outbox[r].attempts = 0

(* The retry limits of any number of callers, however their failures        *)
(* interleave, bound one receipt's attempts.                                *)
THEOREM AttemptsBounded == Spec => []RetriesBounded
<1> DEFINE least == Min(Limits)
           most == Max(Limits)
<1>l. /\ most \in Nat /\ least \in Nat \ {0}
      /\ \A limit \in Limits : limit \in Nat /\ least <= limit /\ limit <= most
      /\ 0 < most
  <2>1. Limits # {} /\ \A limit \in Limits : limit \in Nat \ {0}
    BY LimitAssumption
  <2> QED
    BY <2>1, LimitRange
<1> HIDE DEF least, most
<1>c. Counted <=>
        \A r \in Receipts :
          /\ outbox[r].status = "pending" => outbox[r].attempts < most
          /\ outbox[r].status = "dead_letter" => outbox[r].attempts \in least..most
          /\ outbox[r].status = "absent" => outbox[r].attempts = 0
  BY DEF Counted, RetriesBounded, least, most
<1>d. Counted' <=>
        \A r \in Receipts :
          /\ outbox'[r].status = "pending" => outbox'[r].attempts < most
          /\ outbox'[r].status = "dead_letter" => outbox'[r].attempts \in least..most
          /\ outbox'[r].status = "absent" => outbox'[r].attempts = 0
  BY DEF Counted, RetriesBounded, least, most
<1>1. Init => Counted
  BY <1>c DEF Init, NoRow
<1>2. ASSUME TypeOK, Counted, [Next]_vars PROVE Counted'
  <2>1. ASSUME NEW w \in Workers, NEW r \in Receipts, NEW d \in Digests, Enqueue(w, r, d)
        PROVE  Counted'
    <3>1. \A q \in Receipts : \/ outbox'[q] = outbox[q]
                              \/ /\ outbox[q].status = "absent"
                                 /\ outbox'[q].status = "pending"
                                 /\ outbox'[q].attempts = outbox[q].attempts
      BY <1>2, <2>1 DEF Enqueue, TypeOK, Row
    <3> QED
      BY <1>2, <1>l, <1>c, <1>d, <3>1
  <2>2. ASSUME NEW w \in Workers, MarkDelivered(w) PROVE Counted'
    <3>1. \A q \in Receipts : \/ outbox'[q] = outbox[q]
                              \/ outbox'[q].status = "delivered"
      BY <1>2, <2>2 DEF MarkDelivered, Delivered, TypeOK, Row
    <3> QED
      BY <1>2, <1>c, <1>d, <3>1
  <2>3. ASSUME NEW w \in Workers, NEW limit \in Limits, RecordFailure(w, limit)
        PROVE  Counted'
    <3>1. \A q \in Receipts :
            \/ outbox'[q] = outbox[q]
            \/ /\ outbox[q].status = "pending"
               /\ outbox'[q].attempts = outbox[q].attempts + 1
               /\ outbox'[q].status = IF outbox[q].attempts + 1 >= limit
                                      THEN "dead_letter" ELSE "pending"
      BY <1>2, <2>3 DEF RecordFailure, Failed, TypeOK, Row
    <3>2. \A q \in Receipts : outbox[q].attempts \in Nat
      BY <1>2 DEF TypeOK, Row
    <3> QED
      BY <1>2, <1>l, <1>c, <1>d, <3>1, <3>2
  <2>4. ASSUME UNCHANGED outbox PROVE Counted'
    BY <1>2, <1>c, <1>d, <2>4
  <2> QED
    BY <1>2, <2>1, <2>2, <2>3, <2>4 DEF Next, vars, TakePending, Dispatch, Restart
<1>3. TypeOK /\ Counted /\ [Next]_vars => Counted'
  BY <1>2
<1>4. Counted => RetriesBounded
  BY DEF Counted
<1> QED
  BY <1>1, <1>3, <1>4, OutboxTypeCorrect, PTL DEF Spec

-----------------------------------------------------------------------------
(* The registry: types.                                                     *)
LEMMA CaseAppended ==
  ASSUME NEW S, NEW table \in Seq(S), NEW s \in S
  PROVE  /\ Append(table, s) \in Seq(S) /\ Len(table) \in Nat
         /\ DOMAIN table = 1..Len(table) /\ DOMAIN Append(table, s) = 1..(Len(table) + 1)
         /\ Len(Append(table, s)) = Len(table) + 1
         /\ \A i \in 1..Len(table) : Append(table, s)[i] = table[i]
         /\ Append(table, s)[Len(table) + 1] = s
OBVIOUS

LEMMA RegistryTypeInit == RegistryInit => RegistryTypeOK
BY DEF RegistryInit, RegistryTypeOK

LEMMA RegistryTypeStep == RegistryTypeOK /\ [RegistryNext]_registryVars => RegistryTypeOK'
<1> SUFFICES ASSUME RegistryTypeOK, [RegistryNext]_registryVars PROVE RegistryTypeOK'
  OBVIOUS
<1> USE DEF RegistryTypeOK, LifecycleStatus, registry, inFlight
<1>1. ASSUME NEW t \in Tenants, CreateTenant(t) PROVE RegistryTypeOK'
  BY <1>1 DEF CreateTenant
<1>2. ASSUME NEW s \in Scopes, CreateWorkspace(s) PROVE RegistryTypeOK'
  BY <1>2 DEF CreateWorkspace
<1>3. ASSUME NEW s \in Scopes, NEW u \in Subjects, NEW role \in TenantRoles,
             AddMembership(s, u, role)
      PROVE  RegistryTypeOK'
  BY <1>3 DEF AddMembership
<1>4. ASSUME NEW t \in Tenants, NEW status \in LifecycleStatus, SetTenantStatus(t, status)
      PROVE  RegistryTypeOK'
  BY <1>4 DEF SetTenantStatus, HoldersIn
<1>5. ASSUME NEW s \in Scopes, NEW status \in LifecycleStatus, SetWorkspaceStatus(s, status)
      PROVE  RegistryTypeOK'
  BY <1>5 DEF SetWorkspaceStatus, HoldersIn
<1>6. ASSUME NEW r \in Requests, NEW s \in Scopes, NEW u \in Subjects,
             NEW role \in TenantRoles, Authorize(r, u, s, role)
      PROVE  RegistryTypeOK'
  <2>1. ContextFor(u, s) \in TenantContext
    BY <1>6 DEF Authorize, ContextFor, TenantContext
  <2> QED
    BY <1>6, <2>1 DEF Authorize
<1>7. ASSUME NEW r \in Requests, EndRequest(r) PROVE RegistryTypeOK'
  BY <1>7 DEF EndRequest
<1>8. ASSUME NEW r \in Requests, CreateCase(r) PROVE RegistryTypeOK'
  <2>1. context[r] \in TenantContext
    BY <1>8 DEF CreateCase
  <2>2. context[r].scope \in Scopes
    BY <2>1 DEF TenantContext
  <2>3. cases' \in Seq(Scopes) /\ Len(cases') = Len(cases) + 1 /\ Len(cases) \in Nat
    BY <1>8, <2>2, CaseAppended DEF CreateCase
  <2>4. 1..Len(cases) \subseteq 1..Len(cases')
    BY <2>3
  <2> QED
    BY <1>8, <2>3, <2>4 DEF CreateCase
<1>9. ASSUME NEW r \in Requests, ListCases(r) PROVE RegistryTypeOK'
  BY <1>9 DEF ListCases
<1>10. ASSUME NEW r \in Requests, NEW i \in 1..MaxCases, GetCase(r, i) PROVE RegistryTypeOK'
  BY <1>10 DEF GetCase
<1>11. CASE UNCHANGED registryVars
  BY <1>11 DEF registryVars
<1> QED
  BY <1>1, <1>2, <1>3, <1>4, <1>5, <1>6, <1>7, <1>8, <1>9, <1>10, <1>11 DEF RegistryNext

-----------------------------------------------------------------------------
(* A context repeats a membership that is still there: memberships are      *)
(* inserted and never changed, so what a request holds cannot be outdated   *)
(* by anything but a suspension.                                            *)
ContextsStand ==
  \A r \in Requests : context[r] # NoContext =>
    memberships[context[r].scope][context[r].subject] = context[r].role

RegistryInv ==
  RegistryTypeOK /\ ContextsStand /\ SuspensionAdmitsNoOne /\ CasesStayInScope

LEMMA RegistryInvInit == RegistryInit => RegistryInv
<1> SUFFICES ASSUME RegistryInit PROVE RegistryInv
  OBVIOUS
<1>1. RegistryTypeOK
  BY RegistryTypeInit
<1>2. ContextsStand /\ SuspensionAdmitsNoOne /\ CasesStayInScope
  BY DEF RegistryInit, ContextsStand, SuspensionAdmitsNoOne, CasesStayInScope
<1> QED
  BY <1>1, <1>2 DEF RegistryInv

LEMMA ContextsStandStep == RegistryInv /\ [RegistryNext]_registryVars => ContextsStand'
<1> SUFFICES ASSUME RegistryInv, [RegistryNext]_registryVars PROVE ContextsStand'
  OBVIOUS
<1>s. RegistryTypeOK /\ ContextsStand
  BY DEF RegistryInv
<1>c. \A r \in Requests : context[r] # NoContext =>
        context[r].scope \in Scopes /\ context[r].subject \in Subjects
        /\ context[r].role \in TenantRoles
  BY <1>s DEF RegistryTypeOK, TenantContext
<1>1. ASSUME NEW s \in Scopes, NEW u \in Subjects, NEW role \in TenantRoles,
             AddMembership(s, u, role)
      PROVE  ContextsStand'
  <2>1. memberships[s][u] = "absent" /\ context' = context
        /\ memberships' = [memberships EXCEPT ![s][u] = role]
    BY <1>1 DEF AddMembership, inFlight
  <2>2. \A p \in Scopes, v \in Subjects :
          memberships'[p][v] = IF p = s /\ v = u THEN role ELSE memberships[p][v]
    BY <1>s, <2>1 DEF RegistryTypeOK
  <2>3. "absent" \notin TenantRoles
    BY DEF TenantRoles
  <2> QED
    BY <1>c, <1>s, <2>1, <2>2, <2>3 DEF ContextsStand
<1>2. ASSUME NEW r \in Requests, NEW s \in Scopes, NEW u \in Subjects,
             NEW role \in TenantRoles, Authorize(r, u, s, role)
      PROVE  ContextsStand'
  <2>1. ContextFor(u, s) # NoContext /\ memberships' = memberships
        /\ context' = [context EXCEPT ![r] = ContextFor(u, s)]
    BY <1>2 DEF Authorize, registry
  <2>2. ContextFor(u, s) = [scope |-> s, subject |-> u, role |-> memberships[s][u]]
    BY <2>1 DEF ContextFor
  <2>3. \A q \in Requests : context'[q] = IF q = r THEN ContextFor(u, s) ELSE context[q]
    BY <1>s, <2>1 DEF RegistryTypeOK
  <2> QED
    BY <1>s, <2>1, <2>2, <2>3 DEF ContextsStand
<1>3. ASSUME NEW r \in Requests, EndRequest(r) PROVE ContextsStand'
  <2>1. /\ memberships' = memberships
        /\ \A q \in Requests : context'[q] = IF q = r THEN NoContext ELSE context[q]
    BY <1>3, <1>s DEF EndRequest, registry, RegistryTypeOK
  <2> QED
    BY <1>s, <2>1 DEF ContextsStand
<1>4. ASSUME UNCHANGED <<memberships, context>> PROVE ContextsStand'
  BY <1>4, <1>s DEF ContextsStand
<1>5. ASSUME NEW t \in Tenants, NEW status \in LifecycleStatus, SetTenantStatus(t, status)
      PROVE  UNCHANGED <<memberships, context>>
  BY <1>5 DEF SetTenantStatus
<1>6. ASSUME NEW s \in Scopes, NEW status \in LifecycleStatus, SetWorkspaceStatus(s, status)
      PROVE  UNCHANGED <<memberships, context>>
  BY <1>6 DEF SetWorkspaceStatus
<1>7. ASSUME NEW r \in Requests, NEW i \in 1..MaxCases, GetCase(r, i)
      PROVE  UNCHANGED <<memberships, context>>
  BY <1>7 DEF GetCase, registry
<1>8. ASSUME NEW r \in Requests, CreateCase(r) \/ ListCases(r)
      PROVE  UNCHANGED <<memberships, context>>
  BY <1>8 DEF CreateCase, ListCases, registry
<1>9. ASSUME NEW t \in Tenants, CreateTenant(t) PROVE UNCHANGED <<memberships, context>>
  BY <1>9 DEF CreateTenant, inFlight
<1>10. ASSUME NEW s \in Scopes, CreateWorkspace(s) PROVE UNCHANGED <<memberships, context>>
  BY <1>10 DEF CreateWorkspace, inFlight
<1>11. CASE UNCHANGED registryVars
  BY <1>4, <1>11 DEF registryVars
<1> QED
  BY <1>1, <1>2, <1>3, <1>4, <1>5, <1>6, <1>7, <1>8, <1>9, <1>10, <1>11 DEF RegistryNext

(* Suspension: who is inside when a scope closes is marked, and nobody      *)
(* enters a closed one.                                                     *)
LEMMA SuspensionStep ==
  RegistryInv /\ [RegistryNext]_registryVars => SuspensionAdmitsNoOne'
<1> SUFFICES ASSUME RegistryInv, [RegistryNext]_registryVars,
                    NEW r \in Requests, context'[r] # NoContext,
                    ~(Active(context[r].scope)')
             PROVE  r \in outlived'
  BY DEF SuspensionAdmitsNoOne
<1> DEFINE scope == context[r].scope
<1>s. RegistryTypeOK /\ SuspensionAdmitsNoOne
  BY DEF RegistryInv
<1>a. \A p \in Scopes : p[1] \in Tenants /\ p \in {p[1]} \X Workspaces
  BY DEF Scopes
<1>c. context[r] # NoContext => scope \in Scopes
  BY <1>s DEF RegistryTypeOK, TenantContext
<1>0. ASSUME context' = context, outlived' = outlived, Active(scope)' <=> Active(scope)
      PROVE  r \in outlived'
  BY <1>0, <1>s DEF SuspensionAdmitsNoOne
<1>1. ASSUME NEW t \in Tenants, CreateTenant(t) PROVE r \in outlived'
  <2>1. /\ context' = context /\ outlived' = outlived /\ workspaces' = workspaces
        /\ \A v \in Tenants : tenants'[v] = IF v = t THEN "active" ELSE tenants[v]
    BY <1>1, <1>s DEF CreateTenant, inFlight, RegistryTypeOK
  <2>2. ~Active(scope)
    BY <1>a, <1>c, <2>1 DEF Active
  <2> QED
    BY <1>s, <2>1, <2>2 DEF SuspensionAdmitsNoOne
<1>2. ASSUME NEW s \in Scopes, CreateWorkspace(s) PROVE r \in outlived'
  <2>1. /\ context' = context /\ outlived' = outlived /\ tenants' = tenants
        /\ \A p \in Scopes : workspaces'[p] = IF p = s THEN "active" ELSE workspaces[p]
    BY <1>2, <1>s DEF CreateWorkspace, inFlight, RegistryTypeOK
  <2>2. ~Active(scope)
    BY <1>c, <2>1 DEF Active
  <2> QED
    BY <1>s, <2>1, <2>2 DEF SuspensionAdmitsNoOne
<1>3. ASSUME NEW t \in Tenants, NEW status \in LifecycleStatus, SetTenantStatus(t, status)
      PROVE  r \in outlived'
  <2>1. /\ context' = context /\ workspaces' = workspaces
        /\ outlived' = IF status = "suspended"
                       THEN outlived \union HoldersIn({t} \X Workspaces) ELSE outlived
        /\ \A v \in Tenants : tenants'[v] = IF v = t THEN status ELSE tenants[v]
    BY <1>3, <1>s DEF SetTenantStatus, RegistryTypeOK
  <2>2. CASE status = "suspended" /\ scope[1] = t
    <3>1. scope \in {t} \X Workspaces
      BY <1>a, <1>c, <2>1, <2>2
    <3> QED
      BY <2>1, <2>2, <3>1 DEF HoldersIn
  <2>3. CASE ~(status = "suspended" /\ scope[1] = t)
    <3>1. ~Active(scope)
      BY <1>a, <1>c, <2>1, <2>3 DEF Active, LifecycleStatus
    <3> QED
      BY <1>s, <2>1, <3>1 DEF SuspensionAdmitsNoOne
  <2> QED
    BY <2>2, <2>3
<1>4. ASSUME NEW s \in Scopes, NEW status \in LifecycleStatus, SetWorkspaceStatus(s, status)
      PROVE  r \in outlived'
  <2>1. /\ context' = context /\ tenants' = tenants
        /\ outlived' = IF status = "suspended" THEN outlived \union HoldersIn({s})
                       ELSE outlived
        /\ \A p \in Scopes : workspaces'[p] = IF p = s THEN status ELSE workspaces[p]
    BY <1>4, <1>s DEF SetWorkspaceStatus, RegistryTypeOK
  <2>2. CASE status = "suspended" /\ scope = s
    BY <2>1, <2>2 DEF HoldersIn
  <2>3. CASE ~(status = "suspended" /\ scope = s)
    <3>1. ~Active(scope)
      BY <1>c, <2>1, <2>3 DEF Active, LifecycleStatus
    <3> QED
      BY <1>s, <2>1, <3>1 DEF SuspensionAdmitsNoOne
  <2> QED
    BY <2>2, <2>3
<1>5. ASSUME NEW q \in Requests, NEW s \in Scopes, NEW u \in Subjects,
             NEW role \in TenantRoles, Authorize(q, u, s, role)
      PROVE  r \in outlived'
  <2>1. /\ ContextFor(u, s) # NoContext
        /\ tenants' = tenants /\ workspaces' = workspaces /\ outlived' = outlived
        /\ \A b \in Requests : context'[b] = IF b = q THEN ContextFor(u, s) ELSE context[b]
    BY <1>5, <1>s DEF Authorize, registry, RegistryTypeOK
  <2>2. Active(s) /\ ContextFor(u, s).scope = s
    BY <2>1 DEF ContextFor
  <2>3. r # q
    BY <2>1, <2>2 DEF Active
  <2>4. context[r] # NoContext /\ ~Active(scope)
    BY <2>1, <2>3 DEF Active
  <2> QED
    BY <1>s, <2>1, <2>4 DEF SuspensionAdmitsNoOne
<1>6. ASSUME NEW q \in Requests, EndRequest(q) PROVE r \in outlived'
  <2>1. /\ tenants' = tenants /\ workspaces' = workspaces /\ outlived' = outlived \ {q}
        /\ \A b \in Requests : context'[b] = IF b = q THEN NoContext ELSE context[b]
    BY <1>6, <1>s DEF EndRequest, registry, RegistryTypeOK
  <2>2. r # q /\ context[r] # NoContext /\ ~Active(scope)
    BY <2>1 DEF Active
  <2> QED
    BY <1>s, <2>1, <2>2 DEF SuspensionAdmitsNoOne
<1>7. ASSUME NEW q \in Requests, CreateCase(q) \/ ListCases(q) PROVE r \in outlived'
  BY <1>0, <1>7 DEF CreateCase, ListCases, registry, Active
<1>8. ASSUME NEW q \in Requests, NEW i \in 1..MaxCases, GetCase(q, i) PROVE r \in outlived'
  BY <1>0, <1>8 DEF GetCase, registry, Active
<1>9. ASSUME NEW s \in Scopes, NEW u \in Subjects, NEW role \in TenantRoles,
             AddMembership(s, u, role)
      PROVE  r \in outlived'
  BY <1>0, <1>9 DEF AddMembership, inFlight, Active
<1>10. CASE UNCHANGED registryVars
  BY <1>0, <1>10 DEF registryVars, Active
<1> QED
  BY <1>1, <1>2, <1>3, <1>4, <1>5, <1>6, <1>7, <1>8, <1>9, <1>10 DEF RegistryNext

(* Cases: what a request sees and what it writes has the scope it was given *)
(* once, and the membership behind it stands.                               *)
LEMMA CasesStep == RegistryInv /\ [RegistryNext]_registryVars => CasesStayInScope'
<1> SUFFICES ASSUME RegistryInv, [RegistryNext]_registryVars PROVE CasesStayInScope'
  OBVIOUS
<1>s. RegistryTypeOK /\ ContextsStand /\ CasesStayInScope
  BY DEF RegistryInv
<1>c. \A r \in Requests : context[r] # NoContext =>
        context[r].scope \in Scopes /\ context[r].subject \in Subjects
  BY <1>s DEF RegistryTypeOK, TenantContext
<1>1. ASSUME NEW s \in Scopes, NEW u \in Subjects, NEW role \in TenantRoles,
             AddMembership(s, u, role)
      PROVE  CasesStayInScope'
  <2>1. memberships[s][u] = "absent" /\ UNCHANGED <<context, cases, seen>>
        /\ memberships' = [memberships EXCEPT ![s][u] = role]
    BY <1>1 DEF AddMembership, inFlight
  <2>2. \A p \in Scopes, v \in Subjects :
          memberships'[p][v] = IF p = s /\ v = u THEN role ELSE memberships[p][v]
    BY <1>s, <2>1 DEF RegistryTypeOK
  <2>3. \A i \in DOMAIN cases : cases[i] \in Scopes
    BY <1>s DEF RegistryTypeOK
  <2>4. \A p \in Scopes, v \in Subjects :
          memberships[p][v] \in CaseWriters => memberships'[p][v] \in CaseWriters
    BY <2>1, <2>2 DEF CaseWriters
  <2> QED
    BY <1>s, <2>1, <2>3, <2>4 DEF CasesStayInScope
<1>2. ASSUME NEW r \in Requests, NEW s \in Scopes, NEW u \in Subjects,
             NEW role \in TenantRoles, Authorize(r, u, s, role)
      PROVE  CasesStayInScope'
  <2>1. /\ context[r] = NoContext /\ UNCHANGED <<memberships, cases, seen>>
        /\ \A q \in Requests : q # r => context'[q] = context[q]
    BY <1>2, <1>s DEF Authorize, registry, RegistryTypeOK
  <2>2. seen[r] = {}
    BY <1>s, <2>1 DEF CasesStayInScope
  <2> QED
    BY <1>s, <2>1, <2>2 DEF CasesStayInScope
<1>3. ASSUME NEW r \in Requests, EndRequest(r) PROVE CasesStayInScope'
  <2>1. /\ UNCHANGED <<memberships, cases>>
        /\ \A q \in Requests : q # r => context'[q] = context[q] /\ seen'[q] = seen[q]
        /\ seen'[r] = {}
    BY <1>3, <1>s DEF EndRequest, registry, RegistryTypeOK
  <2> QED
    BY <1>s, <2>1 DEF CasesStayInScope
<1>4. ASSUME NEW r \in Requests, CreateCase(r) PROVE CasesStayInScope'
  <2>1. /\ context[r] # NoContext /\ context[r].role \in CaseWriters
        /\ cases' = Append(cases, context[r].scope) /\ UNCHANGED <<memberships, context, seen>>
    BY <1>4 DEF CreateCase, registry
  <2>2. /\ DOMAIN cases = 1..Len(cases) /\ DOMAIN cases' = 1..(Len(cases) + 1)
        /\ Len(cases) \in Nat /\ \A i \in 1..Len(cases) : cases'[i] = cases[i]
        /\ cases'[Len(cases) + 1] = context[r].scope
    BY <1>c, <1>s, <2>1, CaseAppended DEF RegistryTypeOK
  <2>3. \A q \in Requests : \A i \in seen[q] : i \in 1..Len(cases)
    BY <1>s DEF RegistryTypeOK
  <2>4. memberships[context[r].scope][context[r].subject] \in CaseWriters
    BY <1>s, <2>1 DEF ContextsStand
  <2>5. \A i \in 1..(Len(cases) + 1) : i \in 1..Len(cases) \/ i = Len(cases) + 1
    BY <2>2
  <2>6. \A i \in DOMAIN cases' : \E u \in Subjects : memberships[cases'[i]][u] \in CaseWriters
    BY <1>c, <1>s, <2>1, <2>2, <2>4, <2>5 DEF CasesStayInScope
  <2> QED
    BY <1>s, <2>1, <2>2, <2>3, <2>6 DEF CasesStayInScope
<1>5. ASSUME NEW r \in Requests, NEW new \in SUBSET { i \in DOMAIN cases : cases[i] = context[r].scope },
             context[r] # NoContext, seen' = [seen EXCEPT ![r] = @ \union new],
             UNCHANGED <<memberships, context, cases>>
      PROVE  CasesStayInScope'
  <2>1. \A q \in Requests : seen'[q] = IF q = r THEN seen[q] \union new ELSE seen[q]
    BY <1>5, <1>s DEF RegistryTypeOK
  <2> QED
    BY <1>5, <1>s, <2>1 DEF CasesStayInScope
<1>6. ASSUME NEW r \in Requests, ListCases(r) PROVE CasesStayInScope'
  BY <1>5, <1>6 DEF ListCases, registry
<1>7. ASSUME NEW r \in Requests, NEW i \in 1..MaxCases, GetCase(r, i) PROVE CasesStayInScope'
  <2>1. {i} \in SUBSET { j \in DOMAIN cases : cases[j] = context[r].scope }
    BY <1>7 DEF GetCase
  <2> QED
    BY <1>5, <1>7, <2>1 DEF GetCase, registry
<1>8. ASSUME UNCHANGED <<memberships, context, cases, seen>> PROVE CasesStayInScope'
  BY <1>8, <1>s DEF CasesStayInScope
<1>9. ASSUME NEW t \in Tenants, CreateTenant(t) PROVE CasesStayInScope'
  BY <1>8, <1>9 DEF CreateTenant, inFlight
<1>10. ASSUME NEW s \in Scopes, CreateWorkspace(s) PROVE CasesStayInScope'
  BY <1>8, <1>10 DEF CreateWorkspace, inFlight
<1>11. ASSUME NEW t \in Tenants, NEW status \in LifecycleStatus, SetTenantStatus(t, status)
       PROVE  CasesStayInScope'
  BY <1>8, <1>11 DEF SetTenantStatus
<1>12. ASSUME NEW s \in Scopes, NEW status \in LifecycleStatus, SetWorkspaceStatus(s, status)
       PROVE  CasesStayInScope'
  BY <1>8, <1>12 DEF SetWorkspaceStatus
<1>13. CASE UNCHANGED registryVars
  BY <1>8, <1>13 DEF registryVars
<1> QED
  BY <1>1, <1>2, <1>3, <1>4, <1>6, <1>7, <1>9, <1>10, <1>11, <1>12, <1>13 DEF RegistryNext

LEMMA RegistryInductive == RegistrySpec => []RegistryInv
<1>1. RegistryInv /\ [RegistryNext]_registryVars => RegistryInv'
  BY RegistryTypeStep, ContextsStandStep, SuspensionStep, CasesStep DEF RegistryInv
<1> QED
  BY RegistryInvInit, <1>1, PTL DEF RegistrySpec

(* Type correctness of the registry, its requests and the case table.       *)
THEOREM RegistryTypeCorrect == RegistrySpec => []RegistryTypeOK
BY RegistryTypeInit, RegistryTypeStep, PTL DEF RegistrySpec

(* Fail closed: no one is given a context of a suspended tenant or          *)
(* workspace, however the two statuses are set.                             *)
THEOREM SuspensionCloses == RegistrySpec => []SuspensionAdmitsNoOne
<1>1. RegistryInv => SuspensionAdmitsNoOne
  BY DEF RegistryInv
<1> QED
  BY <1>1, RegistryInductive, PTL

(* No request sees a case of another scope, and no case was created by one  *)
(* who may not write in its scope.                                          *)
THEOREM CasesAreScoped == RegistrySpec => []CasesStayInScope
<1>1. RegistryInv => CasesStayInScope
  BY DEF RegistryInv
<1> QED
  BY <1>1, RegistryInductive, PTL

-----------------------------------------------------------------------------
(* Evidence.  OwnBundles is a set of bundles recorded in scope s; the       *)
(* invariant says that of rows, files and imports under way.                *)
OwnBundles(s, bundles) ==
  \A b \in bundles : b = Bind(s, b.evidence) /\ b.evidence \in recorded[s]

ImportsOwn ==
  \A c \in Clients : importing[c] # NotImporting =>
    OwnBundles(importing[c].scope, importing[c].bundles)

EvidenceInv ==
  EvidenceTypeOK /\ EvidenceStaysInScope /\ AcknowledgedExactly /\ ImportsOwn

LEMMA BindTyped ==
  ASSUME NEW s \in Scopes, NEW e \in Evidence
  PROVE  /\ Bind(s, e) \in TenantEvidenceBundle /\ Bind(s, e) # NoBundle
         /\ Bind(s, e).evidence = e /\ Verified(s, Bind(s, e))
BY BundleAssumption DEF Bind, TenantEvidenceBundle, Verified

LEMMA VerifiedIsBound ==
  ASSUME NEW s \in Scopes, NEW b \in TenantEvidenceBundle, Verified(s, b)
  PROVE  b = Bind(s, b.evidence) /\ b.evidence \in Evidence
BY DEF Verified, TenantEvidenceBundle, Bind

LEMMA EvidenceInvInit == EvidenceInit => EvidenceInv
<1> SUFFICES ASSUME EvidenceInit PROVE EvidenceInv
  OBVIOUS
<1>1. EvidenceTypeOK
  BY LossAssumption DEF EvidenceInit, EvidenceTypeOK, NoRows
<1>2. \A s \in Scopes : Held(s) = {}
  BY DEF EvidenceInit, NoRows, Held
<1>3. EvidenceStaysInScope /\ AcknowledgedExactly /\ ImportsOwn
  BY <1>2 DEF EvidenceInit, EvidenceStaysInScope, AcknowledgedExactly, ImportsOwn
<1> QED
  BY <1>1, <1>3 DEF EvidenceInv

(* What an import without a conflict leaves in the rows of its scope.       *)
LEMMA InsertedRows ==
  ASSUME EvidenceInv, NEW s \in Scopes, NEW bundles \in SUBSET TenantEvidenceBundle,
         OwnBundles(s, bundles)
  PROVE  \A e \in Evidence :
           /\ Inserted(s, bundles)[e]
                = IF e \in { b.evidence : b \in bundles } THEN Bind(s, e) ELSE rows[s][e]
           /\ e \in { b.evidence : b \in bundles } => e \in recorded[s]
<1> SUFFICES ASSUME NEW e \in Evidence
             PROVE  /\ Inserted(s, bundles)[e]
                         = IF e \in { b.evidence : b \in bundles } THEN Bind(s, e)
                           ELSE rows[s][e]
                    /\ e \in { b.evidence : b \in bundles } => e \in recorded[s]
  OBVIOUS
<1>1. \A b \in bundles : b = Bind(s, b.evidence) /\ b.evidence \in recorded[s]
  BY DEF OwnBundles
<1>2. CASE \E b \in bundles : b.evidence = e
  <2> DEFINE chosen == CHOOSE b \in bundles : b.evidence = e
  <2>1. chosen \in bundles /\ chosen.evidence = e
    BY <1>2
  <2>2. Inserted(s, bundles)[e] = chosen
    BY <1>2 DEF Inserted
  <2> HIDE DEF chosen
  <2> QED
    BY <1>1, <2>1, <2>2
<1>3. CASE ~\E b \in bundles : b.evidence = e
  BY <1>3 DEF Inserted
<1> QED
  BY <1>2, <1>3

LEMMA EvidenceStep == EvidenceInv /\ [EvidenceNext]_evidenceVars => EvidenceInv'
<1> SUFFICES ASSUME EvidenceInv, [EvidenceNext]_evidenceVars PROVE EvidenceInv'
  OBVIOUS
<1>s. EvidenceTypeOK /\ EvidenceStaysInScope /\ AcknowledgedExactly /\ ImportsOwn
  BY DEF EvidenceInv
<1>1. ASSUME NEW s \in Scopes, NEW b \in TenantEvidenceBundle, Record(s, b)
      PROVE  EvidenceInv'
  <2> DEFINE e == b.evidence
  <2>1. b = Bind(s, e) /\ e \in Evidence /\ b # NoBundle
    BY <1>1, VerifiedIsBound, BundleAssumption DEF Record
  <2>2. UNCHANGED <<file, importing, dbLosses>>
    BY <1>1 DEF Record
  <2>3. /\ \A p \in Scopes : acknowledged'[p] = IF p = s THEN acknowledged[p] \union {e}
                                                ELSE acknowledged[p]
        /\ \A p \in Scopes : recorded'[p] = IF p = s THEN recorded[p] \union {e}
                                            ELSE recorded[p]
    BY <1>1, <1>s DEF Record, EvidenceTypeOK
  <2>4. \A p \in Scopes, f \in Evidence :
          rows'[p][f] = IF p = s /\ f = e /\ rows[s][e] = NoBundle THEN Bind(s, e)
                        ELSE rows[p][f]
    BY <1>1, <1>s, <2>1 DEF Record, EvidenceTypeOK
  <2> HIDE DEF e
  <2>5. EvidenceTypeOK'
    BY <1>1, <1>s, <2>1 DEF Record, EvidenceTypeOK, e
  <2>6. \A p \in Scopes : Held(p)' = IF p = s THEN Held(p) \union {e} ELSE Held(p)
    BY <2>1, <2>4, BindTyped DEF Held
  <2>7. ASSUME NEW p \in Scopes
        PROVE  /\ \A f \in Held(p)' : rows'[p][f] = Bind(p, f) /\ f \in recorded'[p]
               /\ \A c \in file'[p] : c = Bind(p, c.evidence) /\ c.evidence \in recorded'[p]
    <3>1. recorded[p] \subseteq recorded'[p] /\ (p = s => e \in recorded'[p])
      BY <2>3
    <3>2. /\ \A f \in Held(p) : rows[p][f] = Bind(p, f) /\ f \in recorded[p]
          /\ \A c \in file[p] : c = Bind(p, c.evidence) /\ c.evidence \in recorded[p]
      BY <1>s DEF EvidenceStaysInScope
    <3>3. ASSUME NEW f \in Held(p)' PROVE rows'[p][f] = Bind(p, f) /\ f \in recorded'[p]
      <4>1. f \in Evidence
        BY <3>3 DEF Held
      <4>2. CASE f \in Held(p)
        <5>1. ~(p = s /\ f = e /\ rows[s][e] = NoBundle)
          BY <4>2 DEF Held
        <5> QED
          BY <2>4, <3>1, <3>2, <4>1, <4>2, <5>1
      <4>3. CASE f \notin Held(p)
        <5>1. p = s /\ f = e /\ rows[s][e] = NoBundle
          BY <2>6, <3>3, <4>1, <4>3 DEF Held
        <5> QED
          BY <2>4, <3>1, <4>1, <5>1
      <4> QED
        BY <4>2, <4>3
    <3> QED
      BY <2>2, <3>1, <3>2, <3>3
  <2>8. EvidenceStaysInScope' /\ AcknowledgedExactly'
    BY <1>s, <2>3, <2>6, <2>7 DEF EvidenceStaysInScope, AcknowledgedExactly
  <2>9. ImportsOwn'
    <3>1. \A c \in Clients : importing[c] # NotImporting => importing[c].scope \in Scopes
      BY <1>s DEF EvidenceTypeOK
    <3> QED
      BY <1>s, <2>2, <2>3, <3>1 DEF ImportsOwn, OwnBundles
  <2> QED
    BY <2>5, <2>8, <2>9 DEF EvidenceInv
<1>2. ASSUME NEW s \in Scopes, ExportEvidence(s) PROVE EvidenceInv'
  <2> DEFINE bundles == { rows[s][e] : e \in Held(s) }
  <2>1. UNCHANGED <<rows, importing, dbLosses, acknowledged, recorded>>
        /\ file' = [file EXCEPT ![s] = bundles]
    BY <1>2 DEF ExportEvidence
  <2>2. \A e \in Held(s) : e \in Evidence /\ rows[s][e] = Bind(s, e) /\ e \in recorded[s]
    BY <1>s DEF EvidenceStaysInScope, Held
  <2>3. \A b \in bundles : b = Bind(s, b.evidence) /\ b.evidence \in recorded[s]
                           /\ b \in TenantEvidenceBundle
    BY <2>2, BindTyped
  <2> HIDE DEF bundles
  <2>4. \A p \in Scopes : file'[p] = IF p = s THEN bundles ELSE file[p]
    BY <1>s, <2>1 DEF EvidenceTypeOK
  <2>5. EvidenceTypeOK'
    BY <1>s, <2>1, <2>3 DEF EvidenceTypeOK
  <2>6. EvidenceStaysInScope'
    BY <1>s, <2>1, <2>3, <2>4 DEF EvidenceStaysInScope, Held
  <2>7. AcknowledgedExactly' /\ ImportsOwn'
    BY <1>s, <2>1 DEF AcknowledgedExactly, ImportsOwn, OwnBundles, Held
  <2> QED
    BY <2>5, <2>6, <2>7 DEF EvidenceInv
<1>3. ASSUME NEW c \in Clients, NEW s \in Scopes, NEW t \in Scopes, ImportCount(c, s, t)
      PROVE  EvidenceInv'
  <2>1. UNCHANGED <<rows, file, dbLosses, acknowledged, recorded>>
        /\ importing' = [importing EXCEPT ![c] = [scope |-> s, bundles |-> file[s]]]
    BY <1>3 DEF ImportCount
  <2>2. OwnBundles(s, file[s])
    BY <1>s DEF EvidenceStaysInScope, OwnBundles
  <2>3. EvidenceTypeOK'
    BY <1>s, <2>1 DEF EvidenceTypeOK
  <2>4. EvidenceStaysInScope' /\ AcknowledgedExactly'
    BY <1>s, <2>1 DEF EvidenceStaysInScope, AcknowledgedExactly, Held
  <2>5. \A d \in Clients :
          importing'[d] = IF d = c THEN [scope |-> s, bundles |-> file[s]] ELSE importing[d]
    BY <1>s, <2>1 DEF EvidenceTypeOK
  <2>6. ImportsOwn'
    BY <1>s, <2>1, <2>2, <2>5 DEF ImportsOwn, OwnBundles
  <2> QED
    BY <2>3, <2>4, <2>6 DEF EvidenceInv
<1>4. ASSUME NEW c \in Clients, ImportInsert(c) PROVE EvidenceInv'
  <2> DEFINE s == importing[c].scope
             bundles == importing[c].bundles
             keys == { b.evidence : b \in bundles }
  <2>1. s \in Scopes /\ bundles \in SUBSET TenantEvidenceBundle /\ OwnBundles(s, bundles)
    BY <1>4, <1>s DEF ImportInsert, EvidenceTypeOK, ImportsOwn
  <2>2. UNCHANGED <<file, dbLosses, recorded>>
        /\ importing' = [importing EXCEPT ![c] = NotImporting]
    BY <1>4 DEF ImportInsert
  <2>3. keys \subseteq Evidence
    BY <2>1 DEF TenantEvidenceBundle
  <2>4. ImportsOwn'
    BY <1>s, <2>2 DEF ImportsOwn, OwnBundles, EvidenceTypeOK
  <2>5. importing' \in [Clients -> [scope : Scopes, bundles : SUBSET TenantEvidenceBundle]
                                   \union {NotImporting}]
    BY <1>s, <2>2 DEF EvidenceTypeOK
  <2>6. CASE Conflicts(s, bundles)
    <3>1. UNCHANGED <<rows, acknowledged>>
      BY <1>4, <2>6 DEF ImportInsert
    <3> QED
      BY <1>s, <2>2, <2>4, <2>5, <3>1
      DEF EvidenceInv, EvidenceTypeOK, EvidenceStaysInScope, AcknowledgedExactly, Held
  <2>7. CASE ~Conflicts(s, bundles)
    <3>1. /\ rows' = [rows EXCEPT ![s] = Inserted(s, bundles)]
          /\ acknowledged' = [acknowledged EXCEPT ![s] = @ \union keys]
      BY <1>4, <2>7 DEF ImportInsert
    <3>2. \A e \in Evidence :
            /\ Inserted(s, bundles)[e] = IF e \in keys THEN Bind(s, e) ELSE rows[s][e]
            /\ e \in keys => e \in recorded[s]
      BY <2>1, InsertedRows
    <3> HIDE DEF s, bundles, keys
    <3>3. \A p \in Scopes, e \in Evidence :
            rows'[p][e] = IF p = s /\ e \in keys THEN Bind(s, e) ELSE rows[p][e]
      BY <1>s, <3>1, <3>2 DEF EvidenceTypeOK
    <3>4. \A p \in Scopes :
            acknowledged'[p] = IF p = s THEN acknowledged[p] \union keys ELSE acknowledged[p]
      BY <1>s, <3>1 DEF EvidenceTypeOK
    <3>5. \A p \in Scopes : Held(p)' = IF p = s THEN Held(p) \union keys ELSE Held(p)
      BY <2>1, <2>3, <3>3, BindTyped DEF Held
    <3>6. Inserted(s, bundles) \in [Evidence -> TenantEvidenceBundle \union {NoBundle}]
      <4>1. \A e \in Evidence : Inserted(s, bundles)[e] \in TenantEvidenceBundle \union {NoBundle}
        BY <1>s, <2>1, <3>2, BindTyped DEF EvidenceTypeOK
      <4> QED
        BY <4>1 DEF Inserted
    <3>7. EvidenceTypeOK'
      BY <1>s, <2>1, <2>2, <2>3, <2>5, <3>1, <3>6 DEF EvidenceTypeOK
    <3>8. EvidenceStaysInScope'
      BY <1>s, <2>2, <3>2, <3>3, <3>5 DEF EvidenceStaysInScope, Held
    <3>9. AcknowledgedExactly'
      BY <1>s, <3>4, <3>5 DEF AcknowledgedExactly
    <3> QED
      BY <2>4, <3>7, <3>8, <3>9 DEF EvidenceInv
  <2> QED
    BY <2>6, <2>7
<1>5. ASSUME LoseDatabase PROVE EvidenceInv'
  <2>1. /\ rows' = NoRows /\ UNCHANGED <<file, recorded>>
        /\ \A c \in Clients : importing'[c] = NotImporting
        /\ \A s \in Scopes : acknowledged'[s] = {}
    BY <1>5 DEF LoseDatabase
  <2>2. \A s \in Scopes : Held(s)' = {}
    BY <2>1 DEF Held, NoRows
  <2>3. EvidenceTypeOK'
    BY <1>5, <1>s, LossAssumption DEF LoseDatabase, EvidenceTypeOK, NoRows
  <2> QED
    BY <1>s, <2>1, <2>2, <2>3
    DEF EvidenceInv, EvidenceStaysInScope, AcknowledgedExactly, ImportsOwn
<1>6. CASE UNCHANGED evidenceVars
  BY <1>6, <1>s
  DEF evidenceVars, EvidenceInv, EvidenceTypeOK, EvidenceStaysInScope,
      AcknowledgedExactly, ImportsOwn, OwnBundles, Held
<1> QED
  BY <1>1, <1>2, <1>3, <1>4, <1>5, <1>6 DEF EvidenceNext

LEMMA EvidenceInductive == EvidenceSpec => []EvidenceInv
BY EvidenceInvInit, EvidenceStep, PTL DEF EvidenceSpec

(* Evidence never leaves the scope it was recorded in, through any sequence *)
(* of exports, losses and racing imports.                                   *)
THEOREM EvidenceIsScoped == EvidenceSpec => []EvidenceStaysInScope
<1>1. EvidenceInv => EvidenceStaysInScope
  BY DEF EvidenceInv
<1> QED
  BY <1>1, EvidenceInductive, PTL

(* The store holds what it answered for, for any number of racing clients:  *)
(* a refused import leaves nothing, an accepted one is complete.            *)
THEOREM ImportsAreAtomic == EvidenceSpec => []AcknowledgedExactly
<1>1. EvidenceInv => AcknowledgedExactly
  BY DEF EvidenceInv
<1> QED
  BY <1>1, EvidenceInductive, PTL
=============================================================================
