------------------------ MODULE AssuranceStoreProofs ------------------------
(***************************************************************************)
(* Proofs about AssuranceStore for every number of cases, workers,         *)
(* fixtures, expiry times and losses of the database file.                 *)
(***************************************************************************)
EXTENDS AssuranceStore, TLAPS

-----------------------------------------------------------------------------
(* Type correctness, kept by every call and every loss.                     *)

LEMMA EmptyFileTyped == EmptyFile \in File
<1>1. <<>> \in Seq(Actions)
  OBVIOUS
<1> QED
  BY <1>1 DEF EmptyFile, File, NoStatus, NoDates, NoFixtures, NoAudit, Statuses

LEMMA TypeInit == Init => TypeOK
<1> SUFFICES ASSUME Init PROVE TypeOK
  OBVIOUS
<1>1. <<>> \in Seq(Actions)
  OBVIOUS
<1>2. Idle.pc = "idle" /\ Idle.cases = {} /\ Idle.file \in File
  BY EmptyFileTyped DEF Idle
<1>3. worker \in [Workers ->
         [pc : {"idle", "expiring", "attaching", "exporting", "listing", "importing"},
          cases : SUBSET Ids, file : File]]
  BY <1>2 DEF Init, Idle
<1> QED
  BY <1>1, <1>3, BoundAssumption
     DEF Init, TypeOK, NoStatus, NoDates, NoFixtures, NoAudit, Statuses

Pcs == {"idle", "expiring", "attaching", "exporting", "listing", "importing"}
Worker == [pc : Pcs, cases : SUBSET Ids, file : File]

(* Of one audit log, extended by one row.                                   *)
LEMMA Append1Typed ==
  ASSUME NEW log \in [Ids -> Seq(Actions)], NEW c \in Ids, NEW action \in Actions
  PROVE  Append1(log, c, action) \in [Ids -> Seq(Actions)]
<1>1. Append(log[c], action) \in Seq(Actions)
  OBVIOUS
<1> QED
  BY <1>1 DEF Append1

LEMMA RestTyped ==
  ASSUME TypeOK, NEW w \in Workers, Rest(w)
  PROVE  worker' \in [Workers -> Worker]
<1>1. Idle \in Worker
  BY EmptyFileTyped DEF Idle, Worker, Pcs
<1> QED
  BY <1>1 DEF TypeOK, Rest, Worker, Pcs

LEMMA TypeStep == TypeOK /\ [Next]_vars => TypeOK'
<1> SUFFICES ASSUME TypeOK, [Next]_vars PROVE TypeOK'
  OBVIOUS
<1>a. /\ "created" \in Actions /\ "approved" \in Actions /\ "rejected" \in Actions
      /\ "retired" \in Actions /\ "expired" \in Actions
  BY DEF Actions
<1>s. /\ "pending_review" \in Statuses /\ "active" \in Statuses
      /\ "rejected" \in Statuses /\ "retired" \in Statuses /\ "expired" \in Statuses
  BY DEF Statuses
<1>w. worker \in [Workers -> Worker]
  BY DEF TypeOK, Worker, Pcs
<1>1. ASSUME NEW w \in Workers, NEW c \in Ids, CreateCandidate(w, c) PROVE TypeOK'
  <2>1. audit' \in [Ids -> Seq(Actions)]
    BY <1>1, <1>a, Append1Typed DEF CreateCandidate, TypeOK
  <2> QED
    BY <1>1, <2>1, <1>s DEF CreateCandidate, TypeOK, recovery
<1>2. ASSUME NEW w \in Workers, NEW c \in Ids, ReviewCandidate(w, c) PROVE TypeOK'
  <2>1. PICK resolution \in {"approved", "rejected"} :
          /\ status' = [status EXCEPT ![c] =
                          IF resolution = "approved" THEN "active" ELSE "rejected"]
          /\ audit' = Append1(audit, c, resolution)
    BY <1>2 DEF ReviewCandidate
  <2>2. resolution \in Actions
    BY DEF Actions
  <2>3. audit' \in [Ids -> Seq(Actions)]
    BY <2>1, <2>2, Append1Typed DEF TypeOK
  <2> QED
    BY <1>2, <2>1, <2>3, <1>s DEF ReviewCandidate, TypeOK, recovery
<1>3. ASSUME NEW w \in Workers, NEW c \in Ids, RetireCase(w, c) PROVE TypeOK'
  <2>1. audit' \in [Ids -> Seq(Actions)]
    BY <1>3, <1>a, Append1Typed DEF RetireCase, TypeOK
  <2> QED
    BY <1>3, <2>1, <1>s DEF RetireCase, TypeOK, recovery
<1>4. ASSUME NEW w \in Workers, NEW c \in Ids, AttachCheck(w, c) PROVE TypeOK'
  <2>1. worker' \in [Workers -> Worker]
    BY <1>4, <1>w DEF AttachCheck, Worker, Pcs
  <2> QED
    BY <1>4, <2>1 DEF AttachCheck, TypeOK, tables, recovery, Worker, Pcs
<1>5. ASSUME NEW w \in Workers, ExpireSelect(w) PROVE TypeOK'
  <2>1. PICK now \in Cutoffs :
          worker' = [worker EXCEPT ![w].pc = "expiring",
            ![w].cases = { c \in Ids : /\ status[c] = "active" /\ expires[c] # NoExpiry
                                       /\ expires[c] < now }]
    BY <1>5 DEF ExpireSelect
  <2>2. worker' \in [Workers -> Worker]
    BY <2>1, <1>w DEF Worker, Pcs
  <2> QED
    BY <1>5, <2>2 DEF ExpireSelect, TypeOK, tables, recovery, Worker, Pcs
<1>6. ASSUME NEW w \in Workers, ExpireUpdate(w) PROVE TypeOK'
  <2>1. \A c \in Ids : Append(audit[c], "expired") \in Seq(Actions)
    BY <1>a DEF TypeOK
  <2>2. worker' \in [Workers -> Worker]
    BY <1>6, RestTyped DEF ExpireUpdate
  <2> QED
    BY <1>6, <2>1, <2>2, <1>s DEF ExpireUpdate, TypeOK, recovery, Worker, Pcs
<1>7. ASSUME NEW w \in Workers, AttachInsert(w) PROVE TypeOK'
  <2>1. PICK c \in worker[w].cases, f \in Fixtures :
          fixture' = IF fixture[c] = NoFixture THEN [fixture EXCEPT ![c] = f] ELSE fixture
    BY <1>7 DEF AttachInsert
  <2>2. worker' \in [Workers -> Worker]
    BY <1>7, RestTyped DEF AttachInsert
  <2>3. fixture' \in [Ids -> Fixtures \union {NoFixture}]
    BY <2>1 DEF TypeOK
  <2> QED
    BY <1>7, <2>2, <2>3 DEF AttachInsert, TypeOK, recovery, Worker, Pcs
<1>8. ASSUME NEW w \in Workers, ExportFixtures(w) PROVE TypeOK'
  <2>0. \A job \in Worker : [job EXCEPT !.pc = "exporting", !.file.fixture = fixture] \in Worker
    BY DEF Worker, Pcs, File, TypeOK
  <2>1. worker' \in [Workers -> Worker]
    BY <1>8, <1>w, <2>0 DEF ExportFixtures
  <2> QED
    BY <1>8, <2>1 DEF ExportFixtures, TypeOK, tables, recovery, Worker, Pcs
<1>9. ASSUME NEW w \in Workers, ExportAudit(w) PROVE TypeOK'
  <2>0. \A job \in Worker : [job EXCEPT !.pc = "listing", !.file.audit = audit] \in Worker
    BY DEF Worker, Pcs, File, TypeOK
  <2>1. worker' \in [Workers -> Worker]
    BY <1>9, <1>w, <2>0 DEF ExportAudit
  <2> QED
    BY <1>9, <2>1 DEF ExportAudit, TypeOK, tables, recovery, Worker, Pcs
<1>10. ASSUME NEW w \in Workers, ExportCases(w) PROVE TypeOK'
  <2>1. worker' \in [Workers -> Worker]
    BY <1>10, RestTyped DEF ExportCases
  <2>2. worker[w].file \in File
    BY DEF TypeOK
  <2>3. snapshot' \in File \union {NoSnapshot}
    BY <1>10, <2>2 DEF ExportCases, TypeOK, File
  <2> QED
    BY <1>10, <2>1, <2>3 DEF ExportCases, TypeOK, tables, Worker, Pcs
<1>11. ASSUME NEW w \in Workers, ImportCheck(w) PROVE TypeOK'
  <2>1. worker' \in [Workers -> Worker]
    BY <1>11, <1>w DEF ImportCheck, Worker, Pcs, TypeOK
  <2> QED
    BY <1>11, <2>1 DEF ImportCheck, TypeOK, tables, recovery, Worker, Pcs
<1>12. ASSUME NEW w \in Workers, ImportWrite(w) PROVE TypeOK'
  <2>1. worker' \in [Workers -> Worker]
    BY <1>12, RestTyped DEF ImportWrite
  <2>2. worker[w].file \in File
    BY DEF TypeOK
  <2>3. /\ status' \in [Ids -> Statuses]
        /\ expires' \in [Ids -> Dates \union {NoExpiry}]
        /\ fixture' \in [Ids -> Fixtures \union {NoFixture}]
        /\ audit' \in [Ids -> Seq(Actions)]
        /\ malformed' \subseteq Ids
    <3> DEFINE file == worker[w].file
               Kept(mine, theirs) == [c \in Ids |-> IF file.status[c] = "absent"
                                                    THEN mine[c] ELSE theirs[c]]
    <3>1. CASE UNCHANGED tables
      BY <3>1 DEF TypeOK, tables
    <3>2. CASE /\ status' = Kept(status, file.status)
               /\ expires' = Kept(expires, file.expires)
               /\ fixture' = Kept(fixture, file.fixture)
               /\ audit' = Kept(audit, file.audit)
               /\ UNCHANGED malformed
      <4>1. /\ file.status \in [Ids -> Statuses]
            /\ file.expires \in [Ids -> Dates \union {NoExpiry}]
            /\ file.fixture \in [Ids -> Fixtures \union {NoFixture}]
            /\ file.audit \in [Ids -> Seq(Actions)]
        BY <2>2 DEF File
      <4> HIDE DEF file
      <4> QED
        BY <3>2, <4>1 DEF TypeOK
    <3> QED
      BY <1>12, <3>1, <3>2 DEF ImportWrite
  <2>4. explained' \in BOOLEAN
    <3>1. CASE UNCHANGED explained
      BY <3>1 DEF TypeOK
    <3>2. CASE explained' = (explained /\ Explains(worker[w].file.audit, worker[w].file.status))
      BY <3>2
    <3> QED
      BY <1>12, <3>1, <3>2 DEF ImportWrite
  <2> QED
    BY <1>12, <2>1, <2>3, <2>4 DEF ImportWrite, TypeOK, Worker, Pcs
<1>13. ASSUME LoseStore PROVE TypeOK'
  <2>1. Idle \in Worker
    BY EmptyFileTyped DEF Idle, Worker, Pcs
  <2>2. worker' \in [Workers -> Worker]
    BY <1>13, <2>1 DEF LoseStore
  <2>3. <<>> \in Seq(Actions)
    OBVIOUS
  <2> QED
    BY <1>13, <2>2, <2>3, BoundAssumption
       DEF LoseStore, TypeOK, Worker, Pcs, NoStatus, NoDates, NoFixtures, NoAudit, Statuses
<1>14. CASE UNCHANGED vars
  BY <1>14 DEF vars, TypeOK
<1> QED
  BY <1>1, <1>2, <1>3, <1>4, <1>5, <1>6, <1>7, <1>8, <1>9, <1>10, <1>11, <1>12, <1>13,
     <1>14 DEF Next

(* Type correctness for every value of the constants.                       *)
THEOREM TypeCorrect == Spec => []TypeOK
BY TypeInit, TypeStep, PTL DEF Spec

-----------------------------------------------------------------------------
(* The first inductive invariant: what a call has read a step ago is still  *)
(* true enough.  A case once active stays so, or closes; a case is never    *)
(* deleted; so what waits in a worker, and what the snapshot file holds,    *)
(* belongs to cases that are there.                                         *)

OnceActive == {"active", "expired", "retired"}

RowsBound ==
  \A c \in Ids : /\ audit[c] # <<>> => status[c] # "absent"
                 /\ fixture[c] # NoFixture => status[c] \in OnceActive

FileBound(file) ==
  \A c \in Ids : /\ file.audit[c] # <<>> => file.status[c] # "absent"
                 /\ file.fixture[c] # NoFixture => file.status[c] \in OnceActive

JobBound(job, rows) ==
  /\ job.pc \in {"expiring", "attaching"} => \A c \in job.cases : rows[c] \in OnceActive
  /\ job.pc \in {"exporting", "listing"} =>
       \A c \in Ids : job.file.fixture[c] # NoFixture => rows[c] \in OnceActive
  /\ job.pc = "listing" =>
       \A c \in Ids : job.file.audit[c] # <<>> => rows[c] # "absent"
  /\ job.pc = "importing" => FileBound(job.file)

Bound ==
  /\ TypeOK /\ RowsBound
  /\ \A w \in Workers : JobBound(worker[w], status)
  /\ snapshot # NoSnapshot => FileBound(snapshot)

\* No case is deleted, and none that was active is pending or rejected.
Forward ==
  \A c \in Ids : /\ status[c] # "absent" => status'[c] # "absent"
                 /\ status[c] \in OnceActive => status'[c] \in OnceActive

(* Every step but the loss of the file moves the statuses forward.          *)
LEMMA StatusMoves ==
  ASSUME Bound, [Next]_vars, ~LoseStore
  PROVE  Forward
<1> USE DEF Forward, OnceActive
<1>t. status \in [Ids -> Statuses]
  BY DEF Bound, TypeOK
<1>1. ASSUME NEW w \in Workers, NEW c \in Ids,
             CreateCandidate(w, c) \/ ReviewCandidate(w, c) \/ RetireCase(w, c)
      PROVE  Forward
  BY <1>1, <1>t DEF CreateCandidate, ReviewCandidate, RetireCase
<1>2. ASSUME NEW w \in Workers, ExpireUpdate(w) PROVE Forward
  BY <1>2 DEF ExpireUpdate
<1>3. ASSUME NEW w \in Workers, ImportWrite(w) PROVE Forward
  BY <1>3 DEF ImportWrite, tables
<1>4. ASSUME NEW w \in Workers,
             \/ \E c \in Ids : AttachCheck(w, c)
             \/ ExpireSelect(w) \/ AttachInsert(w) \/ ExportFixtures(w)
             \/ ExportAudit(w) \/ ExportCases(w) \/ ImportCheck(w)
      PROVE  status' = status
  BY <1>4 DEF AttachCheck, ExpireSelect, AttachInsert, ExportFixtures, ExportAudit,
              ExportCases, ImportCheck, tables
<1>5. CASE UNCHANGED vars
  BY <1>5 DEF vars
<1> QED
  BY <1>1, <1>2, <1>3, <1>4, <1>5 DEF Next

LEMMA BoundInit == Init => Bound
<1> SUFFICES ASSUME Init PROVE Bound
  OBVIOUS
<1>1. \A w \in Workers : JobBound(worker[w], status)
  BY DEF Init, Idle, JobBound
<1> QED
  BY <1>1, TypeInit DEF Init, Bound, RowsBound, NoAudit, NoFixtures

(* What one worker's step leaves to prove of all of them: a job that does   *)
(* not move stays true, and so does a worker at rest.                       *)
LEMMA JobsStay ==
  ASSUME Bound, Forward, NEW w \in Workers,
         \A v \in Workers \ {w} : worker'[v] = worker[v],
         worker'[w] = worker[w] \/ worker'[w] = Idle \/ JobBound(worker'[w], status')
  PROVE  \A v \in Workers : JobBound(worker'[v], status')
<1> SUFFICES ASSUME NEW v \in Workers PROVE JobBound(worker'[v], status')
  OBVIOUS
<1>1. CASE worker'[v] = worker[v]
  <2>1. JobBound(worker[v], status) /\ worker[v].cases \subseteq Ids
    BY DEF Bound, TypeOK
  <2> QED
    BY <1>1, <2>1 DEF Forward, JobBound
<1>2. CASE worker'[v] = Idle
  BY <1>2 DEF JobBound, Idle
<1> QED
  BY <1>1, <1>2

LEMMA BoundStep == Bound /\ [Next]_vars => Bound'
<1> SUFFICES ASSUME Bound, [Next]_vars PROVE Bound'
  OBVIOUS
<1>t. TypeOK /\ TypeOK'
  BY TypeStep DEF Bound
<1>r. RowsBound /\ (snapshot # NoSnapshot => FileBound(snapshot))
  BY DEF Bound
<1>j. \A w \in Workers : JobBound(worker[w], status)
  BY DEF Bound
<1>f. LoseStore \/ Forward
  BY StatusMoves
<1>s. Bound' <=> /\ RowsBound'
                 /\ \A w \in Workers : JobBound(worker'[w], status')
                 /\ snapshot' # NoSnapshot => FileBound(snapshot')
  BY <1>t DEF Bound, JobBound, FileBound
<1>1. ASSUME NEW w \in Workers, NEW c \in Ids,
             CreateCandidate(w, c) \/ ReviewCandidate(w, c) \/ RetireCase(w, c)
      PROVE  Bound'
  <2>1. RowsBound'
    BY <1>1, <1>r, <1>t DEF CreateCandidate, ReviewCandidate, RetireCase, RowsBound,
                            Append1, OnceActive, TypeOK
  <2>2. worker' = worker /\ snapshot' = snapshot /\ Forward
    BY <1>1, <1>t, StatusMoves
       DEF CreateCandidate, ReviewCandidate, RetireCase, recovery, Forward, OnceActive, TypeOK
  <2>3. \A v \in Workers : JobBound(worker'[v], status')
    BY <2>2, JobsStay
  <2> QED
    BY <1>s, <1>r, <2>1, <2>2, <2>3
<1>2. ASSUME NEW w \in Workers, NEW c \in Ids, AttachCheck(w, c) PROVE Bound'
  <2>1. /\ UNCHANGED <<status, fixture, audit, snapshot>>
        /\ \A v \in Workers \ {w} : worker'[v] = worker[v]
        /\ worker'[w].pc = "attaching" /\ worker'[w].cases = {c} /\ status[c] = "active"
    BY <1>2, <1>t DEF AttachCheck, tables, recovery, TypeOK
  <2>2. JobBound(worker'[w], status') /\ RowsBound' /\ Forward
    BY <2>1, <1>r DEF JobBound, RowsBound, Forward, OnceActive
  <2> QED
    BY <1>s, <1>r, <2>1, <2>2, JobsStay
<1>3. ASSUME NEW w \in Workers, ExpireSelect(w) PROVE Bound'
  <2>1. PICK now \in Cutoffs :
          worker' = [worker EXCEPT ![w].pc = "expiring",
            ![w].cases = { c \in Ids : /\ status[c] = "active" /\ expires[c] # NoExpiry
                                       /\ expires[c] < now }]
    BY <1>3 DEF ExpireSelect
  <2>2. UNCHANGED <<status, fixture, audit, snapshot>>
    BY <1>3 DEF ExpireSelect, tables, recovery
  <2>3. /\ \A v \in Workers \ {w} : worker'[v] = worker[v]
        /\ worker'[w].pc = "expiring"
        /\ \A c \in worker'[w].cases : status[c] = "active"
    BY <2>1, <1>t DEF TypeOK
  <2>4. JobBound(worker'[w], status') /\ RowsBound' /\ Forward
    BY <2>2, <2>3, <1>r DEF JobBound, RowsBound, Forward, OnceActive
  <2> QED
    BY <1>s, <1>r, <2>2, <2>3, <2>4, JobsStay
<1>4. ASSUME NEW w \in Workers, ExpireUpdate(w) PROVE Bound'
  <2>1. \A c \in worker[w].cases : status[c] \in OnceActive
    BY <1>4, <1>j DEF ExpireUpdate, JobBound
  <2>2. RowsBound'
    BY <1>4, <1>r, <2>1 DEF ExpireUpdate, RowsBound, OnceActive
  <2>3. /\ Forward /\ snapshot' = snapshot
        /\ \A v \in Workers \ {w} : worker'[v] = worker[v]
        /\ worker'[w] = Idle
    BY <1>4, <1>t DEF ExpireUpdate, Rest, recovery, Forward, OnceActive, TypeOK
  <2> QED
    BY <1>s, <1>r, <2>2, <2>3, JobsStay
<1>5. ASSUME NEW w \in Workers, AttachInsert(w) PROVE Bound'
  <2>1. \A c \in worker[w].cases : status[c] \in OnceActive
    BY <1>5, <1>j DEF AttachInsert, JobBound
  <2>2. PICK c \in worker[w].cases, f \in Fixtures :
          fixture' = IF fixture[c] = NoFixture THEN [fixture EXCEPT ![c] = f] ELSE fixture
    BY <1>5 DEF AttachInsert
  <2>3. /\ UNCHANGED <<status, audit, snapshot>>
        /\ \A v \in Workers \ {w} : worker'[v] = worker[v]
        /\ worker'[w] = Idle
    BY <1>5, <1>t DEF AttachInsert, Rest, recovery, TypeOK
  <2>4. RowsBound'
    BY <2>1, <2>2, <2>3, <1>r, <1>t DEF RowsBound, TypeOK
  <2>5. Forward
    BY <2>3 DEF Forward
  <2> QED
    BY <1>s, <1>r, <2>3, <2>4, <2>5, JobsStay
<1>6. ASSUME NEW w \in Workers, ExportFixtures(w) PROVE Bound'
  <2>1. /\ UNCHANGED <<status, fixture, audit, snapshot>>
        /\ \A v \in Workers \ {w} : worker'[v] = worker[v]
    BY <1>6, <1>t DEF ExportFixtures, tables, recovery, TypeOK
  <2>2. worker'[w].pc = "exporting" /\ worker'[w].file.fixture = fixture
    BY <1>6, <1>t DEF ExportFixtures, TypeOK, File
  <2>3. JobBound(worker'[w], status') /\ RowsBound' /\ Forward
    BY <2>1, <2>2, <1>r DEF JobBound, RowsBound, Forward
  <2> QED
    BY <1>s, <1>r, <2>1, <2>3, JobsStay
<1>7. ASSUME NEW w \in Workers, ExportAudit(w) PROVE Bound'
  <2>1. /\ UNCHANGED <<status, fixture, audit, snapshot>>
        /\ \A v \in Workers \ {w} : worker'[v] = worker[v]
    BY <1>7, <1>t DEF ExportAudit, tables, recovery, TypeOK
  <2>2. /\ worker'[w].pc = "listing" /\ worker'[w].file.audit = audit
        /\ worker'[w].file.fixture = worker[w].file.fixture
    BY <1>7, <1>t DEF ExportAudit, TypeOK, File
  <2>3. \A c \in Ids : worker[w].file.fixture[c] # NoFixture => status[c] \in OnceActive
    BY <1>7, <1>j DEF ExportAudit, JobBound
  <2>4. JobBound(worker'[w], status') /\ RowsBound' /\ Forward
    BY <2>1, <2>2, <2>3, <1>r DEF JobBound, RowsBound, Forward
  <2> QED
    BY <1>s, <1>r, <2>1, <2>4, JobsStay
<1>8. ASSUME NEW w \in Workers, ExportCases(w) PROVE Bound'
  <2>1. /\ UNCHANGED <<status, fixture, audit>>
        /\ \A v \in Workers \ {w} : worker'[v] = worker[v]
        /\ worker'[w] = Idle
    BY <1>8, <1>t DEF ExportCases, Rest, tables, TypeOK
  <2>2. \A c \in Ids : /\ worker[w].file.fixture[c] # NoFixture => status[c] \in OnceActive
                       /\ worker[w].file.audit[c] # <<>> => status[c] # "absent"
    BY <1>8, <1>j DEF ExportCases, JobBound
  <2>3. snapshot' # NoSnapshot => FileBound(snapshot')
    <3>1. CASE snapshot' = snapshot
      BY <3>1, <1>r
    <3>2. CASE snapshot' = [worker[w].file EXCEPT !.status = status, !.expires = expires]
      <4>1. worker[w].file \in File
        BY <1>t DEF TypeOK
      <4>2. /\ snapshot'.status = status /\ snapshot'.audit = worker[w].file.audit
            /\ snapshot'.fixture = worker[w].file.fixture
        BY <3>2, <4>1 DEF File
      <4> QED
        BY <4>2, <2>2 DEF FileBound
    <3> QED
      BY <1>8, <3>1, <3>2 DEF ExportCases
  <2>4. RowsBound' /\ Forward
    BY <2>1, <1>r DEF RowsBound, Forward
  <2> QED
    BY <1>s, <2>1, <2>3, <2>4, JobsStay
<1>9. ASSUME NEW w \in Workers, ImportCheck(w) PROVE Bound'
  <2>1. /\ UNCHANGED <<status, fixture, audit, snapshot>>
        /\ \A v \in Workers \ {w} : worker'[v] = worker[v]
        /\ worker'[w].pc = "importing" /\ worker'[w].file = snapshot
        /\ snapshot # NoSnapshot
    BY <1>9, <1>t DEF ImportCheck, tables, recovery, TypeOK
  <2>2. JobBound(worker'[w], status') /\ RowsBound' /\ Forward
    BY <2>1, <1>r DEF JobBound, RowsBound, Forward
  <2> QED
    BY <1>s, <1>r, <2>1, <2>2, JobsStay
<1>10. ASSUME NEW w \in Workers, ImportWrite(w) PROVE Bound'
  <2> DEFINE file == worker[w].file
             Kept(mine, theirs) == [c \in Ids |-> IF file.status[c] = "absent"
                                                  THEN mine[c] ELSE theirs[c]]
  <2>1. FileBound(file)
    BY <1>10, <1>j DEF ImportWrite, JobBound
  <2>2. RowsBound'
    <3>1. CASE UNCHANGED tables
      BY <3>1, <1>r DEF RowsBound, tables
    <3>2. CASE /\ status' = Kept(status, file.status)
               /\ fixture' = Kept(fixture, file.fixture)
               /\ audit' = Kept(audit, file.audit)
      <4> SUFFICES ASSUME NEW c \in Ids
                   PROVE  /\ audit'[c] # <<>> => status'[c] # "absent"
                          /\ fixture'[c] # NoFixture => status'[c] \in OnceActive
        BY DEF RowsBound
      <4>1. CASE file.status[c] = "absent"
        BY <3>2, <4>1, <1>r DEF RowsBound
      <4>2. CASE file.status[c] # "absent"
        BY <3>2, <4>2, <2>1 DEF FileBound
      <4> QED
        BY <4>1, <4>2
    <3> QED
      BY <1>10, <3>1, <3>2 DEF ImportWrite
  <2>3. /\ snapshot' = snapshot
        /\ \A v \in Workers \ {w} : worker'[v] = worker[v]
        /\ worker'[w] = Idle
    BY <1>10, <1>t DEF ImportWrite, Rest, TypeOK
  <2>4. Forward
    BY <1>10 DEF ImportWrite, Forward, OnceActive, tables
  <2> QED
    BY <1>s, <1>r, <2>2, <2>3, <2>4, JobsStay
<1>11. ASSUME LoseStore PROVE Bound'
  <2>1. /\ \A w \in Workers : worker'[w] = Idle
        /\ status' = NoStatus /\ fixture' = NoFixtures /\ audit' = NoAudit
        /\ snapshot' = snapshot
    BY <1>11 DEF LoseStore
  <2>2. RowsBound' /\ JobBound(Idle, status')
    BY <2>1 DEF RowsBound, NoFixtures, NoAudit, JobBound, Idle
  <2> QED
    BY <1>s, <1>r, <2>1, <2>2
<1>12. CASE UNCHANGED vars
  BY <1>12, <1>r, <1>j, <1>s DEF vars, RowsBound
<1> QED
  BY <1>1, <1>2, <1>3, <1>4, <1>5, <1>6, <1>7, <1>8, <1>9, <1>10, <1>11, <1>12 DEF Next

-----------------------------------------------------------------------------
(* What follows from it.                                                    *)

(* A snapshot can be imported, whatever went on while it was taken, by any  *)
(* number of workers over any number of cases.                              *)
THEOREM SnapshotsImportable == Spec => []SnapshotImportable
<1>1. Bound => SnapshotImportable
  BY DEF Bound, SnapshotImportable, Valid, FileBound, OnceActive
<1> QED
  BY <1>1, BoundInit, BoundStep, PTL DEF Spec

(* What the import of a file does to a case that is there: nothing.         *)
LEMMA ImportKeeps ==
  ASSUME TypeOK, NEW w \in Workers, ImportWrite(w), NEW c \in Ids, status[c] # "absent"
  PROVE  status'[c] = status[c] /\ fixture'[c] = fixture[c] /\ audit'[c] = audit[c]
BY DEF ImportWrite, tables

(* The first resolution or closure of a case stands, although an expiry     *)
(* writes over a status it read a step before.                              *)
THEOREM ClosedCasesStay == Spec => ClosedStaysClosed
<1> DEFINE Stays == \A c \in Ids : status[c] \in {"rejected", "expired", "retired"} =>
             \/ Lost
             \/ status'[c] = status[c]
             \/ status'[c] \in {"expired", "retired"} /\ status[c] # "rejected"
<1>1. ASSUME Bound, [Next]_vars PROVE Stays
  <2> SUFFICES ASSUME NEW c \in Ids, status[c] \in {"rejected", "expired", "retired"}, ~Lost
               PROVE  \/ status'[c] = status[c]
                      \/ status'[c] \in {"expired", "retired"} /\ status[c] # "rejected"
    OBVIOUS
  <2>t. TypeOK
    BY <1>1 DEF Bound
  <2>1. ASSUME NEW w \in Workers, NEW b \in Ids,
               CreateCandidate(w, b) \/ ReviewCandidate(w, b) \/ RetireCase(w, b)
        PROVE  status'[c] = status[c]
    BY <2>1, <2>t DEF CreateCandidate, ReviewCandidate, RetireCase, TypeOK
  <2>2. ASSUME NEW w \in Workers, ExpireUpdate(w)
        PROVE  \/ status'[c] = status[c]
               \/ status'[c] = "expired" /\ status[c] # "rejected"
    <3>1. c \in worker[w].cases => status[c] \in OnceActive
      BY <1>1, <2>2 DEF Bound, JobBound, ExpireUpdate
    <3> QED
      BY <2>2, <3>1 DEF ExpireUpdate, OnceActive
  <2>3. ASSUME NEW w \in Workers, ImportWrite(w) PROVE status'[c] = status[c]
    BY <2>3, <2>t, ImportKeeps
  <2>4. ASSUME NEW w \in Workers,
               \/ \E b \in Ids : AttachCheck(w, b)
               \/ ExpireSelect(w) \/ AttachInsert(w) \/ ExportFixtures(w)
               \/ ExportAudit(w) \/ ExportCases(w) \/ ImportCheck(w)
        PROVE  status' = status
    BY <2>4 DEF AttachCheck, ExpireSelect, AttachInsert, ExportFixtures, ExportAudit,
                ExportCases, ImportCheck, tables
  <2>5. CASE UNCHANGED vars
    BY <2>5 DEF vars
  <2>6. ~LoseStore
    BY DEF LoseStore, Lost
  <2> QED
    BY <1>1, <2>1, <2>2, <2>3, <2>4, <2>5, <2>6 DEF Next
<1> QED
  BY <1>1, BoundInit, BoundStep, PTL DEF Spec, ClosedStaysClosed

(* A fixture, once bound, is never replaced, by a second attachment or by   *)
(* an import.                                                               *)
LEMMA FixtureStays ==
  ASSUME Bound, [Next]_vars, ~LoseStore, NEW c \in Ids, fixture[c] # NoFixture
  PROVE  fixture'[c] = fixture[c]
<1>t. TypeOK /\ status[c] # "absent"
  BY DEF Bound, RowsBound, OnceActive
<1>1. ASSUME NEW w \in Workers, AttachInsert(w) PROVE fixture'[c] = fixture[c]
  BY <1>1, <1>t DEF AttachInsert, TypeOK
<1>2. ASSUME NEW w \in Workers, ImportWrite(w) PROVE fixture'[c] = fixture[c]
  BY <1>2, <1>t, ImportKeeps
<1>3. ASSUME NEW w \in Workers,
             \/ \E b \in Ids : \/ CreateCandidate(w, b) \/ ReviewCandidate(w, b)
                             \/ RetireCase(w, b) \/ AttachCheck(w, b)
             \/ ExpireSelect(w) \/ ExpireUpdate(w) \/ ExportFixtures(w)
             \/ ExportAudit(w) \/ ExportCases(w) \/ ImportCheck(w)
      PROVE  fixture' = fixture
  BY <1>3 DEF CreateCandidate, ReviewCandidate, RetireCase, AttachCheck, ExpireSelect,
              ExpireUpdate, ExportFixtures, ExportAudit, ExportCases, ImportCheck, tables
<1>4. CASE UNCHANGED vars
  BY <1>4 DEF vars
<1> QED
  BY <1>1, <1>2, <1>3, <1>4 DEF Next

THEOREM FixturesImmutable == Spec => FixtureImmutable
<1>1. ASSUME Bound, [Next]_vars
      PROVE  \A c \in Ids : fixture[c] # NoFixture => Lost \/ fixture'[c] = fixture[c]
  BY <1>1, FixtureStays DEF LoseStore, Lost
<1> QED
  BY <1>1, BoundInit, BoundStep, PTL DEF Spec, FixtureImmutable

(* The audit rows of a case are only ever appended to.                      *)
LEMMA PrefixOfAppend ==
  ASSUME NEW log \in Seq(Actions), NEW action \in Actions
  PROVE  IsPrefix(log, Append(log, action)) /\ IsPrefix(log, log)
<1> DEFINE new == Append(log, action)
<1>1. /\ new \in Seq(Actions) /\ Len(new) = Len(log) + 1 /\ Len(log) \in Nat
      /\ \A i \in 1..Len(log) : new[i] = log[i]
  OBVIOUS
<1>2. SubSeq(new, 1, Len(log)) = SubSeq(log, 1, Len(log))
  BY <1>1
<1> QED
  BY <1>1, <1>2 DEF IsPrefix

THEOREM AuditsAppendOnly == Spec => AuditAppendOnly
<1>1. ASSUME Bound, [Next]_vars PROVE AuditGrows
  <2> SUFFICES ASSUME NEW c \in Ids, ~Lost PROVE IsPrefix(audit[c], audit'[c])
    BY DEF AuditGrows
  <2>t. TypeOK /\ TypeOK' /\ audit[c] \in Seq(Actions) /\ audit'[c] \in Seq(Actions)
    BY <1>1, TypeStep DEF Bound, TypeOK
  <2>a. \A action \in Actions : IsPrefix(audit[c], Append(audit[c], action))
    BY <2>t, PrefixOfAppend
  <2>b. IsPrefix(audit[c], audit[c])
    <3>1. "created" \in Actions
      BY DEF Actions
    <3> QED
      BY <2>t, <3>1, PrefixOfAppend
  <2>1. ASSUME NEW w \in Workers, NEW b \in Ids,
               CreateCandidate(w, b) \/ ReviewCandidate(w, b) \/ RetireCase(w, b)
        PROVE  IsPrefix(audit[c], audit'[c])
    <3>1. PICK action \in Actions : audit' = Append1(audit, b, action)
      BY <2>1 DEF CreateCandidate, ReviewCandidate, RetireCase, Actions
    <3>2. audit'[c] = audit[c] \/ audit'[c] = Append(audit[c], action)
      BY <3>1, <2>t DEF Append1, TypeOK
    <3> QED
      BY <3>1, <3>2, <2>a, <2>b
  <2>2. ASSUME NEW w \in Workers, ExpireUpdate(w) PROVE IsPrefix(audit[c], audit'[c])
    <3>1. audit'[c] = audit[c] \/ audit'[c] = Append(audit[c], "expired")
      BY <2>2 DEF ExpireUpdate
    <3>2. "expired" \in Actions
      BY DEF Actions
    <3> QED
      BY <3>1, <3>2, <2>a, <2>b
  <2>3. ASSUME NEW w \in Workers, ImportWrite(w) PROVE IsPrefix(audit[c], audit'[c])
    <3>1. CASE status[c] = "absent"
      <4>1. audit[c] = <<>>
        BY <1>1, <3>1 DEF Bound, RowsBound
      <4>2. SubSeq(audit[c], 1, Len(audit[c])) = SubSeq(audit'[c], 1, Len(audit[c]))
        BY <4>1, <2>t
      <4> QED
        BY <4>1, <4>2, <2>t DEF IsPrefix
    <3>2. CASE status[c] # "absent"
      BY <2>3, <3>2, <2>t, <2>a, <2>b, ImportKeeps
    <3> QED
      BY <3>1, <3>2
  <2>4. ASSUME NEW w \in Workers,
               \/ \E b \in Ids : AttachCheck(w, b)
               \/ ExpireSelect(w) \/ AttachInsert(w) \/ ExportFixtures(w)
               \/ ExportAudit(w) \/ ExportCases(w) \/ ImportCheck(w)
        PROVE  IsPrefix(audit[c], audit'[c])
    <3>1. audit' = audit
      BY <2>4 DEF AttachCheck, ExpireSelect, AttachInsert, ExportFixtures, ExportAudit,
                ExportCases, ImportCheck, tables
    <3> QED
      BY <3>1, <2>b
  <2>5. ASSUME UNCHANGED vars PROVE IsPrefix(audit[c], audit'[c])
    <3>1. audit' = audit
      BY <2>5 DEF vars
    <3> QED
      BY <3>1, <2>b
  <2>6. ~LoseStore
    BY DEF LoseStore, Lost
  <2> QED
    BY <1>1, <2>1, <2>2, <2>3, <2>4, <2>5, <2>6 DEF Next
<1> QED
  BY <1>1, BoundInit, BoundStep, PTL DEF Spec, AuditAppendOnly

-----------------------------------------------------------------------------
(* The second inductive invariant: until a torn snapshot is imported, every *)
(* log, in the table, in a worker's hands or in the snapshot file, is one   *)
(* that reviews can leave, and the logs of the table explain its statuses.  *)

SoundLog(log) ==
  /\ StatusAfter(log) \in {"absent", "pending_review"} =>
       \A i \in DOMAIN log : log[i] \notin {"approved", "rejected"}
  /\ StatusAfter(log) \in OnceActive =>
       \E i \in DOMAIN log :
         /\ log[i] = "approved"
         /\ \A j \in DOMAIN log : log[j] \in {"approved", "rejected"} => j = i

Explained ==
  explained =>
    /\ Explains(audit, status)
    /\ \A c \in Ids : SoundLog(audit[c])
    /\ \A w \in Workers, c \in Ids : SoundLog(worker[w].file.audit[c])
    /\ snapshot # NoSnapshot => \A c \in Ids : SoundLog(snapshot.audit[c])

LEMMA EmptyLog == StatusAfter(<<>>) = "absent" /\ SoundLog(<<>>)
BY DEF StatusAfter, SoundLog, OnceActive

LEMMA AfterAppend ==
  ASSUME NEW log \in Seq(Actions), NEW action \in Actions
  PROVE  /\ Append(log, action) # <<>>
         /\ Last(Append(log, action)) = action
         /\ DOMAIN Append(log, action) = 1..(Len(log) + 1)
         /\ DOMAIN log = 1..Len(log) /\ Len(log) \in Nat
         /\ \A i \in 1..Len(log) : Append(log, action)[i] = log[i]
         /\ Append(log, action)[Len(log) + 1] = action
BY DEF Last

LEMMA OnlyEmptyIsAbsent ==
  ASSUME NEW log \in Seq(Actions), StatusAfter(log) = "absent"
  PROVE  log = <<>>
<1>1. CASE log # <<>>
  <2>1. Last(log) \in Actions
    BY <1>1 DEF Last
  <2> QED
    BY <1>1, <2>1 DEF StatusAfter, Actions
<1> QED
  BY <1>1

(* What the calls append is what the statuses they start from allow.        *)
LEMMA LogGrows ==
  ASSUME NEW log \in Seq(Actions), SoundLog(log)
  PROVE  /\ log = <<>> => /\ StatusAfter(Append(log, "created")) = "pending_review"
                          /\ SoundLog(Append(log, "created"))
         /\ StatusAfter(log) = "pending_review" =>
              /\ StatusAfter(Append(log, "approved")) = "active"
              /\ SoundLog(Append(log, "approved"))
              /\ StatusAfter(Append(log, "rejected")) = "rejected"
              /\ SoundLog(Append(log, "rejected"))
         /\ StatusAfter(log) \in OnceActive =>
              \A action \in {"expired", "retired"} :
                /\ StatusAfter(Append(log, action)) = action
                /\ SoundLog(Append(log, action))
<1>a. \A action \in {"created", "approved", "rejected", "expired", "retired"} :
        action \in Actions
  BY DEF Actions
<1>1. ASSUME log = <<>>
      PROVE  /\ StatusAfter(Append(log, "created")) = "pending_review"
             /\ SoundLog(Append(log, "created"))
  <2> DEFINE new == Append(log, "created")
  <2>1. /\ DOMAIN new = 1..1 /\ new[1] = "created" /\ new # <<>> /\ Last(new) = "created"
    <3>1. new = <<"created">>
      BY <1>1
    <3> QED
      BY <3>1 DEF Last
  <2>2. StatusAfter(new) = "pending_review"
    BY <2>1 DEF StatusAfter
  <2> HIDE DEF new
  <2>3. SoundLog(new)
    BY <2>1, <2>2 DEF SoundLog, OnceActive
  <2> QED
    BY <2>2, <2>3 DEF new
<1>2. ASSUME StatusAfter(log) = "pending_review"
      PROVE  /\ StatusAfter(Append(log, "approved")) = "active"
             /\ SoundLog(Append(log, "approved"))
             /\ StatusAfter(Append(log, "rejected")) = "rejected"
             /\ SoundLog(Append(log, "rejected"))
  <2>1. \A i \in DOMAIN log : log[i] \notin {"approved", "rejected"}
    BY <1>2 DEF SoundLog
  <2>2. /\ StatusAfter(Append(log, "approved")) = "active"
        /\ StatusAfter(Append(log, "rejected")) = "rejected"
    BY <1>a, AfterAppend DEF StatusAfter
  <2>3. SoundLog(Append(log, "approved"))
    <3> DEFINE new == Append(log, "approved")
    <3>1. /\ DOMAIN new = 1..(Len(log) + 1) /\ Len(log) \in Nat
          /\ DOMAIN log = 1..Len(log)
          /\ \A i \in 1..Len(log) : new[i] = log[i]
          /\ new[Len(log) + 1] = "approved"
      BY <1>a, AfterAppend
    <3>2. \A j \in DOMAIN new : new[j] \in {"approved", "rejected"} => j = Len(log) + 1
      BY <3>1, <2>1
    <3> QED
      BY <2>2, <3>1, <3>2 DEF SoundLog
  <2>4. SoundLog(Append(log, "rejected"))
    BY <2>2 DEF SoundLog, OnceActive
  <2> QED
    BY <2>2, <2>3, <2>4
<1>3. ASSUME StatusAfter(log) \in OnceActive, NEW action \in {"expired", "retired"}
      PROVE  /\ StatusAfter(Append(log, action)) = action
             /\ SoundLog(Append(log, action))
  <2> DEFINE new == Append(log, action)
  <2>1. PICK i \in DOMAIN log :
          /\ log[i] = "approved"
          /\ \A j \in DOMAIN log : log[j] \in {"approved", "rejected"} => j = i
    BY <1>3 DEF SoundLog
  <2>2. /\ DOMAIN new = 1..(Len(log) + 1) /\ Len(log) \in Nat /\ DOMAIN log = 1..Len(log)
        /\ \A k \in 1..Len(log) : new[k] = log[k]
        /\ new[Len(log) + 1] = action /\ new # <<>> /\ Last(new) = action
    BY <1>a, AfterAppend
  <2>3. StatusAfter(new) = action
    BY <2>2 DEF StatusAfter
  <2>4. /\ i \in DOMAIN new /\ new[i] = "approved"
        /\ \A j \in DOMAIN new : new[j] \in {"approved", "rejected"} => j = i
    BY <2>1, <2>2
  <2> QED
    BY <2>3, <2>4 DEF SoundLog
<1> QED
  BY <1>1, <1>2, <1>3

LEMMA ExplainedInit == Init => Explained
<1> SUFFICES ASSUME Init PROVE Explained
  OBVIOUS
<1>1. \A c \in Ids : audit[c] = <<>> /\ status[c] = "absent"
  BY DEF Init, NoAudit, NoStatus
<1>2. \A w \in Workers, c \in Ids : worker[w].file.audit[c] = <<>>
  BY DEF Init, Idle, EmptyFile, NoAudit
<1> QED
  BY <1>1, <1>2, EmptyLog DEF Init, Explained, Explains

(* One case's log, extended: the other logs are what they were.             *)
LEMMA RowsExplained ==
  ASSUME TypeOK, Explains(audit, status), \A c \in Ids : SoundLog(audit[c]),
         NEW b \in Ids, NEW action \in Actions,
         audit' = Append1(audit, b, action),
         \A c \in Ids \ {b} : status'[c] = status[c],
         status'[b] = StatusAfter(Append(audit[b], action)),
         SoundLog(Append(audit[b], action))
  PROVE  Explains(audit', status') /\ \A c \in Ids : SoundLog(audit'[c])
<1>1. \A c \in Ids : audit'[c] = IF c = b THEN Append(audit[b], action) ELSE audit[c]
  BY DEF Append1, TypeOK
<1> QED
  BY <1>1 DEF Explains

LEMMA RestLogs ==
  ASSUME TypeOK, NEW w \in Workers, Rest(w),
         \A v \in Workers, c \in Ids : SoundLog(worker[v].file.audit[c])
  PROVE  \A v \in Workers, c \in Ids : SoundLog(worker'[v].file.audit[c])
<1>1. \A v \in Workers : worker'[v] = IF v = w THEN Idle ELSE worker[v]
  BY DEF Rest, TypeOK
<1>2. \A c \in Ids : Idle.file.audit[c] = <<>>
  BY DEF Idle, EmptyFile, NoAudit
<1> QED
  BY <1>1, <1>2, EmptyLog

LEMMA ExplainedStep == Bound /\ Explained /\ [Next]_vars => Explained'
<1> SUFFICES ASSUME Bound, Explained, [Next]_vars, explained'
             PROVE  /\ Explains(audit', status')
                    /\ \A c \in Ids : SoundLog(audit'[c])
                    /\ \A w \in Workers, c \in Ids : SoundLog(worker'[w].file.audit[c])
                    /\ snapshot' # NoSnapshot =>
                         \A c \in Ids : SoundLog(snapshot'.audit[c])
  BY DEF Explained, Explains, SoundLog
<1> DEFINE Goal == /\ Explains(audit', status')
                   /\ \A c \in Ids : SoundLog(audit'[c])
                   /\ \A w \in Workers, c \in Ids : SoundLog(worker'[w].file.audit[c])
                   /\ snapshot' # NoSnapshot =>
                        \A c \in Ids : SoundLog(snapshot'.audit[c])
<1>t. TypeOK
  BY DEF Bound
<1>a. \A action \in {"created", "approved", "rejected", "expired", "retired"} :
        action \in Actions
  BY DEF Actions
<1>e. explained
  BY <1>t DEF Next, CreateCandidate, ReviewCandidate, RetireCase, AttachCheck,
     ExpireSelect, ExpireUpdate, AttachInsert, ExportFixtures, ExportAudit, ExportCases,
     ImportCheck, ImportWrite, LoseStore, recovery, vars
<1>s. /\ Explains(audit, status)
      /\ \A c \in Ids : SoundLog(audit[c])
      /\ \A w \in Workers, c \in Ids : SoundLog(worker[w].file.audit[c])
      /\ snapshot # NoSnapshot => \A c \in Ids : SoundLog(snapshot.audit[c])
  BY <1>e DEF Explained
<1>l. \A c \in Ids : audit[c] \in Seq(Actions) /\ status[c] = StatusAfter(audit[c])
  BY <1>t, <1>s DEF TypeOK, Explains
<1>1. ASSUME NEW w \in Workers, NEW b \in Ids, CreateCandidate(w, b) PROVE Goal
  <2>1. audit[b] = <<>>
    BY <1>1, <1>l, OnlyEmptyIsAbsent DEF CreateCandidate
  <2>2. /\ StatusAfter(Append(audit[b], "created")) = "pending_review"
        /\ SoundLog(Append(audit[b], "created"))
    BY <2>1, <1>l, <1>s, LogGrows
  <2>3. Explains(audit', status') /\ \A c \in Ids : SoundLog(audit'[c])
    BY <1>1, <1>a, <1>s, <1>t, <2>2, RowsExplained DEF CreateCandidate, TypeOK
  <2> QED
    BY <1>1, <1>s, <2>3 DEF CreateCandidate, recovery
<1>2. ASSUME NEW w \in Workers, NEW b \in Ids, ReviewCandidate(w, b) PROVE Goal
  <2>1. PICK resolution \in {"approved", "rejected"} :
          /\ status' = [status EXCEPT ![b] =
                          IF resolution = "approved" THEN "active" ELSE "rejected"]
          /\ audit' = Append1(audit, b, resolution)
    BY <1>2 DEF ReviewCandidate
  <2>2. StatusAfter(audit[b]) = "pending_review"
    BY <1>2, <1>l DEF ReviewCandidate
  <2>3. /\ StatusAfter(Append(audit[b], resolution)) =
             IF resolution = "approved" THEN "active" ELSE "rejected"
        /\ SoundLog(Append(audit[b], resolution))
    BY <2>2, <1>l, <1>s, LogGrows
  <2>4. /\ status'[b] = IF resolution = "approved" THEN "active" ELSE "rejected"
        /\ \A c \in Ids \ {b} : status'[c] = status[c]
    BY <2>1, <1>t DEF TypeOK
  <2>5. Explains(audit', status') /\ \A c \in Ids : SoundLog(audit'[c])
    BY <1>a, <1>s, <1>t, <2>1, <2>3, <2>4, RowsExplained
  <2> QED
    BY <1>2, <1>s, <2>5 DEF ReviewCandidate, recovery
<1>3. ASSUME NEW w \in Workers, NEW b \in Ids, RetireCase(w, b) PROVE Goal
  <2>1. StatusAfter(audit[b]) \in OnceActive
    BY <1>3, <1>l DEF RetireCase, OnceActive
  <2>2. /\ StatusAfter(Append(audit[b], "retired")) = "retired"
        /\ SoundLog(Append(audit[b], "retired"))
    BY <2>1, <1>l, <1>s, LogGrows
  <2>3. Explains(audit', status') /\ \A c \in Ids : SoundLog(audit'[c])
    BY <1>3, <1>a, <1>s, <1>t, <2>2, RowsExplained DEF RetireCase, TypeOK
  <2> QED
    BY <1>3, <1>s, <2>3 DEF RetireCase, recovery
<1>4. ASSUME NEW w \in Workers, ExpireUpdate(w) PROVE Goal
  <2>1. \A c \in worker[w].cases : c \in Ids => status[c] \in OnceActive
    BY <1>4 DEF Bound, JobBound, ExpireUpdate
  <2>2. ASSUME NEW c \in Ids
        PROVE  status'[c] = StatusAfter(audit'[c]) /\ SoundLog(audit'[c])
    <3>1. CASE c \in worker[w].cases
      <4>1. audit'[c] = Append(audit[c], "expired") /\ status'[c] = "expired"
        BY <1>4, <3>1 DEF ExpireUpdate
      <4>2. StatusAfter(audit[c]) \in OnceActive
        BY <2>1, <3>1, <1>l
      <4> QED
        BY <4>1, <4>2, <1>l, <1>s, LogGrows
    <3>2. CASE c \notin worker[w].cases
      BY <1>4, <3>2, <1>l, <1>s DEF ExpireUpdate
    <3> QED
      BY <3>1, <3>2
  <2>3. \A v \in Workers, c \in Ids : SoundLog(worker'[v].file.audit[c])
    BY <1>4, <1>s, <1>t, RestLogs DEF ExpireUpdate
  <2> QED
    BY <1>4, <1>s, <2>2, <2>3 DEF ExpireUpdate, Explains, recovery
<1>5. ASSUME NEW w \in Workers,
             \/ \E b \in Ids : AttachCheck(w, b)
             \/ ExpireSelect(w) \/ ExportFixtures(w)
      PROVE  Goal
  <2>1. UNCHANGED <<status, audit, snapshot>>
    BY <1>5 DEF AttachCheck, ExpireSelect, ExportFixtures, tables, recovery
  <2>2. \A v \in Workers : worker'[v].file.audit = worker[v].file.audit
    <3>1. CASE \E b \in Ids : AttachCheck(w, b)
      BY <3>1, <1>t DEF AttachCheck, TypeOK
    <3>2. CASE ExpireSelect(w)
      BY <3>2, <1>t DEF ExpireSelect, TypeOK
    <3>3. CASE ExportFixtures(w)
      BY <3>3, <1>t DEF ExportFixtures, TypeOK, File
    <3> QED
      BY <1>5, <3>1, <3>2, <3>3
  <2> QED
    BY <1>s, <2>1, <2>2
<1>6. ASSUME NEW w \in Workers, AttachInsert(w) PROVE Goal
  <2>1. \A v \in Workers, c \in Ids : SoundLog(worker'[v].file.audit[c])
    BY <1>6, <1>s, <1>t, RestLogs DEF AttachInsert
  <2> QED
    BY <1>6, <1>s, <2>1 DEF AttachInsert, recovery
<1>7. ASSUME NEW w \in Workers, ExportAudit(w) PROVE Goal
  <2>1. UNCHANGED <<status, audit, snapshot>>
    BY <1>7 DEF ExportAudit, tables, recovery
  <2>2. \A v \in Workers : worker'[v].file.audit = IF v = w THEN audit ELSE worker[v].file.audit
    BY <1>7, <1>t DEF ExportAudit, TypeOK, File
  <2> QED
    BY <1>s, <2>1, <2>2
<1>8. ASSUME NEW w \in Workers, ExportCases(w) PROVE Goal
  <2>1. \A v \in Workers, c \in Ids : SoundLog(worker'[v].file.audit[c])
    BY <1>8, <1>s, <1>t, RestLogs DEF ExportCases
  <2>2. snapshot' = snapshot \/ snapshot'.audit = worker[w].file.audit
    <3>1. worker[w].file \in File
      BY <1>t DEF TypeOK
    <3> QED
      BY <1>8, <3>1 DEF ExportCases, File
  <2>3. UNCHANGED <<status, audit>>
    BY <1>8 DEF ExportCases, tables
  <2> QED
    BY <1>s, <2>1, <2>2, <2>3
<1>9. ASSUME NEW w \in Workers, ImportCheck(w) PROVE Goal
  <2>1. UNCHANGED <<status, audit, snapshot>> /\ snapshot # NoSnapshot
    BY <1>9 DEF ImportCheck, tables, recovery
  <2>2. \A v \in Workers : worker'[v].file = IF v = w THEN snapshot ELSE worker[v].file
    BY <1>9, <1>t DEF ImportCheck, TypeOK
  <2> QED
    BY <1>s, <2>1, <2>2
<1>10. ASSUME NEW w \in Workers, ImportWrite(w) PROVE Goal
  <2> DEFINE file == worker[w].file
             Kept(mine, theirs) == [c \in Ids |-> IF file.status[c] = "absent"
                                                  THEN mine[c] ELSE theirs[c]]
  <2>1. \A v \in Workers, c \in Ids : SoundLog(worker'[v].file.audit[c])
    BY <1>10, <1>s, <1>t, RestLogs DEF ImportWrite
  <2>2. Explains(audit', status') /\ \A c \in Ids : SoundLog(audit'[c])
    <3>1. CASE UNCHANGED tables
      BY <3>1, <1>s DEF tables
    <3>2. CASE /\ status' = Kept(status, file.status)
               /\ audit' = Kept(audit, file.audit)
               /\ explained' = (explained /\ Explains(file.audit, file.status))
      <4>1. Explains(file.audit, file.status)
        BY <3>2
      <4>2. \A c \in Ids : \/ status'[c] = status[c] /\ audit'[c] = audit[c]
                           \/ status'[c] = file.status[c] /\ audit'[c] = file.audit[c]
        BY <3>2
      <4>3. \A c \in Ids : SoundLog(file.audit[c])
        BY <1>s
      <4> HIDE DEF file
      <4> QED
        BY <4>1, <4>2, <4>3, <1>s DEF Explains
    <3> QED
      BY <1>10, <3>1, <3>2 DEF ImportWrite
  <2> QED
    BY <1>10, <1>s, <2>1, <2>2 DEF ImportWrite
<1>11. ASSUME LoseStore PROVE Goal
  <2>1. /\ \A w \in Workers, c \in Ids : worker'[w].file.audit[c] = <<>>
        /\ \A c \in Ids : audit'[c] = <<>> /\ status'[c] = "absent"
        /\ snapshot' = snapshot
    BY <1>11 DEF LoseStore, Idle, EmptyFile, NoAudit, NoStatus
  <2> QED
    BY <2>1, <1>s, EmptyLog DEF Explains
<1>12. CASE UNCHANGED vars
  BY <1>12, <1>s DEF vars
<1> QED
  BY <1>1, <1>2, <1>3, <1>4, <1>5, <1>6, <1>7, <1>8, <1>9, <1>10, <1>11, <1>12 DEF Next

(* The audit rows explain every status, through every race and every        *)
(* recovery from a snapshot that was not torn.                              *)
THEOREM AuditsExplain == Spec => []AuditExplainsStatus
<1>1. Explained => AuditExplainsStatus
  BY DEF Explained, AuditExplainsStatus
<1> QED
  BY <1>1, BoundInit, BoundStep, ExplainedInit, ExplainedStep, PTL DEF Spec

(* FR-05: a case is active, or was, or has a fixture, only after exactly    *)
(* one review, which approved it.                                           *)
THEOREM ActiveCasesReviewed == Spec => []ActiveWasReviewed
<1>1. Bound /\ Explained => ActiveWasReviewed
  <2> SUFFICES ASSUME Bound, Explained, explained, NEW c \in Ids,
                      \/ status[c] \in {"active", "expired", "retired"}
                      \/ fixture[c] # NoFixture
               PROVE  \E i \in DOMAIN audit[c] :
                        audit[c][i] = "approved" /\ Resolutions(c) = {i}
    BY DEF ActiveWasReviewed
  <2>1. StatusAfter(audit[c]) \in OnceActive /\ SoundLog(audit[c])
    BY DEF Bound, RowsBound, Explained, Explains, OnceActive
  <2>2. PICK i \in DOMAIN audit[c] :
          /\ audit[c][i] = "approved"
          /\ \A j \in DOMAIN audit[c] : audit[c][j] \in {"approved", "rejected"} => j = i
    BY <2>1 DEF SoundLog
  <2>3. Resolutions(c) = {i}
    BY <2>2 DEF Resolutions
  <2> QED
    BY <2>2, <2>3
<1> QED
  BY <1>1, BoundInit, BoundStep, ExplainedInit, ExplainedStep, PTL DEF Spec

-----------------------------------------------------------------------------
(* The store implements CaseLife.  Beside Bound, the refinement needs that  *)
(* the fixtures an export has read are still those of the table, or lack    *)
(* some that were bound since.                                              *)

Reading == {"exporting", "listing"}
FixturesRead ==
  \A w \in Workers, c \in Ids :
    worker[w].pc \in Reading => worker[w].file.fixture[c] \in {fixture[c], NoFixture}

LEMMA ReadInit == Init => FixturesRead
BY DEF Init, Idle, FixturesRead, Reading

LEMMA ReadStep == Bound /\ FixturesRead /\ [Next]_vars => FixturesRead'
<1> SUFFICES ASSUME Bound, FixturesRead, [Next]_vars, NEW v \in Workers, NEW c \in Ids,
                    worker'[v].pc \in Reading
             PROVE  worker'[v].file.fixture[c] \in {fixture'[c], NoFixture}
  BY DEF FixturesRead
<1>t. TypeOK
  BY DEF Bound
<1>1. CASE LoseStore
  BY <1>1 DEF LoseStore, Idle, Reading
<1>2. ASSUME ~LoseStore, worker[v].pc \in Reading,
             worker'[v].file.fixture = worker[v].file.fixture
      PROVE  worker'[v].file.fixture[c] \in {fixture'[c], NoFixture}
  BY <1>2, FixtureStays DEF FixturesRead
<1>3. ASSUME NEW w \in Workers, ExportFixtures(w)
      PROVE  worker'[v].file.fixture[c] \in {fixture'[c], NoFixture}
  <2>1. /\ fixture' = fixture
        /\ worker'[w].file.fixture = fixture
        /\ v # w => worker'[v] = worker[v]
    BY <1>3, <1>t DEF ExportFixtures, tables, TypeOK, File
  <2> QED
    BY <2>1 DEF FixturesRead
<1>4. ASSUME NEW w \in Workers, ExportAudit(w)
      PROVE  worker[v].pc \in Reading /\ worker'[v].file.fixture = worker[v].file.fixture
  <2>1. /\ worker[w].pc \in Reading
        /\ worker'[w].file.fixture = worker[w].file.fixture
        /\ v # w => worker'[v] = worker[v]
    BY <1>4, <1>t DEF ExportAudit, TypeOK, File, Reading
  <2> QED
    BY <2>1
<1>5. ASSUME NEW w \in Workers,
             \/ \E b \in Ids : \/ CreateCandidate(w, b) \/ ReviewCandidate(w, b)
                             \/ RetireCase(w, b) \/ AttachCheck(w, b)
             \/ ExpireSelect(w) \/ ExpireUpdate(w) \/ AttachInsert(w)
             \/ ExportCases(w) \/ ImportCheck(w) \/ ImportWrite(w)
      PROVE  worker'[v] = worker[v]
  <2>1. CASE \E b \in Ids : CreateCandidate(w, b) \/ ReviewCandidate(w, b) \/ RetireCase(w, b)
    BY <2>1 DEF CreateCandidate, ReviewCandidate, RetireCase
  <2>2. CASE \E b \in Ids : AttachCheck(w, b)
    BY <2>2, <1>t DEF AttachCheck, Reading, TypeOK
  <2>3. CASE ExpireSelect(w)
    BY <2>3, <1>t DEF ExpireSelect, Reading, TypeOK
  <2>4. CASE ImportCheck(w)
    BY <2>4, <1>t DEF ImportCheck, Reading, TypeOK
  <2>5. CASE ExpireUpdate(w) \/ AttachInsert(w) \/ ExportCases(w) \/ ImportWrite(w)
    <3>1. worker' = [worker EXCEPT ![w] = Idle]
      BY <2>5 DEF ExpireUpdate, AttachInsert, ExportCases, ImportWrite, Rest
    <3> QED
      BY <3>1, <1>t DEF Idle, Reading, TypeOK
  <2> QED
    BY <1>5, <2>1, <2>2, <2>3, <2>4, <2>5
<1>6. CASE UNCHANGED vars
  BY <1>6 DEF vars, FixturesRead
<1> QED
  BY <1>1, <1>2, <1>3, <1>4, <1>5, <1>6 DEF Next

(* The files that may still be restored, and what CaseLife sees of them.    *)
Seen(file) == [status |-> file.status, fixture |-> file.fixture]
Saved == { [status |-> file.status, fixture |-> file.fixture] : file \in Restorable }

(* A step of one worker saves nothing unless it writes the snapshot file;   *)
(* and a worker that did not import leaves the saved files what they were.  *)
LEMMA SavedMoves ==
  ASSUME NEW w \in Workers, \A v \in Workers \ {w} : worker'[v] = worker[v],
         worker'[w].pc = "importing" => worker'[w].file \in Restorable
  PROVE  /\ Restorable' \subseteq Restorable \union {snapshot'}
         /\ snapshot' = snapshot => Restorable' \subseteq Restorable
         /\ snapshot' = snapshot /\ worker[w].pc # "importing" => Restorable' = Restorable
<1>1. Restorable' \subseteq Restorable \union {snapshot'}
  BY DEF Restorable
<1>2. ASSUME snapshot' = snapshot PROVE Restorable' \subseteq Restorable
  BY <1>2 DEF Restorable
<1>3. ASSUME snapshot' = snapshot, worker[w].pc # "importing" PROVE Restorable \subseteq Restorable'
  BY <1>3 DEF Restorable
<1> QED
  BY <1>1, <1>2, <1>3

LEMMA CaseLifeInit == Init => Promise!Init
<1> SUFFICES ASSUME Init PROVE Saved = {}
  BY DEF Init, Promise!Init, Promise!NoStatus, Promise!NoFixtures, NoStatus, NoFixtures, Saved
<1>1. Restorable = {}
  BY DEF Init, Restorable, Idle
<1> QED
  BY <1>1 DEF Saved

(* Every step of the store is a step of CaseLife: a call that only reads,   *)
(* or is too late, is at most a file forgotten.                             *)
LEMMA CaseLifeStep == Bound /\ FixturesRead /\ [Next]_vars => [Promise!Next]_(Promise!vars)
<1> SUFFICES ASSUME Bound, FixturesRead, [Next]_vars PROVE [Promise!Next]_(Promise!vars)
  OBVIOUS
<1>t. TypeOK
  BY DEF Bound
<1>f. ASSUME UNCHANGED <<status, fixture>>, Restorable' \subseteq Restorable
      PROVE  Promise!Next
  BY <1>f DEF Promise!Next, Promise!Forget
<1>1. ASSUME NEW w \in Workers, NEW c \in Ids,
             CreateCandidate(w, c) \/ ReviewCandidate(w, c) \/ RetireCase(w, c)
      PROVE  Promise!Next
  <2>1. UNCHANGED <<fixture, Restorable>>
    BY <1>1 DEF CreateCandidate, ReviewCandidate, RetireCase, recovery, Restorable
  <2>2. CASE CreateCandidate(w, c)
    BY <2>1, <2>2 DEF CreateCandidate, Promise!Next, Promise!Create, Promise!Move
  <2>3. CASE ReviewCandidate(w, c)
    BY <2>1, <2>3 DEF ReviewCandidate, Promise!Next, Promise!Review, Promise!Move
  <2>4. CASE RetireCase(w, c)
    BY <2>1, <2>4 DEF RetireCase, Promise!Next, Promise!Retire, Promise!Move
  <2> QED
    BY <1>1, <2>2, <2>3, <2>4
<1>2. ASSUME NEW w \in Workers, ExpireUpdate(w) PROVE Promise!Next
  <2>1. /\ snapshot' = snapshot /\ worker[w].pc # "importing" /\ worker'[w].pc = "idle"
        /\ \A v \in Workers \ {w} : worker'[v] = worker[v]
    BY <1>2, <1>t DEF ExpireUpdate, Rest, Idle, recovery, TypeOK
  <2>2. UNCHANGED <<fixture, Restorable>>
    BY <1>2, <2>1, SavedMoves DEF ExpireUpdate
  <2>3. /\ worker[w].cases \in SUBSET Ids
        /\ \A c \in worker[w].cases : status[c] \in OnceActive
    BY <1>2, <1>t DEF ExpireUpdate, Bound, JobBound, TypeOK
  <2>4. Promise!Expire(worker[w].cases)
    BY <1>2, <2>2, <2>3 DEF ExpireUpdate, Promise!Expire, Promise!OnceActive, OnceActive
  <2> QED
    BY <2>3, <2>4 DEF Promise!Next
<1>3. ASSUME NEW w \in Workers, AttachInsert(w) PROVE Promise!Next
  <2>1. /\ snapshot' = snapshot /\ worker[w].pc # "importing" /\ worker'[w].pc = "idle"
        /\ \A v \in Workers \ {w} : worker'[v] = worker[v]
    BY <1>3, <1>t DEF AttachInsert, Rest, Idle, recovery, TypeOK
  <2>2. UNCHANGED <<status, Restorable>>
    BY <1>3, <2>1, SavedMoves DEF AttachInsert
  <2>3. PICK c \in worker[w].cases, f \in Fixtures :
          fixture' = IF fixture[c] = NoFixture THEN [fixture EXCEPT ![c] = f] ELSE fixture
    BY <1>3 DEF AttachInsert
  <2>4. c \in Ids /\ status[c] \in OnceActive
    BY <1>3, <1>t DEF AttachInsert, Bound, JobBound, TypeOK
  <2>5. CASE fixture[c] = NoFixture
    <3>1. Promise!Attach(c, f)
      BY <2>2, <2>3, <2>4, <2>5 DEF Promise!Attach, Promise!OnceActive, OnceActive
    <3> QED
      BY <2>4, <3>1 DEF Promise!Next
  <2>6. CASE fixture[c] # NoFixture
    BY <2>2, <2>3, <2>6, <1>f
  <2> QED
    BY <2>5, <2>6
<1>4. ASSUME NEW w \in Workers, ExportCases(w) PROVE Promise!Next
  <2> DEFINE file == [worker[w].file EXCEPT !.status = status, !.expires = expires]
  <2>1. /\ UNCHANGED <<status, fixture>> /\ worker'[w].pc = "idle"
        /\ \A v \in Workers \ {w} : worker'[v] = worker[v]
    BY <1>4, <1>t DEF ExportCases, Rest, Idle, tables, TypeOK
  <2>2. CASE snapshot' = snapshot
    BY <2>1, <2>2, <1>f, SavedMoves
  <2>3. CASE snapshot' = file
    <3>1. worker[w].file \in File
      BY <1>t DEF TypeOK
    <3>2. file \in File /\ file.status = status /\ file.fixture = worker[w].file.fixture
      BY <1>t, <3>1 DEF File, TypeOK
    <3> HIDE DEF file
    <3>3. /\ Seen(file).status = status
          /\ \A c \in Ids : Seen(file).fixture[c] \in {fixture[c], NoFixture}
      BY <1>4, <3>2 DEF ExportCases, FixturesRead, Reading, Seen
    <3>4. Restorable' \subseteq Restorable \union {file}
      BY <2>1, <2>3, SavedMoves
    <3>5. Saved' \subseteq Saved \union {Seen(file)}
      BY <3>4 DEF Saved, Seen
    <3>6. PICK s : s = Seen(file)
      OBVIOUS
    <3>7. CASE file = NoSnapshot
      <4>1. Restorable' \subseteq Restorable
        BY <2>1, <2>3, <3>7 DEF Restorable
      <4> QED
        BY <2>1, <4>1, <1>f
    <3>8. CASE file # NoSnapshot
      <4>1. file \in Restorable'
        BY <2>3, <3>8 DEF Restorable
      <4>2. Seen(file) \in Saved'
        BY <4>1 DEF Saved, Seen
      <4>3. Promise!Save(s) /\ s \in Saved'
        BY <2>1, <3>3, <3>5, <3>6, <4>2 DEF Promise!Save, Saved
      <4> QED
        BY <4>3 DEF Promise!Next, Saved
    <3> QED
      BY <3>7, <3>8
  <2> QED
    BY <1>4, <2>2, <2>3 DEF ExportCases
<1>5. ASSUME NEW w \in Workers, ImportWrite(w) PROVE Promise!Next
  <2> DEFINE file == worker[w].file
             Kept(mine, theirs) == [c \in Ids |-> IF file.status[c] = "absent"
                                                  THEN mine[c] ELSE theirs[c]]
  <2>1. /\ snapshot' = snapshot /\ worker'[w].pc = "idle"
        /\ \A v \in Workers \ {w} : worker'[v] = worker[v]
    BY <1>5, <1>t DEF ImportWrite, Rest, Idle, TypeOK
  <2>2. Restorable' \subseteq Restorable
    BY <2>1, SavedMoves
  <2>3. CASE UNCHANGED tables
    BY <2>2, <2>3, <1>f DEF tables
  <2>4. CASE /\ ~ \E c \in Ids : file.status[c] # "absent" /\ status[c] # "absent"
             /\ status' = Kept(status, file.status)
             /\ fixture' = Kept(fixture, file.fixture)
    <3>1. file \in Restorable
      BY <1>5 DEF ImportWrite, Restorable
    <3> HIDE DEF file
    <3>2. Seen(file) \in Saved /\ Saved' \subseteq Saved
      BY <2>2, <3>1 DEF Saved, Seen
    <3>3. Seen(file).status = file.status /\ Seen(file).fixture = file.fixture
      BY DEF Seen
    <3>4. PICK s : s = Seen(file)
      OBVIOUS
    <3>5. Promise!Restore(s) /\ s \in Saved
      BY <2>4, <3>2, <3>3, <3>4 DEF Promise!Restore, Saved
    <3> QED
      BY <3>5 DEF Promise!Next, Saved
  <2> QED
    BY <1>5, <2>3, <2>4 DEF ImportWrite
<1>6. ASSUME NEW w \in Workers, ImportCheck(w) PROVE Promise!Next
  <2>1. /\ UNCHANGED <<status, fixture, snapshot>> /\ snapshot # NoSnapshot
        /\ worker'[w].file = snapshot
        /\ \A v \in Workers \ {w} : worker'[v] = worker[v]
    BY <1>6, <1>t DEF ImportCheck, tables, recovery, TypeOK
  <2>2. snapshot \in Restorable
    BY <2>1 DEF Restorable
  <2> QED
    BY <2>1, <2>2, <1>f, SavedMoves
<1>7. ASSUME NEW w \in Workers,
             \/ \E c \in Ids : AttachCheck(w, c)
             \/ ExpireSelect(w) \/ ExportFixtures(w) \/ ExportAudit(w)
      PROVE  Promise!Next
  <2>1. UNCHANGED <<status, fixture, snapshot>>
    BY <1>7 DEF AttachCheck, ExpireSelect, ExportFixtures, ExportAudit, tables, recovery
  <2>2. /\ worker'[w].pc # "importing"
        /\ \A v \in Workers \ {w} : worker'[v] = worker[v]
    BY <1>7, <1>t DEF AttachCheck, ExpireSelect, ExportFixtures, ExportAudit, TypeOK
  <2> QED
    BY <2>1, <2>2, <1>f, SavedMoves
<1>8. CASE LoseStore
  <2>1. Restorable' \subseteq Restorable
    BY <1>8 DEF LoseStore, Restorable, Idle
  <2> QED
    BY <1>8, <2>1 DEF LoseStore, NoStatus, NoFixtures, Promise!Next, Promise!Lose,
                      Promise!NoStatus, Promise!NoFixtures
<1>9. CASE UNCHANGED vars
  BY <1>9 DEF vars, Restorable, Promise!vars
<1> QED
  BY <1>1, <1>2, <1>3, <1>4, <1>5, <1>6, <1>7, <1>8, <1>9 DEF Next

(* The store implements CaseLife: no interleaving of its calls, and no loss *)
(* and recovery, opens a case without a review, replaces a fixture or       *)
(* restores what was never stored.                                          *)
THEOREM StoreKeepsCaseLife == Spec => ImplementsCaseLife
<1>1. Spec => [](Bound /\ FixturesRead)
  BY BoundInit, BoundStep, ReadInit, ReadStep, PTL DEF Spec
<1> QED
  BY <1>1, CaseLifeInit, CaseLifeStep, PTL DEF Spec, ImplementsCaseLife, Promise!Spec
=============================================================================
