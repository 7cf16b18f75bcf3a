--------------------------- MODULE AssuranceStore ---------------------------
(***************************************************************************)
(* The store of reviewer-governed assurance cases (assurance/store.py):    *)
(* cases, their replay fixtures and their audit rows, in one SQLite file.  *)
(*                                                                         *)
(* The dashboard's sync endpoints are threads of the server and the CLI is *)
(* a process of its own, all over the same file.  An action is one SQLite  *)
(* transaction or one SELECT, which by itself opens none.  A refused call  *)
(* (a status that does not fit, an id that exists, a secret in a summary)  *)
(* changes nothing and is left out, except one: a candidate whose row the  *)
(* public model AssuranceCase does not admit is refused after its commit.  *)
(***************************************************************************)
EXTENDS Naturals, SequencesExt

CONSTANTS
  MaxCases,      \* bound: rows of assurance_cases
  Fixtures,      \* what a replay fixture may hold
  NoFixture,     \* no row in assurance_replay_fixtures
  Dates,         \* expiry times of candidates
  Cutoffs,       \* times that callers of expire_cases supply
  NoExpiry,      \* expires_at_epoch IS NULL
  Workers,       \* threads of the server and CLI processes
  NoSnapshot,    \* no snapshot file has been written
  MaxLosses      \* bound: how often the database file is lost

ASSUME NullAssumption ==
  NoFixture \notin Fixtures /\ NoExpiry \notin Dates
ASSUME EpochAssumption == Dates \subseteq Nat /\ Cutoffs \subseteq Nat
ASSUME BoundAssumption == MaxCases \in Nat /\ MaxLosses \in Nat

Ids == 1..MaxCases

\* What a lifecycle audit row records, and the status it leaves the case in.
\* The column also admits 'revoked', which no code writes.
Actions == {"created", "approved", "rejected", "expired", "retired"}
StatusAfter(log) ==
  IF log = <<>> THEN "absent"
  ELSE CASE Last(log) = "created" -> "pending_review"
         [] Last(log) = "approved" -> "active"
         [] OTHER -> Last(log)
Statuses == {"absent", "pending_review", "active", "rejected", "expired", "retired"}
Explains(log, statuses) == \A c \in Ids : statuses[c] = StatusAfter(log[c])

VARIABLES
  status,    \* assurance_cases: id |-> status, "absent" before its row
  expires,   \* assurance_cases: id |-> expires_at_epoch
  malformed, \* ids of rows that AssuranceCase refuses to represent
  fixture,   \* assurance_replay_fixtures: id |-> the fixture bound to it
  audit,     \* assurance_case_audit: id |-> its actions, in row order
  worker,    \* worker |-> where its call is, and what it has read
  snapshot,  \* the snapshot file, as export_snapshot last wrote it
  losses,
  explained  \* history: no torn snapshot has been imported

vars == <<status, expires, malformed, fixture, audit, worker, snapshot, losses,
          explained>>
tables == <<status, expires, malformed, fixture, audit>>
recovery == <<snapshot, losses, explained>>

NoStatus == [c \in Ids |-> "absent"]
NoDates == [c \in Ids |-> NoExpiry]
NoFixtures == [c \in Ids |-> NoFixture]
NoAudit == [c \in Ids |-> <<>>]
EmptyFile == [status |-> NoStatus, expires |-> NoDates,
              fixture |-> NoFixtures, audit |-> NoAudit]
Idle == [pc |-> "idle", cases |-> {}, file |-> EmptyFile]

File == [status : [Ids -> Statuses], expires : [Ids -> Dates \union {NoExpiry}],
         fixture : [Ids -> Fixtures \union {NoFixture}], audit : [Ids -> Seq(Actions)]]

TypeOK ==
  /\ status \in [Ids -> Statuses]
  /\ expires \in [Ids -> Dates \union {NoExpiry}]
  /\ malformed \subseteq Ids
  /\ fixture \in [Ids -> Fixtures \union {NoFixture}]
  /\ audit \in [Ids -> Seq(Actions)]
  /\ worker \in [Workers ->
       [pc : {"idle", "expiring", "attaching", "exporting", "listing", "importing"},
        cases : SUBSET Ids, file : File]]
  /\ snapshot \in File \union {NoSnapshot}
  /\ losses \in 0..MaxLosses
  /\ explained \in BOOLEAN

Init ==
  /\ status = NoStatus /\ expires = NoDates /\ malformed = {}
  /\ fixture = NoFixtures /\ audit = NoAudit
  /\ worker = [w \in Workers |-> Idle]
  /\ snapshot = NoSnapshot
  /\ losses = 0 /\ explained = TRUE

Rest(w) == worker' = [worker EXCEPT ![w] = Idle]
Append1(log, c, action) == [log EXCEPT ![c] = Append(@, action)]

Ready(w) == worker[w].pc = "idle"

-----------------------------------------------------------------------------
(* Calls that are one transaction: the row and its audit row together.      *)

\* create_candidate: AUTOINCREMENT gives the next id.  An empty title or
\* owner, or a negative expiry, is only met when the row is read back.
CreateCandidate(w, c) ==
  /\ Ready(w)
  /\ status[c] = "absent" /\ \A b \in 1..(c - 1) : status[b] # "absent"
  /\ status' = [status EXCEPT ![c] = "pending_review"]
  /\ \E date \in Dates \union {NoExpiry} : expires' = [expires EXCEPT ![c] = date]
  /\ malformed' \in {malformed, malformed \union {c}}
  /\ audit' = Append1(audit, c, "created")
  /\ UNCHANGED <<fixture, worker, recovery>>

\* Mutant: the UPDATE lost its "AND status = 'pending_review'".
MutReviewCandidate(w, c) ==
  /\ Ready(w)
  /\ status[c] # "absent"
  /\ \E resolution \in {"approved", "rejected"} :
       /\ status' = [status EXCEPT ![c] =
                       IF resolution = "approved" THEN "active" ELSE "rejected"]
       /\ audit' = Append1(audit, c, resolution)
  /\ Len(audit[c]) < 4
  /\ UNCHANGED <<expires, malformed, fixture, worker, recovery>>

\* Mutant: a rejection is stored but not audited.
MutReviewUnaudited(w, c) ==
  /\ Ready(w)
  /\ status[c] = "pending_review"
  /\ \/ /\ status' = [status EXCEPT ![c] = "active"]
        /\ audit' = Append1(audit, c, "approved")
     \/ status' = [status EXCEPT ![c] = "rejected"] /\ UNCHANGED audit
  /\ UNCHANGED <<expires, malformed, fixture, worker, recovery>>

ReviewCandidate(w, c) ==
  /\ Ready(w)
  /\ status[c] = "pending_review"
  /\ \E resolution \in {"approved", "rejected"} :
       /\ status' = [status EXCEPT ![c] =
                       IF resolution = "approved" THEN "active" ELSE "rejected"]
       /\ audit' = Append1(audit, c, resolution)
  /\ UNCHANGED <<expires, malformed, fixture, worker, recovery>>

RetireCase(w, c) ==
  /\ Ready(w)
  /\ status[c] = "active"
  /\ status' = [status EXCEPT ![c] = "retired"]
  /\ audit' = Append1(audit, c, "retired")
  /\ UNCHANGED <<expires, malformed, fixture, worker, recovery>>

-----------------------------------------------------------------------------
(* expire_cases: a SELECT, then one transaction over the rows it returned,  *)
(* whose UPDATEs do not look at the status again.                           *)

ExpireSelect(w) ==
  /\ Ready(w)
  /\ \E now \in Cutoffs :
       LET due == { c \in Ids : /\ status[c] = "active" /\ expires[c] # NoExpiry
                                /\ expires[c] < now }
       IN  /\ due # {}
           /\ worker' = [worker EXCEPT ![w].pc = "expiring", ![w].cases = due]
  /\ UNCHANGED <<tables, recovery>>

ExpireUpdate(w) ==
  /\ worker[w].pc = "expiring"
  /\ status' = [c \in Ids |-> IF c \in worker[w].cases THEN "expired" ELSE status[c]]
  /\ audit' = [c \in Ids |-> IF c \in worker[w].cases
                             THEN Append(audit[c], "expired") ELSE audit[c]]
  /\ Rest(w)
  /\ UNCHANGED <<expires, malformed, fixture, recovery>>

-----------------------------------------------------------------------------
(* attach_replay_fixture: the status is read first, the row inserted later; *)
(* the primary key refuses a second row.                                    *)

AttachCheck(w, c) ==
  /\ Ready(w)
  /\ status[c] = "active" /\ c \notin malformed
  /\ worker' = [worker EXCEPT ![w].pc = "attaching", ![w].cases = {c}]
  /\ UNCHANGED <<tables, recovery>>

\* Mutant: INSERT OR REPLACE.
MutAttachInsert(w) ==
  /\ worker[w].pc = "attaching"
  /\ \E c \in worker[w].cases, f \in Fixtures :
       fixture' = [fixture EXCEPT ![c] = f]
  /\ Rest(w)
  /\ UNCHANGED <<status, expires, malformed, audit, recovery>>

AttachInsert(w) ==
  /\ worker[w].pc = "attaching"
  /\ \E c \in worker[w].cases, f \in Fixtures :
       fixture' = IF fixture[c] = NoFixture THEN [fixture EXCEPT ![c] = f] ELSE fixture
  /\ Rest(w)
  /\ UNCHANGED <<status, expires, malformed, audit, recovery>>

-----------------------------------------------------------------------------
(* export_snapshot: fixtures and audit rows on one connection, then the     *)
(* cases on another; three SELECTs and no transaction.  A malformed row     *)
(* raises at the end, and no file is written.                               *)

ExportFixtures(w) ==
  /\ Ready(w)
  /\ worker' = [worker EXCEPT ![w].pc = "exporting", ![w].file.fixture = fixture]
  /\ UNCHANGED <<tables, recovery>>

ExportAudit(w) ==
  /\ worker[w].pc = "exporting"
  /\ worker' = [worker EXCEPT ![w].pc = "listing", ![w].file.audit = audit]
  /\ UNCHANGED <<tables, recovery>>

\* Mutant: only the cases a replay may use are listed.
MutExportCases(w) ==
  /\ worker[w].pc = "listing"
  /\ LET active == [c \in Ids |-> IF status[c] = "active" THEN status[c] ELSE "absent"]
     IN  snapshot' = IF malformed = {}
                     THEN [worker[w].file EXCEPT !.status = active, !.expires = expires]
                     ELSE snapshot
  /\ Rest(w)
  /\ UNCHANGED <<tables, losses, explained>>

ExportCases(w) ==
  /\ worker[w].pc = "listing"
  /\ snapshot' = IF malformed = {}
                 THEN [worker[w].file EXCEPT !.status = status, !.expires = expires]
                 ELSE snapshot
  /\ Rest(w)
  /\ UNCHANGED <<tables, losses, explained>>

-----------------------------------------------------------------------------
(* import_snapshot: the file is validated, the store is counted, and later  *)
(* one transaction inserts every row under the id it had.                   *)

\* What _validated_fixture and _validated_audit require of a file's rows.
Valid(file) ==
  \A c \in Ids : (file.fixture[c] # NoFixture \/ file.audit[c] # <<>>)
                   => file.status[c] # "absent"

ImportCheck(w) ==
  /\ Ready(w)
  /\ snapshot # NoSnapshot /\ Valid(snapshot)
  /\ \A c \in Ids : status[c] = "absent"
  /\ worker' = [worker EXCEPT ![w].pc = "importing", ![w].file = snapshot]
  /\ UNCHANGED <<tables, recovery>>

\* Mutant: INSERT OR REPLACE, so that no id collides.
MutImportWrite(w) ==
  /\ worker[w].pc = "importing"
  /\ LET file == worker[w].file
     IN  /\ status' = file.status /\ expires' = file.expires
         /\ fixture' = file.fixture /\ audit' = file.audit /\ malformed' = {}
         /\ explained' = (explained /\ Explains(file.audit, file.status))
  /\ Rest(w)
  /\ UNCHANGED <<snapshot, losses>>

\* An id that exists by now fails the INSERT and undoes the transaction.
ImportWrite(w) ==
  /\ worker[w].pc = "importing"
  /\ LET file == worker[w].file
         Kept(mine, theirs) == [c \in Ids |-> IF file.status[c] = "absent"
                                              THEN mine[c] ELSE theirs[c]]
     IN  IF \E c \in Ids : file.status[c] # "absent" /\ status[c] # "absent"
         THEN UNCHANGED <<tables, explained>>
         ELSE /\ status' = Kept(status, file.status)
              /\ expires' = Kept(expires, file.expires)
              /\ fixture' = Kept(fixture, file.fixture)
              /\ audit' = Kept(audit, file.audit)
              /\ explained' = (explained /\ Explains(file.audit, file.status))
              /\ UNCHANGED malformed
  /\ Rest(w)
  /\ UNCHANGED <<snapshot, losses>>

\* The database file is lost with the server; the next start creates a new
\* one.  The snapshot file is elsewhere.
LoseStore ==
  /\ losses < MaxLosses
  /\ losses' = losses + 1
  /\ status' = NoStatus /\ expires' = NoDates /\ malformed' = {}
  /\ fixture' = NoFixtures /\ audit' = NoAudit
  /\ worker' = [w \in Workers |-> Idle]
  /\ UNCHANGED <<snapshot, explained>>

Next ==
  \/ \E w \in Workers, c \in Ids :
       \/ CreateCandidate(w, c) \/ ReviewCandidate(w, c) \/ RetireCase(w, c)
       \/ AttachCheck(w, c)
  \/ \E w \in Workers :
       \/ ExpireSelect(w) \/ ExpireUpdate(w) \/ AttachInsert(w)
       \/ ExportFixtures(w) \/ ExportAudit(w) \/ ExportCases(w)
       \/ ImportCheck(w) \/ ImportWrite(w)
  \/ LoseStore

Spec == Init /\ [][Next]_vars

Lost == losses' = losses + 1

-----------------------------------------------------------------------------
(* The store keeps the promise of CaseLife: its calls, which read in one    *)
(* step and write in another, look like calls that do both at once.         *)
Restorable ==
  ({snapshot} \ {NoSnapshot})
    \union { worker[w].file : w \in {v \in Workers : worker[v].pc = "importing"} }
Promise == INSTANCE CaseLife WITH
  Cases <- Ids,
  saved <- { [status |-> file.status, fixture |-> file.fixture] : file \in Restorable }

(* Runbook, "Audit history is append-only", asks of the rows what this asks *)
(* of the statuses: no interleaving of reviews, sweeps, attachments,        *)
(* exports, imports and losses makes a case active that was not reviewed or *)
(* saved so, replaces a fixture, or restores what was never stored.         *)
ImplementsCaseLife == Promise!Spec

(* The audit rows explain every status: the last one names it, through      *)
(* every race of reviews, retirements and expiries, and through recoveries  *)
(* from a snapshot that was not torn.                                       *)
AuditExplainsStatus == explained => Explains(audit, status)

(* WATERFALL_MASTER_PLAN.md, FR-05: a case reaches a replay suite, or ever  *)
(* gets a fixture, only after exactly one review, and that one approved it. *)
Resolutions(c) ==
  { i \in DOMAIN audit[c] : audit[c][i] \in {"approved", "rejected"} }
ActiveWasReviewed ==
  explained =>
    \A c \in Ids :
      (status[c] \in {"active", "expired", "retired"} \/ fixture[c] # NoFixture) =>
        \E i \in DOMAIN audit[c] : audit[c][i] = "approved" /\ Resolutions(c) = {i}

(* A closed case is never opened again, although an expiry writes over a    *)
(* status it read a step before.                                            *)
ClosedStaysClosed ==
  [][\A c \in Ids : status[c] \in {"rejected", "expired", "retired"} =>
       \/ Lost
       \/ status'[c] = status[c]
       \/ status'[c] \in {"expired", "retired"} /\ status[c] # "rejected"]_vars

(* A fixture, once bound, is never replaced: not by a second attachment     *)
(* that passed the same check, nor by an import.                            *)
FixtureImmutable ==
  [][\A c \in Ids : fixture[c] # NoFixture => Lost \/ fixture'[c] = fixture[c]]_vars

(* Runbook, "Audit history is append-only", and an import never overwrites  *)
(* evidence: it counts the cases and inserts later, and a candidate created *)
(* in between survives it.                                                  *)
AuditGrows == \A c \in Ids : Lost \/ IsPrefix(audit[c], audit'[c])
AuditAppendOnly == [][AuditGrows]_vars

(* Whatever goes on while it is taken, a snapshot can be imported: it never *)
(* holds a fixture or an audit row without the case, because the cases are  *)
(* listed last and are never deleted.                                       *)
SnapshotImportable == snapshot # NoSnapshot => Valid(snapshot)

-----------------------------------------------------------------------------
(* MULTICA_FIXTURE_ADAPTER_OPERATIONS.md:18, "snapshot export/import        *)
(* preserves cases, fixtures, and audit history": the audit rows of a       *)
(* snapshot explain the status of each of its cases.                        *)
SnapshotPreserves ==
  snapshot # NoSnapshot => Explains(snapshot.audit, snapshot.status)
=============================================================================
