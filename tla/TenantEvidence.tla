--------------------------- MODULE TenantEvidence ---------------------------
(***************************************************************************)
(* Release evidence bound to a scope (assurance/tenant_evidence.py) and    *)
(* its store (assurance/tenant_evidence_store.py): record, export, and     *)
(* the import that restores a scope after the database was lost.           *)
(*                                                                         *)
(* record and export are one statement each.  import reads a count, which  *)
(* opens no transaction, and then inserts in one: two steps.  Clients are  *)
(* processes on the same file.  SHA-256 is taken as injective, so a scope  *)
(* digest is the pair it hashes; the evidence inside a bundle is known by  *)
(* its own digest, which bind and verify have checked.                     *)
(* Callers hold a context of a writer: require_role refuses anyone else    *)
(* before anything is read.  get changes nothing and is left out.          *)
(***************************************************************************)
EXTENDS Tenancy, Naturals

CONSTANTS
  Evidence,   \* digests of release evidence
  Clients,
  NoBundle,   \* no row of that key
  NotImporting,
  MaxDbLosses \* bound: losses of the database

TenantEvidenceBundle == [scope : Scopes, evidence : Evidence, boundTo : Scopes]

ASSUME BundleAssumption == NoBundle \notin TenantEvidenceBundle
ASSUME ImportAssumption ==
  NotImporting \notin [scope : Scopes, bundles : SUBSET TenantEvidenceBundle]
ASSUME LossAssumption == MaxDbLosses \in Nat

VARIABLES
  rows,         \* scope |-> evidence |-> its row
  file,         \* scope |-> the bundles of its last snapshot, none at first
  importing,    \* client |-> its import, between the count and the inserts
  dbLosses,
  acknowledged, \* history: scope |-> what record and import answered for since
  recorded      \* history: scope |-> what record ever accepted there

evidenceVars == <<rows, file, importing, dbLosses, acknowledged, recorded>>

Held(s) == { e \in Evidence : rows[s][e] # NoBundle }

EvidenceTypeOK ==
  /\ rows \in [Scopes -> [Evidence -> TenantEvidenceBundle \union {NoBundle}]]
  /\ file \in [Scopes -> SUBSET TenantEvidenceBundle]
  /\ importing \in [Clients -> [scope : Scopes, bundles : SUBSET TenantEvidenceBundle]
                                 \union {NotImporting}]
  /\ dbLosses \in 0..MaxDbLosses
  /\ acknowledged \in [Scopes -> SUBSET Evidence]
  /\ recorded \in [Scopes -> SUBSET Evidence]

NoRows == [s \in Scopes |-> [e \in Evidence |-> NoBundle]]

EvidenceInit ==
  /\ rows = NoRows
  /\ file = [s \in Scopes |-> {}]
  /\ importing = [c \in Clients |-> NotImporting]
  /\ dbLosses = 0
  /\ acknowledged = [s \in Scopes |-> {}]
  /\ recorded = [s \in Scopes |-> {}]

-----------------------------------------------------------------------------
Bind(s, e) == [scope |-> s, evidence |-> e, boundTo |-> s]

\* Mutant: the bundle is checked against itself and not against the context.
MutVerified(s, bundle) == bundle.boundTo = bundle.scope

\* verify_tenant_evidence in a context of scope s.
Verified(s, bundle) == bundle.scope = s /\ bundle.boundTo = bundle.scope

\* INSERT OR IGNORE of one bundle, for whatever bundle a caller comes with.
Record(s, bundle) ==
  /\ Verified(s, bundle)
  /\ rows' = IF rows[s][bundle.evidence] = NoBundle
             THEN [rows EXCEPT ![s][bundle.evidence] = bundle] ELSE rows
  /\ acknowledged' = [acknowledged EXCEPT ![s] = @ \union {bundle.evidence}]
  /\ recorded' = [recorded EXCEPT ![s] = @ \union {bundle.evidence}]
  /\ UNCHANGED <<file, importing, dbLosses>>

\* One SELECT; a row that does not verify makes it raise.
ExportEvidence(s) ==
  LET bundles == { rows[s][e] : e \in Held(s) }
  IN  /\ \A b \in bundles : Verified(s, b)
      /\ file' = [file EXCEPT ![s] = bundles]
      /\ UNCHANGED <<rows, importing, dbLosses, acknowledged, recorded>>

\* import_snapshot up to the count, of the file of scope t.
ImportCount(c, s, t) ==
  /\ importing[c] = NotImporting
  /\ t = s
  /\ \A b \in file[t] : Verified(s, b)
  /\ Held(s) = {}
  /\ importing' = [importing EXCEPT ![c] = [scope |-> s, bundles |-> file[t]]]
  /\ UNCHANGED <<rows, file, dbLosses, acknowledged, recorded>>

\* The rows of scope s with these bundles inserted.
Inserted(s, bundles) ==
  [e \in Evidence |->
     IF \E b \in bundles : b.evidence = e
     THEN CHOOSE b \in bundles : b.evidence = e ELSE rows[s][e]]

\* A key that is there by now: the INSERT raises, and all is rolled back.
Conflicts(s, bundles) == \E b \in bundles : rows[s][b.evidence] # NoBundle

\* Mutant: every INSERT commits by itself, in an order that meets the
\* conflict last.
MutImportInsert(c) ==
  /\ importing[c] # NotImporting
  /\ importing' = [importing EXCEPT ![c] = NotImporting]
  /\ LET s == importing[c].scope
         bundles == importing[c].bundles
     IN  /\ rows' = [rows EXCEPT ![s] = Inserted(s, bundles)]
         /\ acknowledged' =
              IF Conflicts(s, bundles) THEN acknowledged
              ELSE [acknowledged EXCEPT ![s] = @ \union { b.evidence : b \in bundles }]
  /\ UNCHANGED <<file, dbLosses, recorded>>

\* The INSERTs of import_snapshot, in one transaction.
ImportInsert(c) ==
  /\ importing[c] # NotImporting
  /\ importing' = [importing EXCEPT ![c] = NotImporting]
  /\ LET s == importing[c].scope
         bundles == importing[c].bundles
     IN  IF Conflicts(s, bundles) THEN UNCHANGED <<rows, acknowledged>>
         ELSE /\ rows' = [rows EXCEPT ![s] = Inserted(s, bundles)]
              /\ acknowledged' =
                   [acknowledged EXCEPT ![s] = @ \union { b.evidence : b \in bundles }]
  /\ UNCHANGED <<file, dbLosses, recorded>>

\* The database is gone and opened anew, empty; imports under way fail with
\* it, snapshot files survive.
LoseDatabase ==
  /\ dbLosses < MaxDbLosses
  /\ dbLosses' = dbLosses + 1
  /\ rows' = NoRows
  /\ importing' = [c \in Clients |-> NotImporting]
  /\ acknowledged' = [s \in Scopes |-> {}]
  /\ UNCHANGED <<file, recorded>>

EvidenceNext ==
  \/ \E s \in Scopes, bundle \in TenantEvidenceBundle : Record(s, bundle)
  \/ \E s \in Scopes : ExportEvidence(s)
  \/ \E c \in Clients :
       \/ \E s, t \in Scopes : ImportCount(c, s, t)
       \/ ImportInsert(c)
  \/ LoseDatabase

EvidenceSpec == EvidenceInit /\ [][EvidenceNext]_evidenceVars

-----------------------------------------------------------------------------
(* Evidence never leaves the scope it was bound to, by way of a row, a      *)
(* snapshot or an import under way, across losses and restores: all of it   *)
(* was recorded in that very scope, and verifies there.                     *)
EvidenceStaysInScope ==
  \A s \in Scopes :
    /\ \A e \in Held(s) : rows[s][e] = Bind(s, e) /\ e \in recorded[s]
    /\ \A b \in file[s] : b = Bind(s, b.evidence) /\ b.evidence \in recorded[s]

(* The store holds exactly what record and import answered for since it was *)
(* last lost.  An import that meets a row recorded after its count, or a    *)
(* second import of the scope, is refused and leaves nothing behind; one    *)
(* that succeeds is complete.                                               *)
AcknowledgedExactly == \A s \in Scopes : Held(s) = acknowledged[s]
=============================================================================
