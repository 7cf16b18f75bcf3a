---------------------------- MODULE MCSideBySide ----------------------------
(***************************************************************************)
(* The three stores of the tenant plane, and the event feed.  The stores   *)
(* share the scopes and nothing else: no table, no lock, no transaction;   *)
(* the feed shares nothing with them.  A behaviour here is a behaviour of  *)
(* one of the four while the others rest, which loses none: what is        *)
(* checked of each is about its own variables.                             *)
(***************************************************************************)
EXTENDS TenantOutbox, TenantRegistry, TenantEvidence, EventFeed

VARIABLE acting
mcVars == <<vars, registryVars, evidenceVars, feedVars, acting>>

Resting == [available |-> TRUE, delivered |-> {}]

MCInit ==
  /\ Init /\ RegistryInit /\ EvidenceInit /\ FeedInit
  /\ acting \in {"outbox", "registry", "evidence", "feed"}
  /\ acting # "outbox" => transport = [w \in Workers |-> Resting]

OutboxActs ==
  /\ acting = "outbox" /\ Next
  /\ UNCHANGED <<registryVars, evidenceVars, feedVars, acting>>
RegistryActs ==
  /\ acting = "registry" /\ RegistryNext
  /\ UNCHANGED <<vars, evidenceVars, feedVars, acting>>
EvidenceActs ==
  /\ acting = "evidence" /\ EvidenceNext
  /\ UNCHANGED <<vars, registryVars, feedVars, acting>>
FeedActs ==
  /\ acting = "feed" /\ FeedNext
  /\ UNCHANGED <<vars, registryVars, evidenceVars, acting>>

MCSpec ==
  /\ MCInit /\ [][OutboxActs \/ RegistryActs \/ EvidenceActs \/ FeedActs]_mcVars
  /\ \A w \in Workers : WF_vars(MarkDelivered(w))
  /\ WF_feedVars(Push) /\ \A d \in Dashboards : WF_feedVars(Deliver(d))
=============================================================================
