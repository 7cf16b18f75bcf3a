------------------------------ MODULE CaseLife ------------------------------
(***************************************************************************)
(* What the assurance store promises about its cases, with every call done *)
(* at once: a case is reviewed once, is active only by that review, closes *)
(* for good, and keeps the one fixture it is given; and whatever is lost   *)
(* with the database comes back only as it was when it was saved.          *)
(***************************************************************************)
CONSTANTS Cases, Fixtures, NoFixture

VARIABLES
  status, fixture,
  saved  \* the files that may still be restored
vars == <<status, fixture, saved>>

OnceActive == {"active", "expired", "retired"}

NoStatus == [c \in Cases |-> "absent"]
NoFixtures == [c \in Cases |-> NoFixture]

Init == status = NoStatus /\ fixture = NoFixtures /\ saved = {}

Move(c, from, to) ==
  /\ status[c] \in from /\ \E s \in to : status' = [status EXCEPT ![c] = s]
  /\ UNCHANGED <<fixture, saved>>

Create(c) == Move(c, {"absent"}, {"pending_review"})
Review(c) == Move(c, {"pending_review"}, {"active", "rejected"})
Retire(c) == Move(c, {"active"}, {"retired"})

\* A sweep may come late, and find closed what it saw active.
Expire(cs) ==
  /\ \A c \in cs : status[c] \in OnceActive
  /\ status' = [c \in Cases |-> IF c \in cs THEN "expired" ELSE status[c]]
  /\ UNCHANGED <<fixture, saved>>

\* So may an attachment; but the first one stands.
Attach(c, f) ==
  /\ status[c] \in OnceActive /\ fixture[c] = NoFixture
  /\ fixture' = [fixture EXCEPT ![c] = f]
  /\ UNCHANGED <<status, saved>>

\* A file has the statuses of its moment.  It may miss fixtures, never have others.
Save(file) ==
  /\ file.status = status
  /\ \A c \in Cases : file.fixture[c] \in {fixture[c], NoFixture}
  /\ saved' \subseteq saved \union {file}
  /\ UNCHANGED <<status, fixture>>

\* Whole, and only beside cases the file does not hold.
Restore(file) ==
  LET held == { c \in Cases : file.status[c] # "absent" }
  IN  /\ \A c \in held : status[c] = "absent"
      /\ status' = [c \in Cases |-> IF c \in held THEN file.status[c] ELSE status[c]]
      /\ fixture' = [c \in Cases |-> IF c \in held THEN file.fixture[c] ELSE fixture[c]]
      /\ saved' \subseteq saved

Forget == saved' \subseteq saved /\ UNCHANGED <<status, fixture>>

Lose == status' = NoStatus /\ fixture' = NoFixtures /\ saved' \subseteq saved

Next ==
  \/ \E c \in Cases : \/ Create(c) \/ Review(c) \/ Retire(c)
                      \/ \E f \in Fixtures : Attach(c, f)
  \/ \E cs \in SUBSET Cases : Expire(cs)
  \/ \E file \in saved' : Save(file)
  \/ \E file \in saved : Restore(file)
  \/ Forget \/ Lose

Spec == Init /\ [][Next]_vars
=============================================================================
