------------------------------ MODULE Delivery ------------------------------
(***************************************************************************)
(* What the callback outbox promises: a callback has the content it was    *)
(* first queued with, and no other is ever sent; it is called delivered    *)
(* only once it was sent; and it settles once, as delivered or given up.   *)
(* It may be sent more than once, and even after it was given up.          *)
(***************************************************************************)
CONSTANTS Callbacks, Digests, NoDigest

VARIABLES
  stage, content,
  sent  \* pairs of a callback and what was sent for it
vars == <<stage, content, sent>>

Init ==
  /\ stage = [c \in Callbacks |-> "absent"]
  /\ content = [c \in Callbacks |-> NoDigest]
  /\ sent = {}

Move(c, from, to) == stage[c] = from /\ stage' = [stage EXCEPT ![c] = to]

Queue(c, d) ==
  /\ Move(c, "absent", "pending")
  /\ content' = [content EXCEPT ![c] = d]
  /\ UNCHANGED sent

Send(c) ==
  /\ stage[c] # "absent"
  /\ sent' = sent \union {<<c, content[c]>>}
  /\ UNCHANGED <<stage, content>>

Confirm(c) ==
  /\ <<c, content[c]>> \in sent
  /\ Move(c, "pending", "delivered")
  /\ UNCHANGED <<content, sent>>

GiveUp(c) == Move(c, "pending", "dead_letter") /\ UNCHANGED <<content, sent>>

Next ==
  \E c \in Callbacks :
    \/ \E d \in Digests : Queue(c, d)
    \/ Send(c) \/ Confirm(c) \/ GiveUp(c)

Spec == Init /\ [][Next]_vars
=============================================================================
