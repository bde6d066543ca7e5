----------------------------- MODULE DmPromise -----------------------------
(***************************************************************************)
(* What the bot's outbox promises about the replies it sends as direct      *)
(* messages (docs/Delivery_Confirmation_Design.md, "DM requests and         *)
(* replies"): a reply it has taken is being delivered until it is confirmed *)
(* or given up, and may then be taken again; it is called confirmed only     *)
(* when its contact's phone has it, if need be after it was given up; a      *)
(* confirmed one is never touched again.                                    *)
(***************************************************************************)
CONSTANT Replies

VARIABLES
  told,       \* what the outbox's record says of each reply
  reached     \* the replies the phone of their contact has

Init == told = [r \in Replies |-> "idle"] /\ reached = {}

Take(r) ==
  /\ told[r] = "idle"
  /\ told' = [told EXCEPT ![r] = "open"]
  /\ UNCHANGED reached

Reach(r) ==
  /\ reached' = reached \union {r}
  /\ UNCHANGED told

Confirm(r) ==
  /\ told[r] # "confirmed" /\ r \in reached
  /\ told' = [told EXCEPT ![r] = "confirmed"]
  /\ UNCHANGED reached

\* The tries are spent, or the queue or the radio refused the reply.
GiveUp(r) ==
  /\ told[r] = "open"
  /\ told' = [told EXCEPT ![r] = "idle"]
  /\ UNCHANGED reached

Next == \E r \in Replies : Take(r) \/ Reach(r) \/ Confirm(r) \/ GiveUp(r)

Spec == Init /\ [][Next]_<<told, reached>>
=============================================================================
