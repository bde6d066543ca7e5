------------------------------ MODULE BotRadio ------------------------------
(***************************************************************************)
(* The radio as the rest of the bot sees it: the link to the node (NodeLink)   *)
(* and the packets sent over it (DeliveryTracker), side by side.  A link that   *)
(* breaks fails the commands under way; a reconnect leaves the watchers of the   *)
(* old radio's packets behind with that radio, and new packets get a lock of    *)
(* their own.                                                                 *)
(***************************************************************************)
EXTENDS DeliveryTracker

vars == <<linkVars, trackerVars>>

Init == LinkInit /\ TrackerInit

\* What reconnect_radio replaces with the radio object: packets on their way stay with the old one.
PacketsLeftBehind ==
  /\ old' = old \union {p \in Packets : step[p] \notin {"unsent", "done", "failed"}}
  /\ air' = Nobody
  /\ UNCHANGED <<step, ob, row, part, feed, resends, late, sent, copied>>

LinkSteps == LinkNext /\ UNCHANGED trackerVars
Reconnects == NewRadio /\ PacketsLeftBehind
TrackerSteps == TrackerNext /\ UNCHANGED linkVars

Next == LinkSteps \/ Reconnects \/ TrackerSteps

Spec == Init /\ [][Next]_vars

\* The event loop runs what is ready, the node answers or a command times out,
\* and a pause ends.
Fairness ==
  /\ WF_vars(Connecting /\ UNCHANGED trackerVars) /\ WF_vars(Reconnects)
  /\ WF_vars(Fetching /\ UNCHANGED trackerVars) /\ WF_vars(Watching /\ UNCHANGED trackerVars)
FairSpec == Spec /\ Fairness

TypeOK == LinkTypeOK /\ TrackerTypeOK
=============================================================================
