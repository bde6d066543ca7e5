--------------------------- MODULE RequestPromise ---------------------------
(***************************************************************************)
(* What the weather service of the web client promises the screens about   *)
(* one request: the order in which its events (WeatherEvent.js) can reach   *)
(* an observer.  A request is asked, and is then either refused, answered   *)
(* from what the channel already carried, or put on the air; one on the air *)
(* is resent at most a fixed number of times under a rising attempt number, *)
(* may be confirmed once by the bot's radio when it went out as a direct    *)
(* message, and is settled exactly once, after which nothing is said of it  *)
(* again.                                                                   *)
(***************************************************************************)
EXTENDS Integers

CONSTANT Requests            \* the taps; each is one WeatherPendingRequest id

VARIABLE view                \* what an observer of the events knows of each

Transports == {"channel", "dm"}

\* The number of the last transmission of a request: a datagram is sent
\* twice, a direct message three times (the third a flood).
LastAttempt(via) == IF via = "channel" THEN 1 ELSE 2

Outcomes == {"answered", "notAvailable", "timedOut", "failed"}

NoView == [phase |-> "new", via |-> "channel", attempt |-> 0,
           confirmed |-> FALSE, outcome |-> "answered"]

Views == [phase : {"new", "asked", "refused", "served", "onAir", "settled"},
          via : Transports, attempt : 0 .. 2, confirmed : BOOLEAN,
          outcome : Outcomes]

Init == view = [r \in Requests |-> NoView]

\* The user taps: the call to send() is accepted into the service's queue.
Ask(r) ==
  /\ view[r].phase = "new"
  /\ view' = [view EXCEPT ![r].phase = "asked"]

\* send() throws, or reports the answer already received: nothing is pending.
TurnAway(r) ==
  /\ view[r].phase = "asked"
  /\ \E how \in {"refused", "served"} : view' = [view EXCEPT ![r].phase = how]

\* Whether the bot's radio confirmed a transmission that has just been made:
\* a confirmation may overtake the send it confirms, and is then reported in
\* the same step as the send.  A datagram has none.
Confirmed(via, before) == IF via = "dm" THEN {before, TRUE} ELSE {before}

\* The first requestSent event.
Launch(r) ==
  /\ view[r].phase = "asked"
  /\ \E via \in Transports : \E confirmed \in Confirmed(via, FALSE) :
       view' = [view EXCEPT ![r].phase = "onAir", ![r].via = via,
                            ![r].confirmed = confirmed]

\* A later requestSent event: a higher attempt, within the transport's ladder.
Resend(r) ==
  /\ view[r].phase = "onAir"
  /\ \E n \in view[r].attempt + 1 .. LastAttempt(view[r].via),
        confirmed \in Confirmed(view[r].via, view[r].confirmed) :
       view' = [view EXCEPT ![r].attempt = n, ![r].confirmed = confirmed]

\* requestReceivedByBotRadio: once, and never for a datagram.
Confirm(r) ==
  /\ view[r].phase = "onAir" /\ view[r].via = "dm" /\ ~view[r].confirmed
  /\ view' = [view EXCEPT ![r].confirmed = TRUE]

\* A request is given up only after the last transmission its ladder has for
\* it: the resend of a datagram, the flood of an unconfirmed direct message.
MayGiveUp(v) == v.attempt = LastAttempt(v.via) \/ v.confirmed

OnAir == {r \in Requests : view[r].phase = "onAir"}

\* requestSettled: several at once when a connection ends or one message
\* answers them all.
Settle(gone) ==
  \E outcome \in Outcomes :
    /\ outcome = "timedOut" => \A r \in gone : MayGiveUp(view[r])
    /\ view' = [r \in Requests |->
                  IF r \in gone
                  THEN [view[r] EXCEPT !.phase = "settled", !.outcome = outcome]
                  ELSE view[r]]

Next ==
  \/ \E r \in Requests : Ask(r) \/ TurnAway(r) \/ Launch(r) \/ Resend(r) \/ Confirm(r)
  \/ \E gone \in SUBSET OnAir : Settle(gone)

Spec == Init /\ [][Next]_view
=============================================================================
