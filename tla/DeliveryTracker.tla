--------------------------- MODULE DeliveryTracker ---------------------------
(***************************************************************************)
(* Channel packets and their echoes: the two senders of meshcore/radio.py     *)
(* and DeliveryTracker of meshcore/delivery.py.  A packet the node took is     *)
(* watched for a repeater's copy; without one it is sent again, byte for byte  *)
(* the same, while the budget lasts, and its outcome is written to a row and    *)
(* to the traffic event, which may stand for several packets (an answer).       *)
(*                                                                          *)
(* The packets of a behaviour are one answer's.  Their senders and watchers      *)
(* are tasks of one event loop and take turns at the transmitter (on_air).       *)
(* Times are left to chance: how long the echo window, the jitter, a lookup and   *)
(* the minute a hash is held last.                                             *)
(*                                                                          *)
(* Left out: the kinds of reasons a packet was not resent for, echo times, and    *)
(* direct messages, which have an outbox of their own (DmOutbox).               *)
(***************************************************************************)
EXTENDS NodeLink, FiniteSetsExt

CONSTANTS
  Packets,
  RetransmitMax,      \* retransmit_max
  PerHour,            \* retransmit_per_hour
  MaxCopies           \* bound: the copies of a packet the node reports

ASSUME TrackerConstants ==
  /\ {RetransmitMax, PerHour, MaxCopies} \subseteq Nat
  /\ \A l \in Loads : /\ l.packets \subseteq Packets /\ l.visible \in BOOLEAN
                      /\ l.scope \in {"off", "stats", "decide"}

VARIABLES
  step,          \* where each packet's sender, then its watcher, is
  air,           \* the packet that holds on_air, or nobody
  ob,            \* Outbound: echoed, finished, attempts, carried; and held, its hash is in _by_hash
  row,           \* its outcome row
  part,          \* its place in the event's _parts: NoPart, Waiting or an outcome
  feed,          \* the event's `delivery`, as last published
  resends,       \* the length of _resends, less what is older than an hour
  late,          \* the packets _annotate_from_scope is to ask about
  old,           \* the packets of a radio object that was replaced
  sent, copied   \* history: what the node transmitted; copies handled while the hash was held

trackerVars == <<step, air, ob, row, part, feed, resends, late, old, sent, copied>>

Nobody == "nobody"
NoRow == [echo |-> FALSE, resent |-> 0, carried |-> FALSE, written |-> FALSE]
NoPart == [is |-> "none", heard |-> FALSE, resent |-> 0]
Waiting == [NoPart EXCEPT !.is = "waiting"]
NoFeed == [packets |-> 0, pending |-> 0, heard |-> 0, resent |-> 0]

Steps == {"unsent", "queued", "sending", "aired", "window", "asking", "jitter", "wants",
          "resending", "reaired", "done", "failed"}

TrackerInit ==
  /\ step = [p \in Packets |-> "unsent"] /\ air = Nobody
  /\ ob = [p \in Packets |-> [echoed |-> FALSE, finished |-> FALSE, attempts |-> 1,
                              carried |-> FALSE, held |-> FALSE]]
  /\ row = [p \in Packets |-> NoRow] /\ part = [p \in Packets |-> NoPart] /\ feed = NoFeed
  /\ resends = 0 /\ late = {} /\ old = {}
  /\ sent = [p \in Packets |-> 0] /\ copied = [p \in Packets |-> 0]

Goto(p, s) == step' = [step EXCEPT ![p] = s]

\* A command of p's radio object reaches the node and is answered.
Reaches(p) == p \notin old /\ Linked

\* _link_up of the radio object that sent p.
LinkUp(p) == p \notin old /\ ~lost
-----------------------------------------------------------------------------
(* What is written about a packet. *)

\* What outcome() says of a packet, as far as the event's summary tells it.
Outcome(o) == [is |-> "told", heard |-> o.echoed \/ o.carried, resent |-> o.attempts - 1]

Total(f) == MapThenSumSet(LAMBDA p : f[p], DOMAIN f)

\* batch_summary; of one packet it is that packet's own outcome.
Summary(ps) ==
  LET told == {p \in Packets : ps[p].is = "told"} IN
  [packets |-> Cardinality({p \in Packets : ps[p].is # "none"}),
   pending |-> Cardinality({p \in Packets : ps[p].is = "waiting"}),
   heard   |-> Cardinality({p \in told : ps[p].heard}),
   resent  |-> Total([p \in told |-> ps[p].resent])]

\* _publish: the packet's slot, then the event.
Publish(p, o) == part' = [part EXCEPT ![p] = Outcome(o)] /\ feed' = Summary(part')

\* _finish: the outcome is written and published, the hash held for a late copy.
Finish(p, o) ==
  /\ Goto(p, "done")
  /\ ob' = [ob EXCEPT ![p] = [o EXCEPT !.finished = TRUE]]
  /\ row' = [row EXCEPT ![p] = [echo |-> o.echoed, resent |-> o.attempts - 1,
                                carried |-> o.carried, written |-> TRUE]]
  /\ Publish(p, o)
  /\ late' = IF load.scope = "off" THEN late ELSE late \union {p}

Unwritten == UNCHANGED <<row, part, feed, late>>
-----------------------------------------------------------------------------
(* Sending: send_channel_message and send_channel_data. *)

Send(p) ==
  /\ step[p] = "unsent" /\ p \in load.packets /\ Subscribed
  /\ Goto(p, "queued")
  /\ UNCHANGED <<air, ob, resends, old, sent, copied>> /\ Unwritten

\* on_air: the lock, and the gap since the last command.  The lock of a replaced
\* radio holds nothing up.
AirFree(p) == air = Nobody \/ p \in old
TakeAir(p) == air' = IF p \in old THEN air ELSE p

LeaveAir(p) == air' = IF air = p THEN Nobody ELSE air

Airs(p) ==
  /\ step[p] = "queued" /\ AirFree(p)
  /\ TakeAir(p) /\ Goto(p, "sending")
  /\ UNCHANGED <<ob, resends, old, sent, copied>> /\ Unwritten

\* The node transmits what it was told to.
Transmits(p) ==
  /\ step[p] \in {"sending", "resending"} /\ Reaches(p)
  /\ sent' = [sent EXCEPT ![p] = @ + 1]
  /\ Goto(p, IF step[p] = "sending" THEN "aired" ELSE "reaired")
  /\ UNCHANGED <<air, ob, resends, old, copied>> /\ Unwritten

\* Refused, raised, or no answer in time: the packet is not tracked, even if it went out.
SendFails(p) ==
  /\ step[p] = "sending" \/ (step[p] = "aired" /\ (load.losses > 0 \/ ~Reaches(p)))
  /\ Goto(p, "failed") /\ LeaveAir(p)
  /\ UNCHANGED <<ob, resends, old, sent, copied>> /\ Unwritten

\* The node's OK: track() gives the packet its place and registers its hash, and
\* the echo window begins.
Accepted(p) ==
  /\ step[p] = "aired" /\ Reaches(p)
  /\ Goto(p, "window") /\ LeaveAir(p)
  /\ part' = [part EXCEPT ![p] = Waiting]
  /\ ob' = [ob EXCEPT ![p].held = TRUE]
  /\ UNCHANGED <<row, feed, late, resends, old, sent, copied>>
-----------------------------------------------------------------------------
(* What comes back: on_rx_log, and the CoreScope lookups. *)

\* A repeater's copy.  Only the first counts, and after the outcome it is late:
\* _late_echo corrects the row and the feed.
CopyHeard(p) ==
  LET o == [ob[p] EXCEPT !.echoed = TRUE] IN
  /\ sent[p] > 0 /\ Linked /\ Subscribed /\ load.visible /\ copied[p] < MaxCopies
  /\ ob[p].held /\ copied' = [copied EXCEPT ![p] = @ + 1]
  /\ IF ob[p].echoed THEN UNCHANGED <<ob, row, part, feed>>
     ELSE /\ ob' = [ob EXCEPT ![p] = o]
          /\ IF o.finished THEN row' = [row EXCEPT ![p].echo = TRUE] /\ Publish(p, o)
                           ELSE UNCHANGED <<row, part, feed>>
  /\ UNCHANGED <<step, air, late, resends, old, sent>>

\* The minute is over: _unregister.
HoldOver(p) ==
  /\ ob[p].held /\ ob[p].finished
  /\ ob' = [ob EXCEPT ![p].held = FALSE]
  /\ UNCHANGED <<step, air, row, part, feed, late, resends, old, sent, copied>>

\* mutation: the late reading is not published.
LateReadingUnpublished(p) ==
  /\ p \in late /\ late' = late \ {p}
  /\ ob' = [ob EXCEPT ![p].carried = TRUE] /\ row' = [row EXCEPT ![p].carried = TRUE]
  /\ UNCHANGED <<step, air, part, feed, resends, old, sent, copied>>

\* _annotate_from_scope: CoreScope may have seen a repeat nobody reported here.
LateReading(p) ==
  /\ p \in late /\ late' = late \ {p}
  /\ \E repeated \in BOOLEAN :
       IF repeated /\ ~ob[p].echoed /\ ~ob[p].carried
       THEN LET o == [ob[p] EXCEPT !.carried = TRUE] IN
            /\ ob' = [ob EXCEPT ![p] = o] /\ row' = [row EXCEPT ![p].carried = TRUE]
            /\ Publish(p, o)
       ELSE UNCHANGED <<ob, row, part, feed>>
  /\ UNCHANGED <<step, air, resends, old, sent, copied>>
-----------------------------------------------------------------------------
(* The watcher: _watch, with the sender's resend(). *)

\* _why_not_resend: the hour's budget.
Spent == resends >= PerHour

\* The window is over, or a copy ended it, and that is all: heard, out of attempts
\* or of budget, too long to be echoed; or, left to chance, the mesh is quiet or
\* transmitting is off.
WindowEnds(p) ==
  /\ step[p] = "window" /\ Finish(p, ob[p])
  /\ UNCHANGED <<air, resends, old, sent, copied>>

\* No copy came: ask CoreScope first where it is to decide, or resend after a moment.
WindowPasses(p) ==
  /\ step[p] = "window" /\ ~ob[p].echoed /\ ob[p].attempts <= RetransmitMax /\ ~Spent
  /\ IF load.scope = "decide" THEN Goto(p, "asking") ELSE load.visible /\ Goto(p, "jitter")
  /\ UNCHANGED <<air, ob, resends, old, sent, copied>> /\ Unwritten

\* A repeated copy that CoreScope saw is proof enough.
ScopeAnswers(p) ==
  /\ step[p] = "asking"
  /\ \/ Finish(p, [ob[p] EXCEPT !.carried = TRUE])
     \/ Goto(p, "jitter") /\ UNCHANGED ob /\ Unwritten
  /\ UNCHANGED <<air, resends, old, sent, copied>>

JitterOver(p) ==
  /\ step[p] = "jitter"
  /\ IF ob[p].echoed \/ ~LinkUp(p) THEN Finish(p, ob[p])
     ELSE Goto(p, "wants") /\ UNCHANGED ob /\ Unwritten
  /\ UNCHANGED <<air, resends, old, sent, copied>>

\* Its turn on the air: heard in the meantime, or the link gone, it stays home.
AirsAgain(p) ==
  /\ step[p] = "wants" /\ AirFree(p)
  /\ IF (ob[p].held /\ ob[p].echoed) \/ ~LinkUp(p)
     THEN Finish(p, ob[p]) /\ UNCHANGED air
     ELSE Goto(p, "resending") /\ TakeAir(p) /\ UNCHANGED ob /\ Unwritten
  /\ UNCHANGED <<resends, old, sent, copied>>

\* Refused, raised or no answer: "radio unavailable", whether it went out or not.
ResendFails(p) ==
  /\ step[p] = "resending" \/ (step[p] = "reaired" /\ (load.losses > 0 \/ ~Reaches(p)))
  /\ Finish(p, ob[p]) /\ LeaveAir(p)
  /\ UNCHANGED <<resends, old, sent, copied>>

Resent(p) ==
  /\ step[p] = "reaired" /\ Reaches(p)
  /\ resends' = resends + 1
  /\ ob' = [ob EXCEPT ![p].attempts = @ + 1]
  /\ Goto(p, "window") /\ LeaveAir(p)
  /\ UNCHANGED <<old, sent, copied>> /\ Unwritten

\* A resend turns an hour old.
HourPasses == resends > 0 /\ resends' = resends - 1
              /\ UNCHANGED <<step, air, ob, row, part, feed, late, old, sent, copied>>
-----------------------------------------------------------------------------
Sender(p) == Airs(p) \/ Transmits(p) \/ SendFails(p) \/ Accepted(p)
Watcher(p) == WindowEnds(p) \/ WindowPasses(p) \/ ScopeAnswers(p) \/ JitterOver(p) \/ AirsAgain(p)
              \/ ResendFails(p) \/ Resent(p)
TrackerNext ==
  \/ HourPasses
  \/ \E p \in Packets : Send(p) \/ Sender(p) \/ Watcher(p)
                        \/ CopyHeard(p) \/ HoldOver(p) \/ LateReading(p)
-----------------------------------------------------------------------------
TrackerTypeOK ==
  /\ step \in [Packets -> Steps] /\ air \in Packets \union {Nobody}
  /\ ob \in [Packets -> [echoed : BOOLEAN, finished : BOOLEAN, attempts : Nat,
                         carried : BOOLEAN, held : BOOLEAN]]
  /\ row \in [Packets -> [echo : BOOLEAN, resent : Nat, carried : BOOLEAN, written : BOOLEAN]]
  /\ part \in [Packets -> [is : {"none", "waiting", "told"}, heard : BOOLEAN, resent : Nat]]
  /\ feed \in [packets : Nat, pending : Nat, heard : Nat, resent : Nat]
  /\ resends \in Nat /\ late \subseteq Packets /\ old \subseteq Packets
  /\ sent \in [Packets -> Nat] /\ copied \in [Packets -> Nat]
  /\ air # Nobody => step[air] \in {"sending", "aired", "resending", "reaired"}

(* A row says a packet was heard exactly when a copy of it was handled between    *)
(* its registration and the end of its hold, before or after the row was written,  *)
(* and never counts a resend the node did not transmit; and when all the packets    *)
(* of an answer that went out are finished, the event the operator sees counts      *)
(* what the rows say: late copies and late readings have corrected both.            *)
HeardIsTold ==
  LET out == {p \in Packets : part[p].is # "none"}
      isFinished == out # {} /\ \A p \in out : row[p].written
  IN /\ \A p \in Packets : row[p].written => /\ row[p].echo = (copied[p] > 0)
                                             /\ row[p].resent < sent[p]
     /\ isFinished =>
          feed = [packets |-> Cardinality(out), pending |-> 0,
                  heard   |-> Cardinality({p \in out : row[p].echo \/ row[p].carried}),
                  resent  |-> Total([p \in out |-> row[p].resent])]
=============================================================================
