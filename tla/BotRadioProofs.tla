--------------------------- MODULE BotRadioProofs ---------------------------
(***************************************************************************)
(* Proofs about the bot's radio, for any packets, any budgets and any number *)
(* of messages, losses, breaks and reconnects: no message is left in the      *)
(* node's queue unnoticed (NodeLink), and what the operator is told of a       *)
(* packet is what was heard of it (DeliveryTracker).                          *)
(***************************************************************************)
EXTENDS BotRadio, FiniteSetTheorems, TLAPS

USE LinkConstants, TrackerConstants

-----------------------------------------------------------------------------
(* The node's queue *)

Counts == inbox \in Nat /\ tickles \in Nat /\ drainTasks \in Nat

\* A message in the node's queue that no push announces any more is about to be
\* fetched, whatever the node does meanwhile.
Noticed ==
  \/ tickles > 0 \/ drainTasks > 0
  \/ drain \in {"fetch", "message"} \/ (Draining /\ again)
QueueInv == Counts /\ (Subscribed /\ ~missed /\ inbox > 0 => Noticed)

\* The link comes up: it drains the queue as soon as it is subscribed.
LEMMA ConnectingNotices == ASSUME QueueInv, Connecting PROVE QueueInv'
<1>1. CASE Opens \/ StartFails \/ StartAgain
  <2>1. ~Subscribed' /\ UNCHANGED <<inbox, tickles, drainTasks>>
    BY <1>1 DEF Opens, StartFails, StartAgain, Subscribed, drainVars
  <2>. QED  BY <2>1 DEF QueueInv, Counts
<1>2. CASE Configured
  <2>1. drain' = "fetch" \/ (Draining' /\ again' = TRUE)
    BY <1>2 DEF Configured, Draining
  <2>. QED  BY <1>2, <2>1 DEF Configured, QueueInv, Counts, Noticed
<1>3. CASE SettingsDone \/ SnapshotDone
  <2>1. Subscribed /\ UNCHANGED <<inbox, tickles, drain, again, drainTasks, missed>>
    BY <1>3 DEF SettingsDone, SnapshotDone, Subscribed, drainVars
  <2>. QED  BY <2>1 DEF QueueInv, Counts, Noticed, Draining
<1>. QED  BY <1>1, <1>2, <1>3 DEF Connecting

\* A push starts a drain or has the one that runs look again, and a drain only
\* ends when the queue was empty or nothing was to look again.
LEMMA FetchingNotices == ASSUME QueueInv, Fetching PROVE QueueInv'
<1>0. Subscribed' => Subscribed /\ main \notin {"open", "retry"}
  BY DEF Fetching, OnMessagesWaiting, DrainBegins, NodeAnswersFetch, FetchFails, MessageFetched,
         QueueEmpty, DrainBreaks, StartGoesOn, stateVars, Subscribed
<1>1. CASE OnMessagesWaiting
  BY <1>0, <1>1 DEF OnMessagesWaiting, QueueInv, Counts, Noticed, Draining
<1>2. CASE DrainBegins
  BY <1>0, <1>2 DEF DrainBegins, NextFetch, QueueInv, Counts, Noticed, Draining
<1>3. CASE NodeAnswersFetch
  BY <1>0, <1>3 DEF NodeAnswersFetch, drainVars, QueueInv, Counts, Noticed, Draining
<1>4. CASE FetchFails
  BY <1>4 DEF FetchFails, QueueInv, Counts
<1>5. CASE MessageFetched
  BY <1>0, <1>5 DEF MessageFetched, NextFetch, QueueInv, Counts, Noticed, Draining
<1>6. CASE QueueEmpty
  BY <1>0, <1>6 DEF QueueEmpty, NextFetch, QueueInv, Counts, Noticed, Draining
<1>7. CASE DrainBreaks
  BY <1>0, <1>7 DEF DrainBreaks, QueueInv, Counts, Noticed, Draining
<1>. QED  BY <1>1, <1>2, <1>3, <1>4, <1>5, <1>6, <1>7 DEF Fetching

\* Noticing that the link is gone, and the world around it, take nothing out of
\* the queue's sight.
LEMMA WorldNotices ==
  ASSUME QueueInv,
         \/ Watching \/ MessageArrives \/ TickleLost \/ OperatorReconnects \/ NewRadio
         \/ (\E how \in {"closed", "silent"} : NodeBreaks(how)) \/ NodeReturns
         \/ UNCHANGED linkVars
  PROVE  QueueInv'
<1>1. CASE Watching \/ OperatorReconnects
  <2>1. UNCHANGED <<inbox, tickles, drain, again, drainTasks, missed>>
    BY <1>1 DEF Watching, PollLooks, OnDisconnected, WatchLooks, WatchWakes, WatchHears,
                OperatorReconnects, drainVars
  <2>2. main' = main \/ ~Subscribed'
    BY <1>1 DEF Watching, PollLooks, OnDisconnected, WatchLooks, WatchWakes, WatchHears,
                OperatorReconnects, stateVars, LinkLost, Subscribed
  <2>. QED  BY <2>1, <2>2 DEF QueueInv, Counts, Noticed, Draining, Subscribed
<1>2. CASE MessageArrives
  BY <1>2 DEF MessageArrives, stateVars, drainVars, QueueInv, Counts, Noticed, Subscribed
<1>3. CASE TickleLost
  BY <1>3 DEF TickleLost, drainVars, QueueInv, Counts
<1>4. CASE NewRadio
  BY <1>4 DEF NewRadio, QueueInv, Counts, Subscribed
<1>5. CASE (\E how \in {"closed", "silent"} : NodeBreaks(how)) \/ NodeReturns
           \/ UNCHANGED linkVars
  <2>1. UNCHANGED <<inbox, tickles, main, drain, again, drainTasks, missed>>
    BY <1>5 DEF NodeBreaks, NodeReturns, linkVars, stateVars, drainVars
  <2>. QED  BY <2>1 DEF QueueInv, Counts, Noticed, Draining, Subscribed
<1>. QED  BY <1>1, <1>2, <1>3, <1>4, <1>5

LEMMA StepNotices == ASSUME QueueInv, [Next]_vars PROVE QueueInv'
<1>1. \/ LinkNext \/ NewRadio \/ UNCHANGED linkVars
  BY DEF Next, LinkSteps, Reconnects, TrackerSteps, vars
<1>. QED  BY <1>1, ConnectingNotices, FetchingNotices, WorldNotices DEF LinkNext, LinkBot

\* No message stays in the node's queue unless a push or a fetch was lost,
\* whatever order messages, pushes, drains, breaks and reconnects come in
\* (_drain_queue, _drain_again).
THEOREM NoneIsStranded == Spec => []NothingStranded
<1>1. Init => QueueInv
  BY DEF Init, LinkInit, QueueInv, Counts
<1>2. QueueInv /\ [Next]_vars => QueueInv'
  BY StepNotices
<1>3. QueueInv => NothingStranded
  BY DEF QueueInv, NothingStranded, Noticed
<1>. QED  BY <1>1, <1>2, <1>3, PTL DEF Spec

-----------------------------------------------------------------------------
(* What is told of a packet *)

\* Where a packet that is not watched, and one that is, may be.
Untracked == {"unsent", "queued", "sending", "aired", "failed"}
Watched == {"window", "asking", "jitter", "wants", "resending", "reaired"}

\* What is known of one packet fits the place it is at: it has a place in the
\* event from the node's OK on; its row is written once, at the end, and from
\* then on row and event say what the tracker knows; and it was transmitted at
\* least as often as the tracker counts.
Fits(s, o, r, t, n, c) ==
  /\ o.echoed = (c > 0)
  /\ s \in Untracked => /\ ~o.finished /\ ~o.held /\ o.attempts = 1
                        /\ ~r.written /\ t.is = "none"
                        /\ s = "aired" => n > 0
  /\ s \in Watched => /\ ~o.finished /\ ~r.written /\ t.is = "waiting"
                      /\ o.attempts <= n
                      /\ s = "reaired" => o.attempts < n
  /\ s = "done" => /\ o.finished /\ o.attempts <= n
                   /\ r = [echo |-> o.echoed, resent |-> o.attempts - 1,
                           carried |-> o.carried, written |-> TRUE]
                   /\ t = Outcome(o)

Outbounds == [echoed : BOOLEAN, finished : BOOLEAN, attempts : Nat \ {0},
              carried : BOOLEAN, held : BOOLEAN]
Rows == [echo : BOOLEAN, resent : Nat, carried : BOOLEAN, written : BOOLEAN]
Parts == [is : {"none", "waiting", "told"}, heard : BOOLEAN, resent : Nat]

PacketTypes ==
  /\ step \in [Packets -> Steps] /\ ob \in [Packets -> Outbounds]
  /\ row \in [Packets -> Rows] /\ part \in [Packets -> Parts]
  /\ sent \in [Packets -> Nat] /\ copied \in [Packets -> Nat]
  /\ late \subseteq Packets

PacketOK(p) ==
  /\ Fits(step[p], ob[p], row[p], part[p], sent[p], copied[p])
  /\ p \in late => step[p] = "done"

\* The event was last published after the last change of a packet's place, or a
\* packet is still to be told.
FeedOK ==
  \/ feed = Summary(part)
  \/ \E p \in Packets : part[p].is = "waiting"
  \/ \A p \in Packets : part[p].is = "none"

PacketInv == PacketTypes /\ (\A p \in Packets : PacketOK(p)) /\ FeedOK

\* A step of one packet that leaves the others alone.
LEMMA OnePacket ==
  ASSUME PacketInv, NEW p \in Packets, PacketTypes', PacketOK(p)', FeedOK',
         \A q \in Packets \ {p} :
           /\ step'[q] = step[q] /\ ob'[q] = ob[q] /\ row'[q] = row[q] /\ part'[q] = part[q]
           /\ sent'[q] = sent[q] /\ copied'[q] = copied[q] /\ (q \in late' => q \in late)
  PROVE  PacketInv'
<1>. SUFFICES ASSUME NEW q \in Packets \ {p} PROVE PacketOK(q)'
  BY DEF PacketInv
<1>1. PacketOK(q)
  BY DEF PacketInv
<1>. QED  BY <1>1 DEF PacketOK

\* The record of a packet whose watcher is done.
LEMMA FinishOK ==
  ASSUME PacketInv, NEW p \in Packets, step[p] \in Watched,
         NEW o \in {ob[p], [ob[p] EXCEPT !.carried = TRUE]}, Finish(p, o), UNCHANGED <<sent, copied>>
  PROVE  PacketInv'
<1>. PacketTypes /\ PacketOK(p) /\ ob[p] \in Outbounds
  BY DEF PacketInv, PacketTypes
<1>1. /\ o \in Outbounds /\ o.attempts = ob[p].attempts /\ o.echoed = ob[p].echoed
      /\ o.attempts <= sent[p] /\ o.echoed = (copied[p] > 0)
  BY DEF Outbounds, PacketOK, Fits
<1>. DEFINE f == [o EXCEPT !.finished = TRUE]
            r == [echo |-> o.echoed, resent |-> o.attempts - 1, carried |-> o.carried, written |-> TRUE]
<1>2. /\ f \in Outbounds /\ f.finished /\ f.attempts = o.attempts /\ f.echoed = o.echoed
      /\ f.carried = o.carried
  BY <1>1 DEF Outbounds
<1>3. r \in Rows /\ Outcome(o) \in Parts /\ Outcome(f) = Outcome(o)
  BY <1>1, <1>2 DEF Outbounds, Rows, Parts, Outcome
<1>4. /\ step' = [step EXCEPT ![p] = "done"] /\ ob' = [ob EXCEPT ![p] = f]
      /\ row' = [row EXCEPT ![p] = r] /\ part' = [part EXCEPT ![p] = Outcome(o)]
      /\ feed' = Summary(part') /\ (late' = late \/ late' = late \cup {p})
  BY DEF Finish, Publish, Goto
<1>5. r = [echo |-> f.echoed, resent |-> f.attempts - 1, carried |-> f.carried, written |-> TRUE]
  BY <1>2
<1>. HIDE DEF f, r
<1>6. PacketTypes'
  BY <1>2, <1>3, <1>4 DEF PacketTypes, Steps
<1>7. /\ step'[p] = "done" /\ ob'[p] = f /\ row'[p] = r /\ part'[p] = Outcome(f)
      /\ \A q \in Packets \ {p} : /\ step'[q] = step[q] /\ ob'[q] = ob[q] /\ row'[q] = row[q]
                                  /\ part'[q] = part[q] /\ (q \in late' => q \in late)
  BY <1>3, <1>4 DEF PacketTypes
<1>8. PacketOK(p)'
  BY <1>1, <1>2, <1>5, <1>7 DEF PacketOK, Fits, Untracked, Watched
<1>9. FeedOK'
  BY <1>4 DEF FeedOK
<1>. QED  BY <1>6, <1>7, <1>8, <1>9, OnePacket

\* A packet moves on to a place of the same kind, and nothing is written of it.
LEMMA GotoOK ==
  ASSUME PacketInv, NEW p \in Packets, NEW s \in Steps, Goto(p, s), Unwritten, UNCHANGED <<ob, copied>>,
         UNCHANGED sent \/ sent' = [sent EXCEPT ![p] = @ + 1],
         \/ step[p] \in Untracked /\ s \in Untracked /\ (s = "aired" => sent'[p] > 0)
         \/ step[p] \in Watched /\ s \in Watched /\ (s = "reaired" => ob[p].attempts < sent'[p])
  PROVE  PacketInv'
<1>. PacketTypes /\ PacketOK(p) /\ p \notin late
  BY DEF PacketInv, PacketOK, Untracked, Watched
<1>1. /\ step' = [step EXCEPT ![p] = s] /\ UNCHANGED <<row, part, feed, late>>
  BY DEF Goto, Unwritten
<1>2. PacketTypes' /\ sent'[p] >= sent[p] /\ \A q \in Packets \ {p} : sent'[q] = sent[q]
  BY <1>1 DEF PacketTypes
<1>3. step'[p] = s /\ \A q \in Packets \ {p} : step'[q] = step[q]
  BY <1>1 DEF PacketTypes
<1>4. sent[p] \in Nat /\ sent'[p] \in Nat /\ ob[p].attempts \in Nat
  BY <1>2 DEF PacketTypes, Outbounds
<1>5. PacketOK(p)'
  BY <1>1, <1>2, <1>3, <1>4 DEF PacketOK, Fits, Untracked, Watched
<1>6. FeedOK'
  BY <1>1 DEF PacketInv, FeedOK
<1>. QED  BY <1>1, <1>2, <1>3, <1>5, <1>6, OnePacket

\* The sender: until the node's OK the packet has no place in the event.
LEMMA SenderOK ==
  ASSUME PacketInv, NEW p \in Packets, Send(p) \/ Sender(p)
  PROVE  PacketInv'
<1>. PacketTypes /\ PacketOK(p) /\ sent[p] \in Nat
  BY DEF PacketInv, PacketTypes
<1>1. CASE Send(p)
  BY <1>1, GotoOK DEF Send, Untracked, Steps
<1>2. CASE Airs(p)
  BY <1>2, GotoOK DEF Airs, Untracked, Steps
<1>3. CASE Transmits(p)
  <2>1. sent'[p] = sent[p] + 1 /\ ob[p].attempts \in Nat
    BY <1>3 DEF Transmits, PacketTypes, Outbounds
  <2>2. CASE step[p] = "sending"
    <3>1. Goto(p, "aired") /\ sent'[p] > 0
      BY <1>3, <2>1, <2>2 DEF Transmits
    <3>. QED  BY <1>3, <2>2, <3>1, GotoOK DEF Transmits, Untracked, Steps
  <2>3. CASE step[p] = "resending"
    <3>1. Goto(p, "reaired")
      BY <1>3, <2>3 DEF Transmits
    <3>2. ob[p].attempts < sent'[p]
      BY <2>1, <2>3 DEF PacketOK, Fits, Watched
    <3>. QED  BY <1>3, <2>3, <3>1, <3>2, GotoOK DEF Transmits, Watched, Steps
  <2>. QED  BY <1>3, <2>2, <2>3 DEF Transmits
<1>4. CASE SendFails(p)
  BY <1>4, GotoOK DEF SendFails, Untracked, Steps
<1>5. CASE Accepted(p)
  <2>1. /\ step[p] = "aired" /\ step' = [step EXCEPT ![p] = "window"]
        /\ part' = [part EXCEPT ![p] = Waiting] /\ ob' = [ob EXCEPT ![p].held = TRUE]
        /\ UNCHANGED <<row, feed, late, sent, copied>>
    BY <1>5 DEF Accepted, Goto
  <2>2. Waiting \in Parts /\ Waiting.is = "waiting"
    BY DEF Waiting, NoPart, Parts
  <2>3. /\ ob' \in [Packets -> Outbounds] /\ ob'[p].attempts = ob[p].attempts
        /\ ob'[p].echoed = ob[p].echoed /\ ob'[p].finished = ob[p].finished
        /\ \A q \in Packets \ {p} : ob'[q] = ob[q]
    BY ZenonT(40), <2>1 DEF PacketTypes, Outbounds
  <2>4. PacketTypes'
    BY <2>1, <2>2, <2>3 DEF PacketTypes, Steps
  <2>5. /\ step'[p] = "window" /\ part'[p] = Waiting
        /\ \A q \in Packets \ {p} : step'[q] = step[q] /\ part'[q] = part[q]
    BY <2>1 DEF PacketTypes
  <2>6. PacketOK(p)'
    BY <2>1, <2>2, <2>3, <2>5 DEF PacketOK, Fits, Untracked, Watched
  <2>7. FeedOK'
    BY <2>2, <2>5 DEF FeedOK
  <2>. QED  BY <2>1, <2>3, <2>4, <2>5, <2>6, <2>7, OnePacket
<1>. QED  BY <1>1, <1>2, <1>3, <1>4, <1>5 DEF Sender

\* The watcher: it ends with a row, or goes on.
LEMMA WatcherOK ==
  ASSUME PacketInv, NEW p \in Packets, Watcher(p)
  PROVE  PacketInv'
<1>. PacketTypes /\ PacketOK(p)
  BY DEF PacketInv
<1>1. ASSUME NEW o \in {ob[p], [ob[p] EXCEPT !.carried = TRUE]}, Finish(p, o),
             step[p] \in Watched, UNCHANGED <<sent, copied>>
      PROVE  PacketInv'
  BY <1>1, FinishOK
<1>2. CASE WindowEnds(p)
  BY <1>1, <1>2 DEF WindowEnds, Watched
<1>3. CASE WindowPasses(p)
  BY <1>3, GotoOK DEF WindowPasses, Watched, Steps
<1>4. CASE ScopeAnswers(p)
  <2>1. step[p] = "asking" /\ UNCHANGED <<sent, copied>>
    BY <1>4 DEF ScopeAnswers
  <2>2. CASE Finish(p, [ob[p] EXCEPT !.carried = TRUE])
    BY <1>1, <2>1, <2>2 DEF Watched
  <2>3. CASE Goto(p, "jitter") /\ UNCHANGED ob /\ Unwritten
    BY <2>1, <2>3, GotoOK DEF Watched, Steps
  <2>. QED  BY <1>4, <2>2, <2>3 DEF ScopeAnswers
<1>5. CASE JitterOver(p)
  <2>1. CASE Finish(p, ob[p])
    BY <1>1, <1>5, <2>1 DEF JitterOver, Watched
  <2>2. CASE Goto(p, "wants") /\ UNCHANGED ob /\ Unwritten
    BY <1>5, <2>2, GotoOK DEF JitterOver, Watched, Steps
  <2>. QED  BY <1>5, <2>1, <2>2 DEF JitterOver
<1>6. CASE AirsAgain(p)
  <2>1. CASE Finish(p, ob[p])
    BY <1>1, <1>6, <2>1 DEF AirsAgain, Watched
  <2>2. CASE Goto(p, "resending") /\ UNCHANGED ob /\ Unwritten
    BY <1>6, <2>2, GotoOK DEF AirsAgain, Watched, Steps
  <2>. QED  BY <1>6, <2>1, <2>2 DEF AirsAgain
<1>7. CASE ResendFails(p)
  BY <1>1, <1>7 DEF ResendFails, Watched
<1>8. CASE Resent(p)
  <2>1. /\ step[p] = "reaired" /\ step' = [step EXCEPT ![p] = "window"]
        /\ ob' = [ob EXCEPT ![p].attempts = @ + 1]
        /\ UNCHANGED <<row, part, feed, late, sent, copied>>
    BY <1>8 DEF Resent, Goto, Unwritten
  <2>2. ob[p] \in Outbounds /\ ob[p].attempts \in Nat \ {0} /\ sent[p] \in Nat
    BY DEF PacketTypes, Outbounds
  <2>3. /\ ob' \in [Packets -> Outbounds] /\ ob'[p].attempts = ob[p].attempts + 1
        /\ ob'[p].echoed = ob[p].echoed /\ ob'[p].finished = ob[p].finished
        /\ \A q \in Packets \ {p} : ob'[q] = ob[q]
    BY <2>1, <2>2 DEF PacketTypes, Outbounds
  <2>4. PacketTypes'
    BY <2>1, <2>3 DEF PacketTypes, Steps
  <2>5. /\ step'[p] = "window" /\ \A q \in Packets \ {p} : step'[q] = step[q]
    BY <2>1 DEF PacketTypes
  <2>6. PacketOK(p)'
    BY <2>1, <2>2, <2>3, <2>5 DEF PacketOK, Fits, Untracked, Watched
  <2>7. FeedOK'
    BY <2>1 DEF PacketInv, FeedOK
  <2>. QED  BY <2>1, <2>3, <2>4, <2>5, <2>6, <2>7, OnePacket
<1>. QED  BY <1>2, <1>3, <1>4, <1>5, <1>6, <1>7, <1>8 DEF Watcher

\* What comes back of a packet, at any time: a copy, the end of its hold, a late
\* reading.  After the outcome they correct row and event together.
LEMMA ReturnsOK ==
  ASSUME PacketInv, NEW p \in Packets, CopyHeard(p) \/ HoldOver(p) \/ LateReading(p)
  PROVE  PacketInv'
<1>. PacketTypes /\ PacketOK(p) /\ ob[p] \in Outbounds /\ row[p] \in Rows /\ copied[p] \in Nat
  BY DEF PacketInv, PacketTypes
<1>0. UNCHANGED <<step, sent>> /\ late' \subseteq late
  BY DEF CopyHeard, HoldOver, LateReading
<1>1. ASSUME NEW o \in Outbounds, ob' = [ob EXCEPT ![p] = o], UNCHANGED <<row, part, feed>>,
             o.finished = ob[p].finished, o.attempts = ob[p].attempts, o.carried = ob[p].carried,
             copied' \in [Packets -> Nat],
             \A q \in Packets \ {p} : copied'[q] = copied[q],
             o.echoed = (copied'[p] > 0),
             ob[p].finished => o.echoed = ob[p].echoed,
             ob[p].held \/ o.held = ob[p].held
      PROVE  PacketInv'
  <2>1. PacketTypes'
    BY <1>0, <1>1 DEF PacketTypes
  <2>2. step[p] = "done" => ob[p].finished /\ Outcome(o) = Outcome(ob[p])
    BY <1>1 DEF PacketOK, Fits, Outcome
  <2>3. ob'[p] = o /\ \A q \in Packets \ {p} : ob'[q] = ob[q]
    BY <1>1 DEF PacketTypes
  <2>4. PacketOK(p)'
    BY ZenonT(40), <1>0, <1>1, <2>2, <2>3 DEF PacketOK, Fits, Untracked, Watched
  <2>5. FeedOK'
    BY <1>1 DEF PacketInv, FeedOK
  <2>. QED  BY <1>0, <1>1, <2>1, <2>4, <2>5, <2>3, OnePacket
<1>2. ASSUME NEW o \in Outbounds, NEW r \in Rows, step[p] = "done",
             ob' = [ob EXCEPT ![p] = o], row' = [row EXCEPT ![p] = r],
             part' = [part EXCEPT ![p] = Outcome(o)], feed' = Summary(part'),
             o.finished, o.attempts = ob[p].attempts, r.written,
             r.echo = o.echoed, r.carried = o.carried, r.resent = row[p].resent,
             copied' \in [Packets -> Nat],
             \A q \in Packets \ {p} : copied'[q] = copied[q],
             o.echoed = (copied'[p] > 0)
      PROVE  PacketInv'
  <2>1. row[p].resent = ob[p].attempts - 1 /\ ob[p].attempts <= sent[p]
    BY <1>2 DEF PacketOK, Fits
  <2>2. Outcome(o) \in Parts
    BY DEF Outcome, Parts, Outbounds
  <2>3. PacketTypes'
    BY <1>0, <1>2, <2>2 DEF PacketTypes
  <2>4. /\ ob'[p] = o /\ row'[p] = r /\ part'[p] = Outcome(o)
        /\ \A q \in Packets \ {p} : ob'[q] = ob[q] /\ row'[q] = row[q] /\ part'[q] = part[q]
    BY <1>2 DEF PacketTypes
  <2>5. r = [echo |-> o.echoed, resent |-> o.attempts - 1, carried |-> o.carried, written |-> TRUE]
    BY <1>2, <2>1 DEF Rows
  <2>6. PacketOK(p)'
    BY <1>0, <1>2, <2>1, <2>4, <2>5 DEF PacketOK, Fits, Untracked, Watched
  <2>7. FeedOK'
    BY <1>2 DEF FeedOK
  <2>. QED  BY <1>0, <1>2, <2>3, <2>4, <2>6, <2>7, OnePacket
<1>3. CASE CopyHeard(p)
  <2>. DEFINE o == [ob[p] EXCEPT !.echoed = TRUE]
              r == [row[p] EXCEPT !.echo = TRUE]
  <2>1. /\ ob[p].held /\ copied' \in [Packets -> Nat] /\ copied'[p] > 0
        /\ \A q \in Packets \ {p} : copied'[q] = copied[q]
    BY <1>3 DEF CopyHeard, PacketTypes
  <2>2. /\ o \in Outbounds /\ o.finished = ob[p].finished /\ o.attempts = ob[p].attempts
        /\ o.carried = ob[p].carried /\ o.echoed /\ o.echoed = (copied'[p] > 0)
    BY <2>1 DEF Outbounds
  <2>3. CASE ob[p].echoed
    <3>1. UNCHANGED <<ob, row, part, feed>>
      BY <1>3, <2>3 DEF CopyHeard
    <3>2. ob' = [ob EXCEPT ![p] = ob[p]]
      BY <3>1 DEF PacketTypes
    <3>. QED  BY <1>1, <2>1, <2>3, <3>1, <3>2
  <2>4. CASE ~ob[p].echoed /\ ob[p].finished
    <3>1. /\ ob' = [ob EXCEPT ![p] = o] /\ row' = [row EXCEPT ![p] = r]
          /\ part' = [part EXCEPT ![p] = Outcome(o)] /\ feed' = Summary(part')
      BY <1>3, <2>2, <2>4 DEF CopyHeard, Publish, PacketTypes
    <3>2. step[p] = "done"
      BY <2>4 DEF PacketOK, Fits, Untracked, Watched, PacketTypes, Steps
    <3>3. /\ r \in Rows /\ r.echo /\ r.carried = row[p].carried /\ r.written = row[p].written
          /\ r.resent = row[p].resent
      BY DEF Rows
    <3>4. row[p].carried = ob[p].carried /\ row[p].written
      BY <3>2 DEF PacketOK, Fits
    <3>5. r.carried = o.carried /\ r.written /\ r.echo = o.echoed
      BY <2>2, <3>3, <3>4 DEF Rows, Outbounds
    <3>. HIDE DEF o, r
    <3>. QED  BY <1>2, <2>1, <2>2, <2>4, <3>1, <3>2, <3>3, <3>5
  <2>5. CASE ~ob[p].echoed /\ ~ob[p].finished
    <3>1. ob' = [ob EXCEPT ![p] = o] /\ UNCHANGED <<row, part, feed>>
      BY <1>3, <2>5 DEF CopyHeard
    <3>. HIDE DEF o
    <3>. QED  BY <1>1, <2>1, <2>2, <2>5, <3>1
  <2>. QED  BY <2>3, <2>4, <2>5
<1>4. CASE HoldOver(p)
  <2>. DEFINE o == [ob[p] EXCEPT !.held = FALSE]
  <2>1. ob[p].held /\ ob' = [ob EXCEPT ![p] = o] /\ UNCHANGED <<row, part, feed, copied>>
    BY <1>4 DEF HoldOver
  <2>2. /\ o \in Outbounds /\ o.finished = ob[p].finished /\ o.attempts = ob[p].attempts
        /\ o.carried = ob[p].carried /\ o.echoed = ob[p].echoed
    BY DEF Outbounds
  <2>3. ob[p].echoed = (copied[p] > 0) /\ copied \in [Packets -> Nat]
    BY DEF PacketTypes, PacketOK, Fits
  <2>. HIDE DEF o
  <2>. QED  BY <1>1, <2>1, <2>2, <2>3
<1>5. CASE LateReading(p)
  <2>. DEFINE o == [ob[p] EXCEPT !.carried = TRUE]
              r == [row[p] EXCEPT !.carried = TRUE]
  <2>1. step[p] = "done" /\ UNCHANGED copied /\ copied \in [Packets -> Nat]
    BY <1>5 DEF LateReading, PacketOK, PacketTypes
  <2>2. /\ ob[p].finished /\ ob[p].echoed = (copied[p] > 0) /\ row[p].written
        /\ row[p].echo = ob[p].echoed
    BY <2>1 DEF PacketOK, Fits
  <2>3. CASE UNCHANGED <<ob, row, part, feed>>
    <3>1. ob' = [ob EXCEPT ![p] = ob[p]]
      BY <2>3 DEF PacketTypes
    <3>. QED  BY <1>1, <2>1, <2>2, <2>3, <3>1
  <2>4. CASE ob' = [ob EXCEPT ![p] = o] /\ row' = [row EXCEPT ![p].carried = TRUE] /\ Publish(p, o)
    <3>1. /\ row' = [row EXCEPT ![p] = r]
          /\ part' = [part EXCEPT ![p] = Outcome(o)] /\ feed' = Summary(part')
      BY <2>4 DEF Publish, PacketTypes
    <3>2. /\ r \in Rows /\ r.echo = row[p].echo /\ r.carried = TRUE /\ r.written = row[p].written
          /\ r.resent = row[p].resent
      BY DEF Rows
    <3>3. /\ o \in Outbounds /\ o.finished = ob[p].finished /\ o.attempts = ob[p].attempts
          /\ o.carried = TRUE /\ o.echoed = ob[p].echoed
      BY DEF Outbounds
    <3>4. ob' = [ob EXCEPT ![p] = o]
      BY <2>4
    <3>. HIDE DEF o, r
    <3>. QED  BY <1>2, <2>1, <2>2, <3>1, <3>2, <3>3, <3>4
  <2>. QED  BY <1>5, <2>3, <2>4 DEF LateReading
<1>. QED  BY <1>3, <1>4, <1>5

\* The rest of the bot, the link and the hour leave what is told alone.
LEMMA StepTells == ASSUME PacketInv, [Next]_vars PROVE PacketInv'
<1>1. CASE UNCHANGED <<step, ob, row, part, feed, late, sent, copied>>
  BY <1>1 DEF PacketInv, PacketTypes, PacketOK, FeedOK
<1>2. CASE TrackerNext
  BY <1>1, <1>2, SenderOK, WatcherOK, ReturnsOK DEF TrackerNext, HourPasses
<1>. QED
  BY <1>1, <1>2 DEF Next, vars, LinkSteps, Reconnects, PacketsLeftBehind, TrackerSteps, trackerVars

\* When nothing is waiting any more the event counts what the rows say.
LEMMA RowsAreTold == ASSUME PacketInv PROVE HeardIsTold
<1>. DEFINE out == {p \in Packets : part[p].is # "none"}
            told == {p \in Packets : part[p].is = "told"}
<1>1. ASSUME NEW p \in Packets, row[p].written
      PROVE  /\ step[p] = "done" /\ ob[p].attempts \in Nat /\ sent[p] \in Nat
             /\ row[p].echo = (copied[p] > 0) /\ row[p].resent < sent[p]
             /\ part[p].is = "told" /\ part[p].resent = row[p].resent
             /\ part[p].heard = (row[p].echo \/ row[p].carried)
  <2>1. PacketTypes /\ PacketOK(p)
    BY DEF PacketInv
  <2>2. ob[p].attempts \in Nat /\ sent[p] \in Nat
    BY <2>1 DEF PacketTypes, Outbounds
  <2>3. step[p] = "done"
    BY <1>1, <2>1 DEF PacketOK, Fits, Untracked, Watched, PacketTypes, Steps
  <2>. QED  BY <2>1, <2>2, <2>3 DEF PacketOK, Fits, Outcome
<1>2. ASSUME out # {}, \A p \in out : row[p].written
      PROVE  feed = [packets |-> Cardinality(out), pending |-> 0,
                     heard   |-> Cardinality({p \in out : row[p].echo \/ row[p].carried}),
                     resent  |-> Total([p \in out |-> row[p].resent])]
  <2>1. \A p \in out : part[p].is = "told" /\ part[p].resent = row[p].resent
                       /\ part[p].heard = (row[p].echo \/ row[p].carried)
    BY <1>1, <1>2
  <2>2. told = out /\ {p \in Packets : part[p].is = "waiting"} = {}
    BY <2>1
  <2>3. feed = Summary(part)
    BY <1>2, <2>2 DEF PacketInv, FeedOK
  <2>4. {p \in told : part[p].heard} = {p \in out : row[p].echo \/ row[p].carried}
    BY <2>1, <2>2
  <2>5. [p \in told |-> part[p].resent] = [p \in out |-> row[p].resent]
    BY <2>1, <2>2
  <2>6. Cardinality({p \in Packets : part[p].is = "waiting"}) = 0
    BY <2>2, FS_EmptySet
  <2>7. Summary(part) = [packets |-> Cardinality(out),
                         pending |-> Cardinality({p \in Packets : part[p].is = "waiting"}),
                         heard   |-> Cardinality({p \in told : part[p].heard}),
                         resent  |-> Total([p \in told |-> part[p].resent])]
    BY DEF Summary
  <2>. HIDE DEF out, told
  <2>. QED  BY <2>3, <2>4, <2>5, <2>6, <2>7
<1>. QED  BY <1>1, <1>2 DEF HeardIsTold

\* What the operator reads of a packet is what happened to it: whatever copies,
\* lookups, resends, lost answers and new radios come in which order, a row
\* says "heard" exactly when a copy was handled, and the event counts the rows.
THEOREM HeardAndTold == Spec => []HeardIsTold
<1>1. Init => PacketInv
  <2>. SUFFICES ASSUME Init PROVE PacketInv
    OBVIOUS
  <2>1. PacketTypes
    BY DEF Init, TrackerInit, PacketTypes, Steps, Outbounds, Rows, Parts, NoRow, NoPart
  <2>2. ASSUME NEW p \in Packets PROVE PacketOK(p)
    <3>1. /\ step[p] = "unsent" /\ copied[p] = 0 /\ late = {}
          /\ ~ob[p].echoed /\ ~ob[p].finished /\ ~ob[p].held /\ ob[p].attempts = 1
          /\ ~row[p].written /\ part[p].is = "none"
      BY DEF Init, TrackerInit, NoRow, NoPart
    <3>2. ob[p].echoed = FALSE
      BY DEF Init, TrackerInit
    <3>3. (copied[p] > 0) = FALSE
      BY <3>1, SMT
    <3>4. ob[p].echoed = (copied[p] > 0)
      BY <3>2, <3>3, Zenon
    <3>. QED  BY <3>1, <3>4 DEF PacketOK, Fits, Untracked, Watched
  <2>3. FeedOK
    BY DEF Init, TrackerInit, FeedOK, NoPart
  <2>. QED  BY <2>1, <2>2, <2>3 DEF PacketInv
<1>2. PacketInv /\ [Next]_vars => PacketInv'
  BY StepTells
<1>3. PacketInv => HeardIsTold
  BY RowsAreTold
<1>. QED  BY <1>1, <1>2, <1>3, PTL DEF Spec
=============================================================================
