-------------------------- MODULE WeatherRequests --------------------------
(***************************************************************************)
(* The request half of the web client's weather service                    *)
(* (web/src/weather/WeatherService.js): sending a request to a bot, the     *)
(* resend ladder, the delivery confirmations of the radio, pairing what the *)
(* channel carries with the requests waiting, and the end of a connection.  *)
(*                                                                          *)
(* send(), ingest(), the timeout handlers and startEventMonitoring() run    *)
(* one at a time through the service's promise queue; each await inside one *)
(* is a state of `job`, and between two of them the calls that do NOT go     *)
(* through the queue may run: acknowledge(), stopEventMonitoring() and the   *)
(* timers.                                                                  *)
(*                                                                          *)
(* A tick of the clock is five seconds.  Screens, persistence, the traffic   *)
(* log and what a message says beyond which request it answers are left out. *)
(***************************************************************************)
EXTENDS Integers, Sequences, FiniteSets

CONSTANTS
  Requests,        \* taps: each becomes at most one pending request
  Bots,
  Kinds,           \* kinds of request (forecast, list of alerts, parts, ...)
  BotOf,           \* the bot a tap is addressed to
  KindOf,          \* and what it asks for
  LetterOf,        \* the letter a kind is refused under (spec section 9)
  AnyBotKinds,     \* kinds any bot may answer (acceptsAnswerFromAnyBot)
  SlotKinds,       \* kinds an earlier answer can stand in for (#answerSlots)
  SharedSlotKinds, \* those whose earlier answer may be any bot's
  AlertKinds,      \* kinds #answerLeavesSomethingOutstanding may let through
  Announced,       \* bots whose whole key an advert carried
  Floods,          \* whether a radio can send a datagram: {TRUE}, {FALSE}, BOOLEAN
  Messages,        \* what the channel may carry
  Spacing,         \* requestSpacing, in ticks
  ChannelTimeout,  \* channelAnswerTimeout
  DmTimeout,       \* answerTimeout
  RecentWindow,    \* recentAnswerWindow
  SeqModulus,      \* request sequence numbers (256)
  AckLimit,        \* unmatchedAcknowledgementLimit
  MaxTime,         \* bound: the last instant; it stands for any later one
  LastAsk,         \* bound: the user taps no later than this
  MaxConnects,     \* bound: connections made
  MaxForeignAcks,  \* bound: confirmations of the phone's other messages
  MaxIngests       \* bound: messages heard

\* What a message decoded from the channel amounts to for the requests: the
\* answer to a kind, a part of one that fills no answer slot (a chunk of a
\* text, an older radar frame), or a refusal of the kind's letter; from a bot,
\* heard live or drained from the radio's backlog, fresh or a duplicate.
AllMessages == [type : {"answer", "partial", "refusal"}, kind : Kinds, bot : Bots,
                backlog : BOOLEAN, duplicate : BOOLEAN]

ASSUME ConstantsAssumption ==
  /\ Messages \subseteq AllMessages /\ Floods \subseteq BOOLEAN
  /\ BotOf \in [Requests -> Bots]
  /\ KindOf \in [Requests -> Kinds]
  /\ AnyBotKinds \subseteq Kinds /\ SlotKinds \subseteq Kinds
  /\ SharedSlotKinds \subseteq SlotKinds
  /\ AlertKinds \subseteq Kinds /\ Announced \subseteq Bots
  /\ Spacing \in Nat \ {0} /\ ChannelTimeout \in Nat \ {0} /\ DmTimeout \in Nat \ {0}
  /\ RecentWindow \in Nat /\ SeqModulus \in Nat \ {0} /\ AckLimit \in Nat \ {0}
  /\ MaxTime \in Nat /\ LastAsk \in Nat /\ MaxConnects \in Nat
  /\ MaxForeignAcks \in Nat /\ MaxIngests \in Nat

VARIABLES
  now,
  connected,       \* service.transport is a radio, not NoWeatherTransport
  listening,       \* the datagram and acknowledgement streams are subscribed
  queue,           \* the jobs behind `this.queue`, first to run first
  job,             \* the one running, at the await it waits on
  pending,         \* the keys of `this.pending`
  entry,           \* its values: the request and its timer
  lastSendAt,
  nextRequestSeq,
  unmatched,       \* unmatchedAcknowledgements
  lastAnswers,     \* slot -> when a live message filled it
  lastLiveHeardAt,
  air,             \* history: the transmissions of requests
  acked,           \* history: confirmations of requests the radio pushed
  evicted,         \* history: those dropped from `unmatched` unmatched
  view,            \* history: what the emitted events told (RequestPromise)
  connects, foreignAcks, ingests      \* counters of the bounds

serviceVars == <<pending, entry, lastSendAt, nextRequestSeq, unmatched,
                 lastAnswers, lastLiveHeardAt>>
historyVars == <<air, acked, evicted, view>>
boundVars == <<connects, foreignAcks, ingests>>
vars == <<now, connected, listening, queue, job, serviceVars, historyVars, boundVars>>

Promise == INSTANCE RequestPromise

NoTime == -1
Times == {NoTime} \cup 0 .. MaxTime

-----------------------------------------------------------------------------
(* Data *)

\* The code the radio expects back for one transmission.  It is a hash of the
\* timestamp, the attempt and the text, so no two transmissions share one.
AckCodes == [id : Requests, attempt : 0 .. 2]
ForeignAck == [id |-> "foreign", attempt |-> 0]
Code(r, n) == [id |-> r, attempt |-> n]

\* WeatherPendingRequest and its timer: the deadline it is armed for.
Entries == [via : Promise!Transports, sentAt : 0 .. MaxTime,
            timestamp : 0 .. MaxTime, seq : 0 .. SeqModulus - 1,
            attempt : 0 .. 2, ackCodes : SUBSET AckCodes,
            confirmed : BOOLEAN, timer : {NoTime} \cup Nat]

\* The value kept for a request that is not pending.
NoEntry == [via |-> "channel", sentAt |-> 0, timestamp |-> 0, seq |-> 0,
            attempt |-> 0, ackCodes |-> {}, confirmed |-> FALSE, timer |-> NoTime]

\* The jobs that run through #serialised.
SendJob(r) == [type |-> "send", id |-> r]
TimeoutJob(r) == [type |-> "timeout", id |-> r]
IngestJob(m) == [type |-> "ingest", message |-> m]
StartJob == [type |-> "start"]

\* The await the running job is at.  `attempt` is the transmission in flight,
\* `radio` whether it was handed to a radio or to NoWeatherTransport, `since`
\* the moment the job stamped it with.
Idle == [at |-> "idle"]
Await(at, r, n, since) ==
  [at |-> at, id |-> r, attempt |-> n, radio |-> connected, since |-> since]

AnyBot == "*"
Slots == [bot : Bots \cup {AnyBot}, kind : SlotKinds]

-----------------------------------------------------------------------------
(* Events: what an observer learns *)

Moved(r, phase) == [view EXCEPT ![r].phase = phase]
SentEvent(r, via, n, confirmed) ==
  [view EXCEPT ![r].phase = "onAir", ![r].via = via, ![r].attempt = n,
               ![r].confirmed = confirmed]

\* Every pending request of `gone` is settled: removed, its
\* timer cancelled, one requestSettled each.
SettleAll(gone, outcome) ==
  /\ pending' = pending \ gone
  /\ entry' = [r \in Requests |-> IF r \in gone THEN NoEntry ELSE entry[r]]
  /\ view' = [r \in Requests |->
                IF r \in gone
                THEN [view[r] EXCEPT !.phase = "settled", !.outcome = outcome]
                ELSE view[r]]

Settle(r, outcome) == SettleAll({r} \cap pending, outcome)

-----------------------------------------------------------------------------
Init ==
  /\ now = 0 /\ connected = FALSE /\ listening = FALSE
  /\ queue = <<>> /\ job = Idle
  /\ pending = {} /\ entry = [r \in Requests |-> NoEntry]
  /\ lastSendAt = NoTime /\ nextRequestSeq = 0 /\ unmatched = <<>>
  /\ lastAnswers = [s \in Slots |-> NoTime]
  /\ lastLiveHeardAt = [b \in Bots |-> NoTime]
  /\ air = {} /\ acked = {} /\ evicted = {} /\ view = [r \in Requests |-> Promise!NoView]
  /\ connects = 0 /\ foreignAcks = 0 /\ ingests = 0

-----------------------------------------------------------------------------
(* The world around the queue *)

Enqueue(j) == queue' = Append(queue, j)

Tick ==
  /\ now < MaxTime
  /\ now' = now + 1
  /\ UNCHANGED <<connected, listening, queue, job, serviceVars, historyVars, boundVars>>

\* The user taps a request.
Ask(r) ==
  /\ view[r].phase = "new" /\ now <= LastAsk
  /\ view' = Moved(r, "asked")
  /\ Enqueue(SendJob(r))
  /\ UNCHANGED <<now, connected, listening, job, serviceVars, air, acked, evicted, boundVars>>

\* RadioConnection gives the service a transport and asks it to listen.
Connect ==
  /\ ~connected /\ connects < MaxConnects
  /\ connected' = TRUE /\ connects' = connects + 1
  /\ Enqueue(StartJob)
  /\ UNCHANGED <<now, listening, job, serviceVars, historyVars, foreignAcks, ingests>>

\* RadioConnection's teardown: stopEventMonitoring(), not through the queue,
\* then the transport that sends nothing.
Disconnect ==
  /\ connected
  /\ connected' = FALSE /\ listening' = FALSE
  /\ SettleAll(pending, "failed")
  /\ UNCHANGED <<now, queue, job, lastSendAt, nextRequestSeq, unmatched, lastAnswers,
                 lastLiveHeardAt, air, acked, evicted, boundVars>>

\* A message of the weather slot reaches the service.
Hear(m) ==
  /\ listening /\ ingests < MaxIngests
  /\ ingests' = ingests + 1
  /\ Enqueue(IngestJob(m))
  /\ UNCHANGED <<now, connected, listening, job, serviceVars, historyVars, connects, foreignAcks>>

\* A timer runs out: its callback only queues the handler.
TimerFires(r) ==
  /\ r \in pending /\ entry[r].timer # NoTime
  /\ now >= entry[r].timer \/ now = MaxTime
  /\ entry' = [entry EXCEPT ![r].timer = NoTime]
  /\ Enqueue(TimeoutJob(r))
  /\ UNCHANGED <<now, connected, listening, job, pending, lastSendAt, nextRequestSeq,
                 unmatched, lastAnswers, lastLiveHeardAt, historyVars, boundVars>>

-----------------------------------------------------------------------------
(* Confirmations: acknowledge() and #takeEarlyAcknowledgement() *)

IndexOf(code) == CHOOSE i \in 1 .. Len(unmatched) : unmatched[i] = code
NeverEarly(code) == FALSE                               \* mutation
IsEarly(code) == \E i \in 1 .. Len(unmatched) : unmatched[i] = code
WithoutFirst(code) ==
  SubSeq(unmatched, 1, IndexOf(code) - 1) \o SubSeq(unmatched, IndexOf(code) + 1, Len(unmatched))

Expecting(code) == {r \in pending : code \in entry[r].ackCodes}

\* No pending request expects the code: kept, the oldest making room.
KeepUnmatched(code) ==
  LET kept == Append(unmatched, code)
      full == Len(kept) > AckLimit
  IN /\ unmatched' = IF full THEN Tail(kept) ELSE kept
     /\ evicted' = IF full THEN evicted \cup {Head(kept)} ELSE evicted
     /\ UNCHANGED <<entry, view>>

MarkReceived(r) ==
  /\ entry' = [entry EXCEPT ![r].confirmed = TRUE]
  /\ view' = [view EXCEPT ![r].confirmed = TRUE]
  /\ UNCHANGED <<unmatched, evicted>>

\* The radio pushes the confirmation of a transmission of a request.
Acknowledge(r, n) ==
  LET code == Code(r, n) IN
  /\ listening /\ code \notin acked
  /\ \E t \in air : t.id = r /\ t.attempt = n /\ t.via = "dm"
  /\ acked' = acked \cup {code}
  /\ \/ Expecting(code) = {} /\ KeepUnmatched(code)
     \/ r \in Expecting(code) /\ MarkReceived(r)
  /\ UNCHANGED <<now, connected, listening, queue, job, pending, lastSendAt,
                 nextRequestSeq, lastAnswers, lastLiveHeardAt, air, boundVars>>

\* The same push for a direct message of the phone's own that is no request.
AcknowledgeForeign ==
  /\ listening /\ foreignAcks < MaxForeignAcks
  /\ foreignAcks' = foreignAcks + 1
  /\ KeepUnmatched(ForeignAck)
  /\ UNCHANGED <<now, connected, listening, queue, job, pending, lastSendAt,
                 nextRequestSeq, lastAnswers, lastLiveHeardAt, air, acked, connects, ingests>>

-----------------------------------------------------------------------------
(* Sending *)

Runs(j) == job = Idle /\ queue # <<>> /\ Head(queue) = j /\ queue' = Tail(queue)

\* An await of the running job comes back; `a` is the job.
Returns(at) == job.at = at /\ UNCHANGED queue

\* A transmission, under the wire timestamp and stamped with the moment the
\* service took for it.
Transmission(r, via, n, timestamp, seq, at) ==
  [id |-> r, via |-> via, attempt |-> n, timestamp |-> timestamp, seq |-> seq,
   sentAt |-> at, confirmed |-> entry[r].confirmed]

FirstDatagram(r) == Transmission(r, "channel", 0, job.since, nextRequestSeq, job.since)

SlotOf(kind, bot) == [bot |-> IF kind \in SharedSlotKinds THEN AnyBot ELSE bot, kind |-> kind]

\* The answer to this tap was heard live within the last five minutes.
AnsweredRecently(r) ==
  /\ KindOf[r] \in SlotKinds
  /\ LET at == lastAnswers[SlotOf(KindOf[r], BotOf[r])]
     IN at # NoTime /\ now - at < RecentWindow

NeverTooSoon == FALSE                                   \* mutation
TooSoon == lastSendAt # NoTime /\ now - lastSendAt < Spacing

serviceButEntries == <<lastSendAt, nextRequestSeq, unmatched, lastAnswers, lastLiveHeardAt>>

TurnAway(r, how) ==
  /\ view' = Moved(r, how)
  /\ job' = Idle
  /\ UNCHANGED <<pending, entry, serviceButEntries>>

\* send() runs: answered from what the channel carried, refused inside the
\* spacing, or handed to the radio as a datagram.  An alert request may go
\* out although its answer is recent (a gap the answer cannot speak for).
Send(r) ==
  /\ Runs(SendJob(r))
  /\ \/ AnsweredRecently(r) /\ TurnAway(r, "served")
     \/ /\ AnsweredRecently(r) => KindOf[r] \in AlertKinds
        /\ TooSoon
        /\ TurnAway(r, "refused")
     \/ /\ AnsweredRecently(r) => KindOf[r] \in AlertKinds
        /\ ~TooSoon
        /\ lastSendAt' = now
        /\ job' = Await("channel", r, 0, now)
        /\ UNCHANGED <<pending, entry, nextRequestSeq, unmatched, lastAnswers,
                       lastLiveHeardAt, view>>
  /\ UNCHANGED <<now, connected, listening, air, acked, evicted, boundVars>>

\* #armTimer: the deadline of the answer.
NeverArmed(timeout) == NoTime                           \* mutation
ArmTimer(timeout) == now + timeout

\* pending.set, armTimer, requestSent.
Launch(r, e) ==
  /\ pending' = pending \cup {r}
  /\ entry' = [entry EXCEPT ![r] = e]
  /\ view' = SentEvent(r, e.via, 0, e.confirmed)
  /\ job' = Idle

NewEntry(via, seq, codes, confirmed, timeout) ==
  [via |-> via, sentAt |-> job.since, timestamp |-> job.since, seq |-> seq, attempt |-> 0,
   ackCodes |-> codes, confirmed |-> confirmed, timer |-> ArmTimer(timeout)]

NextSeq == (nextRequestSeq + 1) % SeqModulus

ChannelSent(r) ==
  /\ Returns("channel") /\ job.id = r /\ job.radio /\ TRUE \in Floods
  /\ air' = air \cup {FirstDatagram(r)}
  /\ nextRequestSeq' = NextSeq
  /\ Launch(r, NewEntry("channel", nextRequestSeq, {}, FALSE, ChannelTimeout))
  /\ UNCHANGED <<now, connected, listening, lastSendAt, unmatched, lastAnswers,
                 lastLiveHeardAt, acked, evicted, boundVars>>

\* The transport throws.  The radio may have sent the datagram all the same
\* (its OK lost); nothing is pending and the sequence number is used again.
ChannelFails(r) ==
  /\ Returns("channel") /\ job.id = r
  /\ air' \in {air} \cup (IF job.radio
                          THEN {air \cup {FirstDatagram(r)} : x \in Floods \ {FALSE}}
                          ELSE {})
  /\ TurnAway(r, "refused")
  /\ UNCHANGED <<now, connected, listening, acked, evicted, boundVars>>

\* This radio cannot flood a datagram: the direct message is the fallback,
\* for a bot whose whole key is known.
ChannelUnavailable(r) ==
  /\ Returns("channel") /\ job.id = r /\ job.radio /\ FALSE \in Floods
  /\ \/ /\ BotOf[r] \in Announced
        /\ job' = Await("dm", r, 0, job.since)
        /\ air' = IF connected THEN air \cup {Transmission(r, "dm", 0, job.since, 0, job.since)} ELSE air
        /\ UNCHANGED <<serviceVars, view>>
     \/ BotOf[r] \notin Announced /\ TurnAway(r, "refused") /\ UNCHANGED air
  /\ UNCHANGED <<now, connected, listening, acked, evicted, boundVars>>

\* #takeEarlyAcknowledgement: the confirmation overtook the send.
TakeEarly(code) ==
  unmatched' = IF IsEarly(code) THEN WithoutFirst(code) ELSE unmatched

DmSent(r) ==
  LET code == Code(r, 0) IN
  /\ Returns("dm") /\ job.id = r /\ job.radio
  /\ Launch(r, NewEntry("dm", 0, {code}, IsEarly(code), DmTimeout))
  /\ TakeEarly(code)
  /\ UNCHANGED <<now, connected, listening, lastSendAt, nextRequestSeq, lastAnswers,
                 lastLiveHeardAt, air, acked, evicted, boundVars>>

DmFails(r) ==
  /\ Returns("dm") /\ job.id = r
  /\ TurnAway(r, "refused")
  /\ UNCHANGED <<now, connected, listening, air, acked, evicted, boundVars>>

-----------------------------------------------------------------------------
(* The resend ladder: #handleTimeout and #handleChannelTimeout *)

\* The bot was heard live since the request's first transmission.
WasHeard(r) == lastLiveHeardAt[BotOf[r]] > entry[r].timestamp

ResendAt(via) == IF via = "channel" THEN "resendChannel" ELSE "resendDm"

\* What an expired timer leads to.
AsksAgainUnlessHeard(r) ==                              \* mutation
  entry[r].attempt = 0 /\ ~WasHeard(r)
AsksAgain(r) ==
  entry[r].attempt = 0 /\ (entry[r].via = "dm" => ~WasHeard(r))
NeedsFlood(r) ==
  /\ entry[r].via = "dm" /\ ~entry[r].confirmed
  /\ entry[r].attempt = 1 \/ (entry[r].attempt = 0 /\ WasHeard(r))

BeginResend(r, n) ==
  /\ entry' = [entry EXCEPT ![r].attempt = n, ![r].sentAt = now]
  /\ lastSendAt' = now
  /\ job' = Await(ResendAt(entry[r].via), r, n, now)
  /\ air' = IF connected
            THEN air \cup {Transmission(r, entry[r].via, n, entry[r].timestamp,
                                       entry[r].seq, now)}
            ELSE air

HandleTimeout(r) ==
  /\ Runs(TimeoutJob(r))
  /\ \/ /\ r \notin pending
        /\ UNCHANGED <<job, serviceVars, air, view>>
     \/ /\ r \in pending /\ AsksAgain(r)
        /\ BeginResend(r, 1)
        /\ UNCHANGED <<pending, nextRequestSeq, unmatched, lastAnswers, lastLiveHeardAt, view>>
     \/ /\ r \in pending /\ ~AsksAgain(r) /\ NeedsFlood(r)
        /\ job' = Await("reset", r, 2, now)
        /\ UNCHANGED <<serviceVars, air, view>>
     \/ /\ r \in pending /\ ~AsksAgain(r) /\ ~NeedsFlood(r)
        /\ Settle(r, "timedOut")
        /\ UNCHANGED <<job, serviceButEntries, air>>
  /\ UNCHANGED <<now, connected, listening, acked, evicted, boundVars>>

\* resetPath came back, or failed: the flood goes out either way, to a
\* request that is still pending.
PathReset(r) ==
  /\ Returns("reset") /\ job.id = r
  /\ \/ /\ r \notin pending
        /\ job' = Idle
        /\ UNCHANGED <<entry, lastSendAt, air>>
     \/ /\ r \in pending
        /\ BeginResend(r, 2)
  /\ UNCHANGED <<now, connected, listening, pending, nextRequestSeq, unmatched, lastAnswers,
                 lastLiveHeardAt, acked, evicted, view, boundVars>>

\* The second datagram went out, with the first one's timestamp and number.
ChannelResent(r) ==
  /\ Returns("resendChannel") /\ job.id = r /\ job.radio
  /\ job' = Idle
  /\ \/ r \notin pending /\ UNCHANGED <<entry, view>>
     \/ /\ r \in pending
        /\ entry' = [entry EXCEPT ![r].timer = ArmTimer(ChannelTimeout)]
        /\ view' = SentEvent(r, "channel", 1, FALSE)
  /\ UNCHANGED <<now, connected, listening, pending, serviceButEntries, air, acked, evicted,
                 boundVars>>

\* A later direct message went out: one more code to expect.
DmResent(r) ==
  LET code == Code(r, job.attempt)
      early == entry[r].confirmed \/ IsEarly(code)
  IN
  /\ Returns("resendDm") /\ job.id = r /\ job.radio
  /\ job' = Idle
  /\ \/ r \notin pending /\ UNCHANGED <<entry, view, unmatched>>
     \/ /\ r \in pending
        /\ entry' = [entry EXCEPT ![r].ackCodes = entry[r].ackCodes \cup {code},
                                  ![r].confirmed = early, ![r].timer = ArmTimer(DmTimeout)]
        /\ view' = SentEvent(r, "dm", job.attempt, early)
        /\ TakeEarly(code)
  /\ UNCHANGED <<now, connected, listening, pending, lastSendAt, nextRequestSeq, lastAnswers,
                 lastLiveHeardAt, air, acked, evicted, boundVars>>

\* The transport refuses a resend.
ResendFails(r) ==
  /\ Returns("resendChannel") \/ Returns("resendDm")
  /\ job.id = r
  /\ job' = Idle
  /\ Settle(r, "failed")
  /\ UNCHANGED <<now, connected, listening, serviceButEntries, air, acked, evicted, boundVars>>

-----------------------------------------------------------------------------
(* Messages: settlement and the answer slots, in ingest() *)

\* The pending requests a message answers.
Answered(m) ==
  {r \in pending : KindOf[r] = m.kind /\ (BotOf[r] = m.bot \/ m.kind \in AnyBotKinds)}

\* A refusal is taken by the request with its letter that was sent, or
\* resent, longest ago, of those to the bot that refused.
Refused(m) ==
  LET waiting == {r \in pending : BotOf[r] = m.bot /\ LetterOf[KindOf[r]] = LetterOf[m.kind]}
      Before(r, s) == \/ entry[r].sentAt < entry[s].sentAt
                      \/ /\ entry[r].sentAt = entry[s].sentAt
                         /\ entry[r].timestamp < entry[s].timestamp
  IN {r \in waiting : \A s \in waiting \ {r} : Before(r, s)}

FillsSlot(m) == m.type = "answer" /\ m.kind \in SlotKinds /\ ~m.backlog

Ingest(m) ==
  /\ Runs(IngestJob(m))
  /\ IF m.duplicate
     THEN UNCHANGED <<serviceVars, view>>
     ELSE /\ lastLiveHeardAt' = IF m.backlog THEN lastLiveHeardAt
                                ELSE [lastLiveHeardAt EXCEPT ![m.bot] = now]
          /\ IF m.type = "refusal"
             THEN SettleAll(Refused(m), "notAvailable")
             ELSE SettleAll(Answered(m), "answered")
          /\ lastAnswers' = IF FillsSlot(m)
                            THEN [lastAnswers EXCEPT ![SlotOf(m.kind, m.bot)] = now]
                            ELSE lastAnswers
          /\ UNCHANGED <<lastSendAt, nextRequestSeq, unmatched>>
  /\ UNCHANGED <<now, connected, listening, job, air, acked, evicted, boundVars>>

\* startEventMonitoring(): listens on the transport the service has by then.
Start ==
  /\ Runs(StartJob)
  /\ listening' = connected
  /\ unmatched' = <<>>
  /\ UNCHANGED <<now, connected, job, pending, entry, lastSendAt, nextRequestSeq, lastAnswers,
                 lastLiveHeardAt, historyVars, boundVars>>

-----------------------------------------------------------------------------
\* The running job takes its next step: a job starts, or an await comes back.
RunRequest(r) ==
  \/ Send(r) \/ ChannelSent(r) \/ ChannelFails(r) \/ ChannelUnavailable(r)
  \/ DmSent(r) \/ DmFails(r)
  \/ HandleTimeout(r) \/ PathReset(r)
  \/ ChannelResent(r) \/ DmResent(r) \/ ResendFails(r)

RunQueue == Start \/ (\E m \in Messages : Ingest(m)) \/ (\E r \in Requests : RunRequest(r))

Next ==
  \/ Tick \/ Connect \/ Disconnect \/ AcknowledgeForeign \/ Start
  \/ \E m \in Messages : Hear(m) \/ Ingest(m)
  \/ \E r \in Requests :
       Ask(r) \/ TimerFires(r) \/ RunRequest(r) \/ (\E n \in 0 .. 2 : Acknowledge(r, n))

Spec == Init /\ [][Next]_vars

\* Time passes, the browser runs expired timers and queued promises, and
\* every command to the radio comes back (MeshCoreSession times each out).
Fairness == WF_vars(Tick) /\ WF_vars(RunQueue) /\ \A r \in Requests : WF_vars(TimerFires(r))

FairSpec == Spec /\ Fairness

-----------------------------------------------------------------------------
(* Properties *)

JobSteps == {"channel", "dm", "reset", "resendChannel", "resendDm"}

Jobs == [at : JobSteps, id : Requests, attempt : 0 .. 2, radio : BOOLEAN, since : 0 .. MaxTime]

QueuedJobs == {SendJob(r) : r \in Requests} \cup {TimeoutJob(r) : r \in Requests}
              \cup {IngestJob(m) : m \in Messages} \cup {StartJob}

Transmissions == [id : Requests, via : Promise!Transports, attempt : 0 .. 2,
                  timestamp : 0 .. MaxTime, seq : 0 .. SeqModulus - 1,
                  sentAt : 0 .. MaxTime, confirmed : BOOLEAN]

TypeOK ==
  /\ now \in 0 .. MaxTime /\ connected \in BOOLEAN /\ listening \in BOOLEAN
  /\ queue \in Seq(QueuedJobs) /\ job \in Jobs \cup {Idle}
  /\ pending \subseteq Requests /\ entry \in [Requests -> Entries]
  /\ lastSendAt \in Times /\ nextRequestSeq \in 0 .. SeqModulus - 1
  /\ unmatched \in Seq(AckCodes \cup {ForeignAck})
  /\ lastAnswers \in [Slots -> Times] /\ lastLiveHeardAt \in [Bots -> Times]
  /\ air \subseteq Transmissions /\ acked \subseteq AckCodes
  /\ evicted \subseteq AckCodes \cup {ForeignAck}
  /\ view \in [Requests -> Promise!Views]
  /\ connects \in Nat /\ foreignAcks \in Nat /\ ingests \in Nat

\* The job that has the request in its hands.
Handling(r) == job # Idle /\ job.id = r
Queued(j) == \E i \in 1 .. Len(queue) : queue[i] = j

\* Nothing pending is forgotten: a request waiting for its answer has a timer
\* running, or its expired timer's handler waits in the queue, or that
\* handler is running.  An early return or a failed resend that left one with
\* none of the three would show "waiting" for ever (#armTimer, #handleTimeout).
PendingIsWatched ==
  \A r \in pending :
    entry[r].timer # NoTime \/ Queued(TimeoutJob(r)) \/ Handling(r)

\* The bot tells two requests of one phone apart by their wire timestamp
\* (spec section 11), so no two requests ever go out with the same one, every
\* transmission of one request carries the first one's, and there is one for
\* each attempt: a handler that runs twice, or a resend repeated after a
\* disconnect, would put an extra copy on the channel.
TimestampNamesRequest ==
  \A t, u \in air : /\ (t.timestamp = u.timestamp) <=> (t.id = u.id)
                    /\ t.id = u.id /\ t.attempt = u.attempt => t = u

\* A confirmation is never lost by racing the send it confirms: a pending
\* request whose code the radio has pushed, before or after the send came
\* back, is marked received, unless AckLimit later confirmations pushed the
\* early one out meanwhile.
ConfirmationsAreKept ==
  \A r \in pending : \A code \in entry[r].ackCodes :
    code \in acked /\ code \notin evicted => entry[r].confirmed

\* A request is pending exactly while its observers think it is on the air,
\* and they know what the service knows of it.  The one exception is the
\* attempt, which they learn when the resend in flight has gone out.
AgreeOn(r) ==
  /\ r \in pending <=> view[r].phase = "onAir"
  /\ view[r].phase \in {"new", "asked"} => view[r].attempt = 0 /\ ~view[r].confirmed
  /\ r \in pending =>
       /\ entry[r].via = view[r].via /\ entry[r].confirmed = view[r].confirmed
       /\ entry[r].via = "channel" => entry[r].ackCodes = {} /\ ~entry[r].confirmed
       /\ entry[r].attempt <= Promise!LastAttempt(entry[r].via)
       /\ entry[r].attempt = view[r].attempt
          \/ (Handling(r) /\ job.at \in {"resendChannel", "resendDm"})
ObserversAgree == \A r \in Requests : AgreeOn(r)

\* The job that waits on the radio for a request knows where the request is.
JobKnowsRequest ==
  job # Idle =>
    LET r == job.id IN
    /\ job.at \in {"channel", "dm"} => view[r].phase = "asked"
    /\ job.at \in {"reset", "resendChannel", "resendDm"} => view[r].phase \in {"onAir", "settled"}
    /\ r \in pending =>
         /\ job.at = "resendChannel" <=> entry[r].via = "channel"
         /\ job.at = "reset" => entry[r].attempt = view[r].attempt /\ entry[r].attempt < 2
         /\ job.at # "reset" => entry[r].attempt = job.attempt /\ view[r].attempt < job.attempt

\* A tap is sent by one job: it is queued once, and not once it is running.
SendsOnce ==
  \A r \in Requests : \A i \in 1 .. Len(queue) :
    queue[i] = SendJob(r) =>
      /\ view[r].phase = "asked" /\ ~Handling(r)
      /\ \A j \in 1 .. Len(queue) : queue[j] = SendJob(r) => i = j

\* The inductive invariant behind KeepsPromise and PendingIsWatched.
Inv == TypeOK /\ ObserversAgree /\ JobKnowsRequest /\ SendsOnce /\ PendingIsWatched

\* The request's observers see the promise of RequestPromise kept: events in
\* order, one settlement, nothing given up before its ladder is over.
KeepsPromise == Promise!Spec

\* Every request asked for is dealt with: turned away, or put on the air and
\* then settled, whatever the radio and the connection do.
EveryRequestSettles ==
  \A r \in Requests :
    (view[r].phase \in {"asked", "onAir"}) ~> (view[r].phase \in {"refused", "served", "settled"})

\* WeatherService.js:999 says of the ladder "Never a flood for a confirmed
\* request: the route works."; the spec, section 19.2, says the same.  A
\* confirmation during `await resetPath` breaks it (README, Divergences).
NoFloodForConfirmed ==
  \A t \in air : t.via = "dm" /\ t.attempt = 2 => ~t.confirmed
=============================================================================
