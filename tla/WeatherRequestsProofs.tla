----------------------- MODULE WeatherRequestsProofs -----------------------
(***************************************************************************)
(* Proofs about WeatherRequests, for any set of taps, any timeouts and any   *)
(* number of connections and messages: the promise and the timers (Inv),     *)
(* then the timestamps of requests (StampInv) and the confirmations           *)
(* (ConfirmInv).                                                             *)
(***************************************************************************)
EXTENDS WeatherRequests, SequenceTheorems, TLAPS

USE ConstantsAssumption DEF ArmTimer, NextSeq

\* The unmatched confirmations stay a sequence of codes: one is appended and
\* the oldest may go (KeepUnmatched), or one is taken out (TakeEarly).
LEMMA UnmatchedType ==
  ASSUME NEW S, unmatched \in Seq(S), NEW code \in S
  PROVE  /\ Append(unmatched, code) \in Seq(S)
         /\ Append(unmatched, code) # <<>>
         /\ Tail(Append(unmatched, code)) \in Seq(S)
         /\ Head(Append(unmatched, code)) \in S
         /\ IsEarly(code) => WithoutFirst(code) \in Seq(S)
<1>1. Append(unmatched, code) \in Seq(S) /\ Append(unmatched, code) # <<>>
  BY AppendProperties
<1>2. Tail(Append(unmatched, code)) \in Seq(S) /\ Head(Append(unmatched, code)) \in S
  BY <1>1, HeadTailProperties
<1>3. ASSUME IsEarly(code) PROVE WithoutFirst(code) \in Seq(S)
  <2>1. IndexOf(code) \in 1 .. Len(unmatched)
    BY <1>3 DEF IsEarly, IndexOf
  <2>2. Len(unmatched) \in Nat
    BY LenProperties
  <2>3. SubSeq(unmatched, 1, IndexOf(code) - 1) \in Seq(S)
    BY <2>1, <2>2, SubSeqProperties
  <2>4. SubSeq(unmatched, IndexOf(code) + 1, Len(unmatched)) \in Seq(S)
    BY <2>1, <2>2, SubSeqProperties
  <2>. QED  BY <2>3, <2>4, ConcatProperties DEF WithoutFirst
<1>. QED  BY <1>1, <1>2, <1>3

\* Queueing a job and taking the first keep the queue a queue of jobs.
LEMMA QueueType ==
  ASSUME NEW S, NEW q \in Seq(S)
  PROVE  /\ \A j \in S : Append(q, j) \in Seq(S)
         /\ q # <<>> => Tail(q) \in Seq(S) /\ Head(q) \in S
BY AppendProperties, HeadTailProperties

\* The defaults are values of their types.
LEMMA Defaults ==
  /\ NoEntry \in Entries
  /\ Promise!NoView \in Promise!Views
  /\ 0 \in Nat /\ NoTime \in Times
BY DEF NoEntry, Entries, AckCodes, NoTime, Times, Promise!NoView, Promise!Views,
       Promise!Transports, Promise!Outcomes

\* Settling any set of requests with an outcome keeps the types.
LEMMA SettleType ==
  ASSUME TypeOK, NEW gone, NEW outcome \in Promise!Outcomes, SettleAll(gone, outcome)
  PROVE  /\ pending' \subseteq Requests
         /\ entry' \in [Requests -> Entries]
         /\ view' \in [Requests -> Promise!Views]
BY Defaults DEF TypeOK, SettleAll, Promise!Views

\* What the events do to one view.
LEMMA MovedType ==
  ASSUME view \in [Requests -> Promise!Views], NEW r \in Requests,
         NEW phase \in {"asked", "refused", "served"}
  PROVE  Moved(r, phase) \in [Requests -> Promise!Views]
BY DEF Moved, Promise!Views

\* What observers know stays well formed after a requestSent.
LEMMA SentType ==
  ASSUME view \in [Requests -> Promise!Views], NEW r \in Requests,
         NEW via \in Promise!Transports, NEW n \in 0 .. 2, NEW c \in BOOLEAN
  PROVE  SentEvent(r, via, n, c) \in [Requests -> Promise!Views]
<1>1. view[r] \in Promise!Views
  OBVIOUS
<1>2. [view[r] EXCEPT !.phase = "onAir", !.via = via, !.attempt = n, !.confirmed = c]
        \in Promise!Views
  BY <1>1 DEF Promise!Views
<1>. QED  BY <1>2 DEF SentEvent

\* ... and after a requestReceivedByBotRadio, and so do the entries.
LEMMA ReceivedType ==
  ASSUME TypeOK, NEW r \in Requests
  PROVE  /\ [view EXCEPT ![r].confirmed = TRUE] \in [Requests -> Promise!Views]
         /\ [entry EXCEPT ![r].confirmed = TRUE] \in [Requests -> Entries]
<1>. view \in [Requests -> Promise!Views] /\ entry \in [Requests -> Entries]
  BY DEF TypeOK
<1>1. [view EXCEPT ![r].confirmed = TRUE] \in [Requests -> Promise!Views]
  BY DEF Promise!Views
<1>2. [entry EXCEPT ![r].confirmed = TRUE] \in [Requests -> Entries]
  BY ZenonT(40) DEF Entries
<1>. QED  BY <1>1, <1>2

\* The jobs that the actions queue.
LEMMA QueuedTypes ==
  /\ StartJob \in QueuedJobs
  /\ \A r \in Requests : SendJob(r) \in QueuedJobs /\ TimeoutJob(r) \in QueuedJobs
  /\ \A m \in Messages : IngestJob(m) \in QueuedJobs
BY DEF QueuedJobs

\* The await a job goes to; a job that waits is one of Jobs.
LEMMA AwaitType ==
  ASSUME connected \in BOOLEAN, NEW r \in Requests, NEW at \in JobSteps, NEW n \in 0 .. 2,
         NEW since \in 0 .. MaxTime
  PROVE  Await(at, r, n, since) \in Jobs
BY DEF Await, Jobs

\* A job that waits on the radio names a request, an attempt and a moment.
LEMMA WaitingJob ==
  ASSUME TypeOK, job.at \in JobSteps
  PROVE  /\ job \in Jobs
         /\ job.since \in 0 .. MaxTime /\ job.attempt \in 0 .. 2
BY DEF TypeOK, Jobs, JobSteps, Idle

\* The transmissions and entries the actions add.
LEMMA TransmissionType ==
  ASSUME TypeOK, NEW r \in Requests, NEW via \in Promise!Transports, NEW n \in 0 .. 2,
         NEW timestamp \in 0 .. MaxTime, NEW seq \in 0 .. SeqModulus - 1,
         NEW at \in 0 .. MaxTime
  PROVE  Transmission(r, via, n, timestamp, seq, at) \in Transmissions
<1>1. entry[r].confirmed \in BOOLEAN
  BY DEF TypeOK, Entries
<1>. QED  BY <1>1 DEF Transmission, Transmissions

\* The entry of a request just sent.
LEMMA NewEntryType ==
  ASSUME TypeOK, job.since \in 0 .. MaxTime, NEW via \in Promise!Transports,
         NEW seq \in 0 .. SeqModulus - 1, NEW codes \in SUBSET AckCodes,
         NEW confirmed \in BOOLEAN, NEW timeout \in Nat
  PROVE  NewEntry(via, seq, codes, confirmed, timeout) \in Entries
<1>1. now + timeout \in Nat
  BY DEF TypeOK
<1>. QED  BY <1>1 DEF NewEntry, Entries

\* The code of a transmission.
LEMMA CodeType == \A r \in Requests, n \in 0 .. 2 : Code(r, n) \in AckCodes
BY DEF Code, AckCodes

\* The initial state has the types.
LEMMA InitType == ASSUME Init PROVE TypeOK
<1>1. queue \in Seq(QueuedJobs) /\ unmatched \in Seq(AckCodes \cup {ForeignAck})
  BY EmptySeq DEF Init
<1>2. now \in 0 .. MaxTime /\ nextRequestSeq \in 0 .. SeqModulus - 1
  BY DEF Init
<1>. QED  BY <1>1, <1>2, Defaults DEF Init, TypeOK

\* Every step keeps the types.
LEMMA StepType == ASSUME TypeOK, [Next]_vars PROVE TypeOK'
<1>1. CASE Tick
  BY <1>1 DEF TypeOK, Tick, serviceVars, historyVars, boundVars, Times
<1>2. CASE Connect
  BY <1>2, QueueType DEF TypeOK, Connect, Enqueue, StartJob, QueuedJobs, serviceVars, historyVars
<1>3. CASE Disconnect
  BY <1>3, SettleType DEF TypeOK, Disconnect, boundVars, Promise!Outcomes
<1>4. CASE AcknowledgeForeign
  BY <1>4, UnmatchedType DEF TypeOK, AcknowledgeForeign, KeepUnmatched
<1>5. CASE Start
  BY <1>5, QueueType, EmptySeq DEF TypeOK, Start, Runs, historyVars, boundVars
<1>6. ASSUME NEW m \in Messages, Hear(m) PROVE TypeOK'
  BY <1>6, QueueType DEF TypeOK, Hear, Enqueue, QueuedJobs, serviceVars, historyVars
<1>7. ASSUME NEW m \in Messages, Ingest(m) PROVE TypeOK'
  <2>1. queue' \in Seq(QueuedJobs)
    BY <1>7, QueueType DEF TypeOK, Ingest, Runs
  <2>2. pending' \subseteq Requests /\ entry' \in [Requests -> Entries]
        /\ view' \in [Requests -> Promise!Views]
    BY <1>7, SettleType DEF TypeOK, Ingest, Promise!Outcomes, serviceVars
  <2>3. lastAnswers' \in [Slots -> Times] /\ lastLiveHeardAt' \in [Bots -> Times]
    BY <1>7 DEF TypeOK, Ingest, serviceVars, Times
  <2>. QED  BY <1>7, <2>1, <2>2, <2>3 DEF TypeOK, Ingest, serviceVars, boundVars
<1>8. ASSUME NEW r \in Requests, Ask(r) PROVE TypeOK'
  BY <1>8, QueueType, QueuedTypes, MovedType DEF TypeOK, Ask, Enqueue, serviceVars, boundVars
<1>9. ASSUME NEW r \in Requests, TimerFires(r) PROVE TypeOK'
  <2>. entry \in [Requests -> Entries]
    BY DEF TypeOK
  <2>1. entry' \in [Requests -> Entries]
    BY <1>9 DEF TimerFires, Entries
  <2>. QED  BY <1>9, <2>1, QueueType, QueuedTypes DEF TypeOK, TimerFires, Enqueue, historyVars, boundVars
<1>10. ASSUME NEW r \in Requests, NEW n \in 0 .. 2, Acknowledge(r, n) PROVE TypeOK'
  <2>1. Code(r, n) \in AckCodes /\ entry \in [Requests -> Entries]
    BY CodeType DEF TypeOK
  <2>2. CASE KeepUnmatched(Code(r, n))
    BY <1>10, <2>1, <2>2, UnmatchedType DEF TypeOK, Acknowledge, KeepUnmatched, boundVars
  <2>3. CASE MarkReceived(r)
    BY <1>10, <2>1, <2>3, ReceivedType DEF TypeOK, Acknowledge, MarkReceived, boundVars
  <2>. QED  BY <1>10, <2>2, <2>3 DEF Acknowledge
<1>11. ASSUME NEW r \in Requests, Send(r) PROVE TypeOK'
  <2>1. queue' \in Seq(QueuedJobs)
    BY <1>11, QueueType DEF TypeOK, Send, Runs
  <2>2. Await("channel", r, 0, now) \in Jobs
    BY AwaitType DEF TypeOK, JobSteps
  <2>3. view' \in [Requests -> Promise!Views]
    <3>. view \in [Requests -> Promise!Views]
      BY DEF TypeOK
    <3>1. Moved(r, "served") \in [Requests -> Promise!Views]
          /\ Moved(r, "refused") \in [Requests -> Promise!Views]
      BY MovedType
    <3>. QED  BY <1>11, <3>1 DEF Send, TurnAway
  <2>. QED  BY <1>11, <2>1, <2>2, <2>3
    DEF TypeOK, Send, TurnAway, Times, serviceButEntries, boundVars
<1>12. ASSUME NEW r \in Requests, ChannelSent(r) PROVE TypeOK'
  <2>1. job.since \in 0 .. MaxTime
    BY <1>12, WaitingJob DEF ChannelSent, Returns, JobSteps
  <2>2. FirstDatagram(r) \in Transmissions
    BY <2>1, TransmissionType DEF TypeOK, FirstDatagram, Promise!Transports
  <2>3. nextRequestSeq' \in 0 .. SeqModulus - 1
    BY <1>12 DEF TypeOK, ChannelSent
  <2>4. NewEntry("channel", nextRequestSeq, {}, FALSE, ChannelTimeout) \in Entries
    BY <2>1, NewEntryType DEF TypeOK, Promise!Transports
  <2>5. entry' \in [Requests -> Entries]
    BY <1>12, <2>4 DEF TypeOK, ChannelSent, Launch
  <2>6. view' \in [Requests -> Promise!Views]
    <3>1. "channel" \in Promise!Transports /\ 0 \in 0 .. 2 /\ FALSE \in BOOLEAN
          /\ view \in [Requests -> Promise!Views]
      BY DEF TypeOK, Promise!Transports
    <3>2. SentEvent(r, "channel", 0, FALSE) \in [Requests -> Promise!Views]
      BY <3>1, SentType, Zenon
    <3>. QED  BY <1>12, <3>2 DEF ChannelSent, Launch, NewEntry
  <2>. QED  BY <1>12, <2>2, <2>3, <2>5, <2>6 DEF TypeOK, ChannelSent, Launch, Returns, boundVars
<1>13. ASSUME NEW r \in Requests, ChannelFails(r) PROVE TypeOK'
  <2>1. job.since \in 0 .. MaxTime
    BY <1>13, WaitingJob DEF ChannelFails, Returns, JobSteps
  <2>2. FirstDatagram(r) \in Transmissions
    BY <2>1, TransmissionType DEF TypeOK, FirstDatagram, Promise!Transports
  <2>3. view' \in [Requests -> Promise!Views]
    BY <1>13, MovedType DEF TypeOK, ChannelFails, TurnAway
  <2>4. air' \subseteq Transmissions
    <3>1. air' = air \/ air' = air \cup {FirstDatagram(r)}
      BY <1>13 DEF ChannelFails
    <3>. QED  BY <2>2, <3>1 DEF TypeOK
  <2>. QED  BY <1>13, <2>3, <2>4 DEF TypeOK, ChannelFails, TurnAway, Returns, serviceButEntries, boundVars
<1>14. ASSUME NEW r \in Requests, ChannelUnavailable(r) PROVE TypeOK'
  <2>1. job.since \in 0 .. MaxTime
    BY <1>14, WaitingJob DEF ChannelUnavailable, Returns, JobSteps
  <2>2. Transmission(r, "dm", 0, job.since, 0, job.since) \in Transmissions
    BY <2>1, TransmissionType DEF Promise!Transports
  <2>3. Await("dm", r, 0, job.since) \in Jobs
    BY <2>1, AwaitType DEF TypeOK, JobSteps
  <2>4. view' \in [Requests -> Promise!Views]
    <3>1. Moved(r, "refused") \in [Requests -> Promise!Views]
      BY MovedType DEF TypeOK
    <3>. QED  BY <1>14, <3>1 DEF TypeOK, ChannelUnavailable, TurnAway
  <2>. QED  BY <1>14, <2>2, <2>3, <2>4
    DEF TypeOK, ChannelUnavailable, TurnAway, Returns, serviceVars, serviceButEntries, boundVars
<1>15. ASSUME NEW r \in Requests, DmSent(r) PROVE TypeOK'
  <2>1. job.since \in 0 .. MaxTime /\ Code(r, 0) \in AckCodes /\ IsEarly(Code(r, 0)) \in BOOLEAN
    BY <1>15, WaitingJob, CodeType DEF DmSent, Returns, JobSteps, IsEarly
  <2>2. NewEntry("dm", 0, {Code(r, 0)}, IsEarly(Code(r, 0)), DmTimeout) \in Entries
    BY <2>1, NewEntryType DEF Promise!Transports
  <2>3. entry' \in [Requests -> Entries]
    BY <1>15, <2>2 DEF TypeOK, DmSent, Launch
  <2>4. view' \in [Requests -> Promise!Views]
    <3>1. SentEvent(r, "dm", 0, IsEarly(Code(r, 0))) \in [Requests -> Promise!Views]
      BY <2>1, SentType DEF TypeOK, Promise!Transports
    <3>. QED  BY <1>15, <3>1 DEF DmSent, Launch, NewEntry
  <2>5. unmatched' \in Seq(AckCodes \cup {ForeignAck})
    BY <1>15, <2>1, UnmatchedType DEF TypeOK, DmSent, TakeEarly
  <2>. QED  BY <1>15, <2>3, <2>4, <2>5 DEF TypeOK, DmSent, Launch, Returns, boundVars
<1>16. ASSUME NEW r \in Requests, DmFails(r) PROVE TypeOK'
  <2>1. view' \in [Requests -> Promise!Views]
    BY <1>16, MovedType DEF TypeOK, DmFails, TurnAway
  <2>. QED  BY <1>16, <2>1 DEF TypeOK, DmFails, TurnAway, Returns, serviceButEntries, boundVars
<1>17. ASSUME NEW r \in Requests, NEW n \in 0 .. 2, BeginResend(r, n)
       PROVE  /\ job' \in Jobs /\ lastSendAt' \in Times
              /\ entry' \in [Requests -> Entries] /\ air' \subseteq Transmissions
  <2>1. /\ entry \in [Requests -> Entries] /\ now \in 0 .. MaxTime
        /\ entry[r].via \in Promise!Transports /\ entry[r].timestamp \in 0 .. MaxTime
        /\ entry[r].seq \in 0 .. SeqModulus - 1
    BY DEF TypeOK, Entries
  <2>2. entry' \in [Requests -> Entries]
    <3>1. [entry[r] EXCEPT !.attempt = n, !.sentAt = now] \in Entries
      <4>1. entry[r] \in Entries
        BY <2>1
      <4>2. n \in 0 .. 2 /\ now \in 0 .. MaxTime
        BY <2>1
      <4>. QED  BY <4>1, <4>2 DEF Entries
    <3>. QED  BY <1>17, <2>1, <3>1 DEF BeginResend
  <2>3. job' \in Jobs
    BY <1>17, <2>1, AwaitType DEF TypeOK, BeginResend, ResendAt, JobSteps
  <2>4. Transmission(r, entry[r].via, n, entry[r].timestamp, entry[r].seq, now) \in Transmissions
    BY <2>1, TransmissionType
  <2>. QED  BY <1>17, <2>1, <2>2, <2>3, <2>4 DEF TypeOK, BeginResend, Times
<1>18. ASSUME NEW r \in Requests, HandleTimeout(r) PROVE TypeOK'
  <2>1. queue' \in Seq(QueuedJobs)
    BY <1>18, QueueType DEF TypeOK, HandleTimeout, Runs
  <2>2. CASE BeginResend(r, 1) /\ UNCHANGED <<pending, nextRequestSeq, unmatched, lastAnswers, lastLiveHeardAt, view>>
    BY <1>17, <1>18, <2>1, <2>2 DEF TypeOK, HandleTimeout, boundVars
  <2>3. CASE Settle(r, "timedOut") /\ UNCHANGED <<job, serviceButEntries, air>>
    BY <1>18, <2>1, <2>3, SettleType
    DEF TypeOK, HandleTimeout, Settle, serviceButEntries, Promise!Outcomes, boundVars
  <2>4. CASE job' = Await("reset", r, 2, now) /\ UNCHANGED <<serviceVars, air, view>>
    <3>1. job' \in Jobs
      BY <2>4, AwaitType DEF TypeOK, JobSteps
    <3>. QED  BY <1>18, <2>1, <2>4, <3>1 DEF TypeOK, HandleTimeout, serviceVars, boundVars
  <2>5. CASE UNCHANGED <<job, serviceVars, air, view>>
    BY <1>18, <2>1, <2>5 DEF TypeOK, HandleTimeout, serviceVars, boundVars
  <2>. QED  BY <1>18, <2>2, <2>3, <2>4, <2>5 DEF HandleTimeout
<1>19. ASSUME NEW r \in Requests, PathReset(r) PROVE TypeOK'
  <2>1. CASE BeginResend(r, 2)
    BY <1>17, <1>19, <2>1 DEF TypeOK, PathReset, Returns, boundVars
  <2>2. CASE job' = Idle /\ UNCHANGED <<entry, lastSendAt, air>>
    BY <1>19, <2>2 DEF TypeOK, PathReset, Returns, boundVars
  <2>. QED  BY <1>19, <2>1, <2>2 DEF PathReset
<1>20. ASSUME NEW r \in Requests, ChannelResent(r) PROVE TypeOK'
  <2>. entry \in [Requests -> Entries] /\ now + ChannelTimeout \in Nat
    BY DEF TypeOK
  <2>1. entry' \in [Requests -> Entries]
    <3>1. [entry[r] EXCEPT !.timer = now + ChannelTimeout] \in Entries
      BY DEF Entries
    <3>. QED  BY <1>20, <3>1 DEF ChannelResent
  <2>2. view' \in [Requests -> Promise!Views]
    <3>1. "channel" \in Promise!Transports /\ 1 \in 0 .. 2 /\ FALSE \in BOOLEAN
          /\ view \in [Requests -> Promise!Views]
      BY DEF TypeOK, Promise!Transports
    <3>2. SentEvent(r, "channel", 1, FALSE) \in [Requests -> Promise!Views]
      BY <3>1, SentType, Zenon
    <3>. QED  BY <1>20, <3>1, <3>2 DEF ChannelResent
  <2>. QED  BY <1>20, <2>1, <2>2 DEF TypeOK, ChannelResent, Returns, serviceButEntries, boundVars
<1>21. ASSUME NEW r \in Requests, DmResent(r) PROVE TypeOK'
  <2>1. job.attempt \in 0 .. 2
    BY <1>21, WaitingJob DEF DmResent, Returns, JobSteps
  <2>2. Code(r, job.attempt) \in AckCodes
    BY <2>1, CodeType
  <2>3. (entry[r].confirmed \/ IsEarly(Code(r, job.attempt))) \in BOOLEAN
    OBVIOUS
  <2>4. entry \in [Requests -> Entries] /\ now + DmTimeout \in Nat
    BY DEF TypeOK
  <2>5. entry' \in [Requests -> Entries]
    <3>. DEFINE early == entry[r].confirmed \/ IsEarly(Code(r, job.attempt))
    <3>. HIDE DEF early
    <3>1. [entry[r] EXCEPT !.ackCodes = entry[r].ackCodes \cup {Code(r, job.attempt)}, !.confirmed = early,
                           !.timer = now + DmTimeout] \in Entries
      <4>1. early \in BOOLEAN
        BY <2>3 DEF early
      <4>2. entry[r] \in Entries
        BY <2>4
      <4>. QED  BY <2>2, <2>4, <4>1, <4>2 DEF Entries
    <3>2. \/ entry' = entry
          \/ entry' = [entry EXCEPT ![r] =
               [entry[r] EXCEPT !.ackCodes = entry[r].ackCodes \cup {Code(r, job.attempt)},
                                !.confirmed = early, !.timer = now + DmTimeout]]
      BY <1>21, <2>4 DEF DmResent, early
    <3>. QED  BY <2>4, <3>1, <3>2
  <2>6. view' \in [Requests -> Promise!Views]
    <3>1. \A c \in BOOLEAN :
            SentEvent(r, "dm", job.attempt, c) \in [Requests -> Promise!Views]
      BY <2>1, SentType DEF TypeOK, Promise!Transports
    <3>. QED  BY ZenonT(40), <1>21, <2>3, <3>1 DEF TypeOK, DmResent
  <2>7. unmatched' \in Seq(AckCodes \cup {ForeignAck})
    BY SMTT(30), <1>21, <2>2, UnmatchedType DEF TypeOK, DmResent, TakeEarly
  <2>. QED  BY <1>21, <2>5, <2>6, <2>7 DEF TypeOK, DmResent, Returns, boundVars
<1>22. ASSUME NEW r \in Requests, ResendFails(r) PROVE TypeOK'
  BY <1>22, SettleType
  DEF TypeOK, ResendFails, Settle, Returns, serviceButEntries, Promise!Outcomes, boundVars
<1>23. CASE UNCHANGED vars
  BY <1>23 DEF TypeOK, vars, serviceVars, historyVars, boundVars
<1>. QED
  BY <1>1, <1>2, <1>3, <1>4, <1>5, <1>6, <1>7, <1>8, <1>9, <1>10, <1>11, <1>12, <1>13,
     <1>14, <1>15, <1>16, <1>18, <1>19, <1>20, <1>21, <1>22, <1>23
  DEF Next, RunRequest

\* Every variable of the service always has its type: in particular only
\* known requests are pending, and every queued job is one the code queues.
THEOREM TypeCorrect == Spec => []TypeOK
<1>1. Init => TypeOK
  BY InitType
<1>2. TypeOK /\ [Next]_vars => TypeOK'
  BY StepType
<1>. QED  BY <1>1, <1>2, PTL DEF Spec

-----------------------------------------------------------------------------
(* The queue and the running job *)

\* Jobs are told apart by their type and the request they are for.
LEMMA JobsDiffer ==
  /\ \A r, s : (SendJob(r) = SendJob(s) <=> r = s) /\ (TimeoutJob(r) = TimeoutJob(s) <=> r = s)
  /\ \A r, s : SendJob(r) # TimeoutJob(s)
  /\ \A r, m : SendJob(r) # IngestJob(m) /\ TimeoutJob(r) # IngestJob(m)
  /\ \A r : SendJob(r) # StartJob /\ TimeoutJob(r) # StartJob
BY DEF SendJob, TimeoutJob, IngestJob, StartJob

\* A job at the end of the queue.
LEMMA Enqueued ==
  ASSUME TypeOK, NEW j \in QueuedJobs, Enqueue(j)
  PROVE  /\ Len(queue) \in Nat /\ Len(queue') = Len(queue) + 1
         /\ \A i \in 1 .. Len(queue) : queue'[i] = queue[i]
         /\ queue'[Len(queue) + 1] = j
         /\ \A k : Queued(k) => Queued(k)'
         /\ Queued(j)'
<1>1. /\ Len(queue) \in Nat /\ Len(queue') = Len(queue) + 1
      /\ \A i \in 1 .. Len(queue) : queue'[i] = queue[i]
      /\ queue'[Len(queue) + 1] = j
  BY AppendProperties, LenProperties DEF TypeOK, Enqueue
<1>. QED  BY <1>1 DEF Queued

\* The first job of the queue starts.
LEMMA Started ==
  ASSUME TypeOK, NEW j, Runs(j)
  PROVE  /\ job = Idle
         /\ Len(queue) \in Nat \ {0} /\ Len(queue') = Len(queue) - 1
         /\ \A i \in 1 .. Len(queue') : queue'[i] = queue[i + 1]
         /\ queue[1] = j
         /\ \A k : Queued(k) => k = j \/ Queued(k)'
<1>1. /\ queue \in Seq(QueuedJobs) /\ queue # <<>> /\ Head(queue) = j /\ job = Idle
      /\ queue' = Tail(queue)
  BY DEF TypeOK, Runs
<1>2. /\ Len(queue') = Len(queue) - 1
      /\ \A i \in 1 .. Len(queue') : queue'[i] = queue[i + 1]
  BY <1>1, HeadTailProperties
<1>3. Len(queue) \in Nat \ {0} /\ queue[1] = j
  BY <1>1, EmptySeq, LenProperties
<1>4. ASSUME NEW k, Queued(k), k # j PROVE Queued(k)'
  <2>1. PICK i \in 1 .. Len(queue) : queue[i] = k
    BY <1>4 DEF Queued
  <2>2. i - 1 \in 1 .. Len(queue') /\ queue'[i - 1] = k
    BY <1>2, <1>3, <1>4, <2>1
  <2>. QED  BY <2>2 DEF Queued
<1>. QED  BY <1>1, <1>2, <1>3, <1>4

\* No request is in the hands of an idle service; one that waits has one.
LEMMA WhoHandles ==
  /\ job = Idle => \A r : ~Handling(r)
  /\ \A at \in JobSteps : \A r, n, since : Await(at, r, n, since) # Idle
  /\ job.at \in JobSteps => job # Idle
BY DEF Handling, Idle, Await, JobSteps

-----------------------------------------------------------------------------
(* Each action keeps the invariant and takes a step of the promise *)

Keeps ==
  /\ ObserversAgree' /\ JobKnowsRequest' /\ SendsOnce' /\ PendingIsWatched'
  /\ [Promise!Next]_view

\* What a job does not touch: SendsOnce lasts while the queue stands still or
\* is served, the taps queued are still asked, and none of them is taken up.
LEMMA SendsKept ==
  ASSUME TypeOK, SendsOnce,
         \/ UNCHANGED queue
         \/ \E j \in QueuedJobs : Runs(j)
         \/ \E j \in QueuedJobs : Enqueue(j) /\ \A r \in Requests : j # SendJob(r),
         \A r \in Requests :
           (Queued(SendJob(r))' /\ view[r].phase = "asked" /\ ~Handling(r))
              => view'[r].phase = "asked" /\ ~Handling(r)'
  PROVE  SendsOnce'
<1>. SUFFICES ASSUME NEW r \in Requests, NEW i \in 1 .. Len(queue'), queue'[i] = SendJob(r)
     PROVE  /\ view'[r].phase = "asked" /\ ~Handling(r)'
            /\ \A j \in 1 .. Len(queue') : queue'[j] = SendJob(r) => i = j
  BY DEF SendsOnce, Handling
<1>0. Queued(SendJob(r))'
  BY DEF Queued
<1>1. CASE UNCHANGED queue
  BY <1>0, <1>1 DEF SendsOnce
<1>2. CASE \E j \in QueuedJobs : Runs(j)
  <2>1. /\ Len(queue) \in Nat \ {0} /\ Len(queue') = Len(queue) - 1
        /\ \A k \in 1 .. Len(queue') : queue'[k] = queue[k + 1]
    BY <1>2, Started
  <2>2. i + 1 \in 1 .. Len(queue) /\ queue[i + 1] = SendJob(r)
    BY <2>1
  <2>3. \A j \in 1 .. Len(queue') : queue'[j] = SendJob(r) => i = j
    BY <2>1, <2>2 DEF SendsOnce
  <2>. QED  BY <1>0, <2>2, <2>3 DEF SendsOnce
<1>3. CASE \E j \in QueuedJobs : Enqueue(j) /\ \A s \in Requests : j # SendJob(s)
  <2>1. /\ Len(queue) \in Nat /\ Len(queue') = Len(queue) + 1
        /\ \A k \in 1 .. Len(queue) : queue'[k] = queue[k]
        /\ queue'[Len(queue) + 1] # SendJob(r)
    BY <1>3, Enqueued
  <2>2. \A k \in 1 .. Len(queue') : queue'[k] = SendJob(r) => k \in 1 .. Len(queue)
    BY <2>1
  <2>3. \A j \in 1 .. Len(queue') : queue'[j] = SendJob(r) => i = j
    BY <2>1, <2>2 DEF SendsOnce
  <2>. QED  BY <1>0, <2>1, <2>2, <2>3 DEF SendsOnce
<1>. QED  BY <1>1, <1>2, <1>3

\* The clock, and the confirmations of other messages, change nothing of it.
LEMMA TickKeeps == Inv /\ (Tick \/ AcknowledgeForeign \/ UNCHANGED vars) => Keeps
BY DEF Inv, Tick, AcknowledgeForeign, KeepUnmatched, vars, serviceVars, historyVars, Keeps, ObserversAgree, AgreeOn,
       JobKnowsRequest, SendsOnce, PendingIsWatched, Handling, Queued

\* A new connection only queues startEventMonitoring().
LEMMA ConnectKeeps == ASSUME Inv, Connect PROVE Keeps
<1>1. Enqueue(StartJob) /\ UNCHANGED <<job, pending, entry, view>>
  BY DEF Connect, serviceVars, historyVars
<1>2. StartJob \in QueuedJobs /\ TypeOK
  BY QueuedTypes DEF Inv
<1>3. SendsOnce'
  BY <1>1, <1>2, SendsKept, JobsDiffer DEF Inv, Handling
<1>4. PendingIsWatched'
  BY <1>1, <1>2, Enqueued DEF Inv, PendingIsWatched, Handling
<1>5. ObserversAgree' /\ JobKnowsRequest'
  BY <1>1 DEF Inv, ObserversAgree, AgreeOn, JobKnowsRequest, Handling
<1>. QED  BY <1>1, <1>3, <1>4, <1>5 DEF Keeps

\* A message heard only queues ingest().
LEMMA HearKeeps == ASSUME Inv, NEW m \in Messages, Hear(m) PROVE Keeps
<1>1. Enqueue(IngestJob(m)) /\ UNCHANGED <<job, pending, entry, view>>
  BY DEF Hear, serviceVars, historyVars
<1>2. IngestJob(m) \in QueuedJobs /\ TypeOK
  BY QueuedTypes DEF Inv
<1>3. SendsOnce'
  BY <1>1, <1>2, SendsKept, JobsDiffer DEF Inv, Handling
<1>4. PendingIsWatched'
  BY <1>1, <1>2, Enqueued DEF Inv, PendingIsWatched, Handling
<1>5. ObserversAgree' /\ JobKnowsRequest'
  BY <1>1 DEF Inv, ObserversAgree, AgreeOn, JobKnowsRequest, Handling
<1>. QED  BY <1>1, <1>3, <1>4, <1>5 DEF Keeps

\* Settling a set of pending requests, whatever the queue and the job do with
\* the others.
LEMMA SettleKeeps ==
  ASSUME Inv, NEW gone \in SUBSET pending, NEW outcome \in Promise!Outcomes,
         SettleAll(gone, outcome),
         outcome = "timedOut" => \A r \in gone : Promise!MayGiveUp(view[r])
  PROVE  /\ [Promise!Next]_view
         /\ UNCHANGED job => ObserversAgree' /\ JobKnowsRequest'
         /\ \A r \in Requests : view[r].phase = "asked" => view'[r].phase = "asked"
         /\ \A r \in pending' : r \in pending /\ entry'[r] = entry[r]
<1>1. /\ pending' = pending \ gone
      /\ \A r \in Requests : r \in gone => /\ view'[r].phase = "settled" /\ view'[r].attempt = view[r].attempt
                                              /\ view'[r].confirmed = view[r].confirmed
      /\ \A r \in Requests : r \notin gone => view'[r] = view[r] /\ entry'[r] = entry[r]
  BY ZenonT(40) DEF Inv, TypeOK, SettleAll, Promise!Views
<1>2. gone \in SUBSET Promise!OnAir
  BY DEF Inv, TypeOK, ObserversAgree, AgreeOn, Promise!OnAir
<1>3. Promise!Settle(gone)
  BY DEF SettleAll, Promise!Settle
<1>4. [Promise!Next]_view
  BY <1>2, <1>3 DEF Promise!Next
<1>5. ASSUME UNCHANGED job PROVE ObserversAgree' /\ JobKnowsRequest'
  <2>1. job # Idle => job.id \in Requests
    BY DEF Inv, TypeOK, Jobs
  <2>2. ObserversAgree'
    BY <1>1, <1>5 DEF Inv, ObserversAgree, AgreeOn, Handling
  <2>3. \A r \in gone : view[r].phase = "onAir"
    BY DEF Inv, TypeOK, ObserversAgree, AgreeOn
  <2>4. JobKnowsRequest'
    BY <1>1, <1>5, <2>1, <2>3 DEF Inv, JobKnowsRequest
  <2>. QED  BY <2>2, <2>4
<1>6. \A r \in Requests : view[r].phase = "asked" => view'[r].phase = "asked"
  BY <1>1 DEF Inv, ObserversAgree, AgreeOn
<1>. QED  BY <1>1, <1>4, <1>5, <1>6 DEF Inv, TypeOK

\* The end of a connection fails everything pending.
LEMMA DisconnectKeeps == ASSUME Inv, Disconnect PROVE Keeps
<1>1. UNCHANGED <<queue, job>> /\ SettleAll(pending, "failed")
  BY DEF Disconnect
<1>2. "failed" \in Promise!Outcomes /\ "failed" # "timedOut" /\ TypeOK
  BY DEF Promise!Outcomes, Inv
<1>3. /\ [Promise!Next]_view /\ ObserversAgree' /\ JobKnowsRequest'
      /\ \A r \in Requests : view[r].phase = "asked" => view'[r].phase = "asked"
  BY <1>1, <1>2, SettleKeeps
<1>4. SendsOnce'
  BY <1>1, <1>2, <1>3, SendsKept DEF Inv, Handling
<1>5. PendingIsWatched'
  BY <1>1 DEF SettleAll, PendingIsWatched
<1>. QED  BY <1>3, <1>4, <1>5 DEF Keeps

\* A message settles what it answers, and leaves the others watched.
LEMMA IngestKeeps == ASSUME Inv, NEW m \in Messages, Ingest(m) PROVE Keeps
<1>1. Runs(IngestJob(m)) /\ UNCHANGED job /\ IngestJob(m) \in QueuedJobs /\ TypeOK
  BY QueuedTypes DEF Ingest, Inv
<1>2. CASE UNCHANGED <<pending, entry, view>>
  <2>1. SendsOnce'
    BY <1>1, <1>2, SendsKept DEF Inv, Handling
  <2>2. PendingIsWatched'
    BY <1>1, <1>2, Started, JobsDiffer DEF Inv, PendingIsWatched, Handling
  <2>3. ObserversAgree' /\ JobKnowsRequest'
    BY <1>1, <1>2 DEF Inv, ObserversAgree, AgreeOn, JobKnowsRequest, Handling
  <2>. QED  BY <1>2, <2>1, <2>2, <2>3 DEF Keeps
<1>3. CASE \E gone \in SUBSET pending : \E outcome \in {"answered", "notAvailable"} :
             SettleAll(gone, outcome)
  <2>1. PICK gone \in SUBSET pending, outcome \in {"answered", "notAvailable"} :
          SettleAll(gone, outcome)
    BY <1>3
  <2>2. outcome \in Promise!Outcomes /\ outcome # "timedOut"
    BY DEF Promise!Outcomes
  <2>3. /\ [Promise!Next]_view /\ ObserversAgree' /\ JobKnowsRequest'
        /\ \A r \in Requests : view[r].phase = "asked" => view'[r].phase = "asked"
        /\ \A r \in pending' : r \in pending /\ entry'[r] = entry[r]
    BY <1>1, <2>1, <2>2, SettleKeeps
  <2>4. SendsOnce'
    BY <1>1, <2>3, SendsKept DEF Inv, Handling
  <2>5. PendingIsWatched'
    BY <1>1, <2>3, Started, JobsDiffer DEF Inv, PendingIsWatched, Handling
  <2>. QED  BY <2>3, <2>4, <2>5 DEF Keeps
<1>4. Refused(m) \in SUBSET pending /\ Answered(m) \in SUBSET pending
  BY DEF Refused, Answered
<1>. QED  BY <1>2, <1>3, <1>4 DEF Ingest, serviceVars

\* startEventMonitoring() touches no request.
LEMMA StartKeeps == ASSUME Inv, Start PROVE Keeps
<1>1. Runs(StartJob) /\ StartJob \in QueuedJobs /\ TypeOK /\ UNCHANGED <<job, pending, entry, view>>
  BY QueuedTypes DEF Start, historyVars, Inv
<1>2. SendsOnce'
  BY <1>1, SendsKept DEF Inv, Handling
<1>3. PendingIsWatched'
  BY <1>1, Started, JobsDiffer DEF Inv, PendingIsWatched, Handling
<1>4. ObserversAgree' /\ JobKnowsRequest'
  BY <1>1 DEF Inv, ObserversAgree, AgreeOn, JobKnowsRequest, Handling
<1>. QED  BY <1>1, <1>2, <1>3, <1>4 DEF Keeps

\* A tap is queued once: it was new, so no job was for it.
LEMMA AskKeeps == ASSUME Inv, NEW r \in Requests, Ask(r) PROVE Keeps
<1>1. /\ Enqueue(SendJob(r)) /\ view[r].phase = "new" /\ view' = Moved(r, "asked")
      /\ UNCHANGED <<job, pending, entry>> /\ TypeOK /\ SendJob(r) \in QueuedJobs
  BY QueuedTypes DEF Ask, serviceVars, Inv
<1>2. /\ view'[r] = [view[r] EXCEPT !.phase = "asked"]
      /\ view'[r].phase = "asked" /\ view'[r].attempt = view[r].attempt
      /\ view'[r].confirmed = view[r].confirmed
      /\ \A s \in Requests \ {r} : view'[s] = view[s]
  BY <1>1 DEF TypeOK, Moved, Promise!Views
<1>3. r \notin pending /\ ~Handling(r) /\ ~Queued(SendJob(r))
  BY <1>1, WaitingJob DEF Inv, ObserversAgree, AgreeOn, JobKnowsRequest, SendsOnce, Queued, Handling, TypeOK, Jobs, JobSteps
<1>4. ObserversAgree'
  BY <1>1, <1>2, <1>3 DEF Inv, ObserversAgree, AgreeOn, Handling
<1>5. JobKnowsRequest'
  <2>1. job # Idle => job.id \in Requests /\ job.id # r
    BY <1>1, <1>3 DEF TypeOK, Jobs, Handling
  <2>. QED  BY <1>1, <1>2, <2>1 DEF Inv, JobKnowsRequest
<1>6. SendsOnce'
  <2>. SUFFICES ASSUME NEW s \in Requests, NEW i \in 1 .. Len(queue'), queue'[i] = SendJob(s)
       PROVE  /\ view'[s].phase = "asked" /\ ~Handling(s)'
              /\ \A j \in 1 .. Len(queue') : queue'[j] = SendJob(s) => i = j
    BY DEF SendsOnce, Handling
  <2>1. /\ Len(queue) \in Nat /\ Len(queue') = Len(queue) + 1
        /\ \A k \in 1 .. Len(queue) : queue'[k] = queue[k]
        /\ queue'[Len(queue) + 1] = SendJob(r)
    BY <1>1, Enqueued
  <2>2. CASE s = r
    <3>1. \A j \in 1 .. Len(queue') : queue'[j] = SendJob(r) => j = Len(queue) + 1
      BY <1>3, <2>1 DEF Queued
    <3>. QED  BY <1>1, <1>2, <1>3, <2>2, <3>1 DEF Handling
  <2>3. CASE s # r
    <3>1. \A j \in 1 .. Len(queue') : queue'[j] = SendJob(s) => j \in 1 .. Len(queue) /\ queue[j] = SendJob(s)
      BY <2>1, <2>3, JobsDiffer
    <3>2. i \in 1 .. Len(queue) /\ queue[i] = SendJob(s)
      BY <3>1
    <3>3. /\ view[s].phase = "asked" /\ ~Handling(s)
          /\ \A j \in 1 .. Len(queue) : queue[j] = SendJob(s) => i = j
      BY <3>2 DEF Inv, SendsOnce
    <3>4. view'[s].phase = "asked" /\ ~Handling(s)'
      BY <1>1, <1>2, <2>3, <3>3 DEF Handling
    <3>. QED  BY <3>1, <3>3, <3>4
  <2>. QED  BY <2>2, <2>3
<1>7. PendingIsWatched'
  BY <1>1, Enqueued DEF Inv, PendingIsWatched, Handling
<1>8. Promise!Ask(r)
  BY <1>1 DEF Promise!Ask, Moved
<1>. QED  BY <1>4, <1>5, <1>6, <1>7, <1>8 DEF Keeps, Promise!Next

\* A timer that runs out leaves its handler in the queue.
LEMMA TimerKeeps == ASSUME Inv, NEW r \in Requests, TimerFires(r) PROVE Keeps
<1>1. /\ Enqueue(TimeoutJob(r)) /\ TimeoutJob(r) \in QueuedJobs /\ TypeOK
      /\ UNCHANGED <<job, pending, view>> /\ entry' = [entry EXCEPT ![r].timer = NoTime]
  BY QueuedTypes DEF TimerFires, historyVars, Inv
<1>2. \A s \in Requests :
        /\ entry'[s].via = entry[s].via /\ entry'[s].attempt = entry[s].attempt
        /\ entry'[s].confirmed = entry[s].confirmed /\ entry'[s].ackCodes = entry[s].ackCodes
        /\ s # r => entry'[s] = entry[s]
  BY ZenonT(40), <1>1 DEF TypeOK, Entries
<1>3. ObserversAgree'
  BY <1>1, <1>2 DEF Inv, ObserversAgree, AgreeOn, Handling
<1>4. JobKnowsRequest'
  <2>1. job # Idle => job.id \in Requests
    BY <1>1 DEF TypeOK, Jobs
  <2>. QED  BY <1>1, <1>2, <2>1 DEF Inv, JobKnowsRequest
<1>5. SendsOnce'
  BY <1>1, SendsKept, JobsDiffer DEF Inv, Handling
<1>6. PendingIsWatched'
  BY <1>1, <1>2, Enqueued DEF Inv, TypeOK, PendingIsWatched, Handling
<1>. QED  BY <1>1, <1>3, <1>4, <1>5, <1>6 DEF Keeps

\* A confirmation: told to the observers once, and never of a datagram.
LEMMA AcknowledgeKeeps ==
  ASSUME Inv, NEW r \in Requests, NEW n \in 0 .. 2, Acknowledge(r, n) PROVE Keeps
<1>1. TypeOK /\ UNCHANGED <<queue, job, pending>>
  BY DEF Acknowledge, Inv
<1>2. CASE KeepUnmatched(Code(r, n))
  BY <1>1, <1>2 DEF KeepUnmatched, Keeps, Inv, ObserversAgree, AgreeOn, JobKnowsRequest, SendsOnce,
                    PendingIsWatched, Handling, Queued
<1>3. CASE r \in Expecting(Code(r, n)) /\ MarkReceived(r)
  <2>1. r \in pending /\ entry[r].via = "dm" /\ view[r].via = "dm" /\ view[r].phase = "onAir"
    BY <1>3 DEF Expecting, Inv, ObserversAgree, AgreeOn, TypeOK, Entries, Promise!Transports
  <2>2. /\ entry'[r].confirmed /\ view'[r].confirmed /\ entry'[r].confirmed = view'[r].confirmed
        /\ \A s \in Requests :
             /\ entry'[s].via = entry[s].via /\ entry'[s].attempt = entry[s].attempt
             /\ entry'[s].timer = entry[s].timer /\ entry'[s].ackCodes = entry[s].ackCodes
             /\ view'[s].phase = view[s].phase /\ view'[s].via = view[s].via
             /\ view'[s].attempt = view[s].attempt
             /\ s # r => entry'[s] = entry[s] /\ view'[s] = view[s]
    <3>1. /\ entry \in [Requests -> Entries] /\ view \in [Requests -> Promise!Views]
          /\ entry' = [entry EXCEPT ![r].confirmed = TRUE]
          /\ view' = [view EXCEPT ![r].confirmed = TRUE]
      BY <1>1, <1>3 DEF MarkReceived, TypeOK
    <3>2. /\ entry'[r] = [entry[r] EXCEPT !.confirmed = TRUE]
          /\ view'[r] = [view[r] EXCEPT !.confirmed = TRUE]
          /\ \A s \in Requests : s # r => entry'[s] = entry[s] /\ view'[s] = view[s]
      BY <3>1
    <3>3. entry[r] \in Entries /\ view[r] \in Promise!Views
      BY <3>1
    <3>4. /\ entry'[r].confirmed /\ entry'[r].via = entry[r].via
          /\ entry'[r].attempt = entry[r].attempt /\ entry'[r].timer = entry[r].timer
          /\ entry'[r].ackCodes = entry[r].ackCodes
      BY <3>2, <3>3 DEF Entries
    <3>5. /\ view'[r].confirmed /\ view'[r].confirmed = entry'[r].confirmed /\ view'[r].phase = view[r].phase
          /\ view'[r].via = view[r].via /\ view'[r].attempt = view[r].attempt
      BY <3>2, <3>3 DEF Promise!Views, Entries
    <3>. QED  BY <3>2, <3>4, <3>5
  <2>3. ObserversAgree'
    <3>. SUFFICES ASSUME NEW s \in Requests PROVE AgreeOn(s)'
      BY DEF ObserversAgree
    <3>1. CASE s = r
      <4>1. AgreeOn(r)
        BY DEF Inv, ObserversAgree
      <4>2. /\ r \in pending' /\ view'[r].phase = "onAir" /\ entry'[r].via = "dm" /\ view'[r].via = "dm"
            /\ entry'[r].attempt = entry[r].attempt /\ view'[r].attempt = view[r].attempt
        BY <1>1, <2>1, <2>2
      <4>3. entry[r].attempt <= Promise!LastAttempt("dm")
        BY <2>1, <4>1 DEF AgreeOn
      <4>4. entry[r].attempt = view[r].attempt
            \/ (Handling(r)' /\ job'.at \in {"resendChannel", "resendDm"})
        BY <1>1, <2>1, <4>1 DEF AgreeOn, Handling
      <4>5. entry'[r].confirmed = view'[r].confirmed
        BY <2>2
      <4>. QED  BY <3>1, <4>2, <4>3, <4>4, <4>5 DEF AgreeOn, Handling
    <3>2. CASE s # r
      BY <1>1, <2>2, <3>2 DEF Inv, ObserversAgree, AgreeOn, Handling
    <3>. QED  BY <3>1, <3>2
  <2>4. JobKnowsRequest'
    <3>1. job # Idle => job.id \in Requests
      BY <1>1 DEF TypeOK, Jobs
    <3>. QED  BY <1>1, <2>2, <3>1 DEF Inv, JobKnowsRequest
  <2>5. SendsOnce'
    BY <1>1, <2>2, SendsKept DEF Inv, Handling
  <2>6. PendingIsWatched'
    BY <1>1, <2>2 DEF Inv, TypeOK, PendingIsWatched, Handling, Queued
  <2>7. [Promise!Next]_view
    <3>1. CASE view[r].confirmed
      <4>1. view' = view
        BY <1>3, <3>1 DEF MarkReceived, Inv, TypeOK, Promise!Views
      <4>. QED  BY <4>1
    <3>2. CASE ~view[r].confirmed
      BY <1>3, <2>1, <3>2 DEF MarkReceived, Promise!Next, Promise!Confirm
    <3>. QED  BY <3>1, <3>2
  <2>. QED  BY <2>3, <2>4, <2>5, <2>6, <2>7 DEF Keeps
<1>. QED  BY <1>2, <1>3 DEF Acknowledge

-----------------------------------------------------------------------------
(* Sending *)

\* The job for a tap that has been asked: nothing else is for it.
LEMMA AskedFacts ==
  ASSUME Inv, NEW r \in Requests, view[r].phase = "asked"
  PROVE  /\ r \notin pending
         /\ view[r].attempt = 0 /\ ~view[r].confirmed
         /\ view[r] \in Promise!Views /\ TypeOK
BY DEF Inv, ObserversAgree, AgreeOn, TypeOK

\* A tap is taken off the queue once: it is not there any more.
LEMMA TapTaken ==
  ASSUME Inv, NEW r \in Requests, Runs(SendJob(r))
  PROVE  ~Queued(SendJob(r))'
<1>1. /\ Len(queue) \in Nat \ {0} /\ Len(queue') = Len(queue) - 1
      /\ \A i \in 1 .. Len(queue') : queue'[i] = queue[i + 1]
      /\ queue[1] = SendJob(r)
  BY Started DEF Inv
<1>. SUFFICES ASSUME NEW i \in 1 .. Len(queue'), queue'[i] = SendJob(r) PROVE FALSE
  BY DEF Queued
<1>2. i + 1 \in 1 .. Len(queue) /\ 1 \in 1 .. Len(queue) /\ queue[i + 1] = SendJob(r)
  BY <1>1
<1>3. i + 1 = 1
  BY <1>1, <1>2 DEF Inv, SendsOnce
<1>. QED  BY <1>3

\* The tap's job ends with nothing on the air.
LEMMA TurnAwayKeeps ==
  ASSUME Inv, NEW r \in Requests, NEW how \in {"refused", "served"},
         view[r].phase = "asked", TurnAway(r, how),
         Runs(SendJob(r)) \/ (Handling(r) /\ UNCHANGED queue)
  PROVE  Keeps
<1>1. /\ view' = Moved(r, how) /\ job' = Idle /\ UNCHANGED <<pending, entry>>
      /\ r \notin pending /\ TypeOK /\ SendJob(r) \in QueuedJobs
  BY AskedFacts, QueuedTypes DEF TurnAway
<1>2. /\ view'[r].phase = how
      /\ \A s \in Requests \ {r} : view'[s] = view[s]
  BY <1>1 DEF TypeOK, Moved, Promise!Views
<1>3. \A s \in Requests \ {r} : Handling(s) => FALSE
  BY WhoHandles, Started, <1>1 DEF Handling
<1>4. ~Queued(SendJob(r))'
  <2>1. CASE Runs(SendJob(r))
    BY <2>1, TapTaken
  <2>2. CASE Handling(r) /\ UNCHANGED queue
    BY <2>2 DEF Queued, Inv, SendsOnce
  <2>. QED  BY <2>1, <2>2
<1>5. ObserversAgree'
  BY <1>1, <1>2, <1>3 DEF Inv, ObserversAgree, AgreeOn, Handling
<1>6. JobKnowsRequest'
  BY <1>1 DEF JobKnowsRequest
<1>7. SendsOnce'
  BY <1>1, <1>2, <1>4, SendsKept DEF Inv, Handling
<1>8. PendingIsWatched'
  <2>1. \A s \in pending : Queued(TimeoutJob(s)) => Queued(TimeoutJob(s))'
    <3>1. CASE Runs(SendJob(r))
      BY <1>1, <3>1, Started, JobsDiffer
    <3>2. CASE UNCHANGED queue
      BY <3>2 DEF Queued
    <3>. QED  BY <3>1, <3>2
  <2>. QED  BY <1>1, <1>3, <2>1 DEF Inv, PendingIsWatched, TypeOK
<1>9. Promise!TurnAway(r)
  BY <1>1 DEF Promise!TurnAway, Moved
<1>. QED  BY <1>5, <1>6, <1>7, <1>8, <1>9 DEF Keeps, Promise!Next

\* The tap's job goes to its next await, with nothing pending yet.
LEMMA AwaitKeeps ==
  ASSUME Inv, NEW r \in Requests, NEW at \in {"channel", "dm"}, NEW since,
         view[r].phase = "asked", job' = Await(at, r, 0, since),
         UNCHANGED <<pending, entry, view>>,
         Runs(SendJob(r)) \/ (Handling(r) /\ UNCHANGED queue)
  PROVE  Keeps
<1>1. r \notin pending /\ TypeOK /\ SendJob(r) \in QueuedJobs
  BY AskedFacts, QueuedTypes
<1>2. job'.at = at /\ job'.id = r /\ job' # Idle /\ at \in JobSteps
  BY WhoHandles DEF Await, JobSteps
<1>3. \A s \in Requests \ {r} : ~Handling(s) /\ ~Handling(s)'
  <2>1. \A s \in Requests \ {r} : ~Handling(s)'
    BY <1>2 DEF Handling
  <2>2. CASE Runs(SendJob(r))
    <3>1. job = Idle
      BY <1>1, <2>2, Started
    <3>. QED  BY <2>1, <3>1 DEF Handling
  <2>3. CASE Handling(r)
    BY <2>1, <2>3 DEF Handling
  <2>. QED  BY <2>2, <2>3
<1>4. ~Queued(SendJob(r))'
  <2>1. CASE Runs(SendJob(r))
    BY <2>1, TapTaken
  <2>2. CASE Handling(r) /\ UNCHANGED queue
    BY <2>2 DEF Queued, Inv, SendsOnce
  <2>. QED  BY <2>1, <2>2
<1>5. ObserversAgree'
  BY <1>1, <1>3 DEF Inv, ObserversAgree, AgreeOn
<1>6. JobKnowsRequest'
  BY <1>1, <1>2 DEF JobKnowsRequest
<1>7. SendsOnce'
  BY <1>1, <1>3, <1>4, SendsKept DEF Inv
<1>8. PendingIsWatched'
  <2>1. \A s \in pending : Queued(TimeoutJob(s)) => Queued(TimeoutJob(s))'
    <3>1. CASE Runs(SendJob(r))
      BY <1>1, <3>1, Started, JobsDiffer
    <3>2. CASE UNCHANGED queue
      BY <3>2 DEF Queued
    <3>. QED  BY <3>1, <3>2
  <2>. QED  BY <1>1, <1>3, <2>1 DEF Inv, PendingIsWatched, TypeOK
<1>. QED  BY <1>5, <1>6, <1>7, <1>8 DEF Keeps

\* send() turns the tap away or hands it to the radio.
LEMMA SendKeeps == ASSUME Inv, NEW r \in Requests, Send(r) PROVE Keeps
<1>1. Runs(SendJob(r)) /\ TypeOK
  BY DEF Send, Inv
<1>2. view[r].phase = "asked"
  BY <1>1, Started DEF Inv, SendsOnce
<1>3. \/ \E how \in {"served", "refused"} : TurnAway(r, how)
      \/ job' = Await("channel", r, 0, now) /\ UNCHANGED <<pending, entry, view>>
  BY DEF Send
<1>. QED  BY <1>1, <1>2, <1>3, TurnAwayKeeps, AwaitKeeps

\* A job waiting on the first send of a tap: the tap is asked.
LEMMA FirstSendFacts ==
  ASSUME Inv, NEW r \in Requests, Returns("channel") \/ Returns("dm"), job.id = r
  PROVE  Handling(r) /\ view[r].phase = "asked" /\ UNCHANGED queue
BY WhoHandles DEF Inv, JobKnowsRequest, Returns, Handling, JobSteps

\* The tap goes on the air: pending, watched by its timer, known to observers.
LEMMA LaunchKeeps ==
  ASSUME Inv, NEW r \in Requests, NEW via \in Promise!Transports, NEW seq, NEW codes,
         NEW confirmed \in BOOLEAN, NEW timeout \in Nat,
         Handling(r), view[r].phase = "asked", UNCHANGED queue,
         via = "channel" => codes = {} /\ ~confirmed,
         Launch(r, NewEntry(via, seq, codes, confirmed, timeout))
  PROVE  Keeps
<1>1. r \notin pending /\ TypeOK /\ view[r].attempt = 0 /\ ~view[r].confirmed
  BY AskedFacts
<1>2. /\ pending' = pending \cup {r} /\ job' = Idle
      /\ entry'[r].via = via /\ entry'[r].attempt = 0 /\ entry'[r].ackCodes = codes
      /\ entry'[r].confirmed = confirmed /\ entry'[r].timer = now + timeout
      /\ \A s \in Requests \ {r} : entry'[s] = entry[s]
  BY <1>1 DEF Launch, NewEntry, TypeOK
<1>3. view' = SentEvent(r, via, 0, confirmed)
  BY DEF Launch, NewEntry
<1>4. /\ view'[r].phase = "onAir" /\ view'[r].via = via /\ view'[r].attempt = 0
      /\ view'[r].confirmed = confirmed
      /\ \A s \in Requests \ {r} : view'[s] = view[s]
  <2>1. view[r] \in Promise!Views /\ view \in [Requests -> Promise!Views]
    BY <1>1 DEF TypeOK
  <2>2. view'[r] = [view[r] EXCEPT !.phase = "onAir", !.via = via, !.attempt = 0, !.confirmed = confirmed]
    BY <1>3, <2>1 DEF SentEvent
  <2>. QED  BY <1>3, <2>1, <2>2 DEF SentEvent, Promise!Views
<1>5. \A s \in Requests \ {r} : ~Handling(s)
  BY DEF Handling
<1>6. ObserversAgree'
  <2>. SUFFICES ASSUME NEW s \in Requests PROVE AgreeOn(s)'
    BY DEF ObserversAgree
  <2>1. CASE s = r
    <3>1. 0 <= Promise!LastAttempt(via)
      BY DEF Promise!LastAttempt
    <3>. QED  BY <1>2, <1>4, <2>1, <3>1 DEF AgreeOn
  <2>2. CASE s # r
    BY <1>2, <1>4, <1>5, <2>2 DEF Inv, ObserversAgree, AgreeOn
  <2>. QED  BY <2>1, <2>2
<1>7. JobKnowsRequest'
  BY <1>2 DEF JobKnowsRequest
<1>8. SendsOnce'
  <2>1. ~Queued(SendJob(r))'
    BY DEF Queued, Inv, SendsOnce
  <2>. QED  BY <1>1, <1>2, <1>4, <1>5, <2>1, SendsKept, WhoHandles DEF Inv, Handling
<1>9. PendingIsWatched'
  <2>1. entry'[r].timer # NoTime
    BY <1>1, <1>2 DEF TypeOK, NoTime
  <2>. QED  BY <1>1, <1>2, <1>5, <2>1 DEF Inv, PendingIsWatched, Queued, TypeOK
<1>10. Promise!Launch(r)
  <2>1. confirmed \in Promise!Confirmed(via, FALSE)
    BY DEF Promise!Confirmed, Promise!Transports
  <2>2. view' = [view EXCEPT ![r].phase = "onAir", ![r].via = via, ![r].confirmed = confirmed]
    <3>1. view[r] \in Promise!Views /\ view \in [Requests -> Promise!Views]
      BY <1>1 DEF TypeOK
    <3>2. [view[r] EXCEPT !.phase = "onAir", !.via = via, !.attempt = 0, !.confirmed = confirmed]
            = [view[r] EXCEPT !.phase = "onAir", !.via = via, !.confirmed = confirmed]
      BY <1>1, <3>1 DEF Promise!Views
    <3>. QED  BY <1>3, <3>1, <3>2 DEF SentEvent
  <2>. QED  BY <2>1, <2>2 DEF Promise!Launch
<1>. QED  BY <1>6, <1>7, <1>8, <1>9, <1>10 DEF Keeps, Promise!Next

\* The radio came back from the first transmission.
LEMMA FirstSendKeeps ==
  ASSUME Inv, NEW r \in Requests,
         \/ ChannelSent(r) \/ ChannelFails(r) \/ ChannelUnavailable(r)
         \/ DmSent(r) \/ DmFails(r)
  PROVE  Keeps
<1>1. Handling(r) /\ view[r].phase = "asked" /\ UNCHANGED queue
  BY FirstSendFacts DEF ChannelSent, ChannelFails, ChannelUnavailable, DmSent, DmFails
<1>2. CASE ChannelSent(r)
  <2>1. "channel" \in Promise!Transports /\ FALSE \in BOOLEAN /\ ChannelTimeout \in Nat /\ {} = {}
    BY DEF Promise!Transports
  <2>2. Launch(r, NewEntry("channel", nextRequestSeq, {}, FALSE, ChannelTimeout))
    BY <1>2 DEF ChannelSent
  <2>. QED  BY <1>1, <2>1, <2>2, LaunchKeeps, Zenon
<1>3. CASE DmSent(r)
  <2>1. "dm" \in Promise!Transports /\ "dm" # "channel"
        /\ IsEarly(Code(r, 0)) \in BOOLEAN /\ DmTimeout \in Nat
    BY DEF Promise!Transports, IsEarly
  <2>2. Launch(r, NewEntry("dm", 0, {Code(r, 0)}, IsEarly(Code(r, 0)), DmTimeout))
    BY <1>3 DEF DmSent
  <2>. QED  BY <1>1, <2>1, <2>2, LaunchKeeps, Zenon
<1>4. CASE ChannelFails(r) \/ DmFails(r)
  <2>1. TurnAway(r, "refused")
    BY <1>4 DEF ChannelFails, DmFails
  <2>. QED  BY <1>1, <2>1, TurnAwayKeeps
<1>5. CASE ChannelUnavailable(r)
  <2>1. \/ TurnAway(r, "refused")
        \/ job' = Await("dm", r, 0, job.since) /\ UNCHANGED <<pending, entry, view>>
    BY <1>5 DEF ChannelUnavailable, serviceVars
  <2>. QED  BY <1>1, <2>1, TurnAwayKeeps, AwaitKeeps
<1>. QED  BY <1>2, <1>3, <1>4, <1>5

-----------------------------------------------------------------------------
(* The resend ladder *)

\* What the invariant says of a pending request.
LEMMA PendingFacts ==
  ASSUME Inv, NEW r \in pending
  PROVE  /\ r \in Requests /\ TypeOK /\ AgreeOn(r)
         /\ view[r].phase = "onAir" /\ view[r] \in Promise!Views
         /\ entry[r] \in Entries /\ entry[r].via = view[r].via
         /\ entry[r].confirmed = view[r].confirmed
         /\ entry[r].attempt <= Promise!LastAttempt(entry[r].via)
BY DEF Inv, ObserversAgree, AgreeOn, TypeOK

\* A job waiting on something else than the first send of a tap.
LEMMA LaterFacts ==
  ASSUME Inv, NEW r \in Requests,
         Returns("reset") \/ Returns("resendChannel") \/ Returns("resendDm"), job.id = r
  PROVE  Handling(r) /\ view[r].phase \in {"onAir", "settled"} /\ UNCHANGED queue
BY WhoHandles DEF Inv, JobKnowsRequest, Returns, Handling, JobSteps

\* The job in hand comes to its end, the others are as they were.
LEMMA OthersWatched ==
  ASSUME Inv, NEW r \in Requests, Handling(r) /\ UNCHANGED queue,
         pending' \subseteq pending,
         \A s \in pending' \ {r} : entry'[s] = entry[s],
         r \in pending' => entry'[r].timer # NoTime \/ Handling(r)'
  PROVE  PendingIsWatched'
BY DEF Inv, PendingIsWatched, Handling, Queued

\* A resend begins: the attempt goes up in the entry, the observers wait.
LEMMA BeginResendKeeps ==
  ASSUME Inv, NEW r \in pending, NEW n \in 1 .. 2, BeginResend(r, n),
         UNCHANGED <<pending, view>>,
         n <= Promise!LastAttempt(entry[r].via), entry[r].attempt < n,
         entry[r].attempt = view[r].attempt,
         Runs(TimeoutJob(r)) \/ (Handling(r) /\ UNCHANGED queue)
  PROVE  Keeps
<1>1. r \in Requests /\ TypeOK /\ TimeoutJob(r) \in QueuedJobs /\ view[r].phase = "onAir"
      /\ AgreeOn(r)
  BY PendingFacts, QueuedTypes
<1>2. /\ entry'[r].via = entry[r].via /\ entry'[r].attempt = n
      /\ entry'[r].ackCodes = entry[r].ackCodes /\ entry'[r].confirmed = entry[r].confirmed
      /\ \A s \in Requests \ {r} : entry'[s] = entry[s]
  BY <1>1 DEF BeginResend, TypeOK, Entries
<1>3. job' = Await(ResendAt(entry[r].via), r, n, now) /\ ResendAt(entry[r].via) \in JobSteps
  BY DEF BeginResend, ResendAt, JobSteps
<1>4. /\ job' # Idle /\ job'.id = r /\ job'.at = ResendAt(entry[r].via) /\ job'.attempt = n
  BY <1>3, WhoHandles DEF Await
<1>5. \A s \in Requests \ {r} : ~Handling(s) /\ ~Handling(s)'
  <2>1. \A s \in Requests \ {r} : ~Handling(s)'
    BY <1>4 DEF Handling
  <2>2. CASE Runs(TimeoutJob(r))
    <3>1. job = Idle
      BY <1>1, <2>2, Started
    <3>. QED  BY <2>1, <3>1 DEF Handling
  <2>3. CASE Handling(r)
    BY <2>1, <2>3 DEF Handling
  <2>. QED  BY <2>2, <2>3
<1>6. Handling(r)'
  BY <1>4 DEF Handling
<1>7. ObserversAgree'
  <2>. SUFFICES ASSUME NEW s \in Requests PROVE AgreeOn(s)'
    BY DEF ObserversAgree
  <2>1. CASE s = r
    <3>1. job'.at \in {"resendChannel", "resendDm"}
      BY <1>4 DEF ResendAt
    <3>. QED  BY <1>1, <1>2, <1>6, <2>1, <3>1 DEF AgreeOn
  <2>2. CASE s # r
    <3>1. AgreeOn(s)
      BY DEF Inv, ObserversAgree
    <3>. QED  BY <1>2, <1>5, <2>2, <3>1 DEF AgreeOn
  <2>. QED  BY <2>1, <2>2
<1>8. JobKnowsRequest'
  <2>1. job'.at \in {"resendChannel", "resendDm"}
        /\ (job'.at = "resendChannel" <=> entry[r].via = "channel")
    BY <1>4 DEF ResendAt
  <2>. QED  BY <1>1, <1>2, <1>4, <2>1 DEF JobKnowsRequest
<1>9. SendsOnce'
  <2>1. \A s \in Requests : (Queued(SendJob(s))' /\ view[s].phase = "asked" /\ ~Handling(s))
                              => view'[s].phase = "asked" /\ ~Handling(s)'
    BY <1>1, <1>5
  <2>2. UNCHANGED queue \/ \E j \in QueuedJobs : Runs(j)
    BY <1>1
  <2>. QED  BY <1>1, <2>1, <2>2, SendsKept DEF Inv
<1>10. PendingIsWatched'
  <2>1. \A s \in pending \ {r} : Queued(TimeoutJob(s)) => Queued(TimeoutJob(s))'
    <3>1. CASE Runs(TimeoutJob(r))
      BY <1>1, <3>1, Started, JobsDiffer
    <3>2. CASE UNCHANGED queue
      BY <3>2 DEF Queued
    <3>. QED  BY <3>1, <3>2
  <2>. QED  BY <1>1, <1>2, <1>5, <1>6, <2>1 DEF Inv, PendingIsWatched, TypeOK
<1>. QED  BY <1>7, <1>8, <1>9, <1>10 DEF Keeps

\* An expired timer: nothing, the next transmission, or the end.
LEMMA HandleTimeoutKeeps == ASSUME Inv, NEW r \in Requests, HandleTimeout(r) PROVE Keeps
<1>1. Runs(TimeoutJob(r)) /\ TypeOK /\ TimeoutJob(r) \in QueuedJobs /\ job = Idle
  BY QueuedTypes, Started DEF HandleTimeout, Inv
<1>2. \A s : Queued(TimeoutJob(s)) => s = r \/ Queued(TimeoutJob(s))'
  BY <1>1, Started, JobsDiffer
<1>3. CASE r \notin pending /\ UNCHANGED <<job, pending, entry, view>>
  <2>1. SendsOnce'
    BY <1>1, <1>3, SendsKept DEF Inv, Handling
  <2>2. PendingIsWatched'
    BY <1>2, <1>3 DEF Inv, PendingIsWatched, Handling
  <2>3. ObserversAgree' /\ JobKnowsRequest'
    BY <1>3 DEF Inv, ObserversAgree, AgreeOn, JobKnowsRequest, Handling
  <2>. QED  BY <1>3, <2>1, <2>2, <2>3 DEF Keeps
<1>4. r \in pending => entry[r].attempt = view[r].attempt
  BY <1>1, PendingFacts, WhoHandles DEF AgreeOn
<1>5. CASE r \in pending /\ AsksAgain(r) /\ BeginResend(r, 1) /\ UNCHANGED <<pending, view>>
  <2>1. 1 <= Promise!LastAttempt(entry[r].via) /\ entry[r].attempt < 1 /\ 1 \in 1 .. 2
    BY <1>5 DEF Promise!LastAttempt, AsksAgain
  <2>. QED  BY <1>1, <1>4, <1>5, <2>1, BeginResendKeeps
<1>6. CASE /\ r \in pending /\ NeedsFlood(r)
           /\ job' = Await("reset", r, 2, now) /\ UNCHANGED <<pending, entry, view>>
  <2>1. job'.at = "reset" /\ job'.id = r /\ job' # Idle
    BY <1>6, WhoHandles DEF Await, JobSteps
  <2>2. view[r].phase = "onAir" /\ entry[r].attempt < 2 /\ entry[r].via = "dm"
    BY <1>6, PendingFacts DEF NeedsFlood
  <2>3. ObserversAgree'
    <3>1. \A s : ~Handling(s)
      BY <1>1, WhoHandles
    <3>. QED  BY <1>6, <3>1 DEF Inv, ObserversAgree, AgreeOn
  <2>4. JobKnowsRequest'
    BY <1>4, <1>6, <2>1, <2>2 DEF JobKnowsRequest
  <2>5. SendsOnce'
    <3>1. \A s \in Requests : view[s].phase = "asked" => ~Handling(s)'
      BY <2>1, <2>2 DEF Handling
    <3>. QED  BY <1>1, <1>6, <3>1, SendsKept DEF Inv
  <2>6. PendingIsWatched'
    <3>1. Handling(r)'
      BY <2>1 DEF Handling
    <3>2. \A s : ~Handling(s)
      BY <1>1, WhoHandles
    <3>. QED  BY <1>2, <1>6, <3>1, <3>2 DEF Inv, PendingIsWatched
  <2>. QED  BY <1>6, <2>3, <2>4, <2>5, <2>6 DEF Keeps
<1>7. CASE r \in pending /\ ~AsksAgain(r) /\ ~NeedsFlood(r) /\ Settle(r, "timedOut") /\ UNCHANGED job
  <2>1. "timedOut" \in Promise!Outcomes /\ {r} \cap pending \in SUBSET pending
        /\ SettleAll({r} \cap pending, "timedOut")
    BY <1>7 DEF Promise!Outcomes, Settle
  <2>2. Promise!MayGiveUp(view[r])
    <3>1. /\ entry[r].via \in {"channel", "dm"} /\ entry[r].attempt \in 0 .. 2
          /\ entry[r].confirmed \in BOOLEAN
          /\ view[r].via = entry[r].via /\ view[r].confirmed = entry[r].confirmed
          /\ view[r].attempt = entry[r].attempt
          /\ entry[r].attempt <= Promise!LastAttempt(entry[r].via)
      BY <1>4, <1>7, PendingFacts DEF Entries, Promise!Transports
    <3>. QED  BY <1>7, <3>1 DEF Promise!MayGiveUp, Promise!LastAttempt, AsksAgain, NeedsFlood
  <2>3. \A s \in {r} \cap pending : Promise!MayGiveUp(view[s])
    BY <2>2
  <2>4. /\ [Promise!Next]_view /\ ObserversAgree' /\ JobKnowsRequest'
        /\ \A s \in Requests : view[s].phase = "asked" => view'[s].phase = "asked"
        /\ \A s \in pending' : s \in pending /\ entry'[s] = entry[s]
    BY <1>7, <2>1, <2>3, SettleKeeps
  <2>5. SendsOnce'
    BY <1>1, <1>7, <2>4, SendsKept DEF Inv, Handling
  <2>6. PendingIsWatched'
    <3>1. r \notin pending'
      BY <2>1 DEF SettleAll
    <3>. QED  BY <1>2, <1>7, <2>4, <3>1 DEF Inv, PendingIsWatched, Handling
  <2>. QED  BY <2>4, <2>5, <2>6 DEF Keeps
<1>. QED  BY <1>3, <1>5, <1>6, <1>7 DEF HandleTimeout, serviceVars

\* resetPath came back: the flood, unless the request was answered meanwhile.
LEMMA PathResetKeeps == ASSUME Inv, NEW r \in Requests, PathReset(r) PROVE Keeps
<1>1. Handling(r) /\ UNCHANGED queue /\ view[r].phase \in {"onAir", "settled"} /\ job.at = "reset"
      /\ TypeOK
  BY LaterFacts DEF PathReset, Returns, Inv
<1>2. CASE r \notin pending /\ job' = Idle /\ UNCHANGED <<pending, entry, view>>
  <2>1. ObserversAgree'
    <3>. SUFFICES ASSUME NEW s \in Requests PROVE AgreeOn(s)'
      BY DEF ObserversAgree
    <3>1. AgreeOn(s) /\ (s # r => ~Handling(s))
      BY <1>1 DEF Inv, ObserversAgree, Handling
    <3>. QED  BY <1>2, <3>1 DEF AgreeOn
  <2>2. JobKnowsRequest'
    BY <1>2 DEF JobKnowsRequest
  <2>3. SendsOnce'
    BY <1>1, <1>2, SendsKept DEF Inv, Handling
  <2>4. PendingIsWatched'
    BY <1>1, <1>2, OthersWatched
  <2>. QED  BY <1>2, <2>1, <2>2, <2>3, <2>4 DEF Keeps
<1>3. CASE r \in pending /\ BeginResend(r, 2) /\ UNCHANGED <<pending, view>>
  <2>1. /\ entry[r].via # "channel" /\ entry[r].attempt = view[r].attempt /\ entry[r].attempt < 2
    BY <1>1, <1>3 DEF Inv, JobKnowsRequest, Handling
  <2>2. 2 <= Promise!LastAttempt(entry[r].via) /\ 2 \in 1 .. 2
    BY <2>1 DEF Promise!LastAttempt
  <2>. QED  BY <1>1, <1>3, <2>1, <2>2, BeginResendKeeps
<1>. QED  BY <1>2, <1>3 DEF PathReset

\* A resend went out: the timer is armed again and the observers catch up.
LEMMA ResentKeeps ==
  ASSUME Inv, NEW r \in Requests, NEW via \in Promise!Transports, NEW confirmed \in BOOLEAN,
         Returns(ResendAt(via)), job.id = r, job' = Idle, UNCHANGED pending,
         \/ r \notin pending /\ UNCHANGED <<entry, view>>
         \/ /\ r \in pending /\ view' = SentEvent(r, via, job.attempt, confirmed)
            /\ entry'[r].via = entry[r].via /\ entry'[r].attempt = entry[r].attempt
            /\ entry'[r].confirmed = confirmed /\ entry'[r].timer # NoTime
            /\ via = "channel" => entry'[r].ackCodes = {} /\ ~confirmed
            /\ \A s \in Requests \ {r} : entry'[s] = entry[s]
            /\ confirmed \in Promise!Confirmed(via, view[r].confirmed)
  PROVE  Keeps
<1>0. ResendAt(via) \in {"resendChannel", "resendDm"}
      /\ (via = "channel" <=> ResendAt(via) = "resendChannel")
  BY DEF ResendAt
<1>1. Handling(r) /\ UNCHANGED queue /\ view[r].phase \in {"onAir", "settled"}
      /\ job.at = ResendAt(via) /\ TypeOK /\ job # Idle
  BY <1>0, LaterFacts DEF Returns, Inv, Handling
<1>2. CASE r \notin pending /\ UNCHANGED <<entry, view>>
  <2>1. ObserversAgree'
    <3>. SUFFICES ASSUME NEW s \in Requests PROVE AgreeOn(s)'
      BY DEF ObserversAgree
    <3>1. AgreeOn(s) /\ (s # r => ~Handling(s))
      BY <1>1 DEF Inv, ObserversAgree, Handling
    <3>. QED  BY <1>2, <3>1 DEF AgreeOn
  <2>2. JobKnowsRequest'
    BY DEF JobKnowsRequest
  <2>3. SendsOnce'
    BY <1>1, <1>2, SendsKept, WhoHandles DEF Inv, Handling
  <2>4. PendingIsWatched'
    BY <1>1, <1>2, OthersWatched
  <2>. QED  BY <1>2, <2>1, <2>2, <2>3, <2>4 DEF Keeps
<1>3. CASE /\ r \in pending /\ view' = SentEvent(r, via, job.attempt, confirmed)
           /\ entry'[r].via = entry[r].via /\ entry'[r].attempt = entry[r].attempt
           /\ entry'[r].confirmed = confirmed /\ entry'[r].timer # NoTime
           /\ via = "channel" => entry'[r].ackCodes = {} /\ ~confirmed
           /\ \A s \in Requests \ {r} : entry'[s] = entry[s]
           /\ confirmed \in Promise!Confirmed(via, view[r].confirmed)
  <2>1. /\ view[r].phase = "onAir" /\ view[r] \in Promise!Views /\ entry[r].via = view[r].via
        /\ entry[r].attempt <= Promise!LastAttempt(entry[r].via)
    BY <1>3, PendingFacts
  <2>2. /\ entry[r].via = via /\ entry[r].attempt = job.attempt /\ view[r].attempt < job.attempt
    <3>1. entry[r].via \in {"channel", "dm"} /\ via \in {"channel", "dm"}
      BY <1>3, PendingFacts DEF Entries, Promise!Transports
    <3>2. (job.at = "resendChannel" <=> entry[r].via = "channel") /\ job.at # "reset"
      BY <1>0, <1>1, <1>3 DEF Inv, JobKnowsRequest, Handling
    <3>3. entry[r].attempt = job.attempt /\ view[r].attempt < job.attempt
      BY <1>1, <1>3, <3>2 DEF Inv, JobKnowsRequest, Handling
    <3>. QED  BY <1>0, <1>1, <3>1, <3>2, <3>3
  <2>3. /\ view'[r].phase = "onAir" /\ view'[r].via = via /\ view'[r].attempt = job.attempt
        /\ view'[r].confirmed = confirmed
        /\ \A s \in Requests \ {r} : view'[s] = view[s]
    BY <1>1, <1>3, <2>1 DEF TypeOK, SentEvent, Promise!Views
  <2>4. ObserversAgree'
    <3>. SUFFICES ASSUME NEW s \in Requests PROVE AgreeOn(s)'
      BY DEF ObserversAgree
    <3>1. CASE s = r
      BY <1>3, <2>1, <2>2, <2>3, <3>1 DEF AgreeOn
    <3>2. CASE s # r
      <4>1. AgreeOn(s) /\ ~Handling(s)
        BY <1>1, <3>2 DEF Inv, ObserversAgree, Handling
      <4>. QED  BY <1>3, <2>3, <3>2, <4>1 DEF AgreeOn
    <3>. QED  BY <3>1, <3>2
  <2>5. JobKnowsRequest'
    BY DEF JobKnowsRequest
  <2>6. SendsOnce'
    <3>1. ~Queued(SendJob(r))'
      BY <1>1, <2>1 DEF Queued, Inv, SendsOnce
    <3>2. \A s \in Requests \ {r} : view[s].phase = "asked" => view'[s].phase = "asked" /\ ~Handling(s)'
      BY <2>3 DEF Handling
    <3>. QED  BY <1>1, <3>1, <3>2, SendsKept DEF Inv
  <2>7. PendingIsWatched'
    BY <1>1, <1>3, OthersWatched, PendingFacts DEF Inv, TypeOK
  <2>8. Promise!Resend(r)
    <3>1. view' = [view EXCEPT ![r].attempt = job.attempt, ![r].confirmed = confirmed]
      <4>1. [view[r] EXCEPT !.phase = "onAir", !.via = via, !.attempt = job.attempt, !.confirmed = confirmed]
              = [view[r] EXCEPT !.attempt = job.attempt, !.confirmed = confirmed]
        BY <2>1, <2>2 DEF Promise!Views
      <4>. QED  BY <1>3, <4>1 DEF SentEvent
    <3>2. job.attempt \in view[r].attempt + 1 .. Promise!LastAttempt(view[r].via)
      <4>1. job.attempt \in 0 .. 2 /\ view[r].attempt \in 0 .. 2
        BY <1>1, <2>1 DEF TypeOK, Jobs, Promise!Views
      <4>2. Promise!LastAttempt(view[r].via) \in Nat
        BY DEF Promise!LastAttempt
      <4>. QED  BY <2>1, <2>2, <4>1, <4>2
    <3>3. confirmed \in Promise!Confirmed(view[r].via, view[r].confirmed)
      BY <1>3, <2>1, <2>2
    <3>. QED  BY <2>1, <3>1, <3>2, <3>3, Zenon DEF Promise!Resend
  <2>. QED  BY <2>4, <2>5, <2>6, <2>7, <2>8 DEF Keeps, Promise!Next
<1>. QED  BY <1>2, <1>3

\* The radio came back from a later one.
LEMMA ResendKeeps ==
  ASSUME Inv, NEW r \in Requests, ChannelResent(r) \/ DmResent(r) \/ ResendFails(r)
  PROVE  Keeps
<1>1. TypeOK /\ (r \in pending => entry[r] \in Entries /\ AgreeOn(r))
  BY PendingFacts DEF Inv
<1>2. CASE ChannelResent(r)
  <2>1. "channel" \in Promise!Transports /\ FALSE \in BOOLEAN
    BY DEF Promise!Transports
  <2>2. /\ Returns(ResendAt("channel")) /\ job.id = r /\ job' = Idle /\ UNCHANGED pending
    BY <1>2 DEF ChannelResent, ResendAt
  <2>3. ASSUME r \in pending, entry' = [entry EXCEPT ![r].timer = now + ChannelTimeout],
               view' = SentEvent(r, "channel", 1, FALSE)
        PROVE  /\ view' = SentEvent(r, "channel", job.attempt, FALSE)
               /\ entry'[r].via = entry[r].via /\ entry'[r].attempt = entry[r].attempt
               /\ entry'[r].confirmed = FALSE /\ entry'[r].timer # NoTime
               /\ "channel" = "channel" => entry'[r].ackCodes = {} /\ ~FALSE
               /\ \A s \in Requests \ {r} : entry'[s] = entry[s]
               /\ FALSE \in Promise!Confirmed("channel", view[r].confirmed)
    <3>1. entry'[r].timer = now + ChannelTimeout /\ now + ChannelTimeout # NoTime
          /\ entry'[r].via = entry[r].via /\ entry'[r].attempt = entry[r].attempt
          /\ entry'[r].confirmed = entry[r].confirmed /\ entry'[r].ackCodes = entry[r].ackCodes
          /\ \A s \in Requests \ {r} : entry'[s] = entry[s]
      <4>1. /\ entry'[r] = [entry[r] EXCEPT !.timer = now + ChannelTimeout]
            /\ \A s \in Requests \ {r} : entry'[s] = entry[s]
        BY <1>1, <2>3 DEF TypeOK
      <4>2. now + ChannelTimeout # NoTime
        BY <1>1 DEF TypeOK, NoTime
      <4>. QED  BY <1>1, <2>3, <4>1, <4>2 DEF Entries
    <3>2. entry[r].via = "channel" /\ entry[r].attempt = job.attempt /\ view[r].attempt < job.attempt
      <4>1. job # Idle /\ job.at = "resendChannel" /\ job.id = r
        BY <1>2, WhoHandles DEF ChannelResent, Returns, JobSteps
      <4>. QED  BY <2>3, <4>1 DEF Inv, JobKnowsRequest
    <3>3. /\ entry[r].ackCodes = {} /\ entry[r].confirmed = FALSE /\ view[r].confirmed = FALSE
          /\ entry[r].attempt <= 1
      BY <1>1, <2>3, <3>2, PendingFacts DEF AgreeOn, Entries, Promise!LastAttempt
    <3>4. job.attempt = 1
      <4>1. view[r].attempt \in 0 .. 2 /\ entry[r].attempt \in 0 .. 2
        BY <1>1, <2>3, PendingFacts DEF Entries, Promise!Views
      <4>. QED  BY <3>2, <3>3, <4>1
    <3>. QED  BY <2>3, <3>1, <3>2, <3>3, <3>4 DEF Promise!Confirmed
  <2>4. \/ r \notin pending /\ UNCHANGED <<entry, view>>
        \/ /\ r \in pending /\ entry' = [entry EXCEPT ![r].timer = now + ChannelTimeout]
           /\ view' = SentEvent(r, "channel", 1, FALSE)
    BY <1>2 DEF ChannelResent
  <2>. QED  BY <2>1, <2>2, <2>3, <2>4, ResentKeeps, Zenon
<1>3. CASE DmResent(r)
  <2>0. PICK early \in BOOLEAN : early = (entry[r].confirmed \/ IsEarly(Code(r, job.attempt)))
    OBVIOUS
  <2>1. "dm" \in Promise!Transports /\ early \in BOOLEAN /\ "dm" # "channel"
    BY DEF Promise!Transports
  <2>2. /\ Returns(ResendAt("dm")) /\ job.id = r /\ job' = Idle /\ UNCHANGED pending
    BY <1>3 DEF DmResent, ResendAt
  <2>4. \/ r \notin pending /\ UNCHANGED <<entry, view>>
        \/ /\ r \in pending
           /\ entry' = [entry EXCEPT ![r].ackCodes = entry[r].ackCodes \cup {Code(r, job.attempt)},
                                     ![r].confirmed = early, ![r].timer = now + DmTimeout]
           /\ view' = SentEvent(r, "dm", job.attempt, early)
    BY <1>3, <2>0 DEF DmResent
  <2>5. entry[r].confirmed => early
    BY <2>0
  <2>3. ASSUME r \in pending,
               entry' = [entry EXCEPT ![r].ackCodes = entry[r].ackCodes \cup {Code(r, job.attempt)},
                                     ![r].confirmed = early, ![r].timer = now + DmTimeout]
        PROVE  /\ entry'[r].via = entry[r].via /\ entry'[r].attempt = entry[r].attempt
               /\ entry'[r].confirmed = early /\ entry'[r].timer # NoTime
               /\ \A s \in Requests \ {r} : entry'[s] = entry[s]
               /\ early \in Promise!Confirmed("dm", view[r].confirmed)
    <3>1. entry'[r].timer = now + DmTimeout /\ now + DmTimeout # NoTime
          /\ entry'[r].via = entry[r].via /\ entry'[r].attempt = entry[r].attempt
          /\ entry'[r].confirmed = early
          /\ \A s \in Requests \ {r} : entry'[s] = entry[s]
      <4>1. /\ entry'[r] = [entry[r] EXCEPT !.ackCodes = entry[r].ackCodes \cup {Code(r, job.attempt)},
                                           !.confirmed = early, !.timer = now + DmTimeout]
            /\ \A s \in Requests \ {r} : entry'[s] = entry[s]
        BY <1>1, <2>3 DEF TypeOK
      <4>2. now + DmTimeout # NoTime
        BY <1>1 DEF TypeOK, NoTime
      <4>3. entry[r] \in Entries
        BY <1>1, <2>3
      <4>4. /\ entry'[r].via = entry[r].via /\ entry'[r].attempt = entry[r].attempt
            /\ entry'[r].confirmed = early /\ entry'[r].timer = now + DmTimeout
        BY <4>1, <4>3 DEF Entries
      <4>. QED  BY <4>1, <4>2, <4>4, Zenon
    <3>2. early \in Promise!Confirmed("dm", view[r].confirmed)
      <4>1. view[r].confirmed = entry[r].confirmed /\ entry[r].confirmed \in BOOLEAN
        BY <1>1, <2>3, PendingFacts DEF Entries
      <4>2. early = view[r].confirmed \/ early = TRUE
        BY <2>1, <2>5, <4>1
      <4>. QED  BY <4>2 DEF Promise!Confirmed
    <3>. QED  BY <3>1, <3>2
  <2>6. "dm" = "channel" => entry'[r].ackCodes = {} /\ ~early
    BY <2>1
  <2>7. \/ r \notin pending /\ UNCHANGED <<entry, view>>
        \/ /\ r \in pending /\ view' = SentEvent(r, "dm", job.attempt, early)
           /\ entry'[r].via = entry[r].via /\ entry'[r].attempt = entry[r].attempt
           /\ entry'[r].confirmed = early /\ entry'[r].timer # NoTime
           /\ "dm" = "channel" => entry'[r].ackCodes = {} /\ ~early
           /\ \A s \in Requests \ {r} : entry'[s] = entry[s]
           /\ early \in Promise!Confirmed("dm", view[r].confirmed)
    BY <2>3, <2>4, <2>6
  <2>. QED  BY <2>1, <2>2, <2>7, ResentKeeps, Zenon
<1>4. CASE ResendFails(r)
  <2>1. Handling(r) /\ UNCHANGED queue /\ job' = Idle /\ view[r].phase \in {"onAir", "settled"}
    BY <1>4, LaterFacts DEF ResendFails, Returns
  <2>2. "failed" \in Promise!Outcomes /\ "failed" # "timedOut" /\ {r} \cap pending \in SUBSET pending
        /\ SettleAll({r} \cap pending, "failed")
    BY <1>4 DEF Promise!Outcomes, ResendFails, Settle
  <2>3. /\ [Promise!Next]_view
        /\ \A s \in Requests : view[s].phase = "asked" => view'[s].phase = "asked"
        /\ \A s \in pending' : s \in pending /\ entry'[s] = entry[s]
    BY <2>2, SettleKeeps
  <2>4. r \notin pending' /\ \A s \in Requests \ {r} : /\ view'[s] = view[s] /\ entry'[s] = entry[s]
                                                      /\ (s \in pending' <=> s \in pending)
    BY <1>1, <2>2 DEF TypeOK, SettleAll
  <2>5. ObserversAgree'
    <3>. SUFFICES ASSUME NEW s \in Requests PROVE AgreeOn(s)'
      BY DEF ObserversAgree
    <3>1. AgreeOn(s) /\ (s # r => ~Handling(s))
      BY <2>1 DEF Inv, ObserversAgree, Handling
    <3>2. CASE s = r
      <4>1. view'[r].phase = "settled"
        <5>1. r \in pending => view'[r].phase = "settled"
          BY ZenonT(40), <1>1, <2>2 DEF TypeOK, SettleAll, Promise!Views
        <5>2. r \notin pending => view'[r] = view[r] /\ view[r].phase # "onAir"
          BY <1>1, <2>2, <3>1, <3>2 DEF TypeOK, SettleAll, AgreeOn
        <5>. QED  BY <2>1, <5>1, <5>2
      <4>. QED  BY <2>4, <3>2, <4>1 DEF AgreeOn
    <3>3. CASE s # r
      BY <2>4, <3>1, <3>3 DEF AgreeOn
    <3>. QED  BY <3>2, <3>3
  <2>6. JobKnowsRequest'
    BY <2>1 DEF JobKnowsRequest
  <2>7. SendsOnce'
    BY <1>1, <2>1, <2>3, SendsKept, WhoHandles DEF Inv, Handling
  <2>8. PendingIsWatched'
    <3>1. pending' \subseteq pending
      BY <2>3
    <3>. QED  BY <2>1, <2>3, <2>4, <3>1, OthersWatched
  <2>. QED  BY <2>3, <2>5, <2>6, <2>7, <2>8 DEF Keeps
<1>. QED  BY <1>2, <1>3, <1>4

-----------------------------------------------------------------------------
(* The theorems *)

\* Every step keeps the invariant and is a step of the promise.
LEMMA StepKeeps == ASSUME Inv, [Next]_vars PROVE Keeps
<1>1. CASE Tick \/ AcknowledgeForeign \/ UNCHANGED vars
  BY <1>1, TickKeeps
<1>2. CASE Connect \/ Disconnect \/ Start
  BY <1>2, ConnectKeeps, DisconnectKeeps, StartKeeps
<1>3. CASE \E m \in Messages : Hear(m) \/ Ingest(m)
  BY <1>3, HearKeeps, IngestKeeps
<1>4. CASE \E r \in Requests : Ask(r) \/ TimerFires(r) \/ \E n \in 0 .. 2 : Acknowledge(r, n)
  BY <1>4, AskKeeps, TimerKeeps, AcknowledgeKeeps
<1>5. CASE \E r \in Requests : RunRequest(r)
  BY <1>5, SendKeeps, FirstSendKeeps, HandleTimeoutKeeps, PathResetKeeps, ResendKeeps
  DEF RunRequest
<1>. QED  BY <1>1, <1>2, <1>3, <1>4, <1>5 DEF Next

\* The inductive invariant: what the service knows of a request, what its
\* observers know and what the running job assumes of it never drift apart.
THEOREM Invariant == Spec => []Inv
<1>1. Init => Inv
  <2> HAVE Init
  <2>1. TypeOK
    BY InitType
  <2>2. /\ pending = {} /\ job = Idle /\ queue = <<>>
        /\ view = [r \in Requests |-> Promise!NoView]
    BY DEF Init
  <2>3. ObserversAgree
    BY <2>2 DEF ObserversAgree, AgreeOn, Promise!NoView
  <2>4. JobKnowsRequest /\ SendsOnce /\ PendingIsWatched
    BY <2>2, EmptySeq DEF JobKnowsRequest, SendsOnce, PendingIsWatched
  <2>. QED  BY <2>1, <2>3, <2>4 DEF Inv
<1>2. Inv /\ [Next]_vars => Inv'
  BY StepType, StepKeeps DEF Inv, Keeps
<1>. QED  BY <1>1, <1>2, PTL DEF Spec

\* A request that waits for its answer always has something that will wake
\* it: its timer, or the handler of its expired timer, queued or running.
THEOREM Watched == Spec => []PendingIsWatched
<1>1. Inv => PendingIsWatched
  BY DEF Inv
<1>. QED  BY <1>1, Invariant, PTL

\* The service implements the promise it makes to the screens: every step is
\* a step of RequestPromise for the same view, or leaves the view alone.
THEOREM PromiseKept == Spec => KeepsPromise
<1>1. Init => Promise!Init
  BY DEF Init, Promise!Init
<1>2. Inv /\ [Next]_vars => [Promise!Next]_view
  BY StepKeeps DEF Keeps
<1>. QED  BY <1>1, <1>2, Invariant, PTL DEF Spec, KeepsPromise, Promise!Spec

-----------------------------------------------------------------------------
(* The wire timestamps of requests (TimestampNamesRequest) *)

\* No transmission is dated later than the last one the service sent, and that
\* one not later than now.
Clocked == lastSendAt <= now /\ \A t \in air : t.timestamp <= lastSendAt

\* What is on the air was asked for, and has left the queue: until a request
\* is pending or turned away, only the direct message in flight is its own.
NoneAired ==
  \A t \in air :
    /\ view[t.id].phase # "new"
    /\ view[t.id].phase = "asked" => job.at = "dm" /\ job.id = t.id

\* The timestamp of a pending request is that of no other, and of its own
\* transmissions, which are of the attempts made so far.
StampOf(r) ==
  /\ entry[r].timestamp <= lastSendAt
  /\ \A s \in pending : entry[s].timestamp = entry[r].timestamp => s = r
  /\ \A t \in air : /\ t.timestamp = entry[r].timestamp <=> t.id = r
                    /\ t.id = r => t.attempt <= entry[r].attempt
PendingStamps == \A r \in pending : StampOf(r)

\* A first send in flight is the last thing sent: its moment dates no other
\* request.
FirstSends == {"channel", "dm"}
JobStamp ==
  job.at \in FirstSends =>
    /\ lastSendAt = job.since
    /\ \A s \in pending : entry[s].timestamp # job.since
    /\ \A t \in air : /\ t.timestamp = job.since <=> t.id = job.id
                      /\ t.id = job.id => t.attempt = 0
    /\ job.at = "dm" => job.attempt = 0

StampInv == Clocked /\ NoneAired /\ PendingStamps /\ JobStamp /\ TimestampNamesRequest

\* The service as the arguments about timestamps need it typed.
LEMMA StampTypes ==
  ASSUME TypeOK
  PROVE  /\ now \in Int /\ lastSendAt \in Int
         /\ \A r \in Requests : entry[r].timestamp \in Int /\ entry[r].attempt \in Int
                                /\ entry[r] \in Entries
         /\ \A t \in air : t.id \in Requests /\ t.timestamp \in Int /\ t.attempt \in Int
         /\ pending \subseteq Requests
         /\ job.at \in FirstSends => job.id \in Requests /\ job.since \in Int
BY SMTT(30) DEF TypeOK, Times, NoTime, Entries, Transmissions, Jobs, FirstSends, Idle

\* A step that puts nothing on the air, dates nothing and begins no send: the
\* requests it leaves pending keep their timestamp and their attempt, and a
\* first send that it ends is no longer "asked".
Quiet ==
  /\ UNCHANGED <<lastSendAt, air>> /\ now <= now'
  /\ \A r \in pending' : /\ r \in pending
                         /\ entry'[r].timestamp = entry[r].timestamp
                         /\ entry'[r].attempt = entry[r].attempt
  /\ \A r \in Requests : /\ view'[r].phase = "new" => view[r].phase = "new"
                         /\ view'[r].phase = "asked" => view[r].phase \in {"new", "asked"}
  /\ \/ job' = job
     \/ /\ job'.at \notin FirstSends
        /\ job.at = "dm" => view'[job.id].phase # "asked"

LEMMA QuietKeepsStamps == ASSUME TypeOK, TypeOK', StampInv, Quiet PROVE StampInv'
<1>. USE StampTypes
<1>1. Clocked'
  <2>1. now' \in Int
    BY DEF TypeOK
  <2>. QED  BY <2>1 DEF Clocked, StampInv, Quiet
<1>2. NoneAired'
  BY DEF NoneAired, StampInv, Quiet
<1>3. PendingStamps'
  BY DEF PendingStamps, StampOf, StampInv, Quiet
<1>4. JobStamp'
  <2>1. CASE job' = job
    BY <2>1 DEF JobStamp, StampInv, Quiet
  <2>2. CASE job'.at \notin FirstSends
    BY <2>2 DEF JobStamp
  <2>. QED  BY <2>1, <2>2 DEF Quiet
<1>5. TimestampNamesRequest'
  BY DEF TimestampNamesRequest, StampInv, Quiet
<1>. QED  BY <1>1, <1>2, <1>3, <1>4, <1>5 DEF StampInv

\* Settling requests makes none of them new or asked.
LEMMA SettledPhases ==
  ASSUME TypeOK, NEW gone, NEW outcome, SettleAll(gone, outcome)
  PROVE  /\ \A r \in Requests : view'[r].phase = view[r].phase \/ view'[r].phase = "settled"
         /\ \A r \in pending' : r \in pending /\ entry'[r] = entry[r]
<1>1. view \in [Requests -> Promise!Views]
  BY DEF TypeOK
<1>2. \A r \in Requests : view'[r].phase = view[r].phase \/ view'[r].phase = "settled"
  BY <1>1 DEF SettleAll, Promise!Views
<1>. QED  BY <1>2 DEF SettleAll, TypeOK

\* A request's phase changes, and nobody else's.
LEMMA MovedPhases ==
  ASSUME TypeOK, NEW r \in Requests, NEW phase, view' = Moved(r, phase)
  PROVE  /\ view'[r].phase = phase
         /\ \A s \in Requests \ {r} : view'[s] = view[s]
BY DEF TypeOK, Moved, Promise!Views

LEMMA SentPhases ==
  ASSUME TypeOK, NEW r \in Requests, NEW via, NEW n, NEW c, view' = SentEvent(r, via, n, c)
  PROVE  /\ view'[r].phase = "onAir" /\ view'[r].attempt = n
         /\ \A s \in Requests \ {r} : view'[s] = view[s]
<1>1. view[r] \in Promise!Views
  BY DEF TypeOK
<1>2. /\ view'[r] = [view[r] EXCEPT !.phase = "onAir", !.via = via, !.attempt = n, !.confirmed = c]
      /\ \A s \in Requests \ {r} : view'[s] = view[s]
  BY DEF TypeOK, SentEvent
<1>. QED  BY <1>1, <1>2 DEF Promise!Views

\* The clock, the connection and what the channel carries send no request.
LEMMA WorldIsQuiet ==
  ASSUME TypeOK,
         \/ Tick \/ Connect \/ Disconnect \/ AcknowledgeForeign \/ Start \/ UNCHANGED vars
         \/ \E m \in Messages : Hear(m) \/ Ingest(m)
  PROVE  Quiet
<1>. now \in Int
  BY StampTypes
<1>1. CASE \/ Tick \/ Connect \/ AcknowledgeForeign \/ Start \/ UNCHANGED vars
           \/ \E m \in Messages : Hear(m)
  <2>1. UNCHANGED <<lastSendAt, air, job, pending, entry, view>> /\ now <= now'
    BY <1>1 DEF Tick, Connect, AcknowledgeForeign, KeepUnmatched, Start, Hear, vars, serviceVars, historyVars
  <2>. QED  BY <2>1 DEF Quiet
<1>2. CASE Disconnect
  <2>1. SettleAll(pending, "failed") /\ UNCHANGED <<lastSendAt, air, job, now>>
    BY <1>2 DEF Disconnect
  <2>. QED  BY <2>1, SettledPhases DEF Quiet
<1>3. ASSUME NEW m \in Messages, Ingest(m) PROVE Quiet
  <2>1. UNCHANGED <<lastSendAt, air, job, now>>
    BY <1>3 DEF Ingest, serviceVars
  <2>2. CASE SettleAll(Refused(m), "notAvailable") \/ SettleAll(Answered(m), "answered")
    BY <2>1, <2>2, SettledPhases DEF Quiet
  <2>3. CASE UNCHANGED <<pending, entry, view>>
    BY <2>1, <2>3 DEF Quiet
  <2>. QED  BY <1>3, <2>2, <2>3 DEF Ingest, serviceVars
<1>. QED  BY <1>1, <1>2, <1>3

\* Turning a tap away ends its job.
LEMMA TurnAwayIsQuiet ==
  ASSUME TypeOK, NEW r \in Requests, NEW how \in {"refused", "served"}, TurnAway(r, how),
         UNCHANGED <<air, now>>, job # Idle => job.id = r
  PROVE  Quiet
<1>1. /\ view'[r].phase = how /\ \A s \in Requests \ {r} : view'[s] = view[s]
      /\ UNCHANGED <<pending, entry, lastSendAt, air, now>> /\ job' = Idle
  BY MovedPhases DEF TurnAway, serviceButEntries
<1>2. job'.at \notin FirstSends /\ (job.at = "dm" => job.id = r)
  BY <1>1 DEF Idle, FirstSends
<1>3. now <= now'
  BY <1>1, StampTypes
<1>. QED  BY <1>1, <1>2, <1>3 DEF Quiet

\* A tap, a timer and a confirmation send nothing either.
LEMMA TapIsQuiet ==
  ASSUME TypeOK, NEW r \in Requests,
         Ask(r) \/ TimerFires(r) \/ \E n \in 0 .. 2 : Acknowledge(r, n)
  PROVE  Quiet
<1>. now \in Int /\ entry \in [Requests -> Entries] /\ view \in [Requests -> Promise!Views]
  BY StampTypes DEF TypeOK
<1>1. CASE Ask(r)
  <2>1. /\ view' = Moved(r, "asked") /\ view[r].phase = "new"
        /\ UNCHANGED <<lastSendAt, air, job, now, pending, entry>>
    BY <1>1 DEF Ask, serviceVars
  <2>2. view'[r].phase = "asked" /\ \A s \in Requests \ {r} : view'[s] = view[s]
    BY <2>1, MovedPhases
  <2>. QED  BY <2>1, <2>2 DEF Quiet
<1>2. CASE TimerFires(r)
  <2>1. /\ entry' = [entry EXCEPT ![r].timer = NoTime]
        /\ UNCHANGED <<lastSendAt, air, job, now, pending, view>>
    BY <1>2 DEF TimerFires, historyVars
  <2>2. \A s \in Requests : entry'[s].timestamp = entry[s].timestamp /\ entry'[s].attempt = entry[s].attempt
    BY <2>1 DEF Entries
  <2>. QED  BY <2>1, <2>2, StampTypes DEF Quiet
<1>3. ASSUME NEW n \in 0 .. 2, Acknowledge(r, n) PROVE Quiet
  <2>1. UNCHANGED <<lastSendAt, air, job, now, pending>>
    BY <1>3 DEF Acknowledge
  <2>2. CASE UNCHANGED <<entry, view>>
    BY <2>1, <2>2 DEF Quiet
  <2>3. CASE MarkReceived(r)
    <3>1. \A s \in Requests : /\ entry'[s].timestamp = entry[s].timestamp
                              /\ entry'[s].attempt = entry[s].attempt
                              /\ view'[s].phase = view[s].phase
      BY <2>3 DEF MarkReceived, Entries, Promise!Views
    <3>. QED  BY <2>1, <3>1, StampTypes DEF Quiet
  <2>. QED  BY <1>3, <2>2, <2>3 DEF Acknowledge, KeepUnmatched
<1>. QED  BY <1>1, <1>2, <1>3

\* A resend that comes back, or fails, has been dated when it began.
LEMMA ResendIsQuiet ==
  ASSUME TypeOK, NEW r \in Requests, ChannelResent(r) \/ DmResent(r) \/ ResendFails(r)
  PROVE  Quiet
<1>. /\ now \in Int /\ entry \in [Requests -> Entries] /\ view \in [Requests -> Promise!Views]
     /\ pending \subseteq Requests
  BY StampTypes DEF TypeOK
<1>1. /\ UNCHANGED <<lastSendAt, air, now>> /\ job' = Idle /\ job'.at \notin FirstSends
      /\ job.at # "dm"
  <2>1. UNCHANGED <<lastSendAt, air, now>> /\ job' = Idle
    BY DEF ChannelResent, DmResent, ResendFails, serviceButEntries
  <2>2. job.at # "dm"
    BY DEF ChannelResent, DmResent, ResendFails, Returns
  <2>. QED  BY <2>1, <2>2 DEF Idle, FirstSends
<1>2. CASE UNCHANGED <<pending, entry, view>>
  BY <1>1, <1>2 DEF Quiet
<1>3. CASE ResendFails(r)
  BY <1>1, <1>3, SettledPhases DEF Quiet, ResendFails, Settle
<1>4. ASSUME r \in pending, UNCHANGED pending, NEW via, NEW n, NEW c, view' = SentEvent(r, via, n, c),
             \A s \in Requests : /\ entry'[s].timestamp = entry[s].timestamp
                                 /\ entry'[s].attempt = entry[s].attempt
      PROVE Quiet
  BY <1>1, <1>4, SentPhases DEF Quiet
<1>5. CASE ChannelResent(r) /\ r \in pending
  <2>1. entry' = [entry EXCEPT ![r].timer = ArmTimer(ChannelTimeout)] /\ UNCHANGED pending
        /\ view' = SentEvent(r, "channel", 1, FALSE)
    BY <1>5 DEF ChannelResent
  <2>2. \A s \in Requests : entry'[s].timestamp = entry[s].timestamp /\ entry'[s].attempt = entry[s].attempt
    BY <2>1 DEF Entries
  <2>. QED  BY <1>4, <1>5, <2>1, <2>2
<1>6. CASE DmResent(r) /\ r \in pending
  <2>. DEFINE code == Code(r, job.attempt)
              early == entry[r].confirmed \/ IsEarly(code)
  <2>1. /\ entry' = [entry EXCEPT ![r].ackCodes = entry[r].ackCodes \cup {code},
                                  ![r].confirmed = early, ![r].timer = ArmTimer(DmTimeout)]
        /\ UNCHANGED pending /\ view' = SentEvent(r, "dm", job.attempt, early)
    BY <1>6 DEF DmResent
  <2>. HIDE DEF code, early
  <2>2. \A s \in Requests : entry'[s].timestamp = entry[s].timestamp /\ entry'[s].attempt = entry[s].attempt
    BY <2>1 DEF Entries
  <2>. QED  BY <1>4, <1>6, <2>1, <2>2
<1>. QED  BY <1>2, <1>3, <1>5, <1>6 DEF ChannelResent, DmResent

\* A first send takes a moment later than any before it: the spacing between
\* two of them is at least a tick (TooSoon).
LEMMA SendKeepsStamps ==
  ASSUME Inv, StampInv, TypeOK', NEW r \in Requests, Send(r) PROVE StampInv'
<1>. TypeOK /\ UNCHANGED <<now, air>>
  BY DEF Inv, Send
<1>. USE StampTypes
<1>0. view[r].phase = "asked" /\ job = Idle /\ job.at \notin JobSteps
  <2>1. Len(queue) \in Nat \ {0} /\ queue[1] = SendJob(r) /\ job = Idle
    BY Started DEF Send
  <2>. QED  BY <2>1 DEF Inv, SendsOnce, Idle, JobSteps
<1>1. CASE TurnAway(r, "served") \/ TurnAway(r, "refused")
  BY <1>0, <1>1, TurnAwayIsQuiet, QuietKeepsStamps
<1>2. CASE ~TooSoon /\ lastSendAt' = now /\ job' = Await("channel", r, 0, now)
           /\ UNCHANGED <<pending, entry, view>>
  <2>1. lastSendAt < now
    <3>1. Spacing \in Nat \ {0} /\ lastSendAt \in Int /\ now \in Nat
      BY DEF TypeOK
    <3>. QED  BY <1>2, <3>1 DEF TooSoon, NoTime
  <2>2. \A t \in air : t.timestamp < now /\ t.id # r /\ view[t.id].phase # "asked"
    <3>1. \A t \in air : t.timestamp < now
      BY <2>1 DEF StampInv, Clocked
    <3>2. \A t \in air : view[t.id].phase # "asked"
      BY <1>0 DEF StampInv, NoneAired, JobSteps
    <3>. QED  BY <1>0, <3>1, <3>2
  <2>3. Clocked'
    BY <1>2, <2>1 DEF StampInv, Clocked
  <2>4. NoneAired'
    BY <1>2, <2>2 DEF StampInv, NoneAired
  <2>5. \A s \in pending : entry[s].timestamp < now
    BY <2>1 DEF StampInv, PendingStamps, StampOf
  <2>6. PendingStamps'
    BY <1>2, <2>1, <2>5 DEF StampInv, PendingStamps, StampOf
  <2>7. job'.at = "channel" /\ job'.id = r /\ job'.since = now
    BY <1>2 DEF Await
  <2>8. JobStamp'
    BY <1>2, <2>2, <2>5, <2>7 DEF JobStamp
  <2>9. TimestampNamesRequest'
    BY DEF StampInv, TimestampNamesRequest
  <2>. QED  BY <2>3, <2>4, <2>6, <2>8, <2>9 DEF StampInv
<1>. QED  BY <1>1, <1>2 DEF Send

\* The first transmission of a request carries the moment of its job, which
\* dates nothing else.
LEMMA FirstOnAir ==
  ASSUME Inv, StampInv, job.at = "channel", NEW t \in Transmissions,
         t.id = job.id, t.timestamp = job.since, t.attempt = 0
  PROVE  /\ \A u \in air \cup {t} : /\ u.timestamp <= lastSendAt
                                    /\ u.timestamp = job.since <=> u.id = job.id
                                    /\ u.id = job.id => u = t
         /\ \A r \in pending : /\ StampOf(r) /\ r # job.id
                               /\ entry[r].timestamp # job.since
         /\ \A u, v \in air \cup {t} : /\ u.timestamp = v.timestamp <=> u.id = v.id
                                       /\ u.id = v.id /\ u.attempt = v.attempt => u = v
<1>. USE StampTypes
<1>0. TypeOK /\ job \in Jobs /\ job.id \in Requests /\ job.since \in Int /\ job # Idle
  BY DEF Inv, TypeOK, Jobs, Idle
<1>1. /\ lastSendAt = job.since
      /\ \A s \in pending : entry[s].timestamp # job.since
      /\ \A u \in air : u.timestamp = job.since <=> u.id = job.id
  BY DEF StampInv, JobStamp, FirstSends
<1>2. view[job.id].phase = "asked"
  BY <1>0 DEF Inv, JobKnowsRequest
<1>3. \A u \in air : u.id # job.id
  BY <1>2 DEF StampInv, NoneAired
<1>4. job.id \notin pending
  BY <1>0, <1>2, AskedFacts
<1>5. \A u \in air : u.timestamp <= lastSendAt
  BY DEF StampInv, Clocked
<1>6. \A u \in air \cup {t} : u.timestamp <= lastSendAt
  BY <1>0, <1>1, <1>5
<1>7. \A u, v \in air \cup {t} : /\ u.timestamp = v.timestamp <=> u.id = v.id
                                 /\ u.id = v.id /\ u.attempt = v.attempt => u = v
  BY <1>1, <1>3 DEF StampInv, TimestampNamesRequest
<1>. QED  BY <1>1, <1>3, <1>4, <1>6, <1>7 DEF StampInv, PendingStamps

\* What the first send puts on the air, and the three ways it goes on: the
\* request is pending, is turned away, or waits for the direct message.
LEMMA FirstSendKeepsStamps ==
  ASSUME Inv, StampInv, TypeOK', NEW r \in Requests, job.at = "channel", job.id = r,
         UNCHANGED <<now, lastSendAt>>,
         \A s \in Requests \ {r} : view'[s].phase = view[s].phase,
         \/ air' = air
         \/ \E t \in Transmissions : /\ t.id = r /\ t.timestamp = job.since /\ t.attempt = 0
                                     /\ air' = air \cup {t},
         \/ /\ job' = Idle /\ pending' = pending \cup {r} /\ view'[r].phase = "onAir"
            /\ entry'[r].timestamp = job.since /\ entry'[r].attempt = 0
            /\ \A s \in Requests \ {r} : entry'[s] = entry[s]
         \/ job' = Idle /\ UNCHANGED <<pending, entry>> /\ view'[r].phase = "refused"
         \/ job' = Await("dm", r, 0, job.since) /\ UNCHANGED <<pending, entry, view>>
  PROVE  StampInv'
<1>. USE StampTypes
<1>0. TypeOK /\ job \in Jobs /\ job.since \in Int /\ job # Idle
  BY DEF Inv, TypeOK, Jobs, Idle
<1>1. /\ lastSendAt = job.since /\ lastSendAt <= now
      /\ \A s \in pending : entry[s].timestamp # job.since
  BY DEF StampInv, JobStamp, FirstSends, Clocked
<1>2. view[r].phase = "asked" /\ r \notin pending
  BY <1>0, AskedFacts DEF Inv, JobKnowsRequest
<1>3. \A u \in air : u.id # r /\ u.timestamp # job.since /\ view[u.id].phase # "asked"
  BY <1>2 DEF StampInv, NoneAired, JobStamp, FirstSends
<1>4. /\ \A u \in air' : /\ u \in Transmissions /\ u.timestamp <= lastSendAt
                         /\ u.timestamp = job.since <=> u.id = r
                         /\ u.id = r => u.attempt = 0
                         /\ u.id # r => u \in air
      /\ \A u, v \in air' : /\ u.timestamp = v.timestamp <=> u.id = v.id
                            /\ u.id = v.id /\ u.attempt = v.attempt => u = v
  <2>1. CASE air' = air
    BY <1>0, <1>1, <1>3, <2>1 DEF StampInv, Clocked, TimestampNamesRequest, TypeOK
  <2>2. CASE \E t \in Transmissions : /\ t.id = r /\ t.timestamp = job.since /\ t.attempt = 0
                                      /\ air' = air \cup {t}
    <3>1. PICK t \in Transmissions : /\ t.id = r /\ t.timestamp = job.since /\ t.attempt = 0
                                     /\ air' = air \cup {t}
      BY <2>2
    <3>2. air \subseteq Transmissions
      BY <1>0 DEF TypeOK
    <3>3. /\ \A u \in air' : /\ u.timestamp <= lastSendAt
                             /\ u.timestamp = job.since <=> u.id = r
                             /\ u.id = r => u = t
          /\ \A u, v \in air' : /\ u.timestamp = v.timestamp <=> u.id = v.id
                                /\ u.id = v.id /\ u.attempt = v.attempt => u = v
      BY <3>1, FirstOnAir
    <3>. QED  BY <3>1, <3>2, <3>3
  <2>. QED  BY <2>1, <2>2
<1>5. Clocked' /\ TimestampNamesRequest'
  BY <1>1, <1>4 DEF Clocked, TimestampNamesRequest
<1>6. \A s \in pending : /\ entry[s].timestamp <= lastSendAt /\ s \in Requests /\ s # r
                         /\ \A q \in pending : entry[q].timestamp = entry[s].timestamp => q = s
                         /\ \A u \in air' : /\ u.timestamp = entry[s].timestamp <=> u.id = s
                                            /\ u.id = s => u.attempt <= entry[s].attempt
  BY <1>0, <1>1, <1>2, <1>4 DEF StampInv, PendingStamps, StampOf
<1>7. CASE \/ /\ job' = Idle /\ pending' = pending \cup {r} /\ view'[r].phase = "onAir"
              /\ entry'[r].timestamp = job.since /\ entry'[r].attempt = 0
              /\ \A s \in Requests \ {r} : entry'[s] = entry[s]
           \/ job' = Idle /\ UNCHANGED <<pending, entry>> /\ view'[r].phase = "refused"
  <2>1. JobStamp'
    BY <1>7 DEF JobStamp, Idle, FirstSends
  <2>2. NoneAired'
    <3>. SUFFICES ASSUME NEW t \in air' PROVE view'[t.id].phase \notin {"new", "asked"}
      BY DEF NoneAired
    <3>1. CASE t.id = r
      BY <1>7, <3>1
    <3>2. CASE t.id # r
      <4>1. t \in air /\ t.id \in Requests \ {r}
        BY <1>0, <1>4, <3>2
      <4>. QED  BY <1>3, <4>1 DEF StampInv, NoneAired
    <3>. QED  BY <3>1, <3>2
  <2>3. PendingStamps'
    <3>. SUFFICES ASSUME NEW s \in pending' PROVE StampOf(s)'
      BY DEF PendingStamps
    <3>1. CASE s \in pending
      BY <1>1, <1>6, <1>7, <3>1 DEF StampOf
    <3>2. CASE s = r /\ s \notin pending
      <4>1. pending' = pending \cup {r} /\ entry'[r].timestamp = job.since /\ entry'[r].attempt = 0
            /\ \A q \in Requests \ {r} : entry'[q] = entry[q]
        BY <1>7, <3>2
      <4>. QED  BY <1>0, <1>1, <1>4, <1>6, <3>2, <4>1 DEF StampOf
    <3>. QED  BY <1>7, <3>1, <3>2
  <2>. QED  BY <1>5, <2>1, <2>2, <2>3 DEF StampInv
<1>8. CASE job' = Await("dm", r, 0, job.since) /\ UNCHANGED <<pending, entry, view>>
  <2>0. job'.at = "dm" /\ job'.id = r /\ job'.attempt = 0 /\ job'.since = job.since
    BY <1>8 DEF Await
  <2>1. JobStamp'
    BY <1>1, <1>4, <1>8, <2>0 DEF JobStamp
  <2>2. NoneAired'
    <3>. SUFFICES ASSUME NEW t \in air'
         PROVE  view[t.id].phase # "new" /\ (view[t.id].phase = "asked" => t.id = r)
      BY <1>8, <2>0 DEF NoneAired
    <3>1. CASE t.id = r
      BY <1>2, <3>1
    <3>2. CASE t.id # r
      BY <1>3, <1>4, <3>2 DEF StampInv, NoneAired
    <3>. QED  BY <3>1, <3>2
  <2>3. PendingStamps'
    BY <1>6, <1>8 DEF PendingStamps, StampOf
  <2>. QED  BY <1>5, <2>1, <2>2, <2>3 DEF StampInv
<1>. QED  BY <1>7, <1>8

\* The datagram went out, was refused, or is to be a direct message.
LEMMA ChannelKeepsStamps ==
  ASSUME Inv, StampInv, TypeOK', NEW r \in Requests,
         ChannelSent(r) \/ ChannelFails(r) \/ ChannelUnavailable(r)
  PROVE  StampInv'
<1>0. TypeOK /\ job.at = "channel" /\ job.id = r /\ UNCHANGED <<now, lastSendAt>>
  BY DEF Inv, ChannelSent, ChannelFails, ChannelUnavailable, Returns, TurnAway, serviceVars, serviceButEntries
<1>1. job.since \in 0 .. MaxTime /\ nextRequestSeq \in 0 .. SeqModulus - 1
  BY <1>0, WaitingJob DEF JobSteps, TypeOK
<1>2. /\ FirstDatagram(r) \in Transmissions /\ FirstDatagram(r).id = r
      /\ FirstDatagram(r).timestamp = job.since /\ FirstDatagram(r).attempt = 0
  <2>1. "channel" \in Promise!Transports /\ 0 \in 0 .. 2
    BY DEF Promise!Transports
  <2>2. FirstDatagram(r) \in Transmissions
    BY <1>0, <1>1, <2>1, TransmissionType DEF FirstDatagram
  <2>. QED  BY <2>2 DEF FirstDatagram, Transmission
<1>3. ASSUME NEW how \in {"refused", "served"}, TurnAway(r, how)
      PROVE  /\ job' = Idle /\ UNCHANGED <<pending, entry>> /\ view'[r].phase = how
             /\ \A s \in Requests \ {r} : view'[s].phase = view[s].phase
  BY <1>0, <1>3, MovedPhases DEF TurnAway
<1>4. CASE ChannelSent(r)
  <2>. DEFINE e == NewEntry("channel", nextRequestSeq, {}, FALSE, ChannelTimeout)
  <2>1. /\ job' = Idle /\ pending' = pending \cup {r} /\ entry' = [entry EXCEPT ![r] = e]
        /\ view' = SentEvent(r, e.via, 0, e.confirmed)
        /\ air' = air \cup {FirstDatagram(r)}
    BY <1>4 DEF ChannelSent, Launch
  <2>2. e.timestamp = job.since /\ e.attempt = 0
    BY DEF NewEntry
  <2>. HIDE DEF e
  <2>3. /\ view'[r].phase = "onAir" /\ \A s \in Requests \ {r} : view'[s].phase = view[s].phase
    BY <1>0, <2>1, SentPhases
  <2>4. /\ entry'[r].timestamp = job.since /\ entry'[r].attempt = 0
        /\ \A s \in Requests \ {r} : entry'[s] = entry[s]
    BY <1>0, <2>1, <2>2 DEF TypeOK
  <2>. QED  BY <1>0, <1>2, <2>1, <2>3, <2>4, FirstSendKeepsStamps
<1>5. CASE ChannelFails(r)
  <2>1. TurnAway(r, "refused") /\ (air' = air \/ air' = air \cup {FirstDatagram(r)})
    BY <1>5 DEF ChannelFails
  <2>2. /\ job' = Idle /\ UNCHANGED <<pending, entry>> /\ view'[r].phase = "refused"
        /\ \A s \in Requests \ {r} : view'[s].phase = view[s].phase
    BY <1>3, <2>1
  <2>. QED  BY <1>0, <1>2, <2>1, <2>2, FirstSendKeepsStamps
<1>6. CASE ChannelUnavailable(r)
  <2>. DEFINE t == Transmission(r, "dm", 0, job.since, 0, job.since)
  <2>1. CASE TurnAway(r, "refused") /\ UNCHANGED air
    <3>1. /\ job' = Idle /\ UNCHANGED <<pending, entry>> /\ view'[r].phase = "refused"
          /\ \A s \in Requests \ {r} : view'[s].phase = view[s].phase
      BY <1>3, <2>1
    <3>. QED  BY <1>0, <2>1, <3>1, FirstSendKeepsStamps
  <2>2. CASE /\ job' = Await("dm", r, 0, job.since) /\ UNCHANGED <<serviceVars, view>>
             /\ air' = IF connected THEN air \cup {t} ELSE air
    <3>1. t \in Transmissions /\ t.id = r /\ t.timestamp = job.since /\ t.attempt = 0
      <4>1. "dm" \in Promise!Transports /\ 0 \in 0 .. 2 /\ 0 \in 0 .. SeqModulus - 1
        BY DEF Promise!Transports
      <4>2. t \in Transmissions
        BY <1>0, <1>1, <4>1, TransmissionType
      <4>. QED  BY <4>2 DEF Transmission
    <3>. HIDE DEF t
    <3>2. air' = air \/ air' = air \cup {t}
      BY <2>2
    <3>3. UNCHANGED <<pending, entry, view>>
      BY <2>2 DEF serviceVars
    <3>. QED  BY <1>0, <2>2, <3>1, <3>2, <3>3, FirstSendKeepsStamps
  <2>. QED  BY <1>6, <2>1, <2>2 DEF ChannelUnavailable
<1>. QED  BY <1>4, <1>5, <1>6

\* The direct message came back: what was on the air already is pending now.
LEMMA DmKeepsStamps ==
  ASSUME Inv, StampInv, TypeOK', NEW r \in Requests, DmSent(r) \/ DmFails(r)
  PROVE  StampInv'
<1>. USE StampTypes
<1>0. TypeOK /\ job.at = "dm" /\ job.id = r /\ UNCHANGED <<now, lastSendAt, air>> /\ job # Idle
  BY DEF Inv, DmSent, DmFails, Returns, TurnAway, serviceButEntries, Idle
<1>1. CASE DmFails(r)
  BY <1>0, <1>1, TurnAwayIsQuiet, QuietKeepsStamps DEF DmFails
<1>2. CASE DmSent(r)
  <2>. DEFINE e == NewEntry("dm", 0, {Code(r, 0)}, IsEarly(Code(r, 0)), DmTimeout)
  <2>1. /\ job' = Idle /\ pending' = pending \cup {r} /\ entry' = [entry EXCEPT ![r] = e]
        /\ view' = SentEvent(r, e.via, 0, e.confirmed)
    BY <1>2 DEF DmSent, Launch
  <2>2. e.timestamp = job.since /\ e.attempt = 0
    BY DEF NewEntry
  <2>. HIDE DEF e
  <2>3. /\ view'[r].phase = "onAir" /\ \A s \in Requests \ {r} : view'[s].phase = view[s].phase
    BY <1>0, <2>1, SentPhases
  <2>4. /\ entry'[r].timestamp = job.since /\ entry'[r].attempt = 0
        /\ \A s \in Requests \ {r} : entry'[s] = entry[s]
    BY <1>0, <2>1, <2>2 DEF TypeOK
  <2>5. /\ lastSendAt = job.since
        /\ \A s \in pending : entry[s].timestamp # job.since
        /\ \A t \in air : /\ t.timestamp = job.since <=> t.id = r
                          /\ t.id = r => t.attempt = 0
    BY <1>0 DEF StampInv, JobStamp, FirstSends
  <2>6. r \notin pending
    BY <1>0, AskedFacts DEF Inv, JobKnowsRequest
  <2>7. Clocked' /\ TimestampNamesRequest'
    BY <1>0 DEF StampInv, Clocked, TimestampNamesRequest
  <2>8. JobStamp'
    BY <2>1 DEF JobStamp, Idle, FirstSends
  <2>9. NoneAired'
    <3>. SUFFICES ASSUME NEW t \in air PROVE view'[t.id].phase \notin {"new", "asked"}
      BY <1>0 DEF NoneAired
    <3>1. CASE t.id = r
      BY <2>3, <3>1
    <3>2. CASE t.id # r
      <4>1. t.id \in Requests \ {r}
        BY <1>0, <3>2
      <4>. QED  BY <1>0, <2>3, <3>2, <4>1 DEF StampInv, NoneAired
    <3>. QED  BY <3>1, <3>2
  <2>10. PendingStamps'
    <3>. SUFFICES ASSUME NEW s \in pending' PROVE StampOf(s)'
      BY DEF PendingStamps
    <3>1. CASE s \in pending
      BY <1>0, <2>1, <2>4, <2>5, <2>6, <3>1 DEF StampInv, PendingStamps, StampOf
    <3>2. CASE s = r
      BY <1>0, <2>1, <2>4, <2>5, <2>6, <3>2 DEF StampOf
    <3>. QED  BY <2>1, <3>1, <3>2
  <2>. QED  BY <2>7, <2>8, <2>9, <2>10 DEF StampInv
<1>. QED  BY <1>1, <1>2

\* A resend goes out under the timestamp of the request, as an attempt that
\* was not made yet.
LEMMA BeginResendKeepsStamps ==
  ASSUME Inv, StampInv, TypeOK', NEW r \in pending, NEW n \in 1 .. 2, BeginResend(r, n),
         n > entry[r].attempt, UNCHANGED <<now, pending, view>>,
         job.at # "dm"
  PROVE  StampInv'
<1>. USE StampTypes
<1>0. TypeOK /\ r \in Requests
  BY DEF Inv, TypeOK
<1>1. /\ lastSendAt' = now /\ lastSendAt <= now
      /\ entry'[r].timestamp = entry[r].timestamp /\ entry'[r].attempt = n
      /\ \A s \in Requests \ {r} : entry'[s] = entry[s]
  <2>1. entry \in [Requests -> Entries] /\ entry[r] \in Entries
    BY <1>0 DEF TypeOK
  <2>2. /\ entry'[r] = [entry[r] EXCEPT !.attempt = n, !.sentAt = now]
        /\ \A s \in Requests \ {r} : entry'[s] = entry[s]
    BY <1>0, <2>1 DEF BeginResend
  <2>. QED  BY ZenonT(40), <2>1, <2>2 DEF BeginResend, StampInv, Clocked, Entries
<1>2. job'.at \in {"resendChannel", "resendDm"}
  BY DEF BeginResend, ResendAt, Await
<1>3. PICK t : /\ t.id = r /\ t.timestamp = entry[r].timestamp /\ t.attempt = n
               /\ air' \subseteq air \cup {t}
  <2>. DEFINE u == Transmission(r, entry[r].via, n, entry[r].timestamp, entry[r].seq, now)
  <2>1. u.id = r /\ u.timestamp = entry[r].timestamp /\ u.attempt = n
    BY DEF Transmission
  <2>2. air' = IF connected THEN air \cup {u} ELSE air
    BY DEF BeginResend
  <2>. QED  BY <2>1, <2>2
<1>4. StampOf(r) /\ \A s \in pending : StampOf(s)
  BY DEF StampInv, PendingStamps
<1>5. \A u \in air : u.timestamp <= lastSendAt /\ view[u.id].phase \notin {"new", "asked"}
  BY DEF StampInv, Clocked, NoneAired
<1>6. view[r].phase = "onAir"
  BY <1>0 DEF Inv, ObserversAgree, AgreeOn
<1>7. Clocked'
  <2>1. entry[r].timestamp <= now
    BY <1>0, <1>1, <1>4 DEF StampOf
  <2>. QED  BY <1>0, <1>1, <1>3, <1>5, <2>1 DEF Clocked
<1>8. NoneAired'
  BY <1>3, <1>5, <1>6 DEF NoneAired
<1>9. PendingStamps'
  <2>. SUFFICES ASSUME NEW s \in pending PROVE StampOf(s)'
    BY DEF PendingStamps
  <2>1. \A q \in pending : entry'[q].timestamp = entry[q].timestamp
    BY <1>0, <1>1
  <2>2. /\ entry'[s].timestamp <= lastSendAt'
        /\ \A q \in pending' : entry'[q].timestamp = entry'[s].timestamp => q = s
    BY <1>0, <1>1, <1>4, <2>1 DEF StampOf
  <2>3. CASE s = r
    BY <1>0, <1>1, <1>3, <1>4, <2>2, <2>3 DEF StampOf
  <2>4. CASE s # r
    <3>1. entry[r].timestamp # entry[s].timestamp /\ entry'[s] = entry[s]
      BY <1>0, <1>1, <1>4, <2>4 DEF StampOf
    <3>. QED  BY <1>0, <1>3, <1>4, <2>2, <2>4, <3>1 DEF StampOf
  <2>. QED  BY <2>3, <2>4
<1>10. JobStamp'
  BY <1>2 DEF JobStamp, FirstSends
<1>11. TimestampNamesRequest'
  <2>1. \A u \in air : /\ u.timestamp = t.timestamp <=> u.id = t.id
                       /\ u.id = t.id => u.attempt # t.attempt
    BY <1>0, <1>3, <1>4 DEF StampOf
  <2>. QED  BY <1>3, <2>1 DEF StampInv, TimestampNamesRequest
<1>. QED  BY <1>7, <1>8, <1>9, <1>10, <1>11 DEF StampInv

\* A timer's handler resends, waits for the path, gives up, or has nothing to do.
LEMMA TimeoutKeepsStamps ==
  ASSUME Inv, StampInv, TypeOK', NEW r \in Requests, HandleTimeout(r) \/ PathReset(r)
  PROVE  StampInv'
<1>. TypeOK /\ now \in Int /\ pending \subseteq Requests
  BY StampTypes DEF Inv
<1>0. UNCHANGED now /\ job.at # "dm" /\ job.at \notin FirstSends
  BY DEF HandleTimeout, PathReset, Runs, Returns, Idle, FirstSends
<1>1. CASE UNCHANGED <<pending, entry, lastSendAt, air, view>> /\ job'.at \notin FirstSends
  BY <1>0, <1>1, QuietKeepsStamps DEF Quiet
<1>2. CASE HandleTimeout(r)
  <2>1. CASE UNCHANGED <<job, serviceVars, air, view>>
    BY <1>0, <1>1, <2>1 DEF serviceVars
  <2>2. CASE r \in pending /\ AsksAgain(r) /\ BeginResend(r, 1) /\ UNCHANGED <<pending, view>>
    <3>1. 1 > entry[r].attempt /\ 1 \in 1 .. 2
      BY <2>2 DEF AsksAgain
    <3>. QED  BY <1>0, <2>2, <3>1, BeginResendKeepsStamps
  <2>3. CASE job' = Await("reset", r, 2, now) /\ UNCHANGED <<serviceVars, air, view>>
    <3>1. job'.at \notin FirstSends
      BY <2>3 DEF Await, FirstSends
    <3>. QED  BY <1>1, <2>3, <3>1 DEF serviceVars
  <2>4. CASE Settle(r, "timedOut") /\ UNCHANGED <<job, serviceButEntries, air>>
    <3>1. SettleAll({r} \cap pending, "timedOut") /\ UNCHANGED <<job, lastSendAt, air>>
      BY <2>4 DEF Settle, serviceButEntries
    <3>2. Quiet
      BY <1>0, <3>1, SettledPhases DEF Quiet
    <3>. QED  BY <3>2, QuietKeepsStamps
  <2>. QED  BY <1>2, <2>1, <2>2, <2>3, <2>4 DEF HandleTimeout
<1>3. CASE PathReset(r)
  <2>1. CASE job' = Idle /\ UNCHANGED <<entry, lastSendAt, air>>
    <3>1. job'.at \notin FirstSends /\ UNCHANGED <<pending, view>>
      BY <1>3, <2>1 DEF PathReset, Idle, FirstSends
    <3>. QED  BY <1>1, <2>1, <3>1
  <2>2. CASE r \in pending /\ BeginResend(r, 2)
    <3>1. UNCHANGED <<pending, view>> /\ job.at = "reset" /\ job.id = r /\ job # Idle
      BY <1>3 DEF PathReset, Returns, Idle
    <3>2. entry[r].attempt < 2 /\ 2 \in 1 .. 2 /\ entry[r].attempt \in Int
      BY <2>2, <3>1, StampTypes DEF Inv, JobKnowsRequest
    <3>. QED  BY <1>0, <2>2, <3>1, <3>2, BeginResendKeepsStamps
  <2>. QED  BY <1>3, <2>1, <2>2 DEF PathReset
<1>. QED  BY <1>2, <1>3

LEMMA StepKeepsStamps == ASSUME Inv, StampInv, [Next]_vars PROVE StampInv'
<1>. TypeOK /\ TypeOK'
  BY StepType DEF Inv
<1>1. CASE \/ Tick \/ Connect \/ Disconnect \/ AcknowledgeForeign \/ Start \/ UNCHANGED vars
           \/ \E m \in Messages : Hear(m) \/ Ingest(m)
  BY <1>1, WorldIsQuiet, QuietKeepsStamps
<1>2. ASSUME NEW r \in Requests,
             Ask(r) \/ TimerFires(r) \/ RunRequest(r) \/ (\E n \in 0 .. 2 : Acknowledge(r, n))
      PROVE  StampInv'
  <2>1. CASE Ask(r) \/ TimerFires(r) \/ \E n \in 0 .. 2 : Acknowledge(r, n)
    BY <2>1, TapIsQuiet, QuietKeepsStamps
  <2>2. CASE ChannelResent(r) \/ DmResent(r) \/ ResendFails(r)
    BY <2>2, ResendIsQuiet, QuietKeepsStamps
  <2>3. CASE Send(r) \/ ChannelSent(r) \/ ChannelFails(r) \/ ChannelUnavailable(r)
    BY <2>3, SendKeepsStamps, ChannelKeepsStamps
  <2>4. CASE DmSent(r) \/ DmFails(r) \/ HandleTimeout(r) \/ PathReset(r)
    BY <2>4, DmKeepsStamps, TimeoutKeepsStamps
  <2>. QED  BY <1>2, <2>1, <2>2, <2>3, <2>4 DEF RunRequest
<1>. QED  BY <1>1, <1>2 DEF Next

\* The bot can tell requests apart by their wire timestamp, whatever is
\* resent, disconnected or confirmed meanwhile: no two requests share one, and
\* no attempt of a request is on the channel twice.
THEOREM TimestampsName == Spec => []TimestampNamesRequest
<1>1. Init => StampInv
  BY DEF Init, StampInv, Clocked, NoneAired, PendingStamps, JobStamp, TimestampNamesRequest,
         Idle, FirstSends, NoTime
<1>2. Inv /\ StampInv /\ [Next]_vars => StampInv'
  BY StepKeepsStamps
<1>3. StampInv => TimestampNamesRequest
  BY DEF StampInv
<1>. QED  BY <1>1, <1>2, <1>3, Invariant, PTL DEF Spec

-----------------------------------------------------------------------------
(* The confirmations of a request (ConfirmationsAreKept) *)

\* The codes a pending request expects are its own, of the transmissions its
\* observers know of.
OwnCodes ==
  \A r \in pending : \A code \in entry[r].ackCodes :
    code.id = r /\ code.attempt <= view[r].attempt

\* The radio confirms what went out as a direct message.
ConfirmsAired ==
  \A code \in acked : \E t \in air : t.id = code.id /\ t.attempt = code.attempt

\* The confirmation of the direct message in flight waits to be taken.
DmAwaits == {"dm", "resendDm"}
InFlight == Code(job.id, job.attempt)
EarlyWaits ==
  job.at \in DmAwaits => (InFlight \in acked /\ InFlight \notin evicted => IsEarly(InFlight))

ConfirmInv == OwnCodes /\ ConfirmsAired /\ EarlyWaits /\ ConfirmationsAreKept

\* A confirmation put aside is found there, and the one it pushes out is known
\* to be gone.
LEMMA PutAside ==
  ASSUME TypeOK, NEW code, KeepUnmatched(code)
  PROVE  /\ IsEarly(code)'
         /\ evicted \subseteq evicted'
         /\ \A other : IsEarly(other) => IsEarly(other)' \/ other \in evicted'
<1>. DEFINE kept == Append(unmatched, code)
            S == AckCodes \cup {ForeignAck, code}
<1>1. unmatched \in Seq(S) /\ Len(unmatched) \in Nat
  BY LenProperties DEF TypeOK
<1>2. /\ kept \in Seq(S) /\ kept # <<>> /\ Len(kept) = Len(unmatched) + 1
      /\ \A i \in 1 .. Len(unmatched) : kept[i] = unmatched[i]
      /\ kept[Len(unmatched) + 1] = code
  BY <1>1, AppendProperties
<1>3. Len(kept) > AckLimit => unmatched' = Tail(kept) /\ evicted' = evicted \cup {Head(kept)}
  BY DEF KeepUnmatched
<1>4. ~(Len(kept) > AckLimit) => unmatched' = kept /\ evicted' = evicted
  BY DEF KeepUnmatched
<1>. HIDE DEF kept
<1>5. CASE ~(Len(kept) > AckLimit)
  <2>1. unmatched' = kept /\ evicted' = evicted
    BY <1>4, <1>5
  <2>2. IsEarly(code)'
    BY <1>1, <1>2, <2>1 DEF IsEarly
  <2>3. \A other : IsEarly(other) => IsEarly(other)'
    BY <1>1, <1>2, <2>1 DEF IsEarly
  <2>. QED  BY <2>1, <2>2, <2>3
<1>6. CASE Len(kept) > AckLimit
  <2>1. unmatched' = Tail(kept) /\ evicted' = evicted \cup {Head(kept)}
    BY <1>3, <1>6
  <2>2. Len(unmatched) \in Nat \ {0}
    BY <1>1, <1>2, <1>6
  <2>3. /\ Len(unmatched') = Len(unmatched)
        /\ \A i \in 1 .. Len(unmatched) : unmatched'[i] = kept[i + 1]
        /\ Head(kept) = kept[1]
    BY <1>1, <1>2, <2>1, HeadTailProperties
  <2>4. unmatched'[Len(unmatched)] = code
    BY <1>2, <2>2, <2>3
  <2>5. IsEarly(code)'
    BY <2>2, <2>3, <2>4 DEF IsEarly
  <2>6. ASSUME NEW other, IsEarly(other) PROVE IsEarly(other)' \/ other \in evicted'
    <3>1. PICK i \in 1 .. Len(unmatched) : unmatched[i] = other
      BY <2>6 DEF IsEarly
    <3>2. CASE i = 1
      <4>1. Head(kept) = other
        BY <1>2, <2>2, <2>3, <3>1, <3>2
      <4>. QED  BY <2>1, <4>1
    <3>3. CASE i # 1
      <4>1. i - 1 \in 1 .. Len(unmatched) /\ unmatched'[i - 1] = other
        BY <1>2, <2>2, <2>3, <3>1, <3>3
      <4>. QED  BY <2>3, <4>1 DEF IsEarly
    <3>. QED  BY <3>2, <3>3
  <2>. QED  BY <2>1, <2>5, <2>6
<1>. QED  BY <1>5, <1>6

\* A step that confirms nothing and expects no new code: a direct message in
\* flight is the one before, its confirmation where it was.
Calm ==
  /\ UNCHANGED <<acked, evicted>> /\ air \subseteq air'
  /\ \A r \in pending' :
       \/ entry'[r].ackCodes = {}
       \/ /\ r \in pending /\ entry'[r].ackCodes = entry[r].ackCodes
          /\ entry'[r].confirmed = entry[r].confirmed /\ view'[r].attempt = view[r].attempt
  /\ UNCHANGED <<job, unmatched>> \/ job'.at \notin DmAwaits

LEMMA CalmKeepsConfirms == ASSUME ConfirmInv, Calm PROVE ConfirmInv'
<1>1. OwnCodes'
  BY DEF OwnCodes, ConfirmInv, Calm
<1>2. ConfirmsAired'
  BY DEF ConfirmsAired, ConfirmInv, Calm
<1>3. EarlyWaits'
  BY DEF EarlyWaits, InFlight, IsEarly, ConfirmInv, Calm
<1>4. ConfirmationsAreKept'
  BY DEF ConfirmationsAreKept, ConfirmInv, Calm
<1>. QED  BY <1>1, <1>2, <1>3, <1>4 DEF ConfirmInv

\* Settling requests leaves what the others expect.
LEMMA SettledCodes ==
  ASSUME TypeOK, NEW gone, NEW outcome, SettleAll(gone, outcome), gone \subseteq pending
  PROVE  \A r \in pending' : /\ r \in pending /\ entry'[r] = entry[r] /\ view'[r] = view[r]
BY DEF SettleAll, TypeOK

\* The clock, the connection, what is heard, a tap and a timer are calm.
LEMMA WorldIsCalm ==
  ASSUME TypeOK,
         \/ Tick \/ Connect \/ Disconnect \/ Start \/ UNCHANGED vars
         \/ \E m \in Messages : Hear(m) \/ Ingest(m)
  PROVE  Calm
<1>1. CASE \/ Tick \/ Connect \/ UNCHANGED vars
           \/ \E m \in Messages : Hear(m)
  <2>1. UNCHANGED <<unmatched, acked, evicted, air, job, pending, entry, view>>
    BY <1>1 DEF Tick, Connect, Hear, vars, serviceVars, historyVars
  <2>. QED  BY <2>1 DEF Calm
<1>2. CASE Disconnect
  <2>1. SettleAll(pending, "failed") /\ UNCHANGED <<unmatched, acked, evicted, air, job>>
    BY <1>2 DEF Disconnect
  <2>. QED  BY <2>1, SettledCodes DEF Calm
<1>3. ASSUME NEW m \in Messages, Ingest(m) PROVE Calm
  <2>1. UNCHANGED <<unmatched, acked, evicted, air, job>>
    BY <1>3 DEF Ingest, serviceVars
  <2>2. Refused(m) \subseteq pending /\ Answered(m) \subseteq pending
    BY DEF Refused, Answered
  <2>3. CASE SettleAll(Refused(m), "notAvailable") \/ SettleAll(Answered(m), "answered")
    BY <2>1, <2>2, <2>3, SettledCodes DEF Calm
  <2>4. CASE UNCHANGED <<pending, entry, view>>
    BY <2>1, <2>4 DEF Calm
  <2>. QED  BY <1>3, <2>3, <2>4 DEF Ingest, serviceVars
<1>4. CASE Start
  <2>1. UNCHANGED <<acked, evicted, air, pending, entry, view>> /\ job' = Idle
    BY <1>4 DEF Start, Runs, historyVars
  <2>. QED  BY <2>1 DEF Calm, Idle, DmAwaits
<1>. QED  BY <1>1, <1>2, <1>3, <1>4

LEMMA TapIsCalm ==
  ASSUME Inv, NEW r \in Requests, Ask(r) \/ TimerFires(r)
  PROVE  Calm
<1>. /\ entry \in [Requests -> Entries] /\ view \in [Requests -> Promise!Views]
     /\ pending \subseteq Requests
  BY DEF Inv, TypeOK
<1>1. UNCHANGED <<unmatched, acked, evicted, air, job, pending>>
  BY DEF Ask, TimerFires, serviceVars, historyVars
<1>2. CASE Ask(r)
  <2>1. view' = Moved(r, "asked") /\ view[r].phase = "new" /\ UNCHANGED entry
    BY <1>2 DEF Ask, serviceVars
  <2>2. \A s \in pending : s # r
    BY <2>1 DEF Inv, ObserversAgree, AgreeOn
  <2>3. \A s \in Requests \ {r} : view'[s] = view[s]
    BY <2>1 DEF Moved
  <2>. QED  BY <1>1, <2>1, <2>2, <2>3 DEF Calm
<1>3. CASE TimerFires(r)
  <2>1. entry' = [entry EXCEPT ![r].timer = NoTime] /\ UNCHANGED view
    BY <1>3 DEF TimerFires, historyVars
  <2>2. \A s \in Requests : /\ entry'[s].ackCodes = entry[s].ackCodes
                            /\ entry'[s].confirmed = entry[s].confirmed
    BY <2>1 DEF Entries
  <2>. QED  BY <1>1, <2>1, <2>2 DEF Calm
<1>. QED  BY <1>2, <1>3

\* So is a tap turned away, a datagram, and a resend the radio refuses.
LEMMA SendingIsCalm ==
  ASSUME Inv, NEW r \in Requests,
         \/ Send(r) \/ ChannelSent(r) \/ ChannelFails(r) \/ DmFails(r)
         \/ ChannelUnavailable(r) /\ job' = Idle
         \/ ResendFails(r) \/ ChannelResent(r)
  PROVE  Calm
<1>. /\ entry \in [Requests -> Entries] /\ view \in [Requests -> Promise!Views]
     /\ pending \subseteq Requests /\ TypeOK
  BY DEF Inv, TypeOK
<1>. Idle.at \notin DmAwaits
  BY DEF Idle, DmAwaits
<1>1. ASSUME NEW how, TurnAway(r, how), view[r].phase = "asked", air \subseteq air', UNCHANGED <<acked, evicted>>
      PROVE  Calm
  <2>1. r \notin pending
    BY <1>1, AskedFacts
  <2>2. \A s \in Requests \ {r} : view'[s] = view[s]
    BY <1>1 DEF TurnAway, Moved
  <2>. QED  BY <1>1, <2>1, <2>2 DEF Calm, TurnAway
<1>2. CASE Send(r)
  <2>1. view[r].phase = "asked" /\ UNCHANGED <<air, acked, evicted>>
    <3>1. Len(queue) \in Nat \ {0} /\ queue[1] = SendJob(r)
      BY <1>2, Started DEF Send
    <3>. QED  BY <1>2, <3>1 DEF Inv, SendsOnce, Send
  <2>2. CASE TurnAway(r, "served") \/ TurnAway(r, "refused")
    BY <1>1, <2>1, <2>2
  <2>3. CASE job' = Await("channel", r, 0, now) /\ UNCHANGED <<pending, entry, view>>
    <3>1. job'.at \notin DmAwaits
      BY <2>3 DEF Await, DmAwaits
    <3>. QED  BY <2>1, <2>3, <3>1 DEF Calm
  <2>. QED  BY <1>2, <2>2, <2>3 DEF Send
<1>3. CASE ChannelSent(r)
  <2>. DEFINE e == NewEntry("channel", nextRequestSeq, {}, FALSE, ChannelTimeout)
  <2>1. /\ job' = Idle /\ pending' = pending \cup {r} /\ entry' = [entry EXCEPT ![r] = e]
        /\ view' = SentEvent(r, e.via, 0, e.confirmed)
        /\ air \subseteq air' /\ UNCHANGED <<acked, evicted>>
    BY <1>3 DEF ChannelSent, Launch
  <2>2. e.ackCodes = {}
    BY DEF NewEntry
  <2>. HIDE DEF e
  <2>3. entry'[r].ackCodes = {} /\ \A s \in Requests \ {r} : entry'[s] = entry[s]
    BY <2>1, <2>2
  <2>4. \A s \in Requests \ {r} : view'[s] = view[s]
    BY <2>1 DEF SentEvent
  <2>. QED  BY <2>1, <2>3, <2>4 DEF Calm
<1>4. CASE ChannelFails(r) \/ DmFails(r) \/ (ChannelUnavailable(r) /\ job' = Idle)
  <2>1. (Returns("channel") \/ Returns("dm")) /\ job.id = r
    BY <1>4 DEF ChannelFails, DmFails, ChannelUnavailable
  <2>2. view[r].phase = "asked"
    BY <2>1, FirstSendFacts
  <2>3. Await("dm", r, 0, job.since) # Idle
    BY DEF Await, Idle
  <2>4. TurnAway(r, "refused") /\ air \subseteq air' /\ UNCHANGED <<acked, evicted>>
    BY <1>4, <2>3 DEF ChannelFails, DmFails, ChannelUnavailable
  <2>. QED  BY <1>1, <2>2, <2>4
<1>5. CASE ResendFails(r)
  <2>1. SettleAll({r} \cap pending, "failed") /\ job' = Idle /\ UNCHANGED <<air, acked, evicted>>
    BY <1>5 DEF ResendFails, Settle
  <2>. QED  BY <2>1, SettledCodes DEF Calm
<1>6. CASE ChannelResent(r)
  <2>1. job' = Idle /\ UNCHANGED <<pending, air, acked, evicted>> /\ job.at = "resendChannel" /\ job.id = r
    BY <1>6 DEF ChannelResent, Returns
  <2>2. CASE UNCHANGED <<entry, view>>
    BY <2>1, <2>2 DEF Calm
  <2>3. CASE /\ r \in pending /\ entry' = [entry EXCEPT ![r].timer = ArmTimer(ChannelTimeout)]
             /\ view' = SentEvent(r, "channel", 1, FALSE)
    <3>1. entry[r].ackCodes = {}
      BY <2>1, <2>3 DEF Inv, JobKnowsRequest, ObserversAgree, AgreeOn, Idle
    <3>2. \A s \in Requests : /\ entry'[s].ackCodes = entry[s].ackCodes
                              /\ entry'[s].confirmed = entry[s].confirmed
      BY <2>3 DEF Entries
    <3>3. \A s \in Requests \ {r} : view'[s] = view[s]
      BY <2>3 DEF SentEvent
    <3>. QED  BY <2>1, <2>3, <3>1, <3>2, <3>3 DEF Calm
  <2>. QED  BY <1>6, <2>2, <2>3 DEF ChannelResent
<1>. QED  BY <1>2, <1>3, <1>4, <1>5, <1>6

\* A confirmation of another message only takes a place.
LEMMA ForeignKeepsConfirms ==
  ASSUME TypeOK, ConfirmInv, AcknowledgeForeign PROVE ConfirmInv'
<1>1. KeepUnmatched(ForeignAck) /\ UNCHANGED <<job, pending, entry, view, air, acked>>
  BY DEF AcknowledgeForeign, KeepUnmatched
<1>2. evicted \subseteq evicted' /\ \A other : IsEarly(other) => IsEarly(other)' \/ other \in evicted'
  BY <1>1, PutAside
<1>3. OwnCodes' /\ ConfirmsAired'
  BY <1>1 DEF ConfirmInv, OwnCodes, ConfirmsAired
<1>4. ConfirmationsAreKept'
  BY <1>1, <1>2 DEF ConfirmInv, ConfirmationsAreKept
<1>5. EarlyWaits'
  BY <1>1, <1>2 DEF ConfirmInv, EarlyWaits, InFlight
<1>. QED  BY <1>3, <1>4, <1>5 DEF ConfirmInv

\* A pending request expects no code of the direct message in flight yet.
LEMMA InFlightIsUnexpected ==
  ASSUME Inv, ConfirmInv, job.at \in DmAwaits
  PROVE  \A r \in pending : InFlight \notin entry[r].ackCodes
<1>. SUFFICES ASSUME NEW r \in pending, InFlight \in entry[r].ackCodes PROVE FALSE
  OBVIOUS
<1>1. job # Idle /\ job \in Jobs /\ TypeOK /\ r \in Requests
  BY DEF Inv, TypeOK, Idle, DmAwaits
<1>2. r = job.id /\ job.attempt <= view[r].attempt
  BY DEF ConfirmInv, OwnCodes, InFlight, Code
<1>3. view[r].phase = "onAir" /\ view[r].attempt \in 0 .. 2 /\ job.attempt \in 0 .. 2
  BY <1>1 DEF Inv, ObserversAgree, AgreeOn, TypeOK, Promise!Views, Jobs
<1>4. job.at = "resendDm"
  BY <1>1, <1>2, <1>3 DEF Inv, JobKnowsRequest, DmAwaits
<1>5. view[r].attempt < job.attempt
  BY <1>1, <1>2, <1>4 DEF Inv, JobKnowsRequest
<1>. QED  BY <1>2, <1>3, <1>5

\* A confirmation reaches the request that expects its code, or is put aside
\* for the send still in flight.
LEMMA AcknowledgeKeepsConfirms ==
  ASSUME Inv, ConfirmInv, NEW r \in Requests, NEW n \in 0 .. 2, Acknowledge(r, n)
  PROVE  ConfirmInv'
<1>. DEFINE code == Code(r, n)
<1>. TypeOK /\ entry \in [Requests -> Entries] /\ view \in [Requests -> Promise!Views]
     /\ pending \subseteq Requests
  BY DEF Inv, TypeOK
<1>1. /\ UNCHANGED <<job, pending, air>> /\ acked' = acked \cup {code}
      /\ \E t \in air : t.id = r /\ t.attempt = n
      /\ code.id = r /\ code.attempt = n
  BY DEF Acknowledge, Code
<1>2. InFlight' = InFlight
  BY <1>1 DEF InFlight, Code
<1>3. ConfirmsAired'
  BY <1>1 DEF ConfirmInv, ConfirmsAired
<1>4. \/ Expecting(code) = {} /\ KeepUnmatched(code)
      \/ r \in Expecting(code) /\ MarkReceived(r)
  BY DEF Acknowledge
<1>. HIDE DEF code
<1>5. CASE Expecting(code) = {} /\ KeepUnmatched(code)
  <2>1. /\ IsEarly(code)' /\ evicted \subseteq evicted'
        /\ \A other : IsEarly(other) => IsEarly(other)' \/ other \in evicted'
    BY <1>5, PutAside
  <2>2. UNCHANGED <<entry, view>> /\ \A s \in pending : code \notin entry[s].ackCodes
    BY <1>5 DEF KeepUnmatched, Expecting
  <2>3. OwnCodes'
    BY <1>1, <2>2 DEF ConfirmInv, OwnCodes
  <2>4. ConfirmationsAreKept'
    BY <1>1, <2>1, <2>2 DEF ConfirmInv, ConfirmationsAreKept
  <2>5. EarlyWaits'
    BY <1>1, <1>2, <2>1 DEF ConfirmInv, EarlyWaits
  <2>. QED  BY <1>3, <2>3, <2>4, <2>5 DEF ConfirmInv
<1>6. CASE r \in Expecting(code) /\ MarkReceived(r)
  <2>1. r \in pending /\ code \in entry[r].ackCodes
    BY <1>6 DEF Expecting
  <2>2. /\ UNCHANGED <<unmatched, evicted>> /\ entry'[r].confirmed
        /\ \A s \in Requests : /\ entry'[s].ackCodes = entry[s].ackCodes
                               /\ view'[s].attempt = view[s].attempt
                               /\ s # r => entry'[s] = entry[s]
    BY <1>6 DEF MarkReceived, Entries, Promise!Views
  <2>3. OwnCodes'
    BY <1>1, <2>2 DEF ConfirmInv, OwnCodes
  <2>4. ConfirmationsAreKept'
    <3>. SUFFICES ASSUME NEW s \in pending, NEW c \in entry'[s].ackCodes,
                         c \in acked', c \notin evicted'
         PROVE  entry'[s].confirmed
      BY <1>1 DEF ConfirmationsAreKept
    <3>1. CASE s = r
      BY <2>2, <3>1
    <3>2. CASE s # r
      <4>1. c \in entry[s].ackCodes /\ c # code
        BY <1>1, <2>2, <3>2 DEF ConfirmInv, OwnCodes
      <4>. QED  BY <1>1, <2>2, <3>2, <4>1 DEF ConfirmInv, ConfirmationsAreKept
    <3>. QED  BY <3>1, <3>2
  <2>5. EarlyWaits'
    <3>. SUFFICES ASSUME job.at \in DmAwaits, InFlight \in acked', InFlight \notin evicted'
         PROVE  IsEarly(InFlight)'
      BY <1>1, <1>2 DEF EarlyWaits
    <3>1. InFlight # code
      BY <2>1, InFlightIsUnexpected
    <3>2. IsEarly(InFlight)
      BY <1>1, <2>2, <3>1 DEF ConfirmInv, EarlyWaits
    <3>. QED  BY <1>2, <2>2, <3>2 DEF IsEarly
  <2>. QED  BY <1>3, <2>3, <2>4, <2>5 DEF ConfirmInv
<1>. QED  BY <1>4, <1>5, <1>6

\* A direct message just handed to the radio has not been confirmed.
LEMMA NewFlightKeepsConfirms ==
  ASSUME Inv, ConfirmInv, NEW r \in Requests, NEW n \in 0 .. 2, NEW at, NEW since,
         job' = Await(at, r, n, since),
         \A t \in air : ~(t.id = r /\ t.attempt = n),
         air \subseteq air', UNCHANGED <<acked, evicted, pending, view>>,
         \A s \in pending : /\ entry'[s].ackCodes = entry[s].ackCodes
                            /\ entry'[s].confirmed = entry[s].confirmed
  PROVE  ConfirmInv'
<1>1. job'.id = r /\ job'.attempt = n
  BY DEF Await
<1>2. Code(r, n) \notin acked
  BY DEF ConfirmInv, ConfirmsAired, Code
<1>3. EarlyWaits'
  <2>1. InFlight' = Code(r, n)
    BY <1>1 DEF InFlight, Code
  <2>. QED  BY <1>2, <2>1 DEF EarlyWaits
<1>4. OwnCodes' /\ ConfirmsAired' /\ ConfirmationsAreKept'
  BY DEF ConfirmInv, OwnCodes, ConfirmsAired, ConfirmationsAreKept
<1>. QED  BY <1>3, <1>4 DEF ConfirmInv

\* The fallback direct message, a resend, and the handlers that lead to one.
LEMMA FlightsKeepConfirms ==
  ASSUME Inv, StampInv, ConfirmInv, NEW r \in Requests,
         ChannelUnavailable(r) \/ HandleTimeout(r) \/ PathReset(r)
  PROVE  ConfirmInv'
<1>. /\ TypeOK /\ entry \in [Requests -> Entries] /\ view \in [Requests -> Promise!Views]
     /\ pending \subseteq Requests
  BY DEF Inv, TypeOK
<1>. Idle.at \notin DmAwaits
  BY DEF Idle, DmAwaits
<1>0. UNCHANGED <<acked, evicted>>
  BY DEF ChannelUnavailable, HandleTimeout, PathReset
<1>1. ASSUME Calm PROVE ConfirmInv'
  BY <1>1, CalmKeepsConfirms
<1>2. ASSUME NEW n \in 1 .. 2, r \in pending, BeginResend(r, n), n > entry[r].attempt,
             UNCHANGED <<pending, view>>
      PROVE  ConfirmInv'
  <2>1. \A t \in air : ~(t.id = r /\ t.attempt = n)
    <3>1. entry[r].attempt \in Int /\ \A t \in air : t.attempt \in Int
      BY StampTypes
    <3>. QED  BY <1>2, <3>1 DEF StampInv, PendingStamps, StampOf
  <2>2. job' = Await(ResendAt(entry[r].via), r, n, now) /\ air \subseteq air'
    BY <1>2 DEF BeginResend
  <2>3. \A s \in Requests : /\ entry'[s].ackCodes = entry[s].ackCodes
                            /\ entry'[s].confirmed = entry[s].confirmed
    BY <1>2 DEF BeginResend, Entries
  <2>4. n \in 0 .. 2
    OBVIOUS
  <2>. QED  BY <1>0, <1>2, <2>1, <2>2, <2>3, <2>4, NewFlightKeepsConfirms
<1>3. CASE ChannelUnavailable(r)
  <2>1. CASE job' = Idle
    BY <1>3, <2>1, <1>1, SendingIsCalm
  <2>2. CASE job' = Await("dm", r, 0, job.since) /\ UNCHANGED <<pending, entry, view>> /\ air \subseteq air'
    <3>1. view[r].phase = "asked" /\ job.at = "channel"
      BY <1>3, FirstSendFacts DEF ChannelUnavailable, Returns
    <3>2. \A t \in air : ~(t.id = r /\ t.attempt = 0)
      BY <3>1 DEF StampInv, NoneAired
    <3>3. 0 \in 0 .. 2
      OBVIOUS
    <3>. QED  BY <1>0, <2>2, <3>2, <3>3, NewFlightKeepsConfirms
  <2>. QED  BY <1>3, <2>1, <2>2 DEF ChannelUnavailable, TurnAway, serviceVars
<1>4. CASE HandleTimeout(r)
  <2>1. CASE r \in pending /\ AsksAgain(r) /\ BeginResend(r, 1) /\ UNCHANGED <<pending, view>>
    <3>1. 1 > entry[r].attempt /\ 1 \in 1 .. 2
      BY <2>1 DEF AsksAgain
    <3>. QED  BY <1>2, <2>1, <3>1
  <2>2. CASE UNCHANGED <<serviceVars, air, view>>
             /\ (job' = Idle \/ job' = Await("reset", r, 2, now))
    <3>1. job'.at \notin DmAwaits
      BY <2>2 DEF Await, DmAwaits
    <3>. QED  BY <1>0, <1>1, <2>2, <3>1 DEF Calm, serviceVars
  <2>3. CASE Settle(r, "timedOut") /\ UNCHANGED <<job, serviceButEntries, air>>
    <3>1. SettleAll({r} \cap pending, "timedOut") /\ UNCHANGED <<job, unmatched, air>>
      BY <2>3 DEF Settle, serviceButEntries
    <3>. QED  BY <1>0, <1>1, <3>1, SettledCodes DEF Calm
  <2>4. job = Idle
    BY <1>4 DEF HandleTimeout, Runs
  <2>. QED  BY <1>4, <2>1, <2>2, <2>3, <2>4 DEF HandleTimeout
<1>5. CASE PathReset(r)
  <2>1. CASE job' = Idle /\ UNCHANGED <<entry, lastSendAt, air>>
    <3>1. UNCHANGED <<pending, view>>
      BY <1>5 DEF PathReset
    <3>. QED  BY <1>0, <1>1, <2>1, <3>1 DEF Calm
  <2>2. CASE r \in pending /\ BeginResend(r, 2)
    <3>1. UNCHANGED <<pending, view>> /\ job.at = "reset" /\ job.id = r /\ job # Idle
      BY <1>5 DEF PathReset, Returns, Idle
    <3>2. entry[r].attempt < 2 /\ 2 \in 1 .. 2 /\ entry[r].attempt \in Int
      BY <2>2, <3>1, StampTypes DEF Inv, JobKnowsRequest
    <3>. QED  BY <1>2, <2>2, <3>1, <3>2
  <2>. QED  BY <1>5, <2>1, <2>2 DEF PathReset
<1>. QED  BY <1>3, <1>4, <1>5

\* The direct message that came back expects its code, or has had it.
LEMMA DmKeepsConfirms ==
  ASSUME Inv, StampInv, ConfirmInv, NEW r \in Requests, DmSent(r)
  PROVE  ConfirmInv'
<1>. /\ TypeOK /\ entry \in [Requests -> Entries] /\ view \in [Requests -> Promise!Views]
     /\ pending \subseteq Requests
  BY DEF Inv, TypeOK
<1>. DEFINE code == Code(r, 0)
            e == NewEntry("dm", 0, {code}, IsEarly(code), DmTimeout)
<1>1. /\ job.at = "dm" /\ job.id = r /\ job' = Idle /\ pending' = pending \cup {r}
      /\ entry' = [entry EXCEPT ![r] = e] /\ view' = SentEvent(r, e.via, 0, e.confirmed)
      /\ UNCHANGED <<air, acked, evicted>>
  BY DEF DmSent, Returns, Launch
<1>2. e.ackCodes = {code} /\ e.confirmed = IsEarly(code) /\ code.id = r /\ code.attempt = 0
  BY DEF NewEntry, Code
<1>3. InFlight = code
  BY <1>1 DEF StampInv, JobStamp, FirstSends, InFlight
<1>. HIDE DEF code, e
<1>4. code \in acked /\ code \notin evicted => IsEarly(code)
  BY <1>1, <1>3 DEF ConfirmInv, EarlyWaits, DmAwaits
<1>5. /\ entry'[r] = e /\ view'[r].attempt = 0
      /\ \A s \in Requests \ {r} : entry'[s] = entry[s] /\ view'[s] = view[s]
  BY <1>1, SentPhases
<1>6. OwnCodes'
  BY <1>1, <1>2, <1>5 DEF ConfirmInv, OwnCodes
<1>7. ConfirmationsAreKept'
  BY <1>1, <1>2, <1>4, <1>5 DEF ConfirmInv, ConfirmationsAreKept
<1>8. ConfirmsAired' /\ EarlyWaits'
  BY <1>1 DEF ConfirmInv, ConfirmsAired, EarlyWaits, Idle, DmAwaits
<1>. QED  BY <1>6, <1>7, <1>8 DEF ConfirmInv

\* A later direct message adds its code to those expected.
LEMMA DmResentKeepsConfirms ==
  ASSUME Inv, ConfirmInv, NEW r \in Requests, DmResent(r)
  PROVE  ConfirmInv'
<1>. /\ TypeOK /\ entry \in [Requests -> Entries] /\ view \in [Requests -> Promise!Views]
     /\ pending \subseteq Requests
  BY DEF Inv, TypeOK
<1>. DEFINE code == Code(r, job.attempt)
            early == entry[r].confirmed \/ IsEarly(code)
<1>1. /\ job.at = "resendDm" /\ job.id = r /\ job' = Idle /\ job # Idle
      /\ UNCHANGED <<pending, air, acked, evicted>>
  BY DEF DmResent, Returns, Idle
<1>2. CASE UNCHANGED <<entry, view>>
  BY <1>1, <1>2, CalmKeepsConfirms DEF Calm, Idle, DmAwaits
<1>3. CASE /\ r \in pending
           /\ entry' = [entry EXCEPT ![r].ackCodes = entry[r].ackCodes \cup {code},
                                     ![r].confirmed = early, ![r].timer = ArmTimer(DmTimeout)]
           /\ view' = SentEvent(r, "dm", job.attempt, early)
  <2>1. InFlight = code /\ code.id = r /\ code.attempt = job.attempt
    BY <1>1 DEF InFlight, Code
  <2>2. code \in acked /\ code \notin evicted => early
    BY <1>1, <2>1 DEF ConfirmInv, EarlyWaits, DmAwaits
  <2>3. entry[r].confirmed => early
    OBVIOUS
  <2>4. view[r].attempt < job.attempt /\ job.attempt \in 0 .. 2 /\ view[r].attempt \in 0 .. 2
    BY <1>1, <1>3, WaitingJob DEF Inv, JobKnowsRequest, JobSteps, Promise!Views
  <2>. HIDE DEF code, early
  <2>5. /\ entry'[r].ackCodes = entry[r].ackCodes \cup {code} /\ entry'[r].confirmed = early
        /\ \A s \in Requests \ {r} : entry'[s] = entry[s]
    BY <1>3 DEF Entries
  <2>6. view'[r].attempt = job.attempt /\ \A s \in Requests \ {r} : view'[s] = view[s]
    BY <1>3, SentPhases
  <2>7. OwnCodes'
    <3>. SUFFICES ASSUME NEW s \in pending, NEW c \in entry'[s].ackCodes
         PROVE  c.id = s /\ c.attempt <= view'[s].attempt
      BY <1>1 DEF OwnCodes
    <3>1. CASE s # r
      BY <2>5, <2>6, <3>1 DEF ConfirmInv, OwnCodes
    <3>2. CASE s = r /\ c = code
      BY <2>1, <2>4, <2>6, <3>2
    <3>3. CASE s = r /\ c # code
      <4>1. c \in entry[r].ackCodes /\ entry[r] \in Entries
        BY <2>5, <3>3
      <4>2. c.id = r /\ c.attempt <= view[r].attempt /\ c.attempt \in Int
        BY <1>3, <4>1 DEF ConfirmInv, OwnCodes, Entries, AckCodes
      <4>. QED  BY <2>4, <2>6, <3>3, <4>2
    <3>. QED  BY <3>1, <3>2, <3>3
  <2>8. ConfirmationsAreKept'
    <3>. SUFFICES ASSUME NEW s \in pending, NEW c \in entry'[s].ackCodes, c \in acked, c \notin evicted
         PROVE  entry'[s].confirmed
      BY <1>1 DEF ConfirmationsAreKept
    <3>1. CASE s # r
      BY <2>5, <3>1 DEF ConfirmInv, ConfirmationsAreKept
    <3>2. CASE s = r /\ c = code
      BY <2>2, <2>5, <3>2
    <3>3. CASE s = r /\ c # code
      BY <1>3, <2>3, <2>5, <3>3 DEF ConfirmInv, ConfirmationsAreKept
    <3>. QED  BY <3>1, <3>2, <3>3
  <2>9. ConfirmsAired' /\ EarlyWaits'
    BY <1>1 DEF ConfirmInv, ConfirmsAired, EarlyWaits, Idle, DmAwaits
  <2>. QED  BY <2>7, <2>8, <2>9 DEF ConfirmInv
<1>. QED  BY <1>2, <1>3 DEF DmResent

LEMMA StepKeepsConfirms ==
  ASSUME Inv, StampInv, ConfirmInv, [Next]_vars PROVE ConfirmInv'
<1>. TypeOK
  BY DEF Inv
<1>1. CASE \/ Tick \/ Connect \/ Disconnect \/ Start \/ UNCHANGED vars
           \/ \E m \in Messages : Hear(m) \/ Ingest(m)
  BY <1>1, WorldIsCalm, CalmKeepsConfirms
<1>2. CASE AcknowledgeForeign
  BY <1>2, ForeignKeepsConfirms
<1>3. ASSUME NEW r \in Requests,
             Ask(r) \/ TimerFires(r) \/ RunRequest(r) \/ (\E n \in 0 .. 2 : Acknowledge(r, n))
      PROVE  ConfirmInv'
  <2>1. CASE Ask(r) \/ TimerFires(r)
    BY <2>1, TapIsCalm, CalmKeepsConfirms
  <2>2. CASE Send(r) \/ ChannelSent(r) \/ ChannelFails(r) \/ DmFails(r) \/ ResendFails(r) \/ ChannelResent(r)
    BY <2>2, SendingIsCalm, CalmKeepsConfirms
  <2>3. CASE ChannelUnavailable(r) \/ HandleTimeout(r) \/ PathReset(r)
    BY <2>3, FlightsKeepConfirms
  <2>4. CASE DmSent(r)
    BY <2>4, DmKeepsConfirms
  <2>5. CASE DmResent(r)
    BY <2>5, DmResentKeepsConfirms
  <2>6. CASE \E n \in 0 .. 2 : Acknowledge(r, n)
    BY <2>6, AcknowledgeKeepsConfirms
  <2>. QED  BY <1>3, <2>1, <2>2, <2>3, <2>4, <2>5, <2>6 DEF RunRequest
<1>. QED  BY <1>1, <1>2, <1>3 DEF Next

\* No confirmation is lost by overtaking the send it confirms: a pending
\* request whose code the radio pushed is marked received, in whatever order
\* the push, the await of the send and a disconnect come (acknowledge(),
\* #takeEarlyAcknowledgement), unless AckLimit others pushed it out.
THEOREM ConfirmationsKept == Spec => []ConfirmationsAreKept
<1>1. Init => ConfirmInv /\ StampInv
  BY DEF Init, ConfirmInv, OwnCodes, ConfirmsAired, EarlyWaits, ConfirmationsAreKept, DmAwaits,
         StampInv, Clocked, NoneAired, PendingStamps, JobStamp, TimestampNamesRequest,
         Idle, FirstSends, NoTime
<1>2. Inv /\ StampInv /\ ConfirmInv /\ [Next]_vars => StampInv' /\ ConfirmInv'
  BY StepKeepsStamps, StepKeepsConfirms
<1>3. ConfirmInv => ConfirmationsAreKept
  BY DEF ConfirmInv
<1>. QED  BY <1>1, <1>2, <1>3, Invariant, PTL DEF Spec
=============================================================================
