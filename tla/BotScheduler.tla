---------------------------- MODULE BotScheduler ----------------------------
(***************************************************************************)
(* The bot's broadcast scheduler (meshcore_weather/schedule/scheduler.py,   *)
(* executor.py), the one place that puts messages on the data channel:      *)
(* what each job sends, the ceiling on scheduled packets, the sequence      *)
(* numbers stamped on the air, and the state file a restart comes back from.*)
(*                                                                          *)
(* Several asyncio tasks call it: the tick loop (Tickers), an operator's     *)
(* "broadcast" or "run now" (Portals), the answers to app requests (Askers). *)
(* The three sets are places for such tasks, and one place may be in          *)
(* several.  A task runs until it awaits; `running` is the one in between,    *)
(* and nothing but a crash may happen then.  The awaits are the transmit     *)
(* lock, the spacing and the radio inside it, and an answer's `not_before`.  *)
(*                                                                          *)
(* A new process has no products: the backlog is read beside all this, and    *)
(* until it is in, the store holds some of what was issued.  The tick loop    *)
(* waits for it, an operator does not.                                       *)
(*                                                                          *)
(* A tick of the clock is a minute.  Of the jobs, the warnings and the       *)
(* digest are modelled; the other periodic ones run like the digest.  What  *)
(* a product says is its version; which message of a batch comes first is   *)
(* left open.                                                               *)
(***************************************************************************)
EXTENDS Integers, Sequences, FiniteSets

CONSTANTS
  Warnings,        \* identities (event, office, number)
  LifeSafety,      \* those of a kind the ceiling never holds back
  Tickers, Portals, Askers,
  JobOrder,        \* the configured jobs, in order
  Interval,        \* job -> interval_minutes
  Jitter,          \* START_JITTER_MAX_S
  DigestAfterCancel,
  RepeatAfter,     \* REPEAT_AFTER_S
  Ceiling,         \* scheduled_packets_per_hour
  Hour,            \* the window it is counted over
  SeqModulus,      \* 256
  PartsPerAnswer,  \* packets of a long answer
  Replies,         \* how a send may end, of {"ok", "refused", "lost"}
  MaxVersion,      \* bound: versions of one warning
  MaxTime, MaxAir, MaxRestarts,       \* bounds
  MaxEvents        \* bound of the answers, the runs by hand and what fails: sends, the backlog

Jobs == {"warnings", "digest"}
Tasks == Tickers \cup Portals \cup Askers
NoTask == "none"

ASSUME SchedulerAssumption ==
  /\ NoTask \notin Tasks
  /\ LifeSafety \subseteq Warnings /\ IsFiniteSet(Warnings)
  /\ JobOrder \in Seq(Jobs)
  /\ Interval \in [Jobs -> Nat \ {0}]
  /\ Jitter \in Nat /\ DigestAfterCancel \in Nat \ {0} /\ RepeatAfter \in Nat \ {0}
  /\ Ceiling \in Nat /\ Hour \in Nat /\ SeqModulus \in Nat \ {0} /\ PartsPerAnswer \in Nat
  /\ Replies \subseteq {"ok", "refused", "lost"}
  /\ MaxVersion \in Nat /\ MaxTime \in Nat /\ MaxAir \in Nat
  /\ MaxRestarts \in Nat /\ MaxEvents \in Nat

VARIABLES
  now,
  active,          \* the feed: the version of each warning active in coverage, 0 if none
  over,            \* and how one ended: early, or its expiry came (five minutes or less)
  issued,          \* the last version of each that was issued
  backlog,         \* _load_backlog: "loading", "failed", or "in"
  told,            \* _warning_state: what was said of each warning
  nextSeq,         \* _next_seq
  digestDueAt,     \* _digest_due_at
  lastRun,         \* _last_run
  holdUntil,       \* _hold_until of the digest
  schedSent,       \* _sched_sent
  task,            \* each task, at the await it waits on
  lock,            \* _tx_lock: its holder and those waiting, in order
  running,         \* the task between two awaits
  saved,           \* the state file
  air,             \* history: packets the radio transmitted
  innerSave,       \* history: the file was written in the middle of a batch
  misled,          \* history: the warnings a store without its backlog had something wrong said of
  restarts, events  \* counters of the bounds

feedVars == <<active, over, issued>>
memoryVars == <<told, nextSeq, digestDueAt, lastRun, holdUntil, schedSent>>
taskVars == <<task, lock, running>>
boundVars == <<restarts, events>>
historyVars == <<air, innerSave, misled>>
vars == <<now, feedVars, backlog, memoryVars, taskVars, saved, historyVars, boundVars>>

NoTime == -1
Times == {NoTime} \cup 0 .. MaxTime

-----------------------------------------------------------------------------
(* Data *)

\* What a message is built from: the warnings of the store.  Until the backlog
\* is in, that is any part of what was issued, an older version too, and a new
\* look may find more.
Stores ==
  IF backlog = "in" THEN {active}
  ELSE {held \in [Warnings -> 0 .. MaxVersion] :
          \A w \in Warnings : held[w] <= issued[w] /\ (over[w] = "ranOut" => held[w] = 0)}

WarningMessage(w, held) == [type |-> "warning", id |-> w, version |-> held[w]]
CancelMessage(w) == [type |-> "cancel", id |-> w]
Listed(held) == {w \in Warnings : held[w] # 0}
DigestMessage(held) == [type |-> "digest", listed |-> Listed(held), built |-> now]
\* Not available, reason 0.
StartingUp == [type |-> "starting up"]
PartMessages == {[type |-> "part", index |-> i] : i \in 1 .. PartsPerAnswer}

Messages ==
  [type : {"warning"}, id : Warnings, version : 1 .. MaxVersion]
  \cup [type : {"cancel"}, id : Warnings]
  \cup [type : {"digest"}, listed : SUBSET Warnings, built : 0 .. MaxTime]
  \cup {StartingUp}
  \cup PartMessages

\* What the bot remembers of one warning: the version it last built a message
\* of (0: no entry) and when to repeat it.
Untold == [version |-> 0, repeatAt |-> NoTime]
Told == [version : 0 .. MaxVersion, repeatAt : {NoTime} \cup Nat]

\* A task: where it is, or waits; where it goes on after its batch; the jobs
\* of its tick still to come; the batch in its hands, why it is sent, and how
\* many packets of it the radio took; when it began; the context's cancel_sent;
\* and, history, whether an operator started it and which answer it is.
IdleTask == [at |-> "idle", next |-> "idle", todo |-> <<>>, batch |-> {}, why |-> "none",
             sent |-> 0, started |-> 0, cancelSent |-> FALSE, hand |-> FALSE, answer |-> 0]

Scheduled(why) == why \notin {"answer", "none"}

-----------------------------------------------------------------------------
Init ==
  /\ now = 0
  /\ active = [w \in Warnings |-> 0] /\ over = [w \in Warnings |-> "no"]
  /\ issued = active /\ backlog = "loading"
  /\ told = [w \in Warnings |-> Untold]
  /\ nextSeq = SeqModulus - 1
  /\ digestDueAt = NoTime
  /\ lastRun = [j \in Jobs |-> NoTime]
  /\ holdUntil \in 0 .. Jitter
  /\ schedSent = <<>>
  /\ task = [t \in Tasks |-> IdleTask] /\ lock = <<>> /\ running = NoTask
  /\ saved = [told |-> told, nextSeq |-> nextSeq, lastRun |-> lastRun, schedSent |-> schedSent]
  /\ air = <<>> /\ innerSave = FALSE /\ misled = {}
  /\ restarts = 0 /\ events = 0

-----------------------------------------------------------------------------
(* The clock and the product feed *)

\* Bound: when the last packet is on the air, nothing new begins.
Room == Len(air) < MaxAir

Tick ==
  /\ running = NoTask /\ now < MaxTime /\ Room
  /\ now' = now + 1
  /\ UNCHANGED <<feedVars, backlog, memoryVars, taskVars, saved, historyVars, boundVars>>

\* A warning is issued, or changes in a way its fingerprint shows.  One that
\* ended is not issued again: its number is never reused.
Issue(w) ==
  /\ running = NoTask
  /\ over[w] = "no" /\ active[w] < MaxVersion /\ Room
  /\ active' = [active EXCEPT ![w] = active[w] + 1] /\ issued' = [issued EXCEPT ![w] = active'[w]]
  /\ UNCHANGED <<now, over, backlog, memoryVars, taskVars, saved, historyVars, boundVars>>

\* The office ends it early, or its expiry comes.
End(w, how) ==
  /\ running = NoTask /\ Room
  /\ \/ how = "early" /\ active[w] # 0
     \/ how = "ranOut" /\ active[w] # 0
     \/ how = "ranOut" /\ over[w] = "early"
  /\ active' = [active EXCEPT ![w] = 0] /\ over' = [over EXCEPT ![w] = how]
  /\ UNCHANGED <<now, issued, backlog, memoryVars, taskVars, saved, historyVars, boundVars>>

-----------------------------------------------------------------------------
(* The backlog of products *)

\* _load_backlog: all that is on disk is in the store, and the store is ready.
BacklogIn ==
  /\ running = NoTask /\ backlog = "loading" /\ backlog' = "in"
  /\ UNCHANGED <<now, feedVars, memoryVars, taskVars, saved, historyVars, boundVars>>

\* It could not be loaded.  The store is as ready, with what it has.
BacklogFails ==
  /\ running = NoTask /\ backlog = "loading" /\ backlog' = "failed" /\ Room
  /\ events < MaxEvents /\ events' = events + 1
  /\ UNCHANGED <<now, feedVars, memoryVars, taskVars, saved, historyVars, restarts>>

StoreReady == backlog # "loading"

-----------------------------------------------------------------------------
(* The state file *)

\* _save_state: the whole memory, under the sequence number given.
SaveWithoutTold(seq) ==                                 \* mutation
  saved' = [told |-> saved.told, nextSeq |-> seq, lastRun |-> lastRun, schedSent |-> schedSent]
Save(seq) ==
  saved' = [told |-> told, nextSeq |-> seq, lastRun |-> lastRun, schedSent |-> schedSent]

\* A batch is on its way while its holder is between two packets.
InBatch == lock # <<>> /\ task[Head(lock)].at = "sending"

-----------------------------------------------------------------------------
(* What a job sends: _run and the builders *)

Past(times) == {i \in 1 .. Len(times) : now - times[i] > Hour}
Used == Len(schedSent) - Cardinality(Past(schedSent))
Left == Ceiling - Used

DueFromHold(j, at) == at >= holdUntil \/ j = "warnings"    \* mutation
\* _due: a job's interval since its last run, and the hold after a start.
Due(j, at) ==
  /\ j = "warnings" \/ at >= holdUntil
  /\ lastRun[j] = NoTime \/ at - lastRun[j] >= Interval[j]

\* _build_warnings: what there is to say of a warning, as the store has it.  One
\* that was told of and is not in the store, though it has time left, is cancelled.
IsNews(w, held) == held[w] # 0 /\ told[w].version # held[w]
IsRepeat(w, held) ==
  /\ held[w] # 0 /\ told[w].version = held[w]
  /\ told[w].repeatAt # NoTime /\ now >= told[w].repeatAt
IsCancel(w, held) == held[w] = 0 /\ told[w].version # 0 /\ over[w] # "ranOut"
IsProtected(w, held) == IsRepeat(w, held) \/ (IsNews(w, held) /\ w \in LifeSafety)

Least(a, b) == IF a <= b THEN a ELSE b
Greatest(a, b) == IF a >= b THEN a ELSE b

Plans(held) == {w \in Warnings : IsNews(w, held) \/ IsRepeat(w, held) \/ IsCancel(w, held)}
Protected(held) == {w \in Plans(held) : IsProtected(w, held)}

\* What goes out: everything protected, and of the rest as much as the
\* ceiling leaves room for.
Allowed(held) ==
  LET rest == Plans(held) \ Protected(held)
      room == Left - Cardinality(Protected(held))
  IN {Protected(held) \cup some : some \in
        {s \in SUBSET rest : Cardinality(s) = Least(Cardinality(rest), Greatest(room, 0))}}

WarningsBatch(chosen, held) ==
  {IF IsCancel(w, held) THEN CancelMessage(w) ELSE WarningMessage(w, held) : w \in chosen}

\* The state a built message leaves behind, whether or not it will be sent.
RepeatTime(w) ==
  IF w \in LifeSafety /\ told[w].version = 0 THEN now + RepeatAfter ELSE NoTime
ToldAfter(chosen, held) ==
  [w \in Warnings |->
     IF w \in chosen
     THEN IF IsNews(w, held) THEN [version |-> held[w], repeatAt |-> RepeatTime(w)]
          ELSE IF IsRepeat(w, held) THEN [told[w] EXCEPT !.repeatAt = NoTime]
          ELSE Untold
     ELSE IF held[w] = 0 /\ over[w] = "ranOut" THEN Untold ELSE told[w]]

\* _run of the warnings job, by task t, which is `me` before.
BuildWarnings(t, me, why, held) ==
  \E chosen \in Allowed(held) :
    /\ told' = ToldAfter(chosen, held)
    /\ lastRun' = [lastRun EXCEPT !["warnings"] = now]
    /\ task' = [task EXCEPT ![t] =
         [me EXCEPT !.batch = WarningsBatch(chosen, held), !.why = why,
                    !.at = IF chosen = {} THEN me.next ELSE "joining",
                    !.cancelSent = me.cancelSent \/ \E w \in chosen : IsCancel(w, held)]]
    /\ misled' = IF me.hand \/ backlog = "failed"
                 THEN misled \cup {w \in chosen : held[w] # active[w]} ELSE misled
    /\ UNCHANGED holdUntil

\* _run of the digest: at the ceiling it waits, and does not count as run.
BuildDigest(t, me, why, held) ==
  /\ UNCHANGED <<told, misled>>
  /\ \/ /\ Left <= 0
        /\ task' = [task EXCEPT ![t] = [me EXCEPT !.at = me.next]]
        /\ UNCHANGED <<lastRun, holdUntil>>
     \/ /\ Left > 0
        /\ lastRun' = [lastRun EXCEPT !["digest"] = now]
        /\ holdUntil' = 0
        /\ task' = [task EXCEPT ![t] = [me EXCEPT !.batch = {DigestMessage(held)}, !.why = why,
                                                 !.at = "joining"]]

Build(t, me, j, why) ==
  \E held \in Stores :
    IF j = "warnings" THEN BuildWarnings(t, me, why, held) ELSE BuildDigest(t, me, why, held)

-----------------------------------------------------------------------------
(* tick(), run_job_now() and the answers *)

Begin(at, next) == [IdleTask EXCEPT !.at = at, !.next = next]

Started(hand) == [Begin("jobs", "jobs") EXCEPT !.todo = JobOrder, !.started = now, !.hand = hand]

\* The tick loop, which waits for the backlog first.
StartTick(t) ==
  /\ running = NoTask /\ task[t].at = "idle" /\ Room
  /\ StoreReady
  /\ task' = [task EXCEPT ![t] = Started(FALSE)]
  /\ running' = t
  /\ UNCHANGED <<now, feedVars, backlog, memoryVars, lock, saved, historyVars, boundVars>>

\* An operator's tick, from the portal or by a direct message: at any time.
TickNow(t) ==
  /\ running = NoTask /\ task[t].at = "idle" /\ events < MaxEvents /\ Room
  /\ events' = events + 1
  /\ task' = [task EXCEPT ![t] = Started(TRUE)]
  /\ running' = t
  /\ UNCHANGED <<now, feedVars, backlog, memoryVars, lock, saved, historyVars, restarts>>

\* The next job of the tick, if it was due when the tick began.
RunJob(t) ==
  LET j == Head(task[t].todo)
      me == [task[t] EXCEPT !.todo = Tail(task[t].todo)]
  IN
  /\ running = t /\ task[t].at = "jobs" /\ task[t].todo # <<>>
  /\ \/ Due(j, me.started) /\ Build(t, me, j, "due")
     \/ ~Due(j, me.started) /\ task' = [task EXCEPT ![t] = me]
        /\ UNCHANGED <<told, lastRun, holdUntil, misled>>
  /\ UNCHANGED <<now, feedVars, backlog, nextSeq, digestDueAt, schedSent, lock, running, saved, air,
                 innerSave, boundVars>>

\* After the jobs: a cancel asks for a digest in a minute, and a digest asked
\* for a minute ago is run.
EndJobs(t) ==
  LET me == [task[t] EXCEPT !.next = "closing", !.started = 0, !.cancelSent = FALSE]
      due == IF task[t].cancelSent THEN now + DigestAfterCancel ELSE digestDueAt
  IN
  /\ running = t /\ task[t].at = "jobs" /\ task[t].todo = <<>>
  /\ \/ /\ due # NoTime /\ now >= due
        /\ digestDueAt' = NoTime
        /\ Build(t, me, "digest", "cancelled")
     \/ /\ ~(due # NoTime /\ now >= due)
        /\ digestDueAt' = due
        /\ task' = [task EXCEPT ![t] = [me EXCEPT !.at = "closing"]]
        /\ UNCHANGED <<told, lastRun, holdUntil, misled>>
  /\ UNCHANGED <<now, feedVars, backlog, nextSeq, schedSent, lock, running, saved, air, innerSave,
                 boundVars>>

\* run_job_now: whatever the job's interval, and the backlog.
RunNow(t, j) ==
  /\ running = NoTask /\ task[t].at = "idle" /\ events < MaxEvents /\ Room
  /\ events' = events + 1
  /\ running' = t
  /\ Build(t, [Begin("closing", "closing") EXCEPT !.hand = TRUE], j, "now")
  /\ UNCHANGED <<now, feedVars, backlog, nextSeq, digestDueAt, schedSent, lock, saved, air,
                 innerSave, restarts>>

\* A tick or run_job_now ends by writing the file, lock or no lock.
Close(t) ==
  /\ running = t /\ task[t].at = "closing"
  /\ Save(nextSeq) /\ innerSave' = (innerSave \/ InBatch)
  /\ task' = [task EXCEPT ![t] = IdleTask] /\ running' = NoTask
  /\ UNCHANGED <<now, feedVars, backlog, memoryVars, lock, air, misled, boundVars>>

\* An app's request is answered: a warning, the list of warnings, or
\* something long.  Built now, sent when `not_before` has passed.
AnswersFrom(held) ==
  {{WarningMessage(w, held)} : w \in Listed(held)} \cup {{DigestMessage(held)}}
  \cup ({PartMessages} \ {{}})
AnswerBatches == IF StoreReady THEN UNION {AnswersFrom(held) : held \in Stores} ELSE {{StartingUp}}

Answer(t) ==
  /\ running = NoTask /\ task[t].at = "idle" /\ events < MaxEvents /\ Room
  /\ events' = events + 1
  /\ \E batch \in AnswerBatches :
       task' = [task EXCEPT ![t] = [Begin("holding", "idle") EXCEPT
                                      !.batch = batch, !.why = "answer", !.answer = events']]
  /\ UNCHANGED <<now, feedVars, backlog, memoryVars, lock, running, saved, historyVars, restarts>>

AnswerMayGo(t) ==
  /\ running = NoTask /\ task[t].at = "holding"
  /\ task' = [task EXCEPT ![t].at = "joining"] /\ running' = t
  /\ UNCHANGED <<now, feedVars, backlog, memoryVars, lock, saved, historyVars, boundVars>>

-----------------------------------------------------------------------------
(* transmit() *)

\* The lock is free: the task goes on.  It is held: the task waits its turn.
Join(t) ==
  /\ running = t /\ task[t].at = "joining"
  /\ lock' = Append(lock, t)
  /\ running' = IF lock = <<>> THEN t ELSE NoTask
  /\ task' = [task EXCEPT ![t].at = "waiting"]
  /\ UNCHANGED <<now, feedVars, backlog, memoryVars, saved, historyVars, boundVars>>

\* The holder saves the state past its batch, and waits out the spacing.
SavedSeqUnmoved == nextSeq                              \* mutation
SavedSeq == (nextSeq + Cardinality(task[Head(lock)].batch)) % SeqModulus
BeginBatch(t) ==
  /\ task[t].at = "waiting" /\ Head(lock) = t /\ running \in {NoTask, t}
  /\ Save(SavedSeq)
  /\ task' = [task EXCEPT ![t].at = "sending"] /\ running' = NoTask
  /\ UNCHANGED <<now, feedVars, backlog, memoryVars, lock, historyVars, boundVars>>

\* The parts of an answer go in their order.
NextOf(batch) == {m \in batch : m.type = "part" => \A other \in batch : m.index <= other.index}
Packet(t, m) == [seq |-> nextSeq, message |-> m, why |-> task[t].why, answer |-> task[t].answer]

\* A packet is stamped and handed to the radio, which takes it, refuses it, or
\* transmits it although its reply is lost.  Its number is used up only when
\* the radio says so.
Send(t, m, reply) ==
  /\ running = NoTask /\ task[t].at = "sending" /\ m \in NextOf(task[t].batch)
  /\ air' = IF reply = "refused" THEN air ELSE Append(air, Packet(t, m))
  /\ events' = (IF reply = "ok" THEN events ELSE events + 1)
  /\ Len(air') <= MaxAir /\ events' <= MaxEvents
  /\ nextSeq' = IF reply = "ok" THEN (nextSeq + 1) % SeqModulus ELSE nextSeq
  /\ task' = [task EXCEPT ![t].batch = task[t].batch \ {m},
                          ![t].sent = task[t].sent + (IF reply = "ok" THEN 1 ELSE 0)]
  /\ running' = IF task[t].batch = {m} THEN t ELSE NoTask
  /\ UNCHANGED <<now, feedVars, backlog, told, digestDueAt, lastRun, holdUntil, schedSent, lock,
                 saved, innerSave, misled, restarts>>

\* After the last one: the real number is saved, the lock given up, and a
\* scheduled batch counted.
EndBatch(t) ==
  /\ running = t /\ task[t].at = "sending" /\ task[t].batch = {}
  /\ Save(nextSeq)
  /\ lock' = Tail(lock)
  /\ schedSent' = IF Scheduled(task[t].why)
                  THEN schedSent \o [i \in 1 .. task[t].sent |-> now] ELSE schedSent
  /\ task' = [task EXCEPT ![t] = IF task[t].next = "idle" THEN IdleTask
                                 ELSE [task[t] EXCEPT !.at = task[t].next, !.sent = 0, !.why = "none"]]
  /\ running' = IF task[t].next = "idle" THEN NoTask ELSE t
  /\ UNCHANGED <<now, feedVars, backlog, told, nextSeq, digestDueAt, lastRun, holdUntil, historyVars,
                 boundVars>>

-----------------------------------------------------------------------------
(* Restarts *)

\* _load_state and _plan_start, in a new process, whose store is empty.  The times
\* of packets are in order, so the ones past the hour are the first.
Load(file) ==
  /\ backlog' = "loading"
  /\ told' = [w \in Warnings |-> IF over[w] = "ranOut" THEN Untold ELSE file.told[w]]
  /\ nextSeq' = file.nextSeq
  /\ lastRun' = file.lastRun
  /\ schedSent' = SubSeq(file.schedSent, Cardinality(Past(file.schedSent)) + 1, Len(file.schedSent))
  /\ digestDueAt' = NoTime
  /\ holdUntil' \in {IF at > now THEN at ELSE 0 : at \in now .. now + Jitter}
  /\ task' = [t \in Tasks |-> IdleTask] /\ lock' = <<>> /\ running' = NoTask

\* The process is killed, at any moment.
Kill ==
  /\ restarts < MaxRestarts /\ restarts' = restarts + 1 /\ Room
  /\ Load(saved)
  /\ UNCHANGED <<now, feedVars, saved, historyVars, events>>

\* stop(): the tasks are cancelled at their awaits, a packet perhaps already
\* with the radio, and the file is written once more.
Stop ==
  /\ running = NoTask
  /\ restarts < MaxRestarts /\ restarts' = restarts + 1 /\ Room
  /\ Save(nextSeq) /\ innerSave' = (innerSave \/ InBatch)
  /\ air' \in {air} \cup (IF InBatch /\ Room
                         THEN {Append(air, Packet(Head(lock), m)) : m \in NextOf(task[Head(lock)].batch)}
                         ELSE {})
  /\ Load(saved')
  /\ UNCHANGED <<now, feedVars, misled, events>>

-----------------------------------------------------------------------------
Step(t) ==
  \/ RunJob(t) \/ EndJobs(t) \/ Close(t) \/ AnswerMayGo(t) \/ Join(t) \/ BeginBatch(t) \/ EndBatch(t)
  \/ \E m \in task[t].batch, reply \in Replies : Send(t, m, reply)

Next ==
  \/ Tick \/ BacklogIn \/ BacklogFails \/ Kill \/ Stop
  \/ \E w \in Warnings : Issue(w) \/ (\E how \in {"early", "ranOut"} : End(w, how))
  \/ \E t \in Tickers : StartTick(t)
  \/ \E t \in Portals : TickNow(t) \/ \E j \in Jobs : RunNow(t, j)
  \/ \E t \in Askers : Answer(t)
  \/ \E t \in Tasks : Step(t)

Spec == Init /\ [][Next]_vars

-----------------------------------------------------------------------------
(* Properties *)

OnAir == 1 .. Len(air)

\* Every variable has its type, and the lock is in order: its queue names each
\* task once, and only its head is past the wait.
TypeOK ==
  /\ now \in 0 .. MaxTime
  /\ active \in [Warnings -> 0 .. MaxVersion]
  /\ over \in [Warnings -> {"no", "early", "ranOut"}]
  /\ issued \in [Warnings -> 0 .. MaxVersion] /\ backlog \in {"loading", "failed", "in"}
  /\ told \in [Warnings -> Told]
  /\ nextSeq \in 0 .. SeqModulus - 1
  /\ digestDueAt \in {NoTime} \cup Nat /\ lastRun \in [Jobs -> Times] /\ holdUntil \in Nat
  /\ schedSent \in Seq(0 .. MaxTime)
  /\ task \in [Tasks -> [at : {"idle", "jobs", "closing", "holding", "joining", "waiting", "sending"},
                        next : {"idle", "jobs", "closing"}, todo : Seq(Jobs),
                        batch : SUBSET Messages,
                        why : {"none", "due", "cancelled", "now", "answer"},
                        sent : Nat, started : 0 .. MaxTime, cancelSent : BOOLEAN, hand : BOOLEAN,
                        answer : 0 .. MaxEvents]]
  /\ lock \in Seq(Tasks) /\ running \in Tasks \cup {NoTask}
  /\ \A t \in Tasks : Cardinality({i \in 1 .. Len(lock) : lock[i] = t})
                      = IF task[t].at \in {"waiting", "sending"} THEN 1 ELSE 0
  /\ \A t \in Tasks : task[t].at = "sending" => Head(lock) = t
  /\ saved \in [told : [Warnings -> Told], nextSeq : 0 .. SeqModulus - 1,
               lastRun : [Jobs -> Times], schedSent : Seq(0 .. MaxTime)]
  /\ air \in Seq([seq : 0 .. SeqModulus - 1, message : Messages,
                  why : {"due", "cancelled", "now", "answer"}, answer : 0 .. MaxEvents])
  /\ innerSave \in BOOLEAN /\ misled \subseteq Warnings

\* What the spec says of the counter (section 2.4): a client sees a gap, never
\* a repeated number.  A save in the middle of a batch breaks it (README,
\* Divergences); KeepsBroadcastPromise is what holds.
NumbersNeverRepeat == \A i, j \in OnAir : air[i].seq = air[j].seq => i = j

\* The schedule announces a version of a warning once, and a new life-safety
\* warning once more, whatever restarts, runs by hand and the ceiling do in
\* between: _warning_state is written before what it records goes out.  A cancel
\* goes out once (section 15), and is the schedule's last word on its warning.
\* Only of a warning that an operator's run before the backlog was in, or the
\* schedule after the backlog failed, said something else of than all the
\* products do, nothing is promised: the run may have cancelled it.
ToldOnce ==
  \A w \in Warnings \ misled :
    /\ \A v \in 1 .. MaxVersion :
         Cardinality({i \in OnAir : /\ air[i].message = [type |-> "warning", id |-> w, version |-> v]
                                   /\ Scheduled(air[i].why)})
           <= IF w \in LifeSafety THEN 2 ELSE 1
    /\ \A i, j \in OnAir :
         /\ i < j /\ air[i].message = CancelMessage(w) /\ Scheduled(air[j].why)
         /\ air[j].message.type \in {"warning", "cancel"}
         => air[j].message.id # w

\* A digest that goes out because it is due was built a whole interval after
\* every other scheduled one before it, across restarts and whoever ran those:
\* "a restart is not a reason to send the digest again".
DigestsKeepTheirInterval ==
  \A i, j \in OnAir :
    /\ i # j /\ air[i].message.type = "digest" /\ air[j].message.type = "digest"
    /\ Scheduled(air[i].why) /\ air[j].why = "due"
    /\ air[i].message.built <= air[j].message.built
    /\ air[i].message.built = air[j].message.built => air[i].why = "due"
    => air[j].message.built - air[i].message.built >= Interval["digest"]

\* The scheduler keeps the promise of BroadcastPromise: what any of its tasks
\* sends was what the bot's products said when it was built, all of them but for
\* runs by hand before the backlog is in or after it failed; numbers are next or
\* skipped but repeated only after a write in the middle of a batch, and a
\* restart forgets the batches.
Promise == INSTANCE BroadcastPromise WITH
  batch <- [t \in Tasks |-> task[t].batch],
  air <- [i \in OnAir |-> [seq |-> air[i].seq, message |-> air[i].message]],
  torn <- innerSave, whole <- (backlog = "in"), spoiled <- misled,
  MaxBatch <- Cardinality(Warnings) + PartsPerAnswer + 1
KeepsBroadcastPromise == Promise!Spec
=============================================================================
