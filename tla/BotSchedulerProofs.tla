------------------------- MODULE BotSchedulerProofs -------------------------
(***************************************************************************)
(* Proofs about BotScheduler, for any warnings, tasks, intervals and bounds. *)
(*                                                                          *)
(* The argument: whoever runs is alone until it awaits, and who waits for   *)
(* the lock is served in turn (ControlOK).  A message that the schedule has *)
(* built is somewhere: in a task's batch or on the air, a place called a     *)
(* slot.  What the memory says was told bounds how many slots say a message, *)
(* and what the file says bounds those a restart cannot undo (ToldOK).  The  *)
(* same slots carry the digests (DigestsOK).                                *)
(***************************************************************************)
EXTENDS BotScheduler, FiniteSetTheorems, SequenceTheorems, TLAPS

LEMMA SchedulerConstants ==
  /\ NoTask \notin Tasks
  /\ LifeSafety \subseteq Warnings /\ IsFiniteSet(Warnings)
  /\ JobOrder \in Seq(Jobs)
  /\ Interval \in [Jobs -> Nat \ {0}]
  /\ Jitter \in Nat /\ DigestAfterCancel \in Nat \ {0} /\ RepeatAfter \in Nat \ {0}
  /\ Ceiling \in Nat /\ Hour \in Nat /\ SeqModulus \in Nat \ {0} /\ PartsPerAnswer \in Nat
  /\ Replies \subseteq {"ok", "refused", "lost"}
  /\ MaxVersion \in Nat /\ MaxTime \in Nat /\ MaxAir \in Nat
  /\ MaxRestarts \in Nat /\ MaxEvents \in Nat
BY SchedulerAssumption

Places == {"idle", "jobs", "closing", "holding", "joining", "waiting", "sending"}
Whys == {"none", "due", "cancelled", "now", "answer"}

TaskRecords ==
  [at : Places, next : {"idle", "jobs", "closing"}, todo : Seq(Jobs), batch : SUBSET Messages,
   why : Whys, sent : Nat, started : 0 .. MaxTime, cancelSent : BOOLEAN, hand : BOOLEAN,
   answer : 0 .. MaxEvents]

Files ==
  [told : [Warnings -> Told], nextSeq : 0 .. SeqModulus - 1, lastRun : [Jobs -> Times],
   schedSent : Seq(0 .. MaxTime)]

AirPackets ==
  [seq : 0 .. SeqModulus - 1, message : Messages, why : Whys \ {"none"}, answer : 0 .. MaxEvents]

\* The types alone; TypeOK also says that the lock is in order.
Types ==
  /\ now \in 0 .. MaxTime
  /\ active \in [Warnings -> 0 .. MaxVersion]
  /\ over \in [Warnings -> {"no", "early", "ranOut"}]
  /\ issued \in [Warnings -> 0 .. MaxVersion] /\ backlog \in {"loading", "failed", "in"}
  /\ told \in [Warnings -> Told]
  /\ nextSeq \in 0 .. SeqModulus - 1
  /\ digestDueAt \in {NoTime} \cup Nat /\ lastRun \in [Jobs -> Times] /\ holdUntil \in Nat
  /\ schedSent \in Seq(0 .. MaxTime)
  /\ task \in [Tasks -> TaskRecords]
  /\ lock \in Seq(Tasks) /\ running \in Tasks \cup {NoTask}
  /\ saved \in Files
  /\ air \in Seq(AirPackets)
  /\ innerSave \in BOOLEAN /\ misled \subseteq Warnings
  /\ events \in 0 .. MaxEvents

Queued(t) == task[t].at \in {"waiting", "sending"}

\* The lock's queue holds each task that waits or sends once, and its head alone
\* may send.
QueueOK ==
  /\ \A i, j \in 1 .. Len(lock) : lock[i] = lock[j] => i = j
  /\ \A t \in Tasks : Queued(t) <=> \E i \in 1 .. Len(lock) : lock[i] = t
  /\ \A t \in Tasks : task[t].at = "sending" => lock[1] = t

MaxBatch == Cardinality(Warnings) + PartsPerAnswer + 1
Bounded(batch) == IsFiniteSet(batch) /\ Cardinality(batch) <= MaxBatch

\* Who is between two awaits is the one that runs, and a task has a batch in its
\* hands from the moment it joins the queue, or is held back, to its last packet.
RecordOK(r, t, run, at) ==
  /\ Bounded(r.batch)
  /\ r.at \in {"jobs", "closing", "joining"} => run = t
  /\ r.at = "jobs" => r.next = "jobs"
  /\ r.at \in {"idle", "jobs", "closing"} => r.batch = {}
  /\ r.at \in {"holding", "joining", "waiting"} => r.batch # {}
  /\ r.at \in {"holding", "joining", "waiting", "sending"} => r.why # "none"
  /\ r.at = "holding" => r.why = "answer"
  /\ r.at \in {"idle", "holding"} => run # t
  /\ r.started <= at

TaskOK(t) == RecordOK(task[t], t, running, now)

\* A warning that ended is not in force, and one that did not is as last issued.
FeedOK ==
  \A w \in Warnings : active[w] = IF over[w] = "no" THEN issued[w] ELSE 0

\* A tick of the schedule's own runs jobs only once the store is ready.
GateOK == \A t \in Tasks : task[t].next = "jobs" /\ ~task[t].hand => StoreReady

OrderOK == Types /\ QueueOK /\ FeedOK /\ \A t \in Tasks : TaskOK(t)
ControlOK == OrderOK /\ GateOK

-----------------------------------------------------------------------------
(* Types and control *)

LEMMA TaskUpdated ==
  ASSUME Types, NEW t \in Tasks, NEW r \in TaskRecords, task' = [task EXCEPT ![t] = r]
  PROVE  /\ task' \in [Tasks -> TaskRecords] /\ task'[t] = r
         /\ \A u \in Tasks : u # t => task'[u] = task[u]
BY DEF Types

\* What the store may hold: versions of warnings, and once the backlog is in, the
\* ones in force.
LEMMA StoresType ==
  ASSUME Types, NEW held \in Stores
  PROVE  /\ held \in [Warnings -> 0 .. MaxVersion]
         /\ backlog = "in" => held = active
BY DEF Types, Stores

LEMMA MessageTypes ==
  ASSUME Types, NEW held \in Stores
  PROVE  /\ \A w \in Warnings : held[w] # 0 => WarningMessage(w, held) \in Messages
         /\ \A w \in Warnings : CancelMessage(w) \in Messages
         /\ DigestMessage(held) \in Messages
         /\ PartMessages \in SUBSET Messages
<1>1. \A w \in Warnings : held[w] # 0 => held[w] \in 1 .. MaxVersion
  BY SchedulerConstants, StoresType
<1>2. Listed(held) \in SUBSET Warnings /\ now \in 0 .. MaxTime BY DEF Listed, Types
<1> QED BY <1>1, <1>2 DEF Messages, WarningMessage, CancelMessage, DigestMessage

\* What a step of the schedule may send is news, a repeat or a cancel.
LEMMA AllowedArePlans ==
  ASSUME NEW held, NEW chosen \in Allowed(held)
  PROVE  /\ chosen \subseteq Warnings
         /\ \A w \in chosen : IsNews(w, held) \/ IsRepeat(w, held) \/ IsCancel(w, held)
BY DEF Allowed, Plans, Protected

LEMMA WarningsBatchType ==
  ASSUME Types, NEW held \in Stores, NEW chosen \in Allowed(held)
  PROVE  /\ WarningsBatch(chosen, held) \in SUBSET Messages
         /\ WarningsBatch(chosen, held) = {} <=> chosen = {}
<1>1. \A w \in chosen : w \in Warnings /\ (IsCancel(w, held) \/ held[w] # 0)
  BY AllowedArePlans DEF IsNews, IsRepeat
<1>2. \A w \in chosen :
        (IF IsCancel(w, held) THEN CancelMessage(w) ELSE WarningMessage(w, held)) \in Messages
  BY <1>1, MessageTypes
<1> QED BY <1>2 DEF WarningsBatch

LEMMA ToldAfterType ==
  ASSUME Types, NEW held \in Stores, NEW chosen \in Allowed(held)
  PROVE ToldAfter(chosen, held) \in [Warnings -> Told]
<1> SUFFICES ASSUME NEW w \in Warnings PROVE ToldAfter(chosen, held)[w] \in Told
  BY DEF ToldAfter
<1>0. held[w] \in 0 .. MaxVersion BY StoresType
<1>1. told[w] \in Told /\ held[w] \in 0 .. MaxVersion /\ now \in Nat
  BY <1>0, SchedulerConstants DEF Types
<1>2. Untold \in Told BY SchedulerConstants DEF Untold, Told
<1>3. RepeatTime(w) \in {NoTime} \cup Nat BY <1>1, SchedulerConstants DEF RepeatTime
<1>4. [version |-> held[w], repeatAt |-> RepeatTime(w)] \in Told BY <1>1, <1>3 DEF Told
<1>5. [told[w] EXCEPT !.repeatAt = NoTime] \in Told BY <1>1 DEF Told
<1> QED BY <1>1, <1>2, <1>4, <1>5 DEF ToldAfter

LEMMA BatchesAreBounded ==
  /\ MaxBatch \in Nat /\ Bounded({})
  /\ \A m : Bounded({m})
  /\ \A held : \A chosen \in Allowed(held) : Bounded(WarningsBatch(chosen, held))
  /\ Bounded(PartMessages)
<1>1. Cardinality(Warnings) \in Nat /\ PartsPerAnswer \in Nat
  BY FS_CardinalityType, SchedulerConstants
<1>2. Bounded({}) BY <1>1, FS_EmptySet DEF Bounded, MaxBatch
<1>3. ASSUME NEW m PROVE Bounded({m})
  <2>1. IsFiniteSet({m}) /\ Cardinality({m}) = 1 BY FS_Singleton
  <2> QED BY <1>1, <2>1 DEF Bounded, MaxBatch
<1>4. ASSUME NEW held, NEW chosen \in Allowed(held) PROVE Bounded(WarningsBatch(chosen, held))
  <2>1. IsFiniteSet(chosen) /\ Cardinality(chosen) <= Cardinality(Warnings)
    BY FS_Subset, AllowedArePlans, SchedulerConstants
  <2> DEFINE f == [w \in chosen |-> IF IsCancel(w, held) THEN CancelMessage(w) ELSE WarningMessage(w, held)]
  <2>2. f \in Surjection(chosen, WarningsBatch(chosen, held)) BY DEF Surjection, WarningsBatch
  <2>3. /\ IsFiniteSet(WarningsBatch(chosen, held))
        /\ Cardinality(WarningsBatch(chosen, held)) <= Cardinality(chosen)
    BY <2>1, <2>2, FS_Surjection
  <2>4. Cardinality(WarningsBatch(chosen, held)) \in Nat /\ Cardinality(chosen) \in Nat
    BY <2>1, <2>3, FS_CardinalityType
  <2> QED BY <1>1, <2>1, <2>3, <2>4 DEF Bounded, MaxBatch
<1>5. Bounded(PartMessages)
  <2> DEFINE f == [i \in 1 .. PartsPerAnswer |-> [type |-> "part", index |-> i]]
  <2>1. IsFiniteSet(1 .. PartsPerAnswer) /\ Cardinality(1 .. PartsPerAnswer) = PartsPerAnswer
    BY <1>1, FS_Interval
  <2>2. f \in Surjection(1 .. PartsPerAnswer, PartMessages) BY DEF Surjection, PartMessages
  <2>3. /\ IsFiniteSet(PartMessages)
        /\ Cardinality(PartMessages) <= Cardinality(1 .. PartsPerAnswer)
    BY <2>1, <2>2, FS_Surjection
  <2>4. Cardinality(PartMessages) \in Nat BY <2>3, FS_CardinalityType
  <2> QED BY <1>1, <2>1, <2>3, <2>4 DEF Bounded, MaxBatch
<1> QED BY <1>1, <1>2, <1>3, <1>4, <1>5 DEF MaxBatch

\* What is left of a task that was `me` when it has built a job: a batch to send,
\* or nothing, and it goes on.
Built(r, me, why) ==
  /\ r.started = me.started /\ r.next = me.next /\ r.hand = me.hand
  /\ \/ r.at = me.next /\ r.batch = {}
     \/ r.at = "joining" /\ r.batch # {} /\ r.why = why /\ Bounded(r.batch)

LEMMA BuildTypes ==
  ASSUME Types, NEW t \in Tasks, NEW me \in TaskRecords, me.batch = {},
         NEW j \in Jobs, NEW why \in {"due", "cancelled", "now"}, Build(t, me, j, why)
  PROVE  /\ told' \in [Warnings -> Told] /\ lastRun' \in [Jobs -> Times] /\ holdUntil' \in Nat
         /\ misled' \subseteq Warnings
         /\ \E r \in TaskRecords : Built(r, me, why) /\ task' = [task EXCEPT ![t] = r]
<1>0. PICK held \in Stores :
        IF j = "warnings" THEN BuildWarnings(t, me, why, held) ELSE BuildDigest(t, me, why, held)
  BY DEF Build
<1>1. now \in Times BY DEF Types, Times
<1>2. CASE j = "warnings"
  <2>1. PICK chosen \in Allowed(held) :
          /\ told' = ToldAfter(chosen, held)
          /\ lastRun' = [lastRun EXCEPT !["warnings"] = now]
          /\ task' = [task EXCEPT ![t] =
               [me EXCEPT !.batch = WarningsBatch(chosen, held), !.why = why,
                          !.at = IF chosen = {} THEN me.next ELSE "joining",
                          !.cancelSent = me.cancelSent \/ \E w \in chosen : IsCancel(w, held)]]
          /\ misled' = IF me.hand \/ backlog = "failed"
                       THEN misled \cup {w \in chosen : held[w] # active[w]} ELSE misled
          /\ UNCHANGED holdUntil
    BY <1>0, <1>2 DEF BuildWarnings
  <2> DEFINE where == IF chosen = {} THEN me.next ELSE "joining"
             cancels == me.cancelSent \/ \E w \in chosen : IsCancel(w, held)
             r == [me EXCEPT !.batch = WarningsBatch(chosen, held), !.why = why, !.at = where,
                             !.cancelSent = cancels]
  <2>2. where \in Places BY DEF TaskRecords, Places
  <2>3. cancels \in BOOLEAN BY DEF TaskRecords
  <2>4. WarningsBatch(chosen, held) \in SUBSET Messages /\ (WarningsBatch(chosen, held) = {} <=> chosen = {})
    BY WarningsBatchType
  <2>5. told' \in [Warnings -> Told] BY <2>1, ToldAfterType
  <2>6. lastRun' \in [Jobs -> Times] /\ holdUntil' \in Nat BY <1>1, <2>1 DEF Types
  <2>7. task' = [task EXCEPT ![t] = r] BY <2>1
  <2>8. \/ where = me.next /\ WarningsBatch(chosen, held) = {}
        \/ where = "joining" /\ WarningsBatch(chosen, held) # {}
    <3>1. CASE chosen = {} BY <2>4, <3>1
    <3>2. CASE chosen # {} BY <2>4, <3>2
    <3> QED BY <3>1, <3>2
  <2> HIDE DEF where, cancels
  <2>9. r \in TaskRecords /\ r.started = me.started /\ r.next = me.next /\ r.hand = me.hand
        /\ r.at = where /\ r.why = why
        /\ r.batch = WarningsBatch(chosen, held) /\ Bounded(r.batch)
    BY <2>2, <2>3, <2>4, BatchesAreBounded DEF TaskRecords, Whys
  <2>10. Built(r, me, why) BY <2>8, <2>9 DEF Built
  <2>11. misled' \subseteq Warnings BY <2>1, AllowedArePlans DEF Types
  <2> HIDE DEF r
  <2> QED BY <2>5, <2>6, <2>7, <2>9, <2>10, <2>11
<1>3. CASE /\ task' = [task EXCEPT ![t] = [me EXCEPT !.at = me.next]]
           /\ UNCHANGED <<told, misled, lastRun, holdUntil>>
  <2> DEFINE r == [me EXCEPT !.at = me.next]
  <2>1. r \in TaskRecords /\ r.started = me.started /\ r.next = me.next /\ r.hand = me.hand
        /\ r.at = me.next /\ r.batch = {}
    BY DEF TaskRecords, Places
  <2>2. Built(r, me, why) BY <2>1 DEF Built
  <2> QED BY <1>3, <2>1, <2>2 DEF Types
<1>4. CASE /\ task' = [task EXCEPT ![t] = [me EXCEPT !.batch = {DigestMessage(held)}, !.why = why,
                                                    !.at = "joining"]]
           /\ lastRun' = [lastRun EXCEPT !["digest"] = now] /\ holdUntil' = 0
           /\ UNCHANGED <<told, misled>>
  <2> DEFINE r == [me EXCEPT !.batch = {DigestMessage(held)}, !.why = why, !.at = "joining"]
  <2>1. {DigestMessage(held)} \in SUBSET Messages BY MessageTypes
  <2>2. r \in TaskRecords /\ r.started = me.started /\ r.next = me.next /\ r.hand = me.hand
        /\ r.at = "joining" /\ r.batch # {} /\ r.why = why /\ Bounded(r.batch)
    BY <2>1, BatchesAreBounded DEF TaskRecords, Places, Whys
  <2>3. Built(r, me, why) BY <2>2 DEF Built
  <2> QED BY <1>1, <1>4, <2>2, <2>3 DEF Types
<1> QED BY <1>0, <1>2, <1>3, <1>4 DEF BuildDigest

LEMMA IdleType == IdleTask \in TaskRecords /\ IdleTask.started = 0 /\ IdleTask.batch = {}
                  /\ IdleTask.at = "idle" /\ IdleTask.next = "idle" /\ IdleTask.why = "none"
BY SchedulerConstants DEF IdleTask, TaskRecords, Places, Whys

\* A step of the one task that runs, or begins to, which stays where it is in
\* the queue.
LEMMA TaskStep ==
  ASSUME OrderOK, NEW t \in Tasks, NEW r \in TaskRecords,
         task' = [task EXCEPT ![t] = r], UNCHANGED <<lock, now, active, over, issued>>,
         running \in {NoTask, t}, running' \in {NoTask, t},
         r.at \in {"waiting", "sending"} <=> Queued(t),
         r.at = "sending" => lock[1] = t,
         RecordOK(r, t, running', now)
  PROVE  QueueOK' /\ FeedOK' /\ \A u \in Tasks : TaskOK(u)'
<1>1. /\ task' \in [Tasks -> TaskRecords] /\ task'[t] = r
      /\ \A u \in Tasks : u # t => task'[u] = task[u]
  BY TaskUpdated DEF OrderOK
<1>2. \A u \in Tasks : Queued(u)' <=> Queued(u) BY <1>1 DEF Queued
<1>3. QueueOK' BY <1>1, <1>2 DEF OrderOK, QueueOK
<1>4. FeedOK' BY DEF OrderOK, FeedOK
<1>5. TaskOK(t)' BY <1>1 DEF TaskOK, RecordOK
<1>6. ASSUME NEW u \in Tasks, u # t PROVE TaskOK(u)'
  <2>1. TaskOK(u) /\ task'[u] = task[u] BY <1>1, <1>6 DEF OrderOK
  <2> QED BY <1>6, <2>1, SchedulerConstants DEF TaskOK, RecordOK
<1> QED BY <1>3, <1>4, <1>5, <1>6

LEMMA TickControl == ASSUME OrderOK, Tick PROVE OrderOK'
<1> USE DEF OrderOK
<1>1. now' \in 0 .. MaxTime /\ now' = now + 1 /\ now \in Nat
  BY SchedulerConstants DEF Tick, Types
<1>2. Types' BY <1>1 DEF Tick, Types, feedVars, historyVars, memoryVars, taskVars, boundVars
<1>3. QueueOK' BY DEF Tick, QueueOK, Queued, taskVars
<1>4. FeedOK' BY DEF Tick, FeedOK, feedVars
<1>5. ASSUME NEW t \in Tasks PROVE TaskOK(t)'
  <2>1. task[t].started \in Nat BY SchedulerConstants DEF Types, TaskRecords
  <2> QED BY <1>1, <2>1 DEF Tick, TaskOK, RecordOK, taskVars
<1> QED BY <1>2, <1>3, <1>4, <1>5

LEMMA FeedControl ==
  ASSUME OrderOK, NEW w \in Warnings,
         Issue(w) \/ (\E how \in {"early", "ranOut"} : End(w, how))
  PROVE  OrderOK'
<1> USE DEF OrderOK
<1>1. UNCHANGED <<now, backlog, memoryVars, taskVars, saved, air, innerSave, misled, boundVars>>
  BY DEF Issue, End, historyVars
<1>2. /\ active' \in [Warnings -> 0 .. MaxVersion] /\ over' \in [Warnings -> {"no", "early", "ranOut"}]
      /\ issued' \in [Warnings -> 0 .. MaxVersion]
  <2>1. CASE Issue(w)
    <3>1. active[w] + 1 \in 0 .. MaxVersion BY <2>1, SchedulerConstants DEF Issue, Types
    <3> QED BY <2>1, <3>1 DEF Issue, Types
  <2>2. ASSUME NEW how \in {"early", "ranOut"}, End(w, how) PROVE <1>2!1 /\ <1>2!2
    BY <2>2, SchedulerConstants DEF End, Types
  <2> QED BY <2>1, <2>2
<1>3. Types' BY <1>1, <1>2 DEF Types, memoryVars, taskVars, boundVars
<1>4. FeedOK'
  <2>1. CASE Issue(w) BY <2>1 DEF Issue, FeedOK, Types
  <2>2. ASSUME NEW how \in {"early", "ranOut"}, End(w, how) PROVE FeedOK'
    BY <2>2 DEF End, FeedOK, Types
  <2> QED BY <2>1, <2>2
<1>5. QueueOK' BY <1>1 DEF QueueOK, Queued, taskVars
<1>6. \A t \in Tasks : TaskOK(t)' BY <1>1 DEF TaskOK, RecordOK, taskVars
<1> QED BY <1>3, <1>4, <1>5, <1>6

\* The backlog is in, or failed.
LEMMA BacklogControl == ASSUME OrderOK, BacklogIn \/ BacklogFails PROVE OrderOK'
<1> USE DEF OrderOK
<1>1. /\ backlog' \in {"failed", "in"} /\ events' \in 0 .. MaxEvents
      /\ UNCHANGED <<now, feedVars, memoryVars, taskVars, saved, historyVars>>
  BY SchedulerConstants DEF BacklogIn, BacklogFails, Types, boundVars
<1>2. Types' BY <1>1 DEF Types, feedVars, historyVars, memoryVars, taskVars
<1>3. QueueOK' BY <1>1 DEF QueueOK, Queued, taskVars
<1>4. FeedOK' BY <1>1 DEF FeedOK, feedVars
<1>5. \A t \in Tasks : TaskOK(t)' BY <1>1 DEF TaskOK, RecordOK, taskVars
<1> QED BY <1>2, <1>3, <1>4, <1>5

\* What a tick is when it begins.
LEMMA StartedType ==
  ASSUME Types, NEW hand \in BOOLEAN
  PROVE  /\ Started(hand) \in TaskRecords /\ Started(hand).at = "jobs"
         /\ Started(hand).next = "jobs" /\ Started(hand).batch = {}
         /\ Started(hand).started = now /\ Started(hand).hand = hand
BY SchedulerConstants, IdleType DEF Started, Begin, IdleTask, TaskRecords, Places, Types

LEMMA StartTickControl ==
  ASSUME OrderOK, NEW t \in Tasks, StartTick(t) \/ TickNow(t) PROVE OrderOK'
<1>1. PICK r \in TaskRecords :
        /\ r.at = "jobs" /\ r.next = "jobs" /\ r.batch = {} /\ r.started = now
        /\ task' = [task EXCEPT ![t] = r]
  BY StartedType DEF StartTick, TickNow, OrderOK
<1>2. /\ task[t].at = "idle" /\ running = NoTask /\ running' = t
      /\ UNCHANGED <<now, feedVars, backlog, memoryVars, lock, saved, historyVars>>
      /\ events' = events \/ (events < MaxEvents /\ events' = events + 1)
  BY DEF StartTick, TickNow, boundVars
<1>2a. events' \in 0 .. MaxEvents BY <1>2, SchedulerConstants DEF OrderOK, Types
<1>3. now \in Nat BY SchedulerConstants DEF OrderOK, Types
<1>4. Types' BY <1>1, <1>2, <1>2a, TaskUpdated DEF OrderOK, Types, feedVars, historyVars, memoryVars
<1>5. RecordOK(r, t, running', now)
  BY <1>1, <1>2, <1>3, SchedulerConstants, BatchesAreBounded DEF RecordOK
<1>6. QueueOK' /\ FeedOK' /\ \A u \in Tasks : TaskOK(u)'
  BY <1>1, <1>2, <1>5, TaskStep DEF Queued, feedVars
<1> QED BY <1>4, <1>6 DEF OrderOK

\* A step that ends with a job built, by a task that was at nothing else.
LEMMA BuildControl ==
  ASSUME OrderOK, NEW t \in Tasks, NEW me \in TaskRecords, me.batch = {},
         me.next \in {"jobs", "closing"}, me.started <= now, ~Queued(t),
         running \in {NoTask, t}, running' = t,
         NEW j \in Jobs, NEW why \in {"due", "cancelled", "now"}, Build(t, me, j, why),
         digestDueAt' \in {NoTime} \cup Nat, events' \in 0 .. MaxEvents,
         UNCHANGED <<now, feedVars, backlog, nextSeq, schedSent, lock, saved, air, innerSave>>
  PROVE  OrderOK'
<1>0. Types BY DEF OrderOK
<1>1. /\ told' \in [Warnings -> Told] /\ lastRun' \in [Jobs -> Times] /\ holdUntil' \in Nat
      /\ misled' \subseteq Warnings
      /\ \E r \in TaskRecords : Built(r, me, why) /\ task' = [task EXCEPT ![t] = r]
  BY <1>0, BuildTypes
<1>2. PICK r \in TaskRecords : Built(r, me, why) /\ task' = [task EXCEPT ![t] = r]
  BY <1>1
<1>3. Types' BY <1>1, <1>2, TaskUpdated DEF OrderOK, Types, feedVars
<1>4. RecordOK(r, t, running', now)
  BY <1>2, SchedulerConstants, BatchesAreBounded DEF RecordOK, Built
<1>5. ~(r.at \in {"waiting", "sending"}) BY <1>2 DEF Built
<1>6. QueueOK' /\ FeedOK' /\ \A u \in Tasks : TaskOK(u)'
  BY <1>2, <1>4, <1>5, TaskStep DEF feedVars
<1> QED BY <1>3, <1>6 DEF OrderOK

LEMMA RunJobControl == ASSUME OrderOK, NEW t \in Tasks, RunJob(t) PROVE OrderOK'
<1> DEFINE j == Head(task[t].todo)
           me == [task[t] EXCEPT !.todo = Tail(task[t].todo)]
<1>1. /\ running = t /\ task[t].at = "jobs" /\ task[t].todo # <<>>
      /\ \/ Due(j, me.started) /\ Build(t, me, j, "due")
         \/ ~Due(j, me.started) /\ task' = [task EXCEPT ![t] = me]
            /\ UNCHANGED <<told, lastRun, holdUntil, misled>>
      /\ UNCHANGED <<now, feedVars, backlog, nextSeq, digestDueAt, schedSent, lock, running, saved, air,
                     innerSave, boundVars>>
  BY DEF RunJob
<1>2. task[t] \in TaskRecords /\ TaskOK(t) BY DEF OrderOK, Types
<1>3. task[t].todo \in Seq(Jobs) BY <1>2 DEF TaskRecords
<1>4. j \in Jobs /\ Tail(task[t].todo) \in Seq(Jobs) BY <1>1, <1>3
<1>5. /\ me \in TaskRecords /\ me.batch = {} /\ me.at = "jobs" /\ me.started <= now
  BY <1>1, <1>2, <1>4 DEF TaskRecords, TaskOK, RecordOK
<1>6. task[t].next = "jobs" BY <1>1, <1>2 DEF TaskOK, RecordOK
<1>7. digestDueAt' \in {NoTime} \cup Nat /\ events' \in 0 .. MaxEvents
  BY <1>1 DEF OrderOK, Types, boundVars
<1>8. CASE Build(t, me, j, "due")
  <2> HIDE DEF me, j
  <2>1. me.next = "jobs" BY <1>6 DEF me
  <2>2. ~Queued(t) BY <1>1 DEF Queued
  <2> QED BY <1>1, <1>4, <1>5, <1>7, <1>8, <2>1, <2>2, BuildControl
<1>9. CASE task' = [task EXCEPT ![t] = me] /\ UNCHANGED <<told, lastRun, holdUntil, misled>>
  <2>1. me.next = "jobs" BY <1>6
  <2> HIDE DEF me, j
  <2>2. Types' BY <1>1, <1>5, <1>9, TaskUpdated DEF OrderOK, Types, feedVars, historyVars, boundVars
  <2>3. QueueOK' /\ FeedOK' /\ \A u \in Tasks : TaskOK(u)'
    BY <1>1, <1>5, <1>9, <2>1, TaskStep, BatchesAreBounded DEF Queued, feedVars, RecordOK
  <2> QED BY <2>2, <2>3 DEF OrderOK
<1> QED BY <1>1, <1>8, <1>9

LEMMA EndJobsControl == ASSUME OrderOK, NEW t \in Tasks, EndJobs(t) PROVE OrderOK'
<1> DEFINE me == [task[t] EXCEPT !.next = "closing", !.started = 0, !.cancelSent = FALSE]
           due == IF task[t].cancelSent THEN now + DigestAfterCancel ELSE digestDueAt
           idle == [me EXCEPT !.at = "closing"]
<1>1. /\ running = t /\ task[t].at = "jobs"
      /\ \/ digestDueAt' = NoTime /\ Build(t, me, "digest", "cancelled")
         \/ /\ digestDueAt' = due
            /\ task' = [task EXCEPT ![t] = idle]
            /\ UNCHANGED <<told, lastRun, holdUntil, misled>>
      /\ UNCHANGED <<now, feedVars, backlog, nextSeq, schedSent, lock, running, saved, air, innerSave,
                     boundVars>>
  BY DEF EndJobs
<1>2. task[t] \in TaskRecords /\ TaskOK(t) /\ now \in Nat BY SchedulerConstants DEF OrderOK, Types
<1>3. /\ me \in TaskRecords /\ me.batch = {} /\ me.started = 0 /\ me.next = "closing"
      /\ idle \in TaskRecords /\ idle.batch = {} /\ idle.started = 0 /\ idle.at = "closing"
  <2>1. task[t].batch = {} BY <1>1, <1>2 DEF TaskOK, RecordOK
  <2>2. me \in TaskRecords /\ me.batch = {} /\ me.started = 0 /\ me.next = "closing"
    <3>1. 0 \in 0 .. MaxTime BY SchedulerConstants
    <3>2. task[t] \in TaskRecords BY <1>2
    <3> QED BY <2>1, <3>1, <3>2 DEF TaskRecords
  <2>3. PICK m \in TaskRecords : m = me BY <2>2
  <2>4. idle = [m EXCEPT !.at = "closing"] BY <2>3
  <2> HIDE DEF me, idle
  <2>5. idle \in TaskRecords /\ idle.batch = {} /\ idle.started = 0 /\ idle.at = "closing"
    BY <2>2, <2>3, <2>4 DEF TaskRecords, Places
  <2> QED BY <2>2, <2>5
<1>4. due \in {NoTime} \cup Nat BY <1>2, SchedulerConstants DEF OrderOK, Types
<1>5. ~Queued(t) /\ events' \in 0 .. MaxEvents BY <1>1 DEF Queued, OrderOK, Types, boundVars
<1> HIDE DEF me, idle, due
<1>6. CASE digestDueAt' = NoTime /\ Build(t, me, "digest", "cancelled")
  <2>1. "digest" \in Jobs BY DEF Jobs
  <2> QED BY <1>1, <1>2, <1>3, <1>5, <1>6, <2>1, BuildControl
<1>7. CASE digestDueAt' = due /\ task' = [task EXCEPT ![t] = idle]
           /\ UNCHANGED <<told, lastRun, holdUntil, misled>>
  <2>1. Types'
    BY <1>1, <1>3, <1>4, <1>7, TaskUpdated DEF OrderOK, Types, feedVars, historyVars, boundVars
  <2>2. RecordOK(idle, t, running', now) BY <1>1, <1>2, <1>3, BatchesAreBounded DEF RecordOK
  <2>3. ~(idle.at \in {"waiting", "sending"}) BY <1>3
  <2>4. QueueOK' /\ FeedOK' /\ \A u \in Tasks : TaskOK(u)'
    BY <1>1, <1>3, <1>5, <1>7, <2>2, <2>3, TaskStep DEF feedVars
  <2> QED BY <2>1, <2>4 DEF OrderOK
<1> QED BY <1>1, <1>6, <1>7

LEMMA BeginType ==
  ASSUME NEW at \in Places, NEW next \in {"idle", "jobs", "closing"}
  PROVE  /\ Begin(at, next) \in TaskRecords /\ Begin(at, next).at = at
         /\ Begin(at, next).next = next /\ Begin(at, next).batch = {}
         /\ Begin(at, next).started = 0
BY IdleType DEF Begin, IdleTask, TaskRecords

\* And a run by hand.
LEMMA HandType ==
  ASSUME NEW me, me = [Begin("closing", "closing") EXCEPT !.hand = TRUE]
  PROVE  /\ me \in TaskRecords /\ me.next = "closing" /\ me.batch = {} /\ me.started = 0
         /\ me.hand = TRUE
<1>1. PICK b \in TaskRecords : /\ b = Begin("closing", "closing")
                               /\ b.next = "closing" /\ b.batch = {} /\ b.started = 0
  BY BeginType DEF Places
<1>2. me = [b EXCEPT !.hand = TRUE] BY <1>1
<1> QED BY <1>1, <1>2 DEF TaskRecords

LEMMA RunNowControl ==
  ASSUME OrderOK, NEW t \in Tasks, NEW j \in Jobs, RunNow(t, j) PROVE OrderOK'
<1> DEFINE me == [Begin("closing", "closing") EXCEPT !.hand = TRUE]
<1>1. /\ me \in TaskRecords /\ me.next = "closing" /\ me.batch = {} /\ me.started = 0
      /\ me.hand = TRUE
  BY HandType
<1> HIDE DEF me
<1>2. /\ running = NoTask /\ task[t].at = "idle" /\ events < MaxEvents
      /\ events' = events + 1 /\ running' = t /\ Build(t, me, j, "now")
      /\ UNCHANGED <<now, feedVars, backlog, nextSeq, digestDueAt, schedSent, lock, saved, air, innerSave>>
  BY DEF RunNow, me
<1>3. events' \in 0 .. MaxEvents BY <1>2, SchedulerConstants DEF OrderOK, Types
<1>4. now \in Nat /\ digestDueAt' \in {NoTime} \cup Nat
  BY <1>2, SchedulerConstants DEF OrderOK, Types
<1>5. ~Queued(t) BY <1>2 DEF Queued
<1> QED BY <1>1, <1>2, <1>3, <1>4, <1>5, BuildControl

LEMMA CloseControl == ASSUME OrderOK, NEW t \in Tasks, Close(t) PROVE OrderOK'
<1>1. /\ running = t /\ task[t].at = "closing" /\ Save(nextSeq) /\ innerSave' \in BOOLEAN
      /\ task' = [task EXCEPT ![t] = IdleTask] /\ running' = NoTask
      /\ UNCHANGED <<now, feedVars, backlog, memoryVars, lock, air, misled, boundVars>>
  BY DEF Close, historyVars, InBatch, OrderOK, Types
<1>2. saved' \in Files BY <1>1 DEF Save, Files, OrderOK, Types
<1>3. now \in Nat BY SchedulerConstants DEF OrderOK, Types
<1>4. Types'
  BY <1>1, <1>2, IdleType, TaskUpdated DEF OrderOK, Types, feedVars, historyVars, memoryVars, boundVars
<1>5. RecordOK(IdleTask, t, running', now)
  BY <1>1, <1>3, IdleType, SchedulerConstants, BatchesAreBounded DEF RecordOK
<1>6. QueueOK' /\ FeedOK' /\ \A u \in Tasks : TaskOK(u)'
  BY <1>1, <1>5, IdleType, TaskStep DEF Queued, feedVars
<1> QED BY <1>4, <1>6 DEF OrderOK

LEMMA AnswerControl == ASSUME OrderOK, NEW t \in Tasks, Answer(t) PROVE OrderOK'
<1>1. PICK batch \in AnswerBatches :
        task' = [task EXCEPT ![t] = [Begin("holding", "idle") EXCEPT
                                      !.batch = batch, !.why = "answer", !.answer = events']]
  BY DEF Answer
<1> DEFINE r == [Begin("holding", "idle") EXCEPT
                   !.batch = batch, !.why = "answer", !.answer = events']
<1>2. /\ running = NoTask /\ task[t].at = "idle" /\ events < MaxEvents /\ events' = events + 1
      /\ UNCHANGED <<now, feedVars, backlog, memoryVars, lock, running, saved, historyVars>>
  BY DEF Answer
<1>3. events' \in 0 .. MaxEvents BY <1>2, SchedulerConstants DEF OrderOK, Types
<1>4. batch \in SUBSET Messages /\ batch # {} /\ Bounded(batch)
  <2>1. Types BY DEF OrderOK
  <2>2. CASE batch = {StartingUp} BY <2>2, BatchesAreBounded DEF Messages
  <2>3. ASSUME NEW held \in Stores, batch \in AnswersFrom(held)
        PROVE  batch \in SUBSET Messages /\ batch # {} /\ Bounded(batch)
    <3>1. CASE \E w \in Listed(held) : batch = {WarningMessage(w, held)}
      BY <2>1, <3>1, MessageTypes, BatchesAreBounded DEF Listed
    <3>2. CASE batch = {DigestMessage(held)} BY <2>1, <3>2, MessageTypes, BatchesAreBounded
    <3>3. CASE batch = PartMessages /\ batch # {} BY <2>1, <3>3, MessageTypes, BatchesAreBounded
    <3> QED BY <2>3, <3>1, <3>2, <3>3 DEF AnswersFrom
  <2> QED BY <2>2, <2>3 DEF AnswerBatches
<1>5. Begin("holding", "idle") \in TaskRecords /\ Begin("holding", "idle").at = "holding"
      /\ Begin("holding", "idle").next = "idle" /\ Begin("holding", "idle").started = 0
  BY BeginType DEF Places
<1>6. r \in TaskRecords /\ r.at = "holding" /\ r.batch # {} /\ r.why = "answer" /\ r.started = 0
      /\ Bounded(r.batch)
  BY <1>3, <1>4, <1>5 DEF TaskRecords, Whys
<1>7. now \in Nat /\ task' = [task EXCEPT ![t] = r]
  BY <1>1, SchedulerConstants DEF OrderOK, Types
<1> HIDE DEF r
<1>8. Types'
  BY <1>2, <1>3, <1>6, <1>7, TaskUpdated DEF OrderOK, Types, feedVars, historyVars, memoryVars
<1>9. RecordOK(r, t, running', now) BY <1>2, <1>6, <1>7, SchedulerConstants DEF RecordOK
<1>10. QueueOK' /\ FeedOK' /\ \A u \in Tasks : TaskOK(u)'
  BY <1>2, <1>6, <1>7, <1>9, TaskStep DEF Queued, feedVars
<1> QED BY <1>8, <1>10 DEF OrderOK

LEMMA AnswerMayGoControl == ASSUME OrderOK, NEW t \in Tasks, AnswerMayGo(t) PROVE OrderOK'
<1> DEFINE r == [task[t] EXCEPT !.at = "joining"]
<1>1. /\ running = NoTask /\ task[t].at = "holding" /\ task' = [task EXCEPT ![t] = r]
      /\ running' = t
      /\ UNCHANGED <<now, feedVars, backlog, memoryVars, lock, saved, air, innerSave, misled, boundVars>>
  BY DEF AnswerMayGo, historyVars
<1>2. task[t] \in TaskRecords /\ TaskOK(t) BY DEF OrderOK, Types
<1>3. /\ r \in TaskRecords /\ r.at = "joining" /\ r.batch # {} /\ r.why # "none"
      /\ r.started <= now /\ Bounded(r.batch)
  BY <1>1, <1>2 DEF TaskRecords, TaskOK, RecordOK, Places
<1> HIDE DEF r
<1>4. Types' BY <1>1, <1>3, TaskUpdated DEF OrderOK, Types, feedVars, historyVars, memoryVars, boundVars
<1>5. RecordOK(r, t, running', now) BY <1>1, <1>3 DEF RecordOK
<1>6. QueueOK' /\ FeedOK' /\ \A u \in Tasks : TaskOK(u)'
  BY <1>1, <1>3, <1>5, TaskStep DEF Queued, feedVars
<1> QED BY <1>4, <1>6 DEF OrderOK

LEMMA QueueFacts ==
  ASSUME OrderOK
  PROVE  /\ \A t \in Tasks : Queued(t) => Len(lock) \in Nat \ {0} /\ lock # <<>>
         /\ \A t \in Tasks : task[t].at = "sending" => lock # <<>> /\ Head(lock) = t
         /\ lock # <<>> => Head(lock) \in Tasks /\ Queued(Head(lock)) /\ Head(lock) = lock[1]
BY DEF OrderOK, Types, QueueOK, Queued

LEMMA JoinControl == ASSUME OrderOK, NEW t \in Tasks, Join(t) PROVE OrderOK'
<1> DEFINE r == [task[t] EXCEPT !.at = "waiting"]
<1>1. /\ running = t /\ task[t].at = "joining" /\ task' = [task EXCEPT ![t] = r]
      /\ lock' = Append(lock, t) /\ running' \in {t, NoTask}
      /\ UNCHANGED <<now, feedVars, backlog, memoryVars, saved, air, innerSave, misled, boundVars>>
  BY DEF Join, historyVars
<1>2. task[t] \in TaskRecords /\ TaskOK(t) /\ lock \in Seq(Tasks) BY DEF OrderOK, Types
<1>3. /\ r \in TaskRecords /\ r.at = "waiting" /\ r.batch # {} /\ r.why # "none"
      /\ r.started <= now /\ Bounded(r.batch)
  BY <1>1, <1>2 DEF TaskRecords, TaskOK, RecordOK, Places
<1> HIDE DEF r
<1>4. Types'
  BY <1>1, <1>2, <1>3, TaskUpdated DEF OrderOK, Types, feedVars, historyVars, memoryVars, boundVars
<1>5. /\ task'[t] = r /\ \A u \in Tasks : u # t => task'[u] = task[u]
  BY <1>1, <1>3, TaskUpdated DEF OrderOK
<1>6. QueueOK'
  <2>1. /\ Len(lock') = Len(lock) + 1 /\ lock'[Len(lock) + 1] = t /\ Len(lock) \in Nat
        /\ \A i \in 1 .. Len(lock) : lock'[i] = lock[i]
    BY <1>1, <1>2
  <2>2. \A i \in 1 .. Len(lock) : lock[i] # t BY <1>1 DEF OrderOK, QueueOK, Queued
  <2>3. \A i, j \in 1 .. Len(lock') : lock'[i] = lock'[j] => i = j
    <3>1. \A i \in 1 .. Len(lock') : i = Len(lock) + 1 \/ i \in 1 .. Len(lock) BY <2>1
    <3> QED BY <2>1, <2>2, <3>1 DEF OrderOK, QueueOK
  <2>4. ASSUME NEW u \in Tasks PROVE Queued(u)' <=> \E i \in 1 .. Len(lock') : lock'[i] = u
    <3>1. CASE u = t
      <4>1. Len(lock) + 1 \in 1 .. Len(lock') BY <2>1
      <4> QED BY <1>3, <1>5, <2>1, <3>1, <4>1 DEF Queued
    <3>2. CASE u # t
      <4>1. Queued(u)' <=> Queued(u) BY <1>5, <3>2 DEF Queued
      <4>2. \A i \in 1 .. Len(lock') : lock'[i] = u <=> i \in 1 .. Len(lock) /\ lock[i] = u
        BY <2>1, <3>2
      <4>3. 1 .. Len(lock) \subseteq 1 .. Len(lock') BY <2>1
      <4> QED BY <4>1, <4>2, <4>3 DEF OrderOK, QueueOK
    <3> QED BY <3>1, <3>2
  <2>5. ASSUME NEW u \in Tasks, task'[u].at = "sending" PROVE lock'[1] = u
    <3>1. u # t /\ task[u].at = "sending" BY <1>3, <1>5, <2>5
    <3>2. lock[1] = u /\ 1 \in 1 .. Len(lock) BY <3>1, QueueFacts DEF OrderOK, QueueOK, Queued
    <3> QED BY <2>1, <3>2
  <2> QED BY <2>3, <2>4, <2>5 DEF QueueOK
<1>7. FeedOK' BY <1>1 DEF OrderOK, FeedOK, feedVars
<1>8. ASSUME NEW u \in Tasks PROVE TaskOK(u)'
  <2>1. CASE u = t BY <1>1, <1>3, <1>5, <2>1 DEF TaskOK, RecordOK
  <2>2. CASE u # t BY <1>1, <1>5, <2>2, SchedulerConstants DEF OrderOK, TaskOK, RecordOK
  <2> QED BY <2>1, <2>2
<1> QED BY <1>4, <1>6, <1>7, <1>8 DEF OrderOK

LEMMA BeginBatchControl == ASSUME OrderOK, NEW t \in Tasks, BeginBatch(t) PROVE OrderOK'
<1> DEFINE r == [task[t] EXCEPT !.at = "sending"]
<1>1. /\ task[t].at = "waiting" /\ Head(lock) = t /\ running \in {NoTask, t} /\ Save(SavedSeq)
      /\ task' = [task EXCEPT ![t] = r] /\ running' = NoTask
      /\ UNCHANGED <<now, feedVars, backlog, memoryVars, lock, air, innerSave, misled, boundVars>>
  BY DEF BeginBatch, historyVars
<1>2. task[t] \in TaskRecords /\ TaskOK(t) /\ Queued(t)
  BY <1>1 DEF OrderOK, Types, Queued
<1>3. /\ r \in TaskRecords /\ r.at = "sending" /\ r.why # "none" /\ r.started <= now /\ Bounded(r.batch)
  BY <1>1, <1>2 DEF TaskRecords, TaskOK, RecordOK, Places
<1> HIDE DEF r
<1>4. SavedSeq \in 0 .. SeqModulus - 1
  <2>1. task[t].batch \in SUBSET Messages BY <1>2 DEF TaskRecords
  <2>2. Cardinality(task[t].batch) \in Nat BY <1>2, FS_CardinalityType DEF TaskOK, RecordOK, Bounded
  <2>3. nextSeq \in Nat /\ SeqModulus \in Nat \ {0} BY SchedulerConstants DEF OrderOK, Types
  <2> HIDE DEF OrderOK
  <2>4. \A k \in Nat : k % SeqModulus \in 0 .. SeqModulus - 1 BY <2>3
  <2>5. nextSeq + Cardinality(task[t].batch) \in Nat BY <2>2, <2>3
  <2> QED BY <1>1, <2>4, <2>5 DEF SavedSeq
<1>5. saved' \in Files BY <1>1, <1>4 DEF Save, Files, OrderOK, Types
<1>6. Types'
  BY <1>1, <1>3, <1>5, TaskUpdated DEF OrderOK, Types, feedVars, historyVars, memoryVars, boundVars
<1>7. RecordOK(r, t, running', now) BY <1>1, <1>3 DEF RecordOK
<1>8. lock[1] = t BY <1>1, <1>2, QueueFacts
<1>9. QueueOK' /\ FeedOK' /\ \A u \in Tasks : TaskOK(u)'
  BY <1>1, <1>2, <1>3, <1>7, <1>8, TaskStep DEF feedVars
<1> QED BY <1>6, <1>9 DEF OrderOK

LEMMA SendControl ==
  ASSUME OrderOK, NEW t \in Tasks, NEW m \in task[t].batch, NEW reply \in Replies, Send(t, m, reply)
  PROVE  OrderOK'
<1> DEFINE left == task[t].batch \ {m}
           took == task[t].sent + (IF reply = "ok" THEN 1 ELSE 0)
           r == [task[t] EXCEPT !.batch = left, !.sent = took]
<1>1. /\ running = NoTask /\ task[t].at = "sending"
      /\ air' = IF reply = "refused" THEN air ELSE Append(air, Packet(t, m))
      /\ events' = (IF reply = "ok" THEN events ELSE events + 1)
      /\ events' <= MaxEvents
      /\ nextSeq' = IF reply = "ok" THEN (nextSeq + 1) % SeqModulus ELSE nextSeq
      /\ task' = [task EXCEPT ![t].batch = left, ![t].sent = took]
      /\ running' \in {t, NoTask}
      /\ UNCHANGED <<now, feedVars, backlog, told, digestDueAt, lastRun, holdUntil, schedSent, lock, saved,
                     innerSave, misled>>
  BY DEF Send
<1>2. task[t] \in TaskRecords /\ TaskOK(t) /\ Queued(t) /\ now \in Nat
  BY <1>1, SchedulerConstants DEF OrderOK, Types, Queued
<1>3. left \in SUBSET Messages /\ took \in Nat BY <1>2 DEF TaskRecords
<1>3a. Bounded(left)
  <2>1. IsFiniteSet(task[t].batch) /\ Cardinality(task[t].batch) <= MaxBatch
    BY <1>2 DEF TaskOK, RecordOK, Bounded
  <2>2. IsFiniteSet(left) /\ Cardinality(left) <= Cardinality(task[t].batch) BY <2>1, FS_Subset
  <2> HIDE DEF left
  <2>3. Cardinality(left) \in Nat /\ Cardinality(task[t].batch) \in Nat
    BY <2>1, <2>2, FS_CardinalityType
  <2> QED BY <2>1, <2>2, <2>3, BatchesAreBounded DEF Bounded
<1>4. task' = [task EXCEPT ![t] = r] BY <1>1, <1>2 DEF OrderOK, Types, TaskRecords
<1> HIDE DEF left, took
<1>5. r \in TaskRecords /\ r.at = "sending" /\ r.why # "none" /\ r.started <= now /\ r.batch = left
  BY <1>1, <1>2, <1>3 DEF TaskRecords, TaskOK, RecordOK
<1> HIDE DEF r
<1>6. Packet(t, m) \in AirPackets
  <2>1. m \in Messages BY <1>2 DEF TaskRecords
  <2>2. task[t].why \in Whys \ {"none"} BY <1>1, <1>2 DEF TaskRecords, TaskOK, RecordOK
  <2>3. task[t].answer \in 0 .. MaxEvents BY <1>2 DEF TaskRecords
  <2> QED BY <2>1, <2>2, <2>3 DEF Packet, AirPackets, OrderOK, Types
<1>7. air' \in Seq(AirPackets)
  <2>1. air \in Seq(AirPackets) BY DEF OrderOK, Types
  <2>2. Append(air, Packet(t, m)) \in Seq(AirPackets) BY <1>6, <2>1
  <2> QED BY <1>1, <2>1, <2>2
<1>8. nextSeq' \in 0 .. SeqModulus - 1
  <2>1. nextSeq \in 0 .. SeqModulus - 1 /\ SeqModulus \in Nat \ {0}
    BY SchedulerConstants DEF OrderOK, Types
  <2>2. (nextSeq + 1) % SeqModulus \in 0 .. SeqModulus - 1 BY <2>1
  <2> QED BY <1>1, <2>1, <2>2
<1>9. events' \in 0 .. MaxEvents
  <2>1. events \in 0 .. MaxEvents /\ MaxEvents \in Nat BY SchedulerConstants DEF OrderOK, Types
  <2> QED BY <1>1, <2>1
<1>10. Types'
  BY <1>1, <1>4, <1>5, <1>7, <1>8, <1>9, TaskUpdated DEF OrderOK, Types, feedVars, historyVars
<1>11. RecordOK(r, t, running', now) BY <1>1, <1>3a, <1>5 DEF RecordOK
<1>12. lock[1] = t BY <1>1 DEF OrderOK, QueueOK
<1>13. QueueOK' /\ FeedOK' /\ \A u \in Tasks : TaskOK(u)'
  BY <1>1, <1>2, <1>4, <1>5, <1>11, <1>12, TaskStep DEF feedVars
<1> QED BY <1>10, <1>13 DEF OrderOK

LEMMA EndBatchControl == ASSUME OrderOK, NEW t \in Tasks, EndBatch(t) PROVE OrderOK'
<1> DEFINE on == [task[t] EXCEPT !.at = task[t].next, !.sent = 0, !.why = "none"]
           r == IF task[t].next = "idle" THEN IdleTask ELSE on
<1>1. /\ running = t /\ task[t].at = "sending" /\ task[t].batch = {} /\ Save(nextSeq)
      /\ lock' = Tail(lock)
      /\ schedSent' = IF Scheduled(task[t].why)
                      THEN schedSent \o [i \in 1 .. task[t].sent |-> now] ELSE schedSent
      /\ task' = [task EXCEPT ![t] = r]
      /\ running' = IF task[t].next = "idle" THEN NoTask ELSE t
      /\ UNCHANGED <<now, feedVars, backlog, told, nextSeq, digestDueAt, lastRun, holdUntil, air, innerSave,
                     misled, boundVars>>
  BY DEF EndBatch, historyVars
<1>2. /\ task[t] \in TaskRecords /\ TaskOK(t) /\ now \in 0 .. MaxTime /\ MaxTime \in Nat
      /\ lock \in Seq(Tasks) /\ lock # <<>> /\ lock[1] = t
  BY <1>1, QueueFacts, SchedulerConstants DEF OrderOK, Types, QueueOK
<1>3. /\ r \in TaskRecords /\ r.batch = {} /\ r.started <= now
      /\ r.at = task[t].next /\ (r.at # "idle" => r.next = task[t].next)
  <2>1. /\ on \in TaskRecords /\ on.batch = {} /\ on.started = task[t].started
        /\ on.at = task[t].next /\ on.next = task[t].next
    BY <1>1, <1>2 DEF TaskRecords, Places, Whys
  <2>2. task[t].started <= now BY <1>2 DEF TaskOK, RecordOK
  <2> HIDE DEF on
  <2> QED BY <1>2, <2>1, <2>2, IdleType
<1>4. task[t].next \in {"idle", "jobs", "closing"} BY <1>2 DEF TaskRecords
<1> HIDE DEF r, on
<1>5. schedSent' \in Seq(0 .. MaxTime)
  <2>1. task[t].sent \in Nat BY <1>2 DEF TaskRecords
  <2>2. [i \in 1 .. task[t].sent |-> now] \in Seq(0 .. MaxTime) BY <1>2, <2>1
  <2>3. schedSent \in Seq(0 .. MaxTime) BY DEF OrderOK, Types
  <2>4. schedSent \o [i \in 1 .. task[t].sent |-> now] \in Seq(0 .. MaxTime) BY <2>2, <2>3
  <2> QED BY <1>1, <2>3, <2>4
<1>6. saved' \in Files BY <1>1 DEF Save, Files, OrderOK, Types
<1>7. lock' \in Seq(Tasks) BY <1>1, <1>2
<1>8. running' \in Tasks \cup {NoTask} BY <1>1
<1>9. Types'
  BY <1>1, <1>3, <1>5, <1>6, <1>7, <1>8, TaskUpdated
    DEF OrderOK, Types, feedVars, historyVars, boundVars
<1>10. /\ task'[t] = r /\ \A u \in Tasks : u # t => task'[u] = task[u]
  BY <1>1, <1>3, TaskUpdated DEF OrderOK
<1>11. QueueOK'
  <2>1. /\ Len(lock') = Len(lock) - 1 /\ Len(lock) \in Nat \ {0}
        /\ \A i \in 1 .. Len(lock') : lock'[i] = lock[i + 1] /\ i + 1 \in 1 .. Len(lock)
    BY <1>1, <1>2
  <2>2. \A i, j \in 1 .. Len(lock') : lock'[i] = lock'[j] => i = j
    BY <2>1 DEF OrderOK, QueueOK
  <2>3. ASSUME NEW u \in Tasks PROVE Queued(u)' <=> \E i \in 1 .. Len(lock') : lock'[i] = u
    <3>1. CASE u = t
      <4>1. ~Queued(u)' BY <1>3, <1>4, <1>10, <3>1 DEF Queued
      <4>2. \A i \in 1 .. Len(lock') : lock'[i] # t BY <1>2, <2>1 DEF OrderOK, QueueOK
      <4> QED BY <3>1, <4>1, <4>2
    <3>2. CASE u # t
      <4>1. Queued(u)' <=> Queued(u) BY <1>10, <3>2 DEF Queued
      <4>2. ASSUME NEW i \in 1 .. Len(lock), lock[i] = u
            PROVE  i - 1 \in 1 .. Len(lock') /\ lock'[i - 1] = u
        BY <1>2, <2>1, <3>2, <4>2
      <4> QED BY <2>1, <4>1, <4>2 DEF OrderOK, QueueOK
    <3> QED BY <3>1, <3>2
  <2>4. ASSUME NEW u \in Tasks, task'[u].at = "sending" PROVE lock'[1] = u
    <3>1. u # t /\ task[u].at = "sending" BY <1>3, <1>4, <1>10, <2>4
    <3> QED BY <1>2, <3>1 DEF OrderOK, QueueOK
  <2> QED BY <2>2, <2>3, <2>4 DEF QueueOK
<1>12. FeedOK' BY <1>1 DEF OrderOK, FeedOK, feedVars
<1>13. ASSUME NEW u \in Tasks PROVE TaskOK(u)'
  <2>1. CASE u = t
    BY ZenonT(40), <1>1, <1>3, <1>4, <1>10, <2>1, SchedulerConstants, BatchesAreBounded
      DEF TaskOK, RecordOK
  <2>2. CASE u # t BY <1>1, <1>10, <2>2, SchedulerConstants DEF OrderOK, TaskOK, RecordOK
  <2> QED BY <2>1, <2>2
<1> QED BY <1>9, <1>11, <1>12, <1>13 DEF OrderOK

\* The end of a sequence is one of the same things.
LEMMA FromIsSeq ==
  ASSUME NEW S, NEW s \in Seq(S), NEW k \in Nat PROVE SubSeq(s, k + 1, Len(s)) \in Seq(S)
<1>1. Len(s) \in Nat /\ \A i \in 1 .. Len(s) : s[i] \in S OBVIOUS
<1>2. \A i \in k + 1 .. Len(s) : i \in 1 .. Len(s) BY <1>1
<1> QED BY <1>1, <1>2, SubSeqProperties

\* What a new process has, whatever was killed.
LEMMA LoadControl ==
  ASSUME OrderOK, NEW file \in Files, Load(file), saved' \in Files, innerSave' \in BOOLEAN,
         air' \in Seq(AirPackets), UNCHANGED <<now, feedVars, misled, events>>
  PROVE  OrderOK' /\ \A t \in Tasks : task'[t] = IdleTask
<1>1. /\ backlog' = "loading"
      /\ told' = [w \in Warnings |-> IF over[w] = "ranOut" THEN Untold ELSE file.told[w]]
      /\ nextSeq' = file.nextSeq /\ lastRun' = file.lastRun
      /\ schedSent' = SubSeq(file.schedSent, Cardinality(Past(file.schedSent)) + 1,
                             Len(file.schedSent))
      /\ digestDueAt' = NoTime
      /\ holdUntil' \in {IF at > now THEN at ELSE 0 : at \in now .. now + Jitter}
      /\ task' = [t \in Tasks |-> IdleTask] /\ lock' = <<>> /\ running' = NoTask
  BY DEF Load
<1>2. told' \in [Warnings -> Told]
  <2>1. Untold \in Told BY SchedulerConstants DEF Untold, Told
  <2> QED BY <1>1, <2>1 DEF Files
<1>3. schedSent' \in Seq(0 .. MaxTime)
  <2> DEFINE times == file.schedSent
             n == Len(times)
             past == Cardinality(Past(times))
  <2>1. times \in Seq(0 .. MaxTime) BY DEF Files
  <2>2. n \in Nat /\ 1 \in Int BY <2>1
  <2>3. IsFiniteSet(1 .. n) BY <2>2, FS_Interval
  <2>4. past \in Nat
    <3>1. Past(times) \subseteq 1 .. n BY DEF Past
    <3> QED BY <2>3, <3>1, FS_Subset, FS_CardinalityType
  <2> HIDE DEF times, n, past
  <2>5. SubSeq(times, past + 1, Len(times)) \in Seq(0 .. MaxTime) BY <2>1, <2>4, FromIsSeq
  <2> QED BY <1>1, <2>5 DEF times, n, past
<1>4. holdUntil' \in Nat /\ now \in Nat
  <2>1. now \in Nat /\ Jitter \in Nat BY SchedulerConstants DEF OrderOK, Types
  <2> QED BY <1>1, <2>1
<1>5. task' \in [Tasks -> TaskRecords] /\ \A t \in Tasks : task'[t] = IdleTask BY <1>1, IdleType
<1>6. nextSeq' \in 0 .. SeqModulus - 1 /\ lastRun' \in [Jobs -> Times] BY <1>1 DEF Files
<1>7. lock' \in Seq(Tasks) /\ Len(lock') = 0 /\ digestDueAt' \in {NoTime} \cup Nat
      /\ running' \in Tasks \cup {NoTask}
  BY <1>1
<1>8. Types' BY <1>1, <1>2, <1>3, <1>4, <1>5, <1>6, <1>7 DEF OrderOK, Types, feedVars
<1>9. QueueOK'
  <2>1. \A t \in Tasks : ~Queued(t)' /\ task'[t].at # "sending" BY <1>5, IdleType DEF Queued
  <2>2. \A i : i \notin 1 .. Len(lock') BY <1>7
  <2> QED BY <2>1, <2>2 DEF QueueOK
<1>10. FeedOK' BY DEF OrderOK, FeedOK, feedVars
<1>11. ASSUME NEW t \in Tasks PROVE TaskOK(t)'
  <2>1. RecordOK(IdleTask, t, NoTask, now)
    BY <1>4, IdleType, BatchesAreBounded, SchedulerConstants DEF RecordOK
  <2> QED BY <1>1, <1>5, <2>1 DEF TaskOK
<1> QED BY <1>5, <1>8, <1>9, <1>10, <1>11 DEF OrderOK

LEMMA KillControl ==
  ASSUME OrderOK, Kill PROVE OrderOK' /\ \A t \in Tasks : task'[t] = IdleTask
<1>1. Load(saved) /\ UNCHANGED <<now, feedVars, saved, air, innerSave, misled, events>>
  BY DEF Kill, historyVars
<1>2. saved \in Files /\ innerSave \in BOOLEAN /\ air \in Seq(AirPackets) BY DEF OrderOK, Types
<1> QED BY <1>1, <1>2, LoadControl

\* The packet of a task that sends.
LEMMA SendingPacket ==
  ASSUME OrderOK, NEW t \in Tasks, task[t].at = "sending", NEW m \in task[t].batch
  PROVE  Packet(t, m) \in AirPackets
<1>1. task[t] \in TaskRecords /\ TaskOK(t) BY DEF OrderOK, Types
<1>2. m \in Messages /\ task[t].answer \in 0 .. MaxEvents BY <1>1 DEF TaskRecords
<1>3. task[t].why \in Whys \ {"none"} BY <1>1 DEF TaskRecords, TaskOK, RecordOK
<1> QED BY <1>2, <1>3 DEF Packet, AirPackets, OrderOK, Types

\* The packet that is perhaps with the radio when the tasks are cancelled.
LEMMA InFlight ==
  ASSUME OrderOK, InBatch, NEW m \in NextOf(task[Head(lock)].batch)
  PROVE  Packet(Head(lock), m) \in AirPackets
<1>1. PICK t \in Tasks : t = Head(lock) /\ task[t].at = "sending" BY QueueFacts DEF InBatch
<1>2. m \in task[t].batch BY <1>1 DEF NextOf
<1> QED BY <1>1, <1>2, SendingPacket

LEMMA StopControl ==
  ASSUME OrderOK, Stop
  PROVE  OrderOK' /\ saved' \in Files /\ \A t \in Tasks : task'[t] = IdleTask
<1>1. /\ Save(nextSeq) /\ innerSave' \in BOOLEAN /\ Load(saved')
      /\ UNCHANGED <<now, feedVars, misled, events>>
  BY DEF Stop, InBatch, OrderOK, Types
<1>2. saved' \in Files BY <1>1 DEF Save, Files, OrderOK, Types
<1>3. air' \in Seq(AirPackets)
  <2>1. air \in Seq(AirPackets) BY DEF OrderOK, Types
  <2>2. \/ air' = air
        \/ InBatch /\ \E m \in NextOf(task[Head(lock)].batch) : air' = Append(air, Packet(Head(lock), m))
    BY DEF Stop
  <2>3. ASSUME InBatch, NEW m \in NextOf(task[Head(lock)].batch),
               air' = Append(air, Packet(Head(lock), m))
        PROVE  air' \in Seq(AirPackets)
    BY <2>1, <2>3, InFlight
  <2> QED BY <2>1, <2>2, <2>3
<1> QED BY <1>1, <1>2, <1>3, LoadControl

LEMMA StepControl == ASSUME OrderOK, NEW t \in Tasks, Step(t) PROVE OrderOK'
BY RunJobControl, EndJobsControl, CloseControl, AnswerMayGoControl, JoinControl, BeginBatchControl,
   EndBatchControl, SendControl
   DEF Step

LEMMA OrderKept == ASSUME OrderOK, [Next]_vars PROVE OrderOK'
<1>1. CASE UNCHANGED vars
  <2>1. UNCHANGED <<now, active, over, issued, backlog, told, nextSeq, digestDueAt, lastRun, holdUntil,
                    schedSent, task, lock, running, saved, air, innerSave, misled, restarts, events>>
    BY <1>1 DEF vars, feedVars, historyVars, memoryVars, taskVars, boundVars
  <2>2. Types' BY <2>1 DEF OrderOK, Types
  <2>3. QueueOK' BY <2>1 DEF OrderOK, QueueOK, Queued
  <2>4. FeedOK' BY <2>1 DEF OrderOK, FeedOK
  <2>5. \A t \in Tasks : TaskOK(t)' BY <2>1 DEF OrderOK, TaskOK
  <2> QED BY <2>2, <2>3, <2>4, <2>5 DEF OrderOK
<1>2. ASSUME NEW t \in Tickers, StartTick(t) PROVE OrderOK'
  BY <1>2, StartTickControl DEF Tasks
<1>3. ASSUME NEW t \in Portals, TickNow(t) \/ \E j \in Jobs : RunNow(t, j) PROVE OrderOK'
  BY <1>3, StartTickControl, RunNowControl DEF Tasks
<1>4. ASSUME NEW t \in Askers, Answer(t) PROVE OrderOK'
  BY <1>4, AnswerControl DEF Tasks
<1> QED BY <1>1, <1>2, <1>3, <1>4, TickControl, BacklogControl, KillControl, StopControl, FeedControl,
           StepControl
        DEF Next

\* Who runs the jobs of a tick the schedule began goes on in a ready store: it was
\* ready when the tick began, and only a restart, which ends the tick, undoes it.
LEMMA BuiltGate ==
  ASSUME ControlOK, NEW t \in Tasks, NEW me \in TaskRecords, me.batch = {},
         me.next = "jobs" /\ ~me.hand => StoreReady,
         NEW j \in Jobs, NEW why \in {"due", "cancelled", "now"}, Build(t, me, j, why),
         backlog' = backlog
  PROVE  GateOK'
<1>1. PICK r \in TaskRecords : Built(r, me, why) /\ task' = [task EXCEPT ![t] = r]
  BY BuildTypes DEF ControlOK, OrderOK
<1>2. task'[t] = r /\ \A u \in Tasks : u # t => task'[u] = task[u]
  BY <1>1, TaskUpdated DEF ControlOK, OrderOK
<1>3. r.next = me.next /\ r.hand = me.hand BY <1>1 DEF Built
<1> QED BY <1>2, <1>3 DEF ControlOK, GateOK, StoreReady

\* A step of one task that keeps where it goes on, or gives up its tick.
LEMMA MovedGate ==
  ASSUME ControlOK, NEW t \in Tasks, task'[t].next # "jobs" \/
           (task'[t].next = task[t].next /\ task'[t].hand = task[t].hand),
         \A u \in Tasks : u # t => task'[u] = task[u], backlog' = backlog
  PROVE  GateOK'
BY DEF ControlOK, GateOK, StoreReady

LEMMA StepGate == ASSUME ControlOK, NEW t \in Tasks, Step(t) PROVE GateOK'
<1>0. task \in [Tasks -> TaskRecords] /\ task[t] \in TaskRecords /\ TaskOK(t)
  BY DEF ControlOK, OrderOK, Types
<1>1. CASE RunJob(t)
  <2> DEFINE me == [task[t] EXCEPT !.todo = Tail(task[t].todo)]
  <2>1. /\ task[t].at = "jobs" /\ task[t].todo # <<>> /\ backlog' = backlog
        /\ Build(t, me, Head(task[t].todo), "due") \/ task' = [task EXCEPT ![t] = me]
    BY <1>1 DEF RunJob
  <2>2. task[t].todo \in Seq(Jobs) /\ task[t].batch = {} BY <1>0, <2>1 DEF TaskRecords, TaskOK, RecordOK
  <2>3. Head(task[t].todo) \in Jobs /\ Tail(task[t].todo) \in Seq(Jobs) BY <2>1, <2>2
  <2>4. me \in TaskRecords /\ me.batch = {} /\ me.next = task[t].next /\ me.hand = task[t].hand
    BY <1>0, <2>2, <2>3 DEF TaskRecords
  <2> HIDE DEF me
  <2>5. CASE Build(t, me, Head(task[t].todo), "due")
    <3>1. me.next = "jobs" /\ ~me.hand => StoreReady BY <2>4 DEF ControlOK, GateOK
    <3> QED BY <2>1, <2>3, <2>4, <2>5, <3>1, BuiltGate
  <2>6. CASE task' = [task EXCEPT ![t] = me]
    <3>1. task'[t] = me /\ \A u \in Tasks : u # t => task'[u] = task[u] BY <1>0, <2>6
    <3> QED BY <2>1, <2>4, <3>1, MovedGate
  <2> QED BY <2>1, <2>5, <2>6
<1>2. CASE EndJobs(t)
  <2> DEFINE me == [task[t] EXCEPT !.next = "closing", !.started = 0, !.cancelSent = FALSE]
             idle == [me EXCEPT !.at = "closing"]
  <2>1. /\ task[t].at = "jobs" /\ backlog' = backlog
        /\ Build(t, me, "digest", "cancelled") \/ task' = [task EXCEPT ![t] = idle]
    BY <1>2 DEF EndJobs
  <2>2. task[t].batch = {} BY <1>0, <2>1 DEF TaskOK, RecordOK
  <2>3. me \in TaskRecords /\ me.batch = {} /\ me.next = "closing"
    <3>1. 0 \in 0 .. MaxTime BY SchedulerConstants
    <3>2. task[t] \in TaskRecords BY <1>0
    <3> QED BY <2>2, <3>1, <3>2 DEF TaskRecords
  <2>4. idle.next = "closing" BY <1>0 DEF TaskRecords
  <2> HIDE DEF me, idle
  <2>5. CASE Build(t, me, "digest", "cancelled")
    BY <2>1, <2>3, <2>5, BuiltGate DEF Jobs
  <2>6. CASE task' = [task EXCEPT ![t] = idle]
    <3>1. task'[t] = idle /\ \A u \in Tasks : u # t => task'[u] = task[u] BY <1>0, <2>6
    <3> QED BY <2>1, <2>4, <3>1, MovedGate
  <2> QED BY <2>1, <2>5, <2>6
<1>3. CASE Close(t)
  <2>1. task'[t] = IdleTask /\ \A u \in Tasks : u # t => task'[u] = task[u]
    BY <1>0, <1>3 DEF Close
  <2> QED BY <1>3, <2>1, IdleType, MovedGate DEF Close
<1>4. CASE AnswerMayGo(t) \/ Join(t) \/ BeginBatch(t)
  <2>1. PICK at : task' = [task EXCEPT ![t].at = at] BY <1>4 DEF AnswerMayGo, Join, BeginBatch
  <2>2. /\ task'[t].next = task[t].next /\ task'[t].hand = task[t].hand
        /\ \A u \in Tasks : u # t => task'[u] = task[u]
    BY <1>0, <2>1 DEF TaskRecords
  <2>3. backlog' = backlog BY <1>4 DEF AnswerMayGo, Join, BeginBatch
  <2> QED BY <2>2, <2>3, MovedGate
<1>5. ASSUME NEW m \in task[t].batch, NEW reply \in Replies, Send(t, m, reply) PROVE GateOK'
  <2>1. PICK left, took : task' = [task EXCEPT ![t].batch = left, ![t].sent = took]
    BY <1>5 DEF Send
  <2>2. /\ task'[t].next = task[t].next /\ task'[t].hand = task[t].hand
        /\ \A u \in Tasks : u # t => task'[u] = task[u]
    BY <1>0, <2>1 DEF TaskRecords
  <2> QED BY <1>5, <2>2, MovedGate DEF Send
<1>6. CASE EndBatch(t)
  <2> DEFINE on == [task[t] EXCEPT !.at = task[t].next, !.sent = 0, !.why = "none"]
  <2>1. on.next = task[t].next /\ on.hand = task[t].hand BY <1>0 DEF TaskRecords
  <2> HIDE DEF on
  <2>2. /\ task'[t] = IF task[t].next = "idle" THEN IdleTask ELSE on
        /\ \A u \in Tasks : u # t => task'[u] = task[u] /\ backlog' = backlog
    BY <1>0, <1>6 DEF EndBatch, on
  <2>3. task'[t].next # "jobs" \/ (task'[t].next = task[t].next /\ task'[t].hand = task[t].hand)
    BY <2>1, <2>2, IdleType
  <2>4. backlog' = backlog BY <1>6 DEF EndBatch
  <2> QED BY <2>2, <2>3, <2>4, MovedGate
<1> QED BY <1>1, <1>2, <1>3, <1>4, <1>5, <1>6 DEF Step

LEMMA GateKept == ASSUME ControlOK, [Next]_vars PROVE GateOK'
<1>0. task \in [Tasks -> TaskRecords] /\ Types BY DEF ControlOK, OrderOK, Types
<1>1. CASE UNCHANGED <<task, backlog>> BY <1>1 DEF ControlOK, GateOK, StoreReady
<1>2. CASE UNCHANGED vars BY <1>1, <1>2 DEF vars, taskVars
<1>3. CASE Tick BY <1>1, <1>3 DEF Tick, taskVars
<1>4. CASE BacklogIn \/ BacklogFails
  BY <1>4 DEF BacklogIn, BacklogFails, taskVars, ControlOK, GateOK, StoreReady
<1>5. ASSUME NEW w \in Warnings, Issue(w) \/ (\E how \in {"early", "ranOut"} : End(w, how))
      PROVE  GateOK'
  BY <1>1, <1>5 DEF Issue, End, taskVars
<1>6. CASE Kill \/ Stop BY <1>6, KillControl, StopControl, IdleType DEF ControlOK, GateOK
<1>7. ASSUME NEW t \in Tickers, StartTick(t) PROVE GateOK'
  <2>1. t \in Tasks BY DEF Tasks
  <2>2. StoreReady /\ backlog' = backlog /\ task' = [task EXCEPT ![t] = Started(FALSE)]
    BY <1>7 DEF StartTick
  <2>3. StoreReady' BY <2>2 DEF StoreReady
  <2> QED BY <2>3 DEF GateOK
<1>8. ASSUME NEW t \in Portals, TickNow(t) PROVE GateOK'
  <2>1. t \in Tasks BY DEF Tasks
  <2>2. backlog' = backlog /\ task' = [task EXCEPT ![t] = Started(TRUE)] BY <1>8 DEF TickNow
  <2>3. task'[t] = Started(TRUE) /\ \A u \in Tasks : u # t => task'[u] = task[u]
    BY <1>0, <2>1, <2>2
  <2>4. task'[t].hand = TRUE BY <1>0, <2>3, StartedType
  <2> QED BY <2>2, <2>3, <2>4 DEF ControlOK, GateOK, StoreReady
<1>9. ASSUME NEW t \in Portals, NEW j \in Jobs, RunNow(t, j) PROVE GateOK'
  <2> DEFINE me == [Begin("closing", "closing") EXCEPT !.hand = TRUE]
  <2>1. t \in Tasks BY DEF Tasks
  <2>2. me \in TaskRecords /\ me.next = "closing" /\ me.batch = {}
    BY HandType
  <2> HIDE DEF me
  <2>3. Build(t, me, j, "now") /\ backlog' = backlog BY <1>9 DEF RunNow, me
  <2> QED BY <2>1, <2>2, <2>3, BuiltGate
<1>10. ASSUME NEW t \in Askers, Answer(t) PROVE GateOK'
  <2>1. t \in Tasks BY DEF Tasks
  <2>2. PICK batch \in AnswerBatches :
          task' = [task EXCEPT ![t] = [Begin("holding", "idle") EXCEPT
                                        !.batch = batch, !.why = "answer", !.answer = events']]
    BY <1>10 DEF Answer
  <2>3. task'[t].next = "idle" /\ \A u \in Tasks : u # t => task'[u] = task[u]
    BY <1>0, <2>1, <2>2, BeginType DEF Places, TaskRecords
  <2>4. backlog' = backlog BY <1>10 DEF Answer
  <2> QED BY <2>1, <2>3, <2>4, MovedGate
<1>11. ASSUME NEW t \in Tasks, Step(t) PROVE GateOK' BY <1>11, StepGate
<1> QED BY <1>2, <1>3, <1>4, <1>5, <1>6, <1>7, <1>8, <1>9, <1>10, <1>11 DEF Next

LEMMA ControlKept == ASSUME ControlOK, [Next]_vars PROVE ControlOK'
BY OrderKept, GateKept DEF ControlOK

LEMMA InitControl == ASSUME Init PROVE ControlOK
<1>1. /\ now = 0 /\ active = [w \in Warnings |-> 0] /\ over = [w \in Warnings |-> "no"]
      /\ issued = active /\ backlog = "loading"
      /\ told = [w \in Warnings |-> Untold] /\ nextSeq = SeqModulus - 1 /\ digestDueAt = NoTime
      /\ lastRun = [j \in Jobs |-> NoTime] /\ holdUntil \in 0 .. Jitter /\ schedSent = <<>>
      /\ task = [t \in Tasks |-> IdleTask] /\ lock = <<>> /\ running = NoTask
      /\ saved = [told |-> told, nextSeq |-> nextSeq, lastRun |-> lastRun, schedSent |-> schedSent]
      /\ air = <<>> /\ innerSave = FALSE /\ misled = {} /\ events = 0
  BY DEF Init
<1>2. told \in [Warnings -> Told] BY <1>1, SchedulerConstants DEF Untold, Told
<1>3. nextSeq \in 0 .. SeqModulus - 1 /\ holdUntil \in Nat BY <1>1, SchedulerConstants
<1>4. lastRun \in [Jobs -> Times] /\ schedSent \in Seq(0 .. MaxTime) BY <1>1 DEF Times
<1>5. saved \in Files BY <1>1, <1>2, <1>3, <1>4 DEF Files
<1>6. task \in [Tasks -> TaskRecords] /\ \A t \in Tasks : task[t] = IdleTask BY <1>1, IdleType
<1>7. Types
  <2>1. active \in [Warnings -> 0 .. MaxVersion] /\ over \in [Warnings -> {"no", "early", "ranOut"}]
    BY <1>1, SchedulerConstants
  <2>2. now \in 0 .. MaxTime /\ events \in 0 .. MaxEvents BY <1>1, SchedulerConstants
  <2>3. lock \in Seq(Tasks) /\ air \in Seq(AirPackets) BY <1>1
  <2> QED BY <1>1, <1>2, <1>3, <1>4, <1>5, <1>6, <2>1, <2>2, <2>3 DEF Types
<1>8. QueueOK
  <2>1. \A t \in Tasks : ~Queued(t) /\ task[t].at # "sending" BY <1>6, IdleType DEF Queued
  <2>2. \A i : i \notin 1 .. Len(lock) BY <1>1
  <2> QED BY <2>1, <2>2 DEF QueueOK
<1>9. FeedOK BY <1>1 DEF FeedOK
<1>10. \A t \in Tasks : TaskOK(t)
  <2>1. \A t \in Tasks : RecordOK(IdleTask, t, NoTask, 0)
    BY IdleType, BatchesAreBounded, SchedulerConstants DEF RecordOK
  <2> QED BY <1>1, <1>6, <2>1 DEF TaskOK
<1>11. GateOK BY <1>6, IdleType DEF GateOK
<1> QED BY <1>7, <1>8, <1>9, <1>10, <1>11 DEF ControlOK, OrderOK

LEMMA ControlAlways == Spec => []ControlOK
<1>1. Init => ControlOK BY InitControl
<1>2. ControlOK /\ [Next]_vars => ControlOK' BY ControlKept
<1> QED BY <1>1, <1>2, PTL DEF Spec

\* Whatever runs beside what, and however often the bot is killed, its variables
\* have their types and the transmit lock is served in order.
THEOREM TypesAreKept == Spec => []TypeOK
<1>1. ControlOK => TypeOK
  <2> SUFFICES ASSUME ControlOK PROVE TypeOK
    OBVIOUS
  <2>1. ASSUME NEW t \in Tasks
        PROVE  Cardinality({i \in 1 .. Len(lock) : lock[i] = t})
               = IF task[t].at \in {"waiting", "sending"} THEN 1 ELSE 0
    <3> DEFINE mine == {i \in 1 .. Len(lock) : lock[i] = t}
    <3>1. CASE Queued(t)
      <4>1. PICK i \in 1 .. Len(lock) : lock[i] = t BY <3>1 DEF ControlOK, OrderOK, QueueOK
      <4>2. mine = {i} BY <4>1 DEF ControlOK, OrderOK, QueueOK
      <4>3. Cardinality(mine) = 1 BY <4>2, FS_Singleton
      <4> QED BY <3>1, <4>3 DEF Queued
    <3>2. CASE ~Queued(t)
      <4>1. mine = {} BY <3>2 DEF ControlOK, OrderOK, QueueOK
      <4>2. Cardinality(mine) = 0 BY <4>1, FS_EmptySet
      <4> QED BY <3>2, <4>2 DEF Queued
    <3> QED BY <3>1, <3>2
  <2>2. \A t \in Tasks : task[t].at = "sending" => Head(lock) = t BY QueueFacts DEF ControlOK
  <2> QED BY <2>1, <2>2
          DEF ControlOK, OrderOK, Types, TypeOK, TaskRecords, Places, Whys, Files, AirPackets
<1> QED BY <1>1, ControlAlways, PTL
-----------------------------------------------------------------------------
(* What a step does to what is said *)

Sending(t) == task[t].at = "sending"

\* What the schedule says in a task's hands, and in a packet on the air.
Say(t) == IF Scheduled(task[t].why) THEN task[t].batch ELSE {}
Out(i) == IF Scheduled(air[i].why) THEN {air[i].message} ELSE {}

Before(queue, u, t) == \E i, j \in 1 .. Len(queue) : i < j /\ queue[i] = u /\ queue[j] = t

\* A warning that is not over was not, and its versions only grow.
Onward ==
  /\ now <= now'
  /\ \A w \in Warnings : over'[w] = "no" => over[w] = "no" /\ active[w] <= active'[w]

\* A task's record says nothing new for the schedule.
Lowers(old, new) ==
  \/ new.batch = {}
  \/ new.why = "answer" /\ \A m \in new.batch : m.type # "cancel"
  \/ new.why = old.why /\ new.batch \subseteq old.batch

\* Who has something to say after another still does.
Orderly ==
  \A t, u \in Tasks :
    /\ Say(t)' # {} /\ Say(u)' # {} /\ t # u
    /\ task[t].at = "joining" \/ Before(lock, u, t)
    => task'[t].at = "joining" \/ Before(lock', u, t)

\* No step of these kinds does anything else to what is said and remembered.
Quiet ==
  /\ UNCHANGED <<told, lastRun, air, misled>>
  /\ \A t \in Tasks : Lowers(task[t], task'[t])
  /\ Orderly
  /\ \/ saved' = saved /\ \A t \in Tasks : Sending(t)' => Sending(t)
     \/ saved'.told = told /\ saved'.lastRun = lastRun

Speaks(t, m) ==
  /\ UNCHANGED <<told, lastRun, saved, lock, misled>>
  /\ Sending(t) /\ m \in task[t].batch /\ air' = Append(air, Packet(t, m))
  /\ task'[t].at = "sending" /\ task'[t].why = task[t].why /\ task'[t].batch = task[t].batch \ {m}
  /\ \A u \in Tasks : u # t => task'[u] = task[u]

\* A task in nobody's way has built a batch, and is about to join the queue.  The
\* warnings of which it says something wrong are among the misled.
Builds(t, why, batch) ==
  /\ UNCHANGED <<saved, lock, air, now, active, over, issued, backlog>>
  /\ task[t].batch = {} /\ ~Sending(t) /\ running' = t
  /\ task'[t].at \in {"jobs", "closing", "joining"} /\ task'[t].batch = batch
  /\ batch # {} => task'[t].at = "joining" /\ task'[t].why = why
  /\ \A u \in Tasks : u # t => task'[u] = task[u]
BuildsWarnings(t, why) ==
  /\ UNCHANGED lastRun["digest"]
  /\ \E held \in Stores : \E chosen \in Allowed(held) :
       /\ told' = ToldAfter(chosen, held) /\ Builds(t, why, WarningsBatch(chosen, held))
       /\ misled \subseteq misled' /\ \A w \in chosen : held[w] = active[w] \/ w \in misled'
BuildsDigest(t, why) ==
  /\ UNCHANGED <<told, misled>>
  /\ lastRun'["digest"] = now
  /\ \E held \in Stores : Builds(t, why, {DigestMessage(held)})
  /\ why = "due" /\ lastRun["digest"] # NoTime => now - lastRun["digest"] >= Interval["digest"]

\* A restart, after the file was written once more and a packet perhaps sent.
Restarts ==
  /\ UNCHANGED <<now, active, over, issued, misled>>
  /\ told' = [w \in Warnings |-> IF over[w] = "ranOut" THEN Untold ELSE saved'.told[w]]
  /\ lastRun' = saved'.lastRun
  /\ \A t \in Tasks : task'[t] = IdleTask
  /\ \/ UNCHANGED <<saved, air>>
     \/ /\ saved'.told = told /\ saved'.lastRun = lastRun
        /\ \/ UNCHANGED air
           \/ /\ InBatch
              /\ \E m \in task[Head(lock)].batch : air' = Append(air, Packet(Head(lock), m))

Whyfore == {"due", "cancelled", "now"}

SomeKind ==
  \/ Quiet \/ Restarts
  \/ \E t \in Tasks : \/ \E m \in task[t].batch : Speaks(t, m)
                      \/ \E why \in Whyfore : BuildsWarnings(t, why) \/ BuildsDigest(t, why)

\* Steps that leave the tasks alone.
LEMMA TasksAlone ==
  ASSUME UNCHANGED <<told, lastRun, air, misled, saved, task, lock>> PROVE Quiet
<1>1. \A t \in Tasks : Lowers(task[t], task'[t]) BY DEF Lowers
<1>2. Orderly BY DEF Orderly, Say
<1>3. \A t \in Tasks : Sending(t)' => Sending(t) BY DEF Sending
<1> QED BY <1>1, <1>2, <1>3 DEF Quiet

\* Steps of one task that keeps its place in the queue.
LEMMA OneTask ==
  ASSUME ControlOK, NEW t \in Tasks, NEW r \in TaskRecords, task' = [task EXCEPT ![t] = r],
         UNCHANGED <<told, lastRun, air, misled, lock>>, Lowers(task[t], r),
         task[t].at = "joining" => r.at = "joining",
         \/ saved' = saved /\ (r.at = "sending" => Sending(t))
         \/ saved'.told = told /\ saved'.lastRun = lastRun
  PROVE  Quiet
<1>1. /\ task'[t] = r /\ \A u \in Tasks : u # t => task'[u] = task[u]
  BY TaskUpdated DEF ControlOK, OrderOK
<1>2. \A u \in Tasks : Lowers(task[u], task'[u])
  <2>1. \A u \in Tasks : Lowers(task[u], task[u]) BY DEF Lowers
  <2> QED BY <1>1, <2>1
<1>3. Orderly BY <1>1 DEF Orderly
<1>4. \/ saved' = saved /\ \A u \in Tasks : Sending(u)' => Sending(u)
      \/ saved'.told = told /\ saved'.lastRun = lastRun
  BY <1>1 DEF Sending
<1> QED BY <1>2, <1>3, <1>4 DEF Quiet

LEMMA CloseKind == ASSUME ControlOK, NEW t \in Tasks, Close(t) PROVE Quiet
<1>1. Lowers(task[t], IdleTask) BY IdleType DEF Lowers
<1>2. /\ task[t].at = "closing" /\ saved'.told = told /\ saved'.lastRun = lastRun
      /\ task' = [task EXCEPT ![t] = IdleTask]
      /\ UNCHANGED <<told, lastRun, air, misled, lock>>
  BY DEF Close, Save, memoryVars, historyVars
<1> QED BY <1>1, <1>2, IdleType, OneTask

LEMMA StartTickKind == ASSUME ControlOK, NEW t \in Tasks, StartTick(t) \/ TickNow(t) PROVE Quiet
<1>1. PICK r \in TaskRecords : r.at = "jobs" /\ r.batch = {} /\ task' = [task EXCEPT ![t] = r]
  BY StartedType DEF StartTick, TickNow, ControlOK, OrderOK
<1>2. task[t].at = "idle" /\ UNCHANGED <<told, lastRun, air, misled, lock, saved>>
  BY DEF StartTick, TickNow, memoryVars, historyVars
<1>3. Lowers(task[t], r) BY <1>1 DEF Lowers
<1> QED BY <1>1, <1>2, <1>3, OneTask

LEMMA AnswerKind == ASSUME ControlOK, NEW t \in Tasks, Answer(t) PROVE Quiet
<1>1. PICK batch \in AnswerBatches :
        task' = [task EXCEPT ![t] = [Begin("holding", "idle") EXCEPT
                                      !.batch = batch, !.why = "answer", !.answer = events']]
  BY DEF Answer
<1> DEFINE r == [Begin("holding", "idle") EXCEPT
                   !.batch = batch, !.why = "answer", !.answer = events']
<1>2. OrderOK' BY AnswerControl DEF ControlOK
<1>3. task[t].at = "idle" /\ UNCHANGED <<told, lastRun, air, misled, lock, saved>>
  BY DEF Answer, memoryVars, historyVars
<1>4. r.why = "answer" /\ r.at = "holding" /\ r.batch = batch BY BeginType DEF Places, TaskRecords
<1>5. \A m \in batch : m.type # "cancel"
  <2>1. CASE batch = {StartingUp}
    <3>1. StartingUp.type = "starting up" BY DEF StartingUp
    <3> QED BY <2>1, <3>1
  <2>2. ASSUME NEW held \in Stores, batch \in AnswersFrom(held) PROVE \A m \in batch : m.type # "cancel"
    BY <2>2 DEF AnswersFrom, WarningMessage, DigestMessage, PartMessages
  <2> QED BY <2>1, <2>2 DEF AnswerBatches
<1>6. task' = [task EXCEPT ![t] = r] BY <1>1
<1> HIDE DEF r
<1>7. task'[t] = r /\ r \in TaskRecords BY <1>2, <1>6 DEF ControlOK, OrderOK, Types
<1>8. Lowers(task[t], r) BY <1>4, <1>5 DEF Lowers
<1> QED BY <1>3, <1>4, <1>6, <1>7, <1>8, OneTask

LEMMA AnswerMayGoKind == ASSUME ControlOK, NEW t \in Tasks, AnswerMayGo(t) PROVE Quiet
<1> DEFINE r == [task[t] EXCEPT !.at = "joining"]
<1>1. /\ task' = [task EXCEPT ![t] = r] /\ task[t].at = "holding"
      /\ UNCHANGED <<told, lastRun, air, misled, lock, saved>>
  BY DEF AnswerMayGo, memoryVars, historyVars
<1>2. task[t] \in TaskRecords BY DEF ControlOK, OrderOK, Types
<1>3. r \in TaskRecords /\ r.at = "joining" /\ r.why = task[t].why /\ r.batch = task[t].batch
  BY <1>2 DEF TaskRecords, Places
<1> HIDE DEF r
<1>4. Lowers(task[t], r) BY <1>3 DEF Lowers
<1> QED BY <1>1, <1>3, <1>4, OneTask

LEMMA BeginBatchKind == ASSUME ControlOK, NEW t \in Tasks, BeginBatch(t) PROVE Quiet
<1> DEFINE r == [task[t] EXCEPT !.at = "sending"]
<1>1. /\ task' = [task EXCEPT ![t] = r] /\ task[t].at = "waiting"
      /\ saved'.told = told /\ saved'.lastRun = lastRun
      /\ UNCHANGED <<told, lastRun, air, misled, lock>>
  BY DEF BeginBatch, Save, memoryVars, historyVars
<1>2. task[t] \in TaskRecords BY DEF ControlOK, OrderOK, Types
<1>3. r \in TaskRecords /\ r.at = "sending" /\ r.why = task[t].why /\ r.batch = task[t].batch
  BY <1>2 DEF TaskRecords, Places
<1> HIDE DEF r
<1>4. Lowers(task[t], r) BY <1>3 DEF Lowers
<1> QED BY <1>1, <1>3, <1>4, OneTask

\* The tail of the queue comes after everyone in it.
LEMMA JoinKind == ASSUME ControlOK, NEW t \in Tasks, Join(t) PROVE Quiet
<1> DEFINE r == [task[t] EXCEPT !.at = "waiting"]
<1>1. /\ running = t /\ task[t].at = "joining" /\ task' = [task EXCEPT ![t] = r]
      /\ lock' = Append(lock, t) /\ UNCHANGED <<told, lastRun, air, misled, saved>>
  BY DEF Join, memoryVars, historyVars
<1>2. task[t] \in TaskRecords /\ lock \in Seq(Tasks) BY DEF ControlOK, OrderOK, Types
<1>3. r \in TaskRecords /\ r.at = "waiting" /\ r.why = task[t].why /\ r.batch = task[t].batch
  BY <1>2 DEF TaskRecords, Places
<1> HIDE DEF r
<1>4. task'[t] = r /\ \A u \in Tasks : u # t => task'[u] = task[u]
  BY <1>1, <1>3, TaskUpdated DEF ControlOK, OrderOK
<1>5. \A u \in Tasks : Lowers(task[u], task'[u]) BY <1>3, <1>4 DEF Lowers
<1>6. \A u \in Tasks : Sending(u)' => Sending(u) BY <1>3, <1>4 DEF Sending
<1>7. /\ Len(lock) \in Nat /\ Len(lock') = Len(lock) + 1 /\ lock'[Len(lock) + 1] = t
      /\ \A i \in 1 .. Len(lock) : lock'[i] = lock[i]
  BY <1>1, <1>2
<1>8. ASSUME NEW a \in Tasks, NEW u \in Tasks, Say(a)' # {}, Say(u)' # {}, a # u,
             task[a].at = "joining" \/ Before(lock, u, a)
      PROVE  Before(lock', u, a)
  <2>1. CASE Before(lock, u, a)
    <3>1. PICK i, j \in 1 .. Len(lock) : i < j /\ lock[i] = u /\ lock[j] = a
      BY <2>1 DEF Before
    <3>2. i \in 1 .. Len(lock') /\ j \in 1 .. Len(lock') BY <1>7
    <3> QED BY <1>7, <3>1, <3>2 DEF Before
  <2>2. CASE task[a].at = "joining"
    <3>1. a = t BY <1>1, <2>2, SchedulerConstants DEF ControlOK, OrderOK, TaskOK, RecordOK
    <3>2. task'[u] = task[u] /\ task[u].batch # {} /\ Scheduled(task[u].why)
      BY <1>4, <1>8, <3>1 DEF Say
    <3>3. Queued(u)
      <4>1. task[u].at # "joining" /\ RecordOK(task[u], u, running, now)
        BY <1>1, <1>8, <3>1 DEF ControlOK, OrderOK, TaskOK, RecordOK
      <4>2. task[u].at \in Places BY DEF ControlOK, OrderOK, Types, TaskRecords
      <4> QED BY <3>2, <4>1, <4>2 DEF RecordOK, Queued, Places, Scheduled
    <3>4. PICK i \in 1 .. Len(lock) : lock[i] = u BY <3>3 DEF ControlOK, OrderOK, QueueOK
    <3>5. i \in 1 .. Len(lock') /\ Len(lock) + 1 \in 1 .. Len(lock') /\ i < Len(lock) + 1 BY <1>7
    <3> QED BY <1>7, <3>1, <3>4, <3>5 DEF Before
  <2> QED BY <1>8, <2>1, <2>2
<1>9. Orderly BY <1>8 DEF Orderly
<1> QED BY <1>1, <1>5, <1>6, <1>9 DEF Quiet

\* The head leaves, with nothing more to say.
LEMMA EndBatchKind == ASSUME ControlOK, NEW t \in Tasks, EndBatch(t) PROVE Quiet
<1> DEFINE on == [task[t] EXCEPT !.at = task[t].next, !.sent = 0, !.why = "none"]
           r == IF task[t].next = "idle" THEN IdleTask ELSE on
<1>1. /\ task[t].at = "sending" /\ task[t].batch = {} /\ lock' = Tail(lock)
      /\ task' = [task EXCEPT ![t] = r] /\ saved'.told = told /\ saved'.lastRun = lastRun
      /\ UNCHANGED <<told, lastRun, air, misled>>
  BY DEF EndBatch, Save, historyVars
<1>2. task[t] \in TaskRecords /\ lock \in Seq(Tasks) /\ lock # <<>> /\ lock[1] = t
  BY <1>1, QueueFacts DEF ControlOK, OrderOK, Types, QueueOK
<1>3. r \in TaskRecords /\ r.batch = {}
  <2>1. on \in TaskRecords /\ on.batch = {} BY <1>1, <1>2 DEF TaskRecords, Places, Whys
  <2> HIDE DEF on
  <2> QED BY <2>1, IdleType
<1> HIDE DEF r, on
<1>4. task'[t] = r /\ \A u \in Tasks : u # t => task'[u] = task[u]
  BY <1>1, <1>3, TaskUpdated DEF ControlOK, OrderOK
<1>5. \A u \in Tasks : Lowers(task[u], task'[u]) BY <1>3, <1>4 DEF Lowers
<1>6. /\ Len(lock') = Len(lock) - 1 /\ Len(lock) \in Nat
      /\ \A i \in 1 .. Len(lock') : lock'[i] = lock[i + 1]
  BY <1>1, <1>2
<1>7. ASSUME NEW a \in Tasks, NEW u \in Tasks, Say(a)' # {}, Say(u)' # {}, a # u,
             task[a].at = "joining" \/ Before(lock, u, a)
      PROVE  task'[a].at = "joining" \/ Before(lock', u, a)
  <2>1. a # t /\ u # t BY <1>3, <1>4, <1>7 DEF Say
  <2>2. CASE task[a].at = "joining" BY <1>4, <2>1, <2>2
  <2>3. CASE Before(lock, u, a)
    <3>1. PICK i, j \in 1 .. Len(lock) : i < j /\ lock[i] = u /\ lock[j] = a
      BY <2>3 DEF Before
    <3>2. i # 1 /\ j # 1 BY <1>2, <2>1, <3>1
    <3>3. i - 1 \in 1 .. Len(lock') /\ j - 1 \in 1 .. Len(lock') /\ i - 1 < j - 1
      BY <1>6, <3>1, <3>2
    <3>4. lock'[i - 1] = u /\ lock'[j - 1] = a BY <1>6, <3>1, <3>3
    <3> QED BY <3>3, <3>4 DEF Before
  <2> QED BY <1>7, <2>2, <2>3
<1>8. Orderly BY <1>7 DEF Orderly
<1> QED BY <1>1, <1>5, <1>8 DEF Quiet

LEMMA SendKind ==
  ASSUME ControlOK, NEW t \in Tasks, NEW m \in task[t].batch, NEW reply \in Replies, Send(t, m, reply)
  PROVE  Quiet \/ Speaks(t, m)
<1> DEFINE left == task[t].batch \ {m}
           took == task[t].sent + (IF reply = "ok" THEN 1 ELSE 0)
           r == [task[t] EXCEPT !.batch = left, !.sent = took]
<1>1. /\ task[t].at = "sending"
      /\ air' = IF reply = "refused" THEN air ELSE Append(air, Packet(t, m))
      /\ task' = [task EXCEPT ![t].batch = left, ![t].sent = took]
      /\ UNCHANGED <<told, lastRun, lock, saved, misled>>
  BY DEF Send
<1>2. task[t] \in TaskRecords BY DEF ControlOK, OrderOK, Types
<1>3. left \in SUBSET Messages /\ took \in Nat BY <1>2 DEF TaskRecords
<1>4. task' = [task EXCEPT ![t] = r] BY <1>1, <1>2 DEF ControlOK, OrderOK, Types, TaskRecords
<1>5. r \in TaskRecords /\ r.at = "sending" /\ r.why = task[t].why /\ r.batch = left
  BY <1>1, <1>2, <1>3 DEF TaskRecords
<1> HIDE DEF r, took
<1>6. task'[t] = r /\ \A u \in Tasks : u # t => task'[u] = task[u]
  BY <1>4, <1>5, TaskUpdated DEF ControlOK, OrderOK
<1>7. CASE reply = "refused"
  <2>1. Lowers(task[t], r) BY <1>5 DEF Lowers
  <2> QED BY <1>1, <1>4, <1>5, <1>7, <2>1, OneTask DEF Sending
<1>8. CASE reply # "refused" BY <1>1, <1>5, <1>6, <1>8 DEF Speaks, Sending
<1> QED BY <1>7, <1>8

\* A job built by a task that held nothing.
LEMMA BuildKind ==
  ASSUME ControlOK, NEW t \in Tasks, NEW me \in TaskRecords, me.batch = {}, task[t].batch = {},
         me.next \in {"jobs", "closing"}, ~Sending(t), task[t].at # "joining", running' = t,
         NEW j \in Jobs, NEW why \in Whyfore, Build(t, me, j, why),
         why = "due" => Due(j, me.started) /\ me.started <= now,
         j = "warnings" => me.hand \/ StoreReady,
         UNCHANGED <<saved, lock, air, now, active, over, issued, backlog>>
  PROVE  Quiet \/ BuildsWarnings(t, why) \/ BuildsDigest(t, why)
<1>0. PICK held \in Stores :
        IF j = "warnings" THEN BuildWarnings(t, me, why, held) ELSE BuildDigest(t, me, why, held)
  BY DEF Build
<1>1. CASE j = "warnings"
  <2>1. PICK chosen \in Allowed(held) :
          /\ told' = ToldAfter(chosen, held)
          /\ lastRun' = [lastRun EXCEPT !["warnings"] = now]
          /\ task' = [task EXCEPT ![t] =
               [me EXCEPT !.batch = WarningsBatch(chosen, held), !.why = why,
                          !.at = IF chosen = {} THEN me.next ELSE "joining",
                          !.cancelSent = me.cancelSent \/ \E w \in chosen : IsCancel(w, held)]]
          /\ misled' = IF me.hand \/ backlog = "failed"
                       THEN misled \cup {w \in chosen : held[w] # active[w]} ELSE misled
    BY <1>0, <1>1 DEF BuildWarnings
  <2> DEFINE where == IF chosen = {} THEN me.next ELSE "joining"
             cancels == me.cancelSent \/ \E w \in chosen : IsCancel(w, held)
             r == [me EXCEPT !.batch = WarningsBatch(chosen, held), !.why = why, !.at = where,
                             !.cancelSent = cancels]
  <2>2. Types BY DEF ControlOK, OrderOK
  <2>3. WarningsBatch(chosen, held) = {} <=> chosen = {} BY <2>2, WarningsBatchType
  <2>4. where \in {"jobs", "closing", "joining"} /\ (chosen # {} => where = "joining") OBVIOUS
  <2> HIDE DEF where, cancels
  <2>5. r.at = where /\ r.why = why /\ r.batch = WarningsBatch(chosen, held) BY DEF TaskRecords
  <2>6. task' = [task EXCEPT ![t] = r] BY <2>1 DEF where, cancels
  <2> HIDE DEF r
  <2>7. task'[t] = r /\ \A u \in Tasks : u # t => task'[u] = task[u]
    BY <2>6 DEF ControlOK, OrderOK, Types
  <2>8. lastRun'["digest"] = lastRun["digest"] BY <2>1 DEF ControlOK, OrderOK, Types, Jobs
  <2>9. Builds(t, why, WarningsBatch(chosen, held)) BY <2>3, <2>4, <2>5, <2>7 DEF Builds
  <2>10. misled \subseteq misled' /\ \A w \in chosen : held[w] = active[w] \/ w \in misled'
    <3>1. CASE me.hand \/ backlog = "failed" BY <2>1, <3>1
    <3>2. CASE ~(me.hand \/ backlog = "failed")
      <4>1. backlog = "in" BY <1>1, <2>2, <3>2 DEF StoreReady, Types
      <4>2. held = active BY <4>1 DEF Stores
      <4> QED BY <2>1, <3>2, <4>2
    <3> QED BY <3>1, <3>2
  <2> QED BY <2>1, <2>8, <2>9, <2>10 DEF BuildsWarnings
<1>2. CASE /\ task' = [task EXCEPT ![t] = [me EXCEPT !.at = me.next]]
           /\ UNCHANGED <<told, lastRun, misled>>
  <2> DEFINE r == [me EXCEPT !.at = me.next]
  <2>1. r \in TaskRecords /\ r.batch = {} /\ r.at # "sending" BY DEF TaskRecords, Places
  <2>2. task' = [task EXCEPT ![t] = r] BY <1>2
  <2> HIDE DEF r
  <2>3. Lowers(task[t], r) BY <2>1 DEF Lowers
  <2> QED BY <1>2, <2>1, <2>2, <2>3, OneTask
<1>3. CASE /\ j = "digest"
           /\ task' = [task EXCEPT ![t] = [me EXCEPT !.batch = {DigestMessage(held)}, !.why = why,
                                                    !.at = "joining"]]
           /\ lastRun' = [lastRun EXCEPT !["digest"] = now]
           /\ UNCHANGED <<told, misled>>
  <2> DEFINE r == [me EXCEPT !.batch = {DigestMessage(held)}, !.why = why, !.at = "joining"]
  <2>1. r.at = "joining" /\ r.why = why /\ r.batch = {DigestMessage(held)} BY DEF TaskRecords
  <2>2. task' = [task EXCEPT ![t] = r] BY <1>3
  <2> HIDE DEF r
  <2>3. task'[t] = r /\ \A u \in Tasks : u # t => task'[u] = task[u]
    BY <2>2 DEF ControlOK, OrderOK, Types
  <2>4. lastRun'["digest"] = now BY <1>3 DEF ControlOK, OrderOK, Types, Jobs
  <2>5. Builds(t, why, {DigestMessage(held)}) BY <2>1, <2>3 DEF Builds
  <2>6. why = "due" => (lastRun["digest"] # NoTime => now - lastRun["digest"] >= Interval["digest"])
    <3> SUFFICES ASSUME why = "due", lastRun["digest"] # NoTime
                 PROVE  now - lastRun["digest"] >= Interval["digest"]
      OBVIOUS
    <3>1. me.started - lastRun["digest"] >= Interval["digest"] /\ me.started <= now
      BY <1>3 DEF Due
    <3>2. /\ me.started \in Int /\ now \in Int /\ lastRun["digest"] \in Int
          /\ Interval["digest"] \in Nat
      BY SchedulerConstants DEF ControlOK, OrderOK, Types, Jobs, TaskRecords, Times, NoTime
    <3> QED BY <3>1, <3>2
  <2> QED BY <1>3, <2>4, <2>5, <2>6 DEF BuildsDigest
<1> QED BY <1>0, <1>1, <1>2, <1>3 DEF BuildDigest, Jobs

LEMMA RunJobKind == ASSUME ControlOK, NEW t \in Tasks, RunJob(t) PROVE SomeKind
<1> DEFINE j == Head(task[t].todo)
           me == [task[t] EXCEPT !.todo = Tail(task[t].todo)]
<1>1. /\ running = t /\ task[t].at = "jobs" /\ task[t].todo # <<>>
      /\ \/ Due(j, me.started) /\ Build(t, me, j, "due")
         \/ ~Due(j, me.started) /\ task' = [task EXCEPT ![t] = me]
            /\ UNCHANGED <<told, lastRun, holdUntil, misled>>
      /\ UNCHANGED <<now, active, over, issued, backlog, lock, running, saved, air>>
  BY DEF RunJob, feedVars
<1>2. task[t] \in TaskRecords /\ TaskOK(t) BY DEF ControlOK, OrderOK, Types
<1>3. task[t].todo \in Seq(Jobs) BY <1>2 DEF TaskRecords
<1>4. j \in Jobs /\ Tail(task[t].todo) \in Seq(Jobs) BY <1>1, <1>3
<1>5. /\ me \in TaskRecords /\ me.batch = {} /\ task[t].batch = {} /\ me.at = "jobs"
      /\ me.started <= now /\ me.next = "jobs" /\ me.why = task[t].why
      /\ me.hand = task[t].hand /\ task[t].next = "jobs"
  BY <1>1, <1>2, <1>4 DEF TaskRecords, TaskOK, RecordOK
<1> HIDE DEF me, j
<1>6. CASE Due(j, me.started) /\ Build(t, me, j, "due")
  <2>1. ~Sending(t) /\ task[t].at # "joining" /\ "due" \in Whyfore BY <1>1 DEF Sending, Whyfore
  <2>2. me.hand \/ StoreReady
    <3>1. task[t].next = "jobs" /\ ~task[t].hand => StoreReady BY DEF ControlOK, GateOK
    <3> QED BY <1>5, <3>1
  <2> QED BY <1>1, <1>4, <1>5, <1>6, <2>1, <2>2, BuildKind DEF SomeKind
<1>7. CASE task' = [task EXCEPT ![t] = me] /\ UNCHANGED <<told, lastRun, holdUntil, misled>>
  <2>1. Lowers(task[t], me) BY <1>5 DEF Lowers
  <2> QED BY <1>1, <1>5, <1>7, <2>1, OneTask DEF SomeKind
<1> QED BY <1>1, <1>6, <1>7

LEMMA EndJobsKind == ASSUME ControlOK, NEW t \in Tasks, EndJobs(t) PROVE SomeKind
<1> DEFINE me == [task[t] EXCEPT !.next = "closing", !.started = 0, !.cancelSent = FALSE]
           idle == [me EXCEPT !.at = "closing"]
<1>1. /\ running = t /\ task[t].at = "jobs"
      /\ \/ Build(t, me, "digest", "cancelled")
         \/ task' = [task EXCEPT ![t] = idle] /\ UNCHANGED <<told, lastRun, holdUntil, misled>>
      /\ UNCHANGED <<now, active, over, issued, backlog, lock, running, saved, air>>
  BY DEF EndJobs, feedVars
<1>2. task[t] \in TaskRecords /\ TaskOK(t) BY DEF ControlOK, OrderOK, Types
<1>3. task[t].batch = {} BY <1>1, <1>2 DEF TaskOK, RecordOK
<1>4. me \in TaskRecords /\ me.batch = {} /\ me.next = "closing"
  <2>1. 0 \in 0 .. MaxTime BY SchedulerConstants
  <2>2. task[t] \in TaskRecords BY <1>2
  <2> QED BY <1>3, <2>1, <2>2 DEF TaskRecords
<1>5. idle \in TaskRecords /\ idle.batch = {} /\ idle.at = "closing"
  <2>1. PICK m \in TaskRecords : m = me /\ m.batch = {} BY <1>4
  <2>2. idle = [m EXCEPT !.at = "closing"] BY <2>1
  <2> HIDE DEF me, idle
  <2> QED BY <2>1, <2>2 DEF TaskRecords, Places
<1> HIDE DEF me, idle
<1>6. CASE Build(t, me, "digest", "cancelled")
  <2>1. ~Sending(t) /\ task[t].at # "joining" /\ "cancelled" \in Whyfore /\ "digest" \in Jobs
    BY <1>1 DEF Sending, Whyfore, Jobs
  <2>2. running' = t BY <1>1
  <2> QED BY <1>1, <1>3, <1>4, <1>6, <2>1, <2>2, BuildKind DEF SomeKind
<1>7. CASE task' = [task EXCEPT ![t] = idle] /\ UNCHANGED <<told, lastRun, holdUntil, misled>>
  <2>1. Lowers(task[t], idle) BY <1>5 DEF Lowers
  <2> QED BY <1>1, <1>5, <1>7, <2>1, OneTask DEF SomeKind
<1> QED BY <1>1, <1>6, <1>7

LEMMA RunNowKind ==
  ASSUME ControlOK, NEW t \in Tasks, NEW j \in Jobs, RunNow(t, j) PROVE SomeKind
<1> DEFINE me == [Begin("closing", "closing") EXCEPT !.hand = TRUE]
<1>1. /\ me \in TaskRecords /\ me.next = "closing" /\ me.batch = {} /\ me.started = 0
      /\ me.hand = TRUE
  BY HandType
<1> HIDE DEF me
<1>2. /\ task[t].at = "idle" /\ running' = t /\ Build(t, me, j, "now")
      /\ UNCHANGED <<now, active, over, issued, backlog, lock, saved, air>>
  BY DEF RunNow, me, feedVars
<1>3. task[t].batch = {} BY <1>2 DEF ControlOK, OrderOK, TaskOK, RecordOK
<1>4. ~Sending(t) /\ task[t].at # "joining" /\ "now" \in Whyfore BY <1>2 DEF Sending, Whyfore
<1> QED BY <1>1, <1>2, <1>3, <1>4, BuildKind DEF SomeKind

LEMMA RestartKind == ASSUME ControlOK, Kill \/ Stop PROVE Restarts
<1>1. CASE Kill
  <2>1. UNCHANGED <<now, active, over, issued, misled, saved, air>> /\ Load(saved)
    BY <1>1 DEF Kill, feedVars, historyVars
  <2>2. \A t \in Tasks : task'[t] = IdleTask BY <1>1, KillControl DEF ControlOK
  <2> QED BY <2>1, <2>2 DEF Load, Restarts
<1>2. CASE Stop
  <2>1. /\ UNCHANGED <<now, active, over, issued, misled>> /\ Load(saved')
        /\ saved'.told = told /\ saved'.lastRun = lastRun
    BY <1>2 DEF Stop, Save, feedVars, historyVars
  <2>2. \A t \in Tasks : task'[t] = IdleTask BY <1>2, StopControl DEF ControlOK
  <2>3. \/ UNCHANGED air
        \/ InBatch /\ \E m \in task[Head(lock)].batch : air' = Append(air, Packet(Head(lock), m))
    BY <1>2 DEF Stop, NextOf
  <2> QED BY <2>1, <2>2, <2>3 DEF Load, Restarts
<1> QED BY <1>1, <1>2

\* Whatever happens is of one of these kinds, and the feed and the clock go on.
LEMMA StepKind == ASSUME ControlOK, NEW t \in Tasks, Step(t) PROVE SomeKind
<1>1. ASSUME NEW m \in task[t].batch, NEW reply \in Replies, Send(t, m, reply) PROVE SomeKind
  BY <1>1, SendKind DEF SomeKind
<1>2. CASE RunJob(t) BY <1>2, RunJobKind
<1>3. CASE EndJobs(t) BY <1>3, EndJobsKind
<1>4. CASE Close(t) BY <1>4, CloseKind DEF SomeKind
<1>5. CASE AnswerMayGo(t) BY <1>5, AnswerMayGoKind DEF SomeKind
<1>6. CASE Join(t) BY <1>6, JoinKind DEF SomeKind
<1>7. CASE BeginBatch(t) BY <1>7, BeginBatchKind DEF SomeKind
<1>8. CASE EndBatch(t) BY <1>8, EndBatchKind DEF SomeKind
<1> QED BY <1>1, <1>2, <1>3, <1>4, <1>5, <1>6, <1>7, <1>8 DEF Step

LEMMA EveryKind == ASSUME ControlOK, [Next]_vars PROVE SomeKind
<1>1. CASE UNCHANGED vars
  <2>1. UNCHANGED <<told, lastRun, air, misled, saved, task, lock>>
    BY <1>1 DEF vars, memoryVars, taskVars, historyVars
  <2> QED BY <2>1, TasksAlone DEF SomeKind
<1>2. CASE Tick \/ BacklogIn \/ BacklogFails
  <2>1. UNCHANGED <<told, lastRun, air, misled, saved, task, lock>>
    BY <1>2 DEF Tick, BacklogIn, BacklogFails, memoryVars, taskVars, historyVars
  <2> QED BY <2>1, TasksAlone DEF SomeKind
<1>3. ASSUME NEW w \in Warnings, Issue(w) \/ (\E how \in {"early", "ranOut"} : End(w, how))
      PROVE  SomeKind
  <2>1. UNCHANGED <<told, lastRun, air, misled, saved, task, lock>>
    BY <1>3 DEF Issue, End, memoryVars, taskVars, historyVars
  <2> QED BY <2>1, TasksAlone DEF SomeKind
<1>4. CASE Kill \/ Stop BY <1>4, RestartKind DEF SomeKind
<1>5. ASSUME NEW t \in Tickers, StartTick(t) PROVE SomeKind
  BY <1>5, StartTickKind DEF Tasks, SomeKind
<1>6. ASSUME NEW t \in Portals, TickNow(t) \/ \E j \in Jobs : RunNow(t, j) PROVE SomeKind
  BY <1>6, RunNowKind, StartTickKind DEF Tasks, SomeKind
<1>7. ASSUME NEW t \in Askers, Answer(t) PROVE SomeKind BY <1>7, AnswerKind DEF Tasks, SomeKind
<1>8. ASSUME NEW t \in Tasks, Step(t) PROVE SomeKind BY <1>8, StepKind
<1> QED BY <1>1, <1>2, <1>3, <1>4, <1>5, <1>6, <1>7, <1>8 DEF Next

LEMMA EveryStepIsOnward == ASSUME ControlOK, [Next]_vars PROVE Onward
<1>1. /\ now \in Int /\ active \in [Warnings -> 0 .. MaxVersion]
      /\ over \in [Warnings -> {"no", "early", "ranOut"}]
  BY SchedulerConstants DEF ControlOK, OrderOK, Types
<1>2. \A w \in Warnings : active[w] \in Int BY <1>1, SchedulerConstants
<1>3. CASE UNCHANGED <<now, active, over>> BY <1>1, <1>2, <1>3 DEF Onward
<1>4. CASE Tick BY <1>1, <1>2, <1>4 DEF Tick, feedVars, Onward
<1>5. ASSUME NEW w \in Warnings, Issue(w) PROVE Onward
  BY <1>1, <1>2, <1>5 DEF Issue, Onward
<1>6. ASSUME NEW w \in Warnings, NEW how \in {"early", "ranOut"}, End(w, how) PROVE Onward
  BY <1>1, <1>2, <1>6 DEF End, Onward
<1>7. CASE Next
  <2>1. ASSUME NEW t \in Tasks, Step(t) PROVE UNCHANGED <<now, active, over>>
    BY <2>1 DEF Step, RunJob, EndJobs, Close, AnswerMayGo, Join, BeginBatch, EndBatch, Send, feedVars
  <2>2. ASSUME Kill \/ Stop \/ BacklogIn \/ BacklogFails \/ (\E t \in Tickers : StartTick(t))
               \/ (\E t \in Portals : TickNow(t) \/ \E j \in Jobs : RunNow(t, j))
               \/ \E t \in Askers : Answer(t)
        PROVE  UNCHANGED <<now, active, over>>
    BY <2>2 DEF Kill, Stop, BacklogIn, BacklogFails, StartTick, TickNow, RunNow, Answer, feedVars
  <2> QED BY <1>3, <1>4, <1>5, <1>6, <1>7, <2>1, <2>2 DEF Next
<1> QED BY <1>3, <1>7 DEF vars, feedVars

-----------------------------------------------------------------------------
(* What was told *)

Word(w, v) == [type |-> "warning", id |-> w, version |-> v]

\* The slots that say a message: packets on the air and tasks.  The ones a
\* restart leaves, or may leave, are written for: packets, and tasks that send.
Heard(m) == {<<"air", i>> : i \in {k \in OnAir : m \in Out(k)}}
Sayers(m) == Heard(m) \cup {<<"task", t>> : t \in {u \in Tasks : m \in Say(u)}}
Kept(m) == Heard(m) \cup {<<"task", t>> : t \in {u \in Tasks : Sending(u) /\ m \in Say(u)}}

AtMostOnce(P) == \A p, q \in P : p = q
AtMostTwice(P) == \A p, q, r \in P : p = q \/ p = r \/ q = r

\* What is remembered of a warning, T, fits what is in force, and the slots that
\* say a version, or its cancel.  o: how the warning ended.
TellsNow(w, T, a, o) ==
  /\ o = "no" => T.version <= a
  /\ T.repeatAt # NoTime => w \in LifeSafety
VersionFits(P, w, v, T, o) ==
  /\ AtMostTwice(P)
  /\ w \notin LifeSafety => AtMostOnce(P)
  /\ o = "no" /\ v > T.version => P = {}
  /\ o = "no" /\ v = T.version /\ T.repeatAt # NoTime => AtMostOnce(P)
CancelFits(P, T, o) == AtMostOnce(P) /\ (o = "no" \/ T.version # 0 => P = {})

MemoryFits ==
  \A w \in Warnings :
    /\ TellsNow(w, told[w], active[w], over[w])
    /\ w \notin misled =>
         /\ \A v \in 1 .. MaxVersion : VersionFits(Sayers(Word(w, v)), w, v, told[w], over[w])
         /\ CancelFits(Sayers(CancelMessage(w)), told[w], over[w])
FileFits ==
  \A w \in Warnings :
    /\ TellsNow(w, saved.told[w], active[w], over[w])
    /\ w \notin misled =>
         /\ \A v \in 1 .. MaxVersion : VersionFits(Kept(Word(w, v)), w, v, saved.told[w], over[w])
         /\ CancelFits(Kept(CancelMessage(w)), saved.told[w], over[w])

\* A cancel that waits comes after what the schedule still has to say of its
\* warning, and one on the air is the last of it.
CancelLast ==
  \A w \in Warnings \ misled, v \in 1 .. MaxVersion :
    /\ \A t, u \in Tasks :
         CancelMessage(w) \in Say(t) /\ Word(w, v) \in Say(u)
         => t # u /\ (task[t].at = "joining" \/ Before(lock, u, t))
    /\ \A i \in OnAir, t \in Tasks : CancelMessage(w) \in Out(i) => Word(w, v) \notin Say(t)
    /\ \A i, j \in OnAir : CancelMessage(w) \in Out(i) /\ Word(w, v) \in Out(j) => j < i

\* No answer cancels a warning.
AnswersOK ==
  /\ \A t \in Tasks : task[t].why = "answer" => \A m \in task[t].batch : m.type # "cancel"
  /\ \A i \in OnAir : air[i].why = "answer" => air[i].message.type # "cancel"

ToldOK == MemoryFits /\ FileFits /\ CancelLast /\ AnswersOK

\* A slot may pass what it says to another.
MovedFrom(P, Q) == Q \subseteq P \/ \E p \in P : \E q : Q \subseteq (P \ {p}) \cup {q}

LEMMA MovedCounts ==
  ASSUME NEW P, NEW Q, MovedFrom(P, Q)
  PROVE  /\ AtMostOnce(P) => AtMostOnce(Q)
         /\ AtMostTwice(P) => AtMostTwice(Q)
         /\ P = {} => Q = {}
<1>1. CASE Q \subseteq P BY <1>1 DEF AtMostOnce, AtMostTwice
<1>2. ASSUME NEW p \in P, NEW q, Q \subseteq (P \ {p}) \cup {q} 
      PROVE  /\ AtMostOnce(P) => AtMostOnce(Q)
             /\ AtMostTwice(P) => AtMostTwice(Q)
             /\ P = {} => Q = {}
  <2>1. AtMostOnce(P) => AtMostOnce(Q) BY <1>2 DEF AtMostOnce
  <2>2. AtMostTwice(P) => AtMostTwice(Q)
    <3> SUFFICES ASSUME AtMostTwice(P), NEW x \in Q, NEW y \in Q, NEW z \in Q, x # y, x # z, y # z
                 PROVE  FALSE
      BY DEF AtMostTwice
    <3>1. CASE x # q /\ y # q BY <1>2, <3>1 DEF AtMostTwice
    <3>2. CASE x # q /\ z # q BY <1>2, <3>2 DEF AtMostTwice
    <3>3. CASE y # q /\ z # q BY <1>2, <3>3 DEF AtMostTwice
    <3> QED BY <3>1, <3>2, <3>3
  <2> QED BY <1>2, <2>1, <2>2
<1> QED BY <1>1, <1>2 DEF MovedFrom

\* What fits goes on to fit, while the feed goes on.
LEMMA GoesOn ==
  ASSUME NEW P, NEW Q, MovedFrom(P, Q), NEW w, NEW v, NEW T, NEW o, NEW o2, o2 = "no" => o = "no"
  PROVE  /\ VersionFits(P, w, v, T, o) => VersionFits(Q, w, v, T, o2)
         /\ CancelFits(P, T, o) => CancelFits(Q, T, o2)
BY MovedCounts DEF VersionFits, CancelFits

LEMMA KeptAreSayers == \A m : Heard(m) \subseteq Kept(m) /\ Kept(m) \subseteq Sayers(m)
BY DEF Kept, Sayers

LEMMA QuietSlots ==
  ASSUME Quiet
  PROVE  /\ \A m : Heard(m)' = Heard(m) /\ Sayers(m)' \subseteq Sayers(m)
         /\ \/ saved' = saved /\ \A m : Kept(m)' \subseteq Kept(m)
            \/ /\ saved'.told = told /\ saved'.lastRun = lastRun
               /\ \A m : Kept(m)' \subseteq Sayers(m)
<1>1. \A t \in Tasks : Say(t)' \subseteq Say(t)
  <2> SUFFICES ASSUME NEW t \in Tasks PROVE Say(t)' \subseteq Say(t) OBVIOUS
  <2>1. Lowers(task[t], task'[t]) BY DEF Quiet
  <2> QED BY <2>1 DEF Lowers, Say, Scheduled
<1>2. \A m : Heard(m)' = Heard(m) BY DEF Quiet, Heard, Out, OnAir
<1>3. \A m : Sayers(m)' \subseteq Sayers(m) BY <1>1, <1>2 DEF Sayers
<1>4. \A m : Kept(m)' \subseteq Sayers(m) BY <1>1, <1>2 DEF Kept, Sayers
<1>5. (\A t \in Tasks : Sending(t)' => Sending(t)) => \A m : Kept(m)' \subseteq Kept(m)
  BY <1>1, <1>2 DEF Kept
<1> QED BY <1>2, <1>3, <1>4, <1>5 DEF Quiet

\* A packet more on the air.
LEMMA HeardMore ==
  ASSUME ControlOK, NEW p \in AirPackets, air' = Append(air, p), NEW k, k = Len(air) + 1
  PROVE  /\ OnAir' = OnAir \cup {k} /\ k \notin OnAir
         /\ \A i \in OnAir : i < k /\ air'[i] = air[i] /\ Out(i)' = Out(i)
         /\ air'[k] = p /\ Out(k)' = IF Scheduled(p.why) THEN {p.message} ELSE {}
         /\ \A m : Heard(m)' = Heard(m) \cup (IF m \in Out(k)' THEN {<<"air", k>>} ELSE {})
<1>1. air \in Seq(AirPackets) /\ Len(air) \in Nat BY DEF ControlOK, OrderOK, Types
<1>2. Len(air') = k /\ air'[k] = p /\ \A i \in 1 .. Len(air) : air'[i] = air[i]
  BY <1>1
<1>3. OnAir' = OnAir \cup {k} /\ k \notin OnAir /\ \A i \in OnAir : i < k
  BY <1>1, <1>2 DEF OnAir
<1>4. \A i \in OnAir : Out(i)' = Out(i) BY <1>2 DEF OnAir, Out
<1>5. Out(k)' = IF Scheduled(p.why) THEN {p.message} ELSE {} BY <1>2 DEF Out
<1>6. ASSUME NEW m PROVE Heard(m)' = Heard(m) \cup (IF m \in Out(k)' THEN {<<"air", k>>} ELSE {})
  BY <1>3, <1>4 DEF Heard
<1> QED BY <1>2, <1>3, <1>4, <1>5, <1>6 DEF OnAir

\* A message goes from a task's hands to the air, nobody else's words change, and
\* who does not send may fall silent.
LEMMA SpokenSlots ==
  ASSUME ControlOK, NEW t \in Tasks, NEW m \in task[t].batch, Packet(t, m) \in AirPackets,
         air' = Append(air, Packet(t, m)), m \notin Say(t)',
         \A u \in Tasks : Say(u)' \subseteq Say(u), NEW n
  PROVE  MovedFrom(Sayers(n), Sayers(n)')
<1>1. PICK k : k = Len(air) + 1 OBVIOUS
<1>2. Packet(t, m).why = task[t].why /\ Packet(t, m).message = m BY DEF Packet
<1>3. PICK p \in AirPackets : p = Packet(t, m) /\ p.why = task[t].why /\ p.message = m BY <1>2
<1> DEFINE here == <<"task", t>>
           there == <<"air", k>>
<1>4. Heard(n)' \subseteq Heard(n) \cup (IF n \in Say(t) /\ n = m THEN {there} ELSE {})
  <2>1. Heard(n)' = Heard(n) \cup (IF n \in Out(k)' THEN {there} ELSE {})
    BY <1>1, <1>3, HeardMore
  <2>2. Out(k)' = IF Scheduled(p.why) THEN {p.message} ELSE {} BY <1>1, <1>3, HeardMore
  <2> QED BY <1>3, <2>1, <2>2 DEF Say
<1>5. CASE n \in Say(t) /\ n = m
  <2>1. here \in Sayers(n) BY <1>5 DEF Sayers
  <2>2. here \notin Sayers(n)' BY <1>5 DEF Sayers, Heard
  <2>3. Sayers(n)' \subseteq (Sayers(n) \ {here}) \cup {there} BY <1>4, <2>2 DEF Sayers
  <2> QED BY <2>1, <2>3 DEF MovedFrom
<1>6. CASE ~(n \in Say(t) /\ n = m)
  <2>1. Sayers(n)' \subseteq Sayers(n) BY <1>4, <1>6 DEF Sayers
  <2> QED BY <2>1 DEF MovedFrom
<1> QED BY <1>5, <1>6

LEMMA SpeaksFacts ==
  ASSUME ControlOK, NEW t \in Tasks, NEW m \in task[t].batch, Speaks(t, m)
  PROVE  /\ Packet(t, m) \in AirPackets /\ Say(t)' \subseteq Say(t) \ {m}
         /\ \A u \in Tasks : u # t => Say(u)' = Say(u) /\ (Sending(u)' <=> Sending(u))
         /\ Sending(t)'
<1>1. Packet(t, m) \in AirPackets BY SendingPacket DEF ControlOK, Speaks, Sending
<1> QED BY <1>1 DEF Speaks, Say, Sending

LEMMA SpeaksSlots ==
  ASSUME ControlOK, NEW t \in Tasks, NEW m \in task[t].batch, Speaks(t, m), NEW n
  PROVE  MovedFrom(Sayers(n), Sayers(n)') /\ MovedFrom(Kept(n), Kept(n)')
<1>1. Packet(t, m) \in AirPackets /\ Say(t)' \subseteq Say(t) \ {m}
  BY SpeaksFacts
<1>2. \A u \in Tasks : Say(u)' \subseteq Say(u) BY SpeaksFacts
<1>3. MovedFrom(Sayers(n), Sayers(n)') BY <1>1, <1>2, SpokenSlots DEF Speaks
<1>4. MovedFrom(Kept(n), Kept(n)')
  <2>0. PICK k : k = Len(air) + 1 OBVIOUS
  <2> DEFINE here == <<"task", t>>
             there == <<"air", k>>
  <2>1. PICK p \in AirPackets : p.why = task[t].why /\ p.message = m /\ air' = Append(air, p)
    BY <1>1 DEF Packet, Speaks
  <2>2. Heard(n)' \subseteq Heard(n) \cup (IF n \in Say(t) /\ n = m THEN {there} ELSE {})
    <3>1. Heard(n)' = Heard(n) \cup (IF n \in Out(k)' THEN {there} ELSE {})
      BY <2>0, <2>1, HeardMore
    <3>2. Out(k)' = IF Scheduled(task[t].why) THEN {m} ELSE {} BY <2>0, <2>1, HeardMore
    <3> QED BY <3>1, <3>2 DEF Say
  <2>3. \A u \in Tasks : Sending(u)' => Sending(u) BY SpeaksFacts DEF Speaks
  <2>4. CASE n \in Say(t) /\ n = m
    <3>1. here \in Kept(n) BY <2>4 DEF Kept, Speaks
    <3>2. here \notin Kept(n)' BY <1>1, <2>4 DEF Kept, Heard
    <3>3. Kept(n)' \subseteq (Kept(n) \ {here}) \cup {there}
      BY <1>2, <2>2, <2>3, <3>2 DEF Kept
    <3> QED BY <3>1, <3>3 DEF MovedFrom
  <2>5. CASE ~(n \in Say(t) /\ n = m)
    <3>1. Kept(n)' \subseteq Kept(n) BY <1>2, <2>2, <2>3, <2>5 DEF Kept
    <3> QED BY <3>1 DEF MovedFrom
  <2> QED BY <2>4, <2>5
<1> QED BY <1>3, <1>4

LEMMA BuildsSlots ==
  ASSUME NEW t \in Tasks, NEW why \in Whyfore, NEW batch, Builds(t, why, batch)
  PROVE  /\ \A m : Heard(m)' = Heard(m) /\ Kept(m)' \subseteq Kept(m)
         /\ \A m \in batch : Sayers(m)' \subseteq Sayers(m) \cup {<<"task", t>>}
         /\ \A m : m \notin batch => Sayers(m)' \subseteq Sayers(m)
         /\ Say(t)' = batch /\ Say(t) = {}
         /\ \A u \in Tasks : u # t => Say(u)' = Say(u)
<1>1. \A m : Heard(m)' = Heard(m) BY DEF Builds, Heard, Out, OnAir
<1>2. Say(t)' = batch /\ Say(t) = {} BY DEF Builds, Say, Scheduled, Whyfore
<1>3. \A u \in Tasks : u # t => Say(u)' = Say(u) /\ (Sending(u)' <=> Sending(u))
  BY DEF Builds, Say, Sending
<1>4. ~Sending(t)' BY DEF Builds, Sending
<1>5. \A m : Kept(m)' \subseteq Kept(m) BY <1>1, <1>3, <1>4 DEF Kept
<1> QED BY <1>1, <1>2, <1>3, <1>5 DEF Sayers

LEMMA RestartSlots ==
  ASSUME ControlOK, Restarts
  PROVE  /\ \A t \in Tasks : Say(t)' = {}
         /\ \/ saved' = saved /\ \A m : MovedFrom(Kept(m), Sayers(m)') /\ Kept(m)' = Sayers(m)'
            \/ /\ saved'.told = told /\ saved'.lastRun = lastRun
               /\ \A m : MovedFrom(Sayers(m), Sayers(m)') /\ Kept(m)' = Sayers(m)'
<1>1. \A t \in Tasks : Say(t)' = {} BY IdleType DEF Restarts, Say, Scheduled
<1>2. \A m : Sayers(m)' = Heard(m)' /\ Kept(m)' = Sayers(m)' BY <1>1 DEF Sayers, Kept
<1>3. ASSUME UNCHANGED air
      PROVE  \A m : MovedFrom(Kept(m), Sayers(m)') /\ MovedFrom(Sayers(m), Sayers(m)')
  <2>1. \A m : Heard(m)' = Heard(m) BY <1>3 DEF Heard, Out, OnAir
  <2> QED BY <1>2, <2>1, KeptAreSayers DEF MovedFrom
<1>4. ASSUME InBatch, NEW m \in task[Head(lock)].batch, air' = Append(air, Packet(Head(lock), m)), NEW n
      PROVE  MovedFrom(Sayers(n), Sayers(n)')
  <2>1. PICK t \in Tasks : t = Head(lock) /\ task[t].at = "sending"
    BY <1>4, QueueFacts DEF ControlOK, InBatch
  <2>2. m \in task[t].batch /\ air' = Append(air, Packet(t, m)) BY <1>4, <2>1
  <2>3. Packet(t, m) \in AirPackets BY <2>1, <2>2, SendingPacket DEF ControlOK
  <2>4. m \notin Say(t)' /\ \A u \in Tasks : Say(u)' \subseteq Say(u) BY <1>1, <2>1
  <2> QED BY <2>1, <2>2, <2>3, <2>4, SpokenSlots
<1> QED BY <1>1, <1>2, <1>3, <1>4 DEF Restarts

LEMMA FeedGoesOn ==
  ASSUME ControlOK, ControlOK', Onward, NEW w \in Warnings, NEW T \in Told
  PROVE  /\ over'[w] = "no" => over[w] = "no"
         /\ TellsNow(w, T, active[w], over[w]) => TellsNow(w, T, active'[w], over'[w])
<1>1. T.version \in Int /\ active[w] \in Int /\ active'[w] \in Int
  <2>1. active \in [Warnings -> 0 .. MaxVersion] /\ active' \in [Warnings -> 0 .. MaxVersion]
    BY DEF ControlOK, OrderOK, Types
  <2>2. \A k \in 0 .. MaxVersion : k \in Int BY SchedulerConstants
  <2> QED BY <2>1, <2>2 DEF Told
<1>2. over'[w] = "no" => over[w] = "no" /\ active[w] <= active'[w] BY DEF Onward
<1> QED BY <1>1, <1>2 DEF TellsNow

LEMMA MemoryGoesOn ==
  ASSUME ControlOK, ControlOK', Onward, MemoryFits, told' = told, misled \subseteq misled',
         \A m : MovedFrom(Sayers(m), Sayers(m)')
  PROVE  MemoryFits'
<1> SUFFICES ASSUME NEW w \in Warnings
             PROVE  /\ TellsNow(w, told[w], active'[w], over'[w])
                    /\ w \notin misled' =>
                         /\ \A v \in 1 .. MaxVersion :
                              VersionFits(Sayers(Word(w, v))', w, v, told[w], over'[w])
                         /\ CancelFits(Sayers(CancelMessage(w))', told[w], over'[w])
  BY DEF MemoryFits, CancelMessage
<1>1. told[w] \in Told BY DEF ControlOK, OrderOK, Types
<1>2. over'[w] = "no" => over[w] = "no" BY <1>1, FeedGoesOn
<1>3. TellsNow(w, told[w], active'[w], over'[w]) BY <1>1, FeedGoesOn DEF MemoryFits
<1> SUFFICES ASSUME w \notin misled, w \notin misled'
             PROVE  /\ \A v \in 1 .. MaxVersion :
                         VersionFits(Sayers(Word(w, v))', w, v, told[w], over'[w])
                    /\ CancelFits(Sayers(CancelMessage(w))', told[w], over'[w])
  BY <1>3
<1>4. \A v \in 1 .. MaxVersion : VersionFits(Sayers(Word(w, v))', w, v, told[w], over'[w])
  BY <1>2, GoesOn DEF MemoryFits
<1>5. CancelFits(Sayers(CancelMessage(w))', told[w], over'[w]) BY <1>2, GoesOn DEF MemoryFits
<1> QED BY <1>4, <1>5

\* The file goes on to fit when it is left alone, and fits once it is written.
LEMMA FileGoesOn ==
  ASSUME ControlOK, ControlOK', Onward, FileFits, saved'.told = saved.told, misled \subseteq misled',
         \A m : MovedFrom(Kept(m), Kept(m)')
  PROVE  FileFits'
<1> SUFFICES ASSUME NEW w \in Warnings
             PROVE  /\ TellsNow(w, saved.told[w], active'[w], over'[w])
                    /\ w \notin misled' =>
                         /\ \A v \in 1 .. MaxVersion :
                              VersionFits(Kept(Word(w, v))', w, v, saved.told[w], over'[w])
                         /\ CancelFits(Kept(CancelMessage(w))', saved.told[w], over'[w])
  BY DEF FileFits, CancelMessage
<1>1. saved.told[w] \in Told BY DEF ControlOK, OrderOK, Types, Files
<1>2. over'[w] = "no" => over[w] = "no" BY <1>1, FeedGoesOn
<1>3. TellsNow(w, saved.told[w], active'[w], over'[w]) BY <1>1, FeedGoesOn DEF FileFits
<1> SUFFICES ASSUME w \notin misled, w \notin misled'
             PROVE  /\ \A v \in 1 .. MaxVersion :
                         VersionFits(Kept(Word(w, v))', w, v, saved.told[w], over'[w])
                    /\ CancelFits(Kept(CancelMessage(w))', saved.told[w], over'[w])
  BY <1>3
<1>4. \A v \in 1 .. MaxVersion : VersionFits(Kept(Word(w, v))', w, v, saved.told[w], over'[w])
  BY <1>2, GoesOn DEF FileFits
<1>5. CancelFits(Kept(CancelMessage(w))', saved.told[w], over'[w]) BY <1>2, GoesOn DEF FileFits
<1> QED BY <1>4, <1>5

LEMMA FileWritten ==
  ASSUME ControlOK, ControlOK', Onward, MemoryFits, saved'.told = told, misled \subseteq misled',
         \A m : MovedFrom(Sayers(m), Kept(m)')
  PROVE  FileFits'
<1> SUFFICES ASSUME NEW w \in Warnings
             PROVE  /\ TellsNow(w, told[w], active'[w], over'[w])
                    /\ w \notin misled' =>
                         /\ \A v \in 1 .. MaxVersion :
                              VersionFits(Kept(Word(w, v))', w, v, told[w], over'[w])
                         /\ CancelFits(Kept(CancelMessage(w))', told[w], over'[w])
  BY DEF FileFits, CancelMessage
<1>1. told[w] \in Told BY DEF ControlOK, OrderOK, Types
<1>2. over'[w] = "no" => over[w] = "no" BY <1>1, FeedGoesOn
<1>3. TellsNow(w, told[w], active'[w], over'[w]) BY <1>1, FeedGoesOn DEF MemoryFits
<1> SUFFICES ASSUME w \notin misled, w \notin misled'
             PROVE  /\ \A v \in 1 .. MaxVersion :
                         VersionFits(Kept(Word(w, v))', w, v, told[w], over'[w])
                    /\ CancelFits(Kept(CancelMessage(w))', told[w], over'[w])
  BY <1>3
<1>4. \A v \in 1 .. MaxVersion : VersionFits(Kept(Word(w, v))', w, v, told[w], over'[w])
  BY <1>2, GoesOn DEF MemoryFits
<1>5. CancelFits(Kept(CancelMessage(w))', told[w], over'[w]) BY <1>2, GoesOn DEF MemoryFits
<1> QED BY <1>4, <1>5

LEMMA QuietTold ==
  ASSUME ControlOK, ControlOK', Onward, MemoryFits, FileFits, Quiet PROVE MemoryFits' /\ FileFits'
<1>1. /\ \A m : MovedFrom(Sayers(m), Sayers(m)') /\ told' = told /\ misled' = misled
      /\ \/ saved' = saved /\ \A m : MovedFrom(Kept(m), Kept(m)')
         \/ saved'.told = told /\ \A m : MovedFrom(Sayers(m), Kept(m)')
  BY QuietSlots DEF MovedFrom, Quiet
<1> QED BY <1>1, MemoryGoesOn, FileGoesOn, FileWritten

LEMMA SpeaksTold ==
  ASSUME ControlOK, ControlOK', Onward, MemoryFits, FileFits, NEW t \in Tasks,
         NEW m \in task[t].batch, Speaks(t, m)
  PROVE  MemoryFits' /\ FileFits'
BY SpeaksSlots, MemoryGoesOn, FileGoesOn DEF Speaks

\* A restart remembers what the file says, of what has not run out.
LEMMA RestartTold ==
  ASSUME ControlOK, ControlOK', Onward, MemoryFits, FileFits, Restarts PROVE MemoryFits' /\ FileFits'
<1>1. FileFits'
  <2>1. CASE saved' = saved /\ \A m : MovedFrom(Kept(m), Sayers(m)') /\ Kept(m)' = Sayers(m)'
    BY <2>1, FileGoesOn DEF Restarts
  <2>2. CASE saved'.told = told /\ \A m : MovedFrom(Sayers(m), Sayers(m)') /\ Kept(m)' = Sayers(m)'
    BY <2>2, FileWritten DEF Restarts
  <2> QED BY <2>1, <2>2, RestartSlots
<1>2. \A m : Sayers(m)' = Kept(m)' BY RestartSlots
<1>3. ASSUME NEW w \in Warnings
      PROVE  /\ TellsNow(w, told'[w], active'[w], over'[w])
             /\ w \notin misled' =>
                  /\ \A v \in 1 .. MaxVersion :
                       VersionFits(Kept(Word(w, v))', w, v, told'[w], over'[w])
                  /\ CancelFits(Kept(CancelMessage(w))', told'[w], over'[w])
  <2>1. /\ TellsNow(w, saved'.told[w], active'[w], over'[w])
        /\ w \notin misled' =>
             /\ \A v \in 1 .. MaxVersion :
                  VersionFits(Kept(Word(w, v))', w, v, saved'.told[w], over'[w])
             /\ CancelFits(Kept(CancelMessage(w))', saved'.told[w], over'[w])
    BY <1>1 DEF FileFits, CancelMessage
  <2>2. over'[w] = over[w] /\ told'[w] = IF over[w] = "ranOut" THEN Untold ELSE saved'.told[w]
    BY DEF Restarts
  <2>3. CASE over[w] = "ranOut"
    BY <2>1, <2>2, <2>3 DEF TellsNow, VersionFits, CancelFits, Untold, NoTime
  <2>4. CASE over[w] # "ranOut" BY <2>1, <2>2, <2>4
  <2> QED BY <2>3, <2>4
<1>4. MemoryFits' BY <1>2, <1>3 DEF MemoryFits, CancelMessage
<1> QED BY <1>1, <1>4

LEMMA BatchSays ==
  ASSUME NEW held, NEW chosen \in Allowed(held), NEW w \in Warnings
  PROVE  /\ \A v : Word(w, v) \in WarningsBatch(chosen, held) <=>
                  w \in chosen /\ ~IsCancel(w, held) /\ v = held[w]
         /\ CancelMessage(w) \in WarningsBatch(chosen, held) <=> w \in chosen /\ IsCancel(w, held)
<1>1. \A u, x, v : Word(u, v) # CancelMessage(x) BY DEF Word, CancelMessage
<1>2. \A u, x : CancelMessage(u) = CancelMessage(x) => u = x BY DEF CancelMessage
<1>3. \A u, x, v, y : Word(u, v) = Word(x, y) => u = x /\ v = y BY DEF Word
<1>4. \A u : WarningMessage(u, held) = Word(u, held[u]) BY DEF WarningMessage, Word
<1> QED BY <1>1, <1>2, <1>3, <1>4 DEF WarningsBatch

\* What is told of a warning is never newer than what is in force, whatever part
\* of its versions the store holds.
LEMMA BuildsTellsNow ==
  ASSUME ControlOK, NEW held \in Stores, NEW chosen \in Allowed(held), NEW w \in Warnings,
         TellsNow(w, told[w], active[w], over[w])
  PROVE  TellsNow(w, ToldAfter(chosen, held)[w], active[w], over[w])
<1>0. PICK a, h : a = active[w] /\ h = held[w] OBVIOUS
<1>1. /\ told[w].version \in 0 .. MaxVersion /\ told[w] \in Told
      /\ a \in 0 .. MaxVersion /\ h \in 0 .. MaxVersion
      /\ MaxVersion \in Nat
  BY <1>0, SchedulerConstants, StoresType DEF ControlOK, OrderOK, Types, Told
<1>2. over[w] = "no" => h <= a
  <2>1. CASE backlog = "in" BY <1>0, <1>1, <2>1 DEF Stores
  <2>2. CASE backlog # "in"
    <3>1. h <= issued[w] BY <1>0, <2>2 DEF Stores
    <3> QED BY <1>0, <3>1 DEF ControlOK, OrderOK, FeedOK
  <2> QED BY <2>1, <2>2
<1>3. ToldAfter(chosen, held)[w] =
        IF w \in chosen
        THEN IF IsNews(w, held) THEN [version |-> h, repeatAt |-> RepeatTime(w)]
             ELSE IF IsRepeat(w, held) THEN [told[w] EXCEPT !.repeatAt = NoTime]
             ELSE Untold
        ELSE IF h = 0 /\ over[w] = "ranOut" THEN Untold ELSE told[w]
  BY <1>0 DEF ToldAfter
<1>4. PICK T : T = ToldAfter(chosen, held)[w] OBVIOUS
<1>5. CASE T = told[w] BY <1>4, <1>5
<1>6. CASE T = Untold BY <1>0, <1>1, <1>4, <1>6 DEF TellsNow, Untold
<1>7. CASE T = [told[w] EXCEPT !.repeatAt = NoTime]
  <2>1. T.version = told[w].version /\ T.repeatAt = NoTime BY <1>1, <1>7 DEF Told
  <2> QED BY <1>4, <2>1 DEF TellsNow
<1>8. CASE T = [version |-> h, repeatAt |-> RepeatTime(w)]
  <2>1. T.version = h /\ (T.repeatAt # NoTime => w \in LifeSafety) BY <1>8 DEF RepeatTime
  <2> QED BY <1>0, <1>2, <1>4, <2>1 DEF TellsNow
<1> QED BY <1>3, <1>4, <1>5, <1>6, <1>7, <1>8

LEMMA BuildsWarningsMemory ==
  ASSUME ControlOK, MemoryFits, NEW t \in Tasks, NEW why \in Whyfore,
         NEW held \in Stores, NEW chosen \in Allowed(held),
         told' = ToldAfter(chosen, held), Builds(t, why, WarningsBatch(chosen, held)),
         misled \subseteq misled', \A w \in chosen : held[w] = active[w] \/ w \in misled'
  PROVE  MemoryFits'
<1>a. \A w \in Warnings : TellsNow(w, told'[w], active[w], over[w])
  BY BuildsTellsNow DEF MemoryFits
<1> SUFFICES ASSUME NEW w \in Warnings, w \notin misled, w \notin misled'
             PROVE  /\ TellsNow(w, told'[w], active[w], over[w])
                    /\ \A v \in 1 .. MaxVersion :
                         VersionFits(Sayers(Word(w, v))', w, v, told'[w], over[w])
                    /\ CancelFits(Sayers(CancelMessage(w))', told'[w], over[w])
  BY <1>a DEF MemoryFits, CancelMessage, Builds
<1>0. PICK a : a = active[w] /\ (w \in chosen => held[w] = a) OBVIOUS
<1> DEFINE T == told[w]
           P(v) == Sayers(Word(w, v))
           C == Sayers(CancelMessage(w))
           me == <<"task", t>>
<1>1. /\ TellsNow(w, T, a, over[w])
      /\ \A v \in 1 .. MaxVersion : VersionFits(P(v), w, v, T, over[w])
      /\ CancelFits(C, T, over[w])
  BY <1>0 DEF MemoryFits
<1>2. /\ T.version \in 0 .. MaxVersion /\ T.repeatAt \in {NoTime} \cup Nat /\ a \in 0 .. MaxVersion
      /\ over[w] # "no" => a = 0
      /\ MaxVersion \in Nat
  BY <1>0, SchedulerConstants DEF ControlOK, OrderOK, Types, Told, FeedOK
<1>3. /\ \A v : P(v)' \subseteq P(v) \cup (IF w \in chosen /\ ~IsCancel(w, held) /\ v = a THEN {me} ELSE {})
      /\ C' \subseteq C \cup (IF w \in chosen /\ IsCancel(w, held) THEN {me} ELSE {})
  BY <1>0, BatchSays, BuildsSlots DEF Word, CancelMessage
<1>4. told'[w] = IF w \in chosen
                 THEN IF IsNews(w, held) THEN [version |-> a, repeatAt |-> RepeatTime(w)]
                      ELSE IF IsRepeat(w, held) THEN [told[w] EXCEPT !.repeatAt = NoTime]
                      ELSE Untold
                 ELSE IF held[w] = 0 /\ over[w] = "ranOut" THEN Untold ELSE told[w]
  BY <1>0 DEF ToldAfter
<1>5. CASE w \notin chosen
  <2>1. \A v : MovedFrom(P(v), P(v)') BY <1>3, <1>5 DEF MovedFrom
  <2>2. MovedFrom(C, C') BY <1>3, <1>5 DEF MovedFrom
  <2>3. /\ \A v \in 1 .. MaxVersion : VersionFits(P(v)', w, v, T, over[w])
        /\ CancelFits(C', T, over[w])
    BY <1>1, <2>1, <2>2, GoesOn
  <2> HIDE DEF P, C
  <2>4. CASE told'[w] = told[w] BY <1>0, <1>1, <2>3, <2>4 DEF P, C
  <2>5. CASE told'[w] = Untold /\ over[w] = "ranOut"
    BY <2>3, <2>5 DEF TellsNow, VersionFits, CancelFits, Untold, NoTime, P, C
  <2> QED BY <1>4, <1>5, <2>4, <2>5
<1>6. CASE w \in chosen /\ IsCancel(w, held)
  <2>1. a = 0 /\ T.version # 0 /\ over[w] # "no" BY <1>0, <1>1, <1>2, <1>6 DEF IsCancel, TellsNow
  <2>2. told'[w] = Untold BY <1>0, <1>4, <1>6, <2>1 DEF IsNews, IsRepeat
  <2>3. \A v : MovedFrom(P(v), P(v)') BY <1>3, <1>6 DEF MovedFrom
  <2>4. \A v \in 1 .. MaxVersion : VersionFits(P(v)', w, v, T, over[w]) BY <1>1, <2>3, GoesOn
  <2>5. C = {} BY <1>1, <2>1 DEF CancelFits
  <2>6. AtMostOnce(C') BY <1>3, <2>5 DEF AtMostOnce
  <2> HIDE DEF P, C
  <2> QED BY <2>1, <2>2, <2>4, <2>6 DEF TellsNow, VersionFits, CancelFits, Untold, NoTime, P, C
<1>7. CASE w \in chosen /\ ~IsCancel(w, held)
  <2>1. a # 0 /\ over[w] = "no" /\ a \in 1 .. MaxVersion
    BY <1>0, <1>2, <1>7, AllowedArePlans DEF IsNews, IsRepeat
  <2>2. C' \subseteq {} BY <1>1, <1>3, <1>7, <2>1 DEF CancelFits
  <2>3. CancelFits(C', told'[w], over[w]) BY <2>2 DEF CancelFits, AtMostOnce
  <2>4. \A v : v # a => P(v)' \subseteq P(v) BY <1>3
  <2>5. P(a)' \subseteq P(a) \cup {me} BY <1>3
  <2>6. CASE IsNews(w, held)
    <3>1. told'[w] = [version |-> a, repeatAt |-> RepeatTime(w)] BY <1>4, <1>7, <2>6
    <3>2. T.version < a BY <1>0, <1>1, <1>2, <1>7, <2>1, <2>6 DEF IsNews, TellsNow
    <3>3. P(a) = {} BY <1>1, <2>1, <3>2 DEF VersionFits
    <3>4. AtMostOnce(P(a)') /\ AtMostTwice(P(a)') BY <2>5, <3>3 DEF AtMostOnce, AtMostTwice
    <3>5. told'[w].version = a /\ (told'[w].repeatAt # NoTime => w \in LifeSafety)
      BY <3>1 DEF RepeatTime
    <3>6. TellsNow(w, told'[w], a, over[w]) BY <1>2, <3>5 DEF TellsNow
    <3>7. ASSUME NEW v \in 1 .. MaxVersion PROVE VersionFits(P(v)', w, v, told'[w], over[w])
      <4>1. CASE v = a BY <1>2, <3>4, <3>5, <4>1 DEF VersionFits
      <4>2. CASE v # a
        <5>1. MovedFrom(P(v), P(v)') BY <2>4, <4>2 DEF MovedFrom
        <5>2. VersionFits(P(v)', w, v, T, over[w]) BY <1>1, <5>1, GoesOn
        <5>3. v > a => v > T.version BY <1>2, <3>2
        <5> HIDE DEF P
        <5> QED BY <3>5, <4>2, <5>2, <5>3 DEF VersionFits
      <4> QED BY <4>1, <4>2
    <3> QED BY <1>0, <2>3, <3>6, <3>7
  <2>7. CASE ~IsNews(w, held)
    <3>1. IsRepeat(w, held) BY <1>7, <2>7, AllowedArePlans
    <3>2. T.version = a /\ T.repeatAt # NoTime /\ w \in LifeSafety
      BY <1>0, <1>1, <1>7, <3>1 DEF IsRepeat, TellsNow
    <3>3. told'[w] = [told[w] EXCEPT !.repeatAt = NoTime] BY <1>4, <1>7, <2>7, <3>1
    <3>4. told'[w].version = a /\ told'[w].repeatAt = NoTime
      BY <3>2, <3>3 DEF ControlOK, OrderOK, Types, Told
    <3>5. AtMostOnce(P(a)) BY <1>1, <2>1, <3>2 DEF VersionFits
    <3>6. AtMostTwice(P(a)') BY <2>5, <3>5 DEF AtMostOnce, AtMostTwice
    <3>7. TellsNow(w, told'[w], a, over[w]) BY <1>2, <3>4 DEF TellsNow
    <3>8. ASSUME NEW v \in 1 .. MaxVersion PROVE VersionFits(P(v)', w, v, told'[w], over[w])
      <4>1. CASE v = a BY <1>2, <3>2, <3>4, <3>6, <4>1 DEF VersionFits
      <4>2. CASE v # a
        <5>1. MovedFrom(P(v), P(v)') BY <2>4, <4>2 DEF MovedFrom
        <5>2. VersionFits(P(v)', w, v, T, over[w]) BY <1>1, <5>1, GoesOn
        <5> HIDE DEF P
        <5> QED BY <3>2, <3>4, <4>2, <5>2 DEF VersionFits
      <4> QED BY <4>1, <4>2
    <3> QED BY <1>0, <2>3, <3>7, <3>8
  <2> QED BY <2>6, <2>7
<1> QED BY <1>5, <1>6, <1>7

LEMMA BuildsTold ==
  ASSUME ControlOK, ControlOK', Onward, MemoryFits, FileFits, NEW t \in Tasks, NEW why \in Whyfore,
         BuildsWarnings(t, why) \/ BuildsDigest(t, why)
  PROVE  MemoryFits' /\ FileFits'
<1>1. CASE BuildsWarnings(t, why)
  <2>1. PICK held \in Stores : \E chosen \in Allowed(held) :
          /\ told' = ToldAfter(chosen, held) /\ Builds(t, why, WarningsBatch(chosen, held))
          /\ misled \subseteq misled' /\ \A w \in chosen : held[w] = active[w] \/ w \in misled'
    BY <1>1 DEF BuildsWarnings
  <2>2. MemoryFits' BY <2>1, BuildsWarningsMemory
  <2>3. PICK batch : Builds(t, why, batch) BY <2>1
  <2>4. \A m : MovedFrom(Kept(m), Kept(m)') BY <2>3, BuildsSlots DEF MovedFrom
  <2>5. FileFits' BY <2>1, <2>3, <2>4, FileGoesOn DEF Builds
  <2> QED BY <2>2, <2>5
<1>2. CASE BuildsDigest(t, why)
  <2>0. PICK held \in Stores : Builds(t, why, {DigestMessage(held)}) BY <1>2 DEF BuildsDigest
  <2> DEFINE batch == {DigestMessage(held)}
  <2>1. told' = told /\ misled' = misled /\ Builds(t, why, batch) BY <1>2, <2>0 DEF BuildsDigest
  <2>2. \A w \in Warnings : \A v : Word(w, v) \notin batch /\ CancelMessage(w) \notin batch
    BY DEF Word, CancelMessage, DigestMessage
  <2> HIDE DEF batch
  <2>3. \A m : MovedFrom(Kept(m), Kept(m)') BY <2>1, BuildsSlots DEF MovedFrom
  <2>4. FileFits' BY <2>1, <2>3, FileGoesOn DEF Builds
  <2>5. \A m : m \notin batch => MovedFrom(Sayers(m), Sayers(m)')
    BY <2>1, BuildsSlots DEF MovedFrom
  <2>6. MemoryFits'
    <3> SUFFICES ASSUME NEW w \in Warnings
                 PROVE  /\ TellsNow(w, told[w], active[w], over[w])
                        /\ w \notin misled =>
                             /\ \A v \in 1 .. MaxVersion :
                                  VersionFits(Sayers(Word(w, v))', w, v, told[w], over[w])
                             /\ CancelFits(Sayers(CancelMessage(w))', told[w], over[w])
      BY <2>1 DEF MemoryFits, CancelMessage, Builds
    <3>1. TellsNow(w, told[w], active[w], over[w]) BY DEF MemoryFits
    <3>2. w \notin misled =>
            \A v \in 1 .. MaxVersion : VersionFits(Sayers(Word(w, v))', w, v, told[w], over[w])
      BY <2>2, <2>5, GoesOn DEF MemoryFits
    <3>3. w \notin misled => CancelFits(Sayers(CancelMessage(w))', told[w], over[w])
      BY <2>2, <2>5, GoesOn DEF MemoryFits
    <3> QED BY <3>1, <3>2, <3>3
  <2> QED BY <2>4, <2>6
<1> QED BY <1>1, <1>2

\* What is built of a warning in force comes when no one says its cancel.
LEMMA BuildsAreNews ==
  ASSUME ControlOK, MemoryFits, NEW t \in Tasks, NEW why \in Whyfore,
         BuildsWarnings(t, why) \/ BuildsDigest(t, why)
  PROVE  misled \subseteq misled' /\
         \E batch : /\ Builds(t, why, batch)
                    /\ \A w \in Warnings \ misled' : \A v : Word(w, v) \in batch =>
                         CancelMessage(w) \notin batch /\ Sayers(CancelMessage(w)) = {}
<1>1. CASE BuildsWarnings(t, why)
  <2>1. PICK held \in Stores : \E chosen \in Allowed(held) :
          /\ Builds(t, why, WarningsBatch(chosen, held))
          /\ misled \subseteq misled' /\ \A w \in chosen : held[w] = active[w] \/ w \in misled'
    BY <1>1 DEF BuildsWarnings
  <2>2. PICK chosen \in Allowed(held) :
          /\ Builds(t, why, WarningsBatch(chosen, held))
          /\ misled \subseteq misled' /\ \A w \in chosen : held[w] = active[w] \/ w \in misled'
    BY <2>1
  <2>3. ASSUME NEW w \in Warnings \ misled', NEW v, Word(w, v) \in WarningsBatch(chosen, held)
        PROVE  CancelMessage(w) \notin WarningsBatch(chosen, held) /\ Sayers(CancelMessage(w)) = {}
    <3>1. w \in chosen /\ ~IsCancel(w, held) BY <2>3, BatchSays
    <3>2. active[w] # 0 /\ w \notin misled
      BY <2>2, <2>3, <3>1, AllowedArePlans DEF IsNews, IsRepeat
    <3>3. over[w] = "no" BY <3>2 DEF ControlOK, OrderOK, FeedOK
    <3>4. Sayers(CancelMessage(w)) = {} BY <3>2, <3>3 DEF MemoryFits, CancelFits
    <3> QED BY <3>1, <3>4, BatchSays
  <2> QED BY <2>2, <2>3
<1>2. CASE BuildsDigest(t, why)
  <2>1. PICK held \in Stores : Builds(t, why, {DigestMessage(held)}) BY <1>2 DEF BuildsDigest
  <2>2. \A w \in Warnings : \A v : Word(w, v) \notin {DigestMessage(held)} BY DEF Word, DigestMessage
  <2> QED BY <1>2, <2>1, <2>2 DEF BuildsDigest
<1> QED BY <1>1, <1>2

LEMMA BuildsCancelLast ==
  ASSUME ControlOK, MemoryFits, CancelLast, NEW t \in Tasks, NEW why \in Whyfore,
         BuildsWarnings(t, why) \/ BuildsDigest(t, why)
  PROVE  CancelLast'
<1>1. PICK batch : /\ misled \subseteq misled' /\ Builds(t, why, batch)
                   /\ \A w \in Warnings \ misled' : \A v : Word(w, v) \in batch =>
                        CancelMessage(w) \notin batch /\ Sayers(CancelMessage(w)) = {}
  BY BuildsAreNews
<1>2. /\ Say(t)' = batch /\ Say(t) = {} /\ \A u \in Tasks : u # t => Say(u)' = Say(u)
  BY <1>1, BuildsSlots
<1>3. OnAir' = OnAir /\ \A i \in OnAir : Out(i)' = Out(i) BY <1>1 DEF Builds, OnAir, Out
<1>4. /\ lock' = lock
      /\ batch # {} => task'[t].at = "joining"
      /\ \A u \in Tasks : u # t => task'[u] = task[u]
  BY <1>1 DEF Builds
<1>5. \A w : /\ \A u \in Tasks : CancelMessage(w) \in Say(u) => Sayers(CancelMessage(w)) # {}
             /\ \A i \in OnAir : CancelMessage(w) \in Out(i) => Sayers(CancelMessage(w)) # {}
  BY DEF Sayers, Heard
<1> SUFFICES ASSUME NEW w \in Warnings \ misled', NEW v \in 1 .. MaxVersion
             PROVE  /\ \A a, u \in Tasks :
                         CancelMessage(w) \in Say(a)' /\ Word(w, v) \in Say(u)'
                         => a # u /\ (task'[a].at = "joining" \/ Before(lock', u, a))
                    /\ \A i \in OnAir, u \in Tasks :
                         CancelMessage(w) \in Out(i)' => Word(w, v) \notin Say(u)'
                    /\ \A i, j \in OnAir :
                         CancelMessage(w) \in Out(i)' /\ Word(w, v) \in Out(j)' => j < i
  BY <1>3 DEF CancelLast, CancelMessage, Word
<1>0. w \in Warnings \ misled BY <1>1
<1>6. ASSUME NEW a \in Tasks, NEW u \in Tasks, CancelMessage(w) \in Say(a)', Word(w, v) \in Say(u)'
      PROVE  a # u /\ (task'[a].at = "joining" \/ Before(lock', u, a))
  <2>1. CASE u = t
    <3>1. CancelMessage(w) \notin batch /\ Sayers(CancelMessage(w)) = {} BY <1>1, <1>2, <1>6, <2>1
    <3>2. a # t BY <1>2, <1>6, <3>1
    <3>3. CancelMessage(w) \in Say(a) BY <1>2, <1>6, <3>2
    <3> QED BY <1>5, <3>1, <3>3
  <2>2. CASE u # t /\ a = t BY <1>2, <1>4, <1>6, <2>2
  <2>3. CASE u # t /\ a # t
    <3>1. CancelMessage(w) \in Say(a) /\ Word(w, v) \in Say(u) BY <1>2, <1>6, <2>3
    <3>2. a # u /\ (task[a].at = "joining" \/ Before(lock, u, a)) BY <1>0, <3>1 DEF CancelLast
    <3> QED BY <1>4, <2>3, <3>2
  <2> QED BY <2>1, <2>2, <2>3
<1>7. ASSUME NEW i \in OnAir, NEW u \in Tasks, CancelMessage(w) \in Out(i)'
      PROVE Word(w, v) \notin Say(u)'
  <2>1. CancelMessage(w) \in Out(i) /\ Sayers(CancelMessage(w)) # {} BY <1>3, <1>5, <1>7
  <2>2. CASE u = t BY <1>1, <1>2, <2>1, <2>2
  <2>3. CASE u # t BY <1>0, <1>2, <2>1, <2>3 DEF CancelLast
  <2> QED BY <2>2, <2>3
<1>8. \A i, j \in OnAir : CancelMessage(w) \in Out(i)' /\ Word(w, v) \in Out(j)' => j < i
  BY <1>0, <1>3 DEF CancelLast
<1> QED BY <1>6, <1>7, <1>8

LEMMA QuietCancelLast == ASSUME CancelLast, Quiet PROVE CancelLast'
<1>1. \A u \in Tasks : Say(u)' \subseteq Say(u)
  <2> SUFFICES ASSUME NEW u \in Tasks PROVE Say(u)' \subseteq Say(u) OBVIOUS
  <2>1. Lowers(task[u], task'[u]) BY DEF Quiet
  <2> QED BY <2>1 DEF Lowers, Say, Scheduled
<1>2. OnAir' = OnAir /\ \A i \in OnAir : Out(i)' = Out(i) BY DEF Quiet, OnAir, Out
<1>3. ASSUME NEW w \in Warnings \ misled, NEW v \in 1 .. MaxVersion, NEW a \in Tasks, NEW u \in Tasks,
             CancelMessage(w) \in Say(a)', Word(w, v) \in Say(u)'
      PROVE  a # u /\ (task'[a].at = "joining" \/ Before(lock', u, a))
  <2>1. CancelMessage(w) \in Say(a) /\ Word(w, v) \in Say(u) BY <1>1, <1>3
  <2>2. a # u /\ (task[a].at = "joining" \/ Before(lock, u, a)) BY <2>1 DEF CancelLast
  <2>3. Say(a)' # {} /\ Say(u)' # {} BY <1>3
  <2> QED BY <2>2, <2>3 DEF Quiet, Orderly
<1>4. ASSUME NEW w \in Warnings \ misled, NEW v \in 1 .. MaxVersion
      PROVE  /\ \A i \in OnAir, u \in Tasks :
                  CancelMessage(w) \in Out(i)' => Word(w, v) \notin Say(u)'
             /\ \A i, j \in OnAir :
                  CancelMessage(w) \in Out(i)' /\ Word(w, v) \in Out(j)' => j < i
  BY <1>1, <1>2 DEF CancelLast
<1> QED BY <1>2, <1>3, <1>4 DEF Quiet, CancelLast, CancelMessage, Word

\* Who is sent is the head of the queue, and a cancel waits for what comes before.
LEMMA SpokenCancelLast ==
  ASSUME ControlOK, CancelLast, misled' = misled, NEW t \in Tasks, NEW m \in task[t].batch, Sending(t),
         Packet(t, m) \in AirPackets, air' = Append(air, Packet(t, m)), m \notin Say(t)',
         \A u \in Tasks : Say(u)' \subseteq Say(u),
         \/ lock' = lock /\ \A u \in Tasks : Say(u)' # {} => task'[u].at = task[u].at
         \/ \A u \in Tasks : Say(u)' = {}
  PROVE  CancelLast'
<1>1. PICK k : k = Len(air) + 1 OBVIOUS
<1>2. Packet(t, m).why = task[t].why /\ Packet(t, m).message = m BY DEF Packet
<1>3. PICK p \in AirPackets : p = Packet(t, m) /\ p.why = task[t].why /\ p.message = m BY <1>2
<1>4. /\ OnAir' = OnAir \cup {k} /\ k \notin OnAir
      /\ \A i \in OnAir : i < k /\ Out(i)' = Out(i)
  BY <1>1, <1>3, HeardMore
<1>5. Out(k)' = IF Scheduled(p.why) THEN {p.message} ELSE {} BY <1>1, <1>3, HeardMore
<1>6. Out(k)' \subseteq Say(t) /\ \A n \in Out(k)' : n = m BY <1>3, <1>5 DEF Say
<1>7. ASSUME NEW w \in Warnings \ misled, NEW v \in 1 .. MaxVersion, NEW a \in Tasks, NEW u \in Tasks,
             CancelMessage(w) \in Say(a)', Word(w, v) \in Say(u)'
      PROVE  a # u /\ (task'[a].at = "joining" \/ Before(lock', u, a))
  <2>1. Say(a)' \subseteq Say(a) /\ Say(u)' \subseteq Say(u) OBVIOUS
  <2>2. CancelMessage(w) \in Say(a) /\ Word(w, v) \in Say(u) BY <1>7, <2>1
  <2>3. a # u /\ (task[a].at = "joining" \/ Before(lock, u, a)) BY <2>2 DEF CancelLast
  <2>4. Say(a)' # {} BY <1>7
  <2> QED BY <2>3, <2>4
<1>8. ASSUME NEW w \in Warnings \ misled, NEW v \in 1 .. MaxVersion, NEW i \in OnAir', NEW u \in Tasks,
             CancelMessage(w) \in Out(i)', Word(w, v) \in Say(u)'
      PROVE  FALSE
  <2>1. Word(w, v) \in Say(u)
    <3>1. Say(u)' \subseteq Say(u) OBVIOUS
    <3> QED BY <1>8, <3>1
  <2>2. CASE i = k
    <3>1. CancelMessage(w) \in Say(t) BY <1>6, <1>8, <2>2
    <3>2. t # u /\ (task[t].at = "joining" \/ Before(lock, u, t)) BY <2>1, <3>1 DEF CancelLast
    <3>3. Before(lock, u, t) BY <3>2 DEF Sending
    <3>4. PICK x, y \in 1 .. Len(lock) : x < y /\ lock[x] = u /\ lock[y] = t BY <3>3 DEF Before
    <3>5. lock[1] = t /\ Len(lock) \in Nat BY DEF ControlOK, OrderOK, QueueOK, Types, Sending
    <3>6. 1 \in 1 .. Len(lock) /\ y # 1 BY <3>4, <3>5
    <3> QED BY <3>4, <3>5, <3>6 DEF ControlOK, OrderOK, QueueOK
  <2>3. CASE i \in OnAir BY <1>4, <1>8, <2>1, <2>3 DEF CancelLast
  <2> QED BY <1>4, <2>2, <2>3
<1>9. ASSUME NEW w \in Warnings \ misled, NEW v \in 1 .. MaxVersion, NEW i \in OnAir', NEW j \in OnAir',
             CancelMessage(w) \in Out(i)', Word(w, v) \in Out(j)'
      PROVE  j < i
  <2>1. CASE i \in OnAir /\ j \in OnAir BY <1>4, <1>9, <2>1 DEF CancelLast
  <2>2. CASE i = k /\ j \in OnAir BY <1>4, <2>2
  <2>3. CASE j = k /\ i \in OnAir
    <3>1. Word(w, v) \in Say(t) /\ CancelMessage(w) \in Out(i) BY <1>4, <1>6, <1>9, <2>3
    <3> QED BY <2>3, <3>1 DEF CancelLast
  <2>4. CASE i = k /\ j = k
    <3>1. CancelMessage(w) = Word(w, v) BY <1>6, <1>9, <2>4
    <3> QED BY <3>1 DEF CancelMessage, Word
  <2> QED BY <1>4, <2>1, <2>2, <2>3, <2>4
<1> QED BY <1>7, <1>8, <1>9 DEF CancelLast, CancelMessage, Word

LEMMA SpeaksCancelLast ==
  ASSUME ControlOK, CancelLast, NEW t \in Tasks, NEW m \in task[t].batch, Speaks(t, m)
  PROVE  CancelLast'
<1>1. Packet(t, m) \in AirPackets /\ Say(t)' \subseteq Say(t) \ {m} BY SpeaksFacts
<1>2. \A u \in Tasks : Say(u)' \subseteq Say(u) BY SpeaksFacts
<1>3. lock' = lock /\ \A u \in Tasks : task'[u].at = task[u].at BY DEF Speaks, Sending
<1> QED BY <1>1, <1>2, <1>3, SpokenCancelLast DEF Speaks

LEMMA RestartCancelLast == ASSUME ControlOK, CancelLast, Restarts PROVE CancelLast'
<1>1. \A u \in Tasks : Say(u)' = {} BY RestartSlots
<1>2. CASE UNCHANGED air
  <2>1. OnAir' = OnAir /\ \A i \in OnAir : Out(i)' = Out(i) BY <1>2 DEF OnAir, Out
  <2> QED BY <1>1, <2>1 DEF Restarts, CancelLast, CancelMessage, Word
<1>3. ASSUME InBatch, NEW m \in task[Head(lock)].batch, air' = Append(air, Packet(Head(lock), m))
      PROVE  CancelLast'
  <2>1. PICK t \in Tasks : t = Head(lock) /\ task[t].at = "sending"
    BY <1>3, QueueFacts DEF ControlOK, InBatch
  <2>2. m \in task[t].batch /\ air' = Append(air, Packet(t, m)) BY <1>3, <2>1
  <2>3. Packet(t, m) \in AirPackets BY <2>1, <2>2, SendingPacket DEF ControlOK
  <2>4. m \notin Say(t)' /\ \A u \in Tasks : Say(u)' \subseteq Say(u) BY <1>1
  <2> QED BY <1>1, <2>1, <2>2, <2>3, <2>4, SpokenCancelLast DEF Restarts, Sending
<1> QED BY <1>2, <1>3 DEF Restarts

LEMMA PacketAnswers ==
  ASSUME ControlOK, AnswersOK, NEW t \in Tasks, NEW m \in task[t].batch, Packet(t, m) \in AirPackets,
         air' = Append(air, Packet(t, m))
  PROVE  \A i \in OnAir' : air'[i].why = "answer" => air'[i].message.type # "cancel"
<1>1. PICK k : k = Len(air) + 1 OBVIOUS
<1>2. Packet(t, m).why = task[t].why /\ Packet(t, m).message = m BY DEF Packet
<1>3. PICK p \in AirPackets : p = Packet(t, m) /\ p.why = task[t].why /\ p.message = m BY <1>2
<1>4. /\ OnAir' = OnAir \cup {k} /\ air'[k] = p
      /\ \A i \in OnAir : air'[i] = air[i]
  BY <1>1, <1>3, HeardMore
<1> QED BY <1>3, <1>4 DEF AnswersOK

LEMMA AnswersKept == ASSUME ControlOK, AnswersOK, SomeKind PROVE AnswersOK'
<1>1. CASE Quiet
  <2>1. UNCHANGED air /\ \A t \in Tasks : Lowers(task[t], task'[t]) BY <1>1 DEF Quiet
  <2>2. ASSUME NEW t \in Tasks, task'[t].why = "answer", NEW m \in task'[t].batch
        PROVE  m.type # "cancel"
    BY <2>1, <2>2 DEF Lowers, AnswersOK
  <2> QED BY <2>1, <2>2 DEF AnswersOK, OnAir
<1>2. ASSUME NEW t \in Tasks, NEW m \in task[t].batch, Speaks(t, m) PROVE AnswersOK'
  <2>1. Packet(t, m) \in AirPackets BY <1>2, SpeaksFacts
  <2>2. \A i \in OnAir' : air'[i].why = "answer" => air'[i].message.type # "cancel"
    BY <1>2, <2>1, PacketAnswers DEF Speaks
  <2>3. \A u \in Tasks : task'[u].why = task[u].why /\ task'[u].batch \subseteq task[u].batch
    BY <1>2 DEF Speaks
  <2> QED BY <2>2, <2>3 DEF AnswersOK
<1>3. ASSUME NEW t \in Tasks, NEW why \in Whyfore, NEW batch, Builds(t, why, batch) PROVE AnswersOK'
  BY <1>3 DEF Builds, AnswersOK, Whyfore, OnAir
<1>4. CASE Restarts
  <2>1. \A t \in Tasks : task'[t].why # "answer" BY <1>4, IdleType DEF Restarts
  <2>2. ASSUME InBatch, NEW m \in task[Head(lock)].batch, air' = Append(air, Packet(Head(lock), m))
        PROVE  \A i \in OnAir' : air'[i].why = "answer" => air'[i].message.type # "cancel"
    <3>1. PICK t \in Tasks : t = Head(lock) /\ task[t].at = "sending"
      BY <2>2, QueueFacts DEF ControlOK, InBatch
    <3>2. m \in task[t].batch /\ air' = Append(air, Packet(t, m)) BY <2>2, <3>1
    <3>3. Packet(t, m) \in AirPackets BY <3>1, <3>2, SendingPacket DEF ControlOK
    <3> QED BY <3>2, <3>3, PacketAnswers
  <2>3. CASE UNCHANGED air BY <2>1, <2>3 DEF AnswersOK, OnAir
  <2> QED BY <1>4, <2>1, <2>2, <2>3 DEF Restarts, AnswersOK
<1> QED BY <1>1, <1>2, <1>3, <1>4 DEF SomeKind, BuildsWarnings, BuildsDigest

LEMMA ToldKept == ASSUME ControlOK, ToldOK, [Next]_vars PROVE ToldOK'
<1> USE DEF ToldOK
<1>1. ControlOK' /\ Onward /\ SomeKind BY ControlKept, EveryStepIsOnward, EveryKind
<1>2. AnswersOK' BY <1>1, AnswersKept
<1>3. CASE Quiet BY <1>1, <1>2, <1>3, QuietTold, QuietCancelLast
<1>4. CASE Restarts BY <1>1, <1>2, <1>4, RestartTold, RestartCancelLast
<1>5. ASSUME NEW t \in Tasks, NEW m \in task[t].batch, Speaks(t, m) PROVE ToldOK'
  BY <1>1, <1>2, <1>5, SpeaksTold, SpeaksCancelLast
<1>6. ASSUME NEW t \in Tasks, NEW why \in Whyfore, BuildsWarnings(t, why) \/ BuildsDigest(t, why)
      PROVE  ToldOK'
  BY <1>1, <1>2, <1>6, BuildsTold, BuildsCancelLast
<1> QED BY <1>1, <1>3, <1>4, <1>5, <1>6 DEF SomeKind

LEMMA InitSilent == ASSUME Init PROVE \A m : Sayers(m) = {} /\ Kept(m) = {}
<1>1. \A t \in Tasks : Say(t) = {} BY IdleType DEF Init, Say, Scheduled
<1>2. OnAir = {} BY DEF Init, OnAir
<1> QED BY <1>1, <1>2 DEF Sayers, Kept, Heard

LEMMA InitTold == ASSUME Init PROVE ToldOK
<1>1. \A m : Sayers(m) = {} /\ Kept(m) = {} BY InitSilent
<1>2. /\ told = [w \in Warnings |-> Untold] /\ saved.told = told /\ active = [w \in Warnings |-> 0]
  BY DEF Init
<1>3. \A w \in Warnings : TellsNow(w, Untold, 0, over[w]) BY DEF TellsNow, Untold, NoTime
<1>4. \A w \in Warnings, v \in 1 .. MaxVersion :
        VersionFits({}, w, v, Untold, over[w]) /\ CancelFits({}, Untold, over[w])
  BY DEF VersionFits, CancelFits, AtMostOnce, AtMostTwice
<1>5. \A w \in Warnings : CancelFits({}, Untold, over[w]) BY DEF CancelFits, AtMostOnce
<1>6. MemoryFits /\ FileFits BY <1>1, <1>2, <1>3, <1>4, <1>5 DEF MemoryFits, FileFits
<1>7. (\A t \in Tasks : task[t] = IdleTask) /\ OnAir = {} BY DEF Init, OnAir
<1>8. CancelLast BY <1>7, IdleType DEF CancelLast, Say, Scheduled
<1>9. AnswersOK BY <1>7, IdleType DEF AnswersOK
<1> QED BY <1>6, <1>8, <1>9 DEF ToldOK

LEMMA ToldAlways == Spec => [](ControlOK /\ ToldOK)
<1>1. Init => ControlOK /\ ToldOK BY InitControl, InitTold
<1>2. ControlOK /\ ToldOK /\ [Next]_vars => (ControlOK /\ ToldOK)' BY ControlKept, ToldKept
<1> QED BY <1>1, <1>2, PTL DEF Spec

LEMMA FewHave ==
  ASSUME NEW P
  PROVE  /\ AtMostOnce(P) => Cardinality(P) <= 1
         /\ AtMostTwice(P) => Cardinality(P) <= 2
<1>1. CASE P = {} BY <1>1, FS_EmptySet
<1>2. ASSUME NEW x \in P PROVE /\ AtMostOnce(P) => Cardinality(P) <= 1
                               /\ AtMostTwice(P) => Cardinality(P) <= 2
  <2>1. IsFiniteSet({x}) /\ Cardinality({x}) = 1 BY FS_Singleton
  <2>2. CASE P = {x} BY <2>1, <2>2
  <2>3. ASSUME NEW y \in P, y # x PROVE /\ AtMostOnce(P) => Cardinality(P) <= 1
                                        /\ AtMostTwice(P) => Cardinality(P) <= 2
    <3>1. ~AtMostOnce(P) BY <2>3 DEF AtMostOnce
    <3>2. Cardinality({x} \cup {y}) = 2 BY <2>1, <2>3, FS_AddElement
    <3>3. AtMostTwice(P) => P = {x} \cup {y} BY <2>3 DEF AtMostTwice
    <3> QED BY <3>1, <3>2, <3>3
  <2> QED BY <2>2, <2>3
<1> QED BY <1>1, <1>2

LEMMA KindsOfMessages ==
  ASSUME NEW m \in Messages
  PROVE  /\ m.type = "cancel" => m = CancelMessage(m.id)
         /\ m.type = "warning" => m.version \in 1 .. MaxVersion /\ m = Word(m.id, m.version)
<1>1. CASE m \in [type : {"warning"}, id : Warnings, version : 1 .. MaxVersion]
  BY <1>1 DEF CancelMessage, Word
<1>2. CASE m \in [type : {"cancel"}, id : Warnings] BY <1>2 DEF CancelMessage
<1>3. CASE m \in [type : {"digest"}, listed : SUBSET Warnings, built : 0 .. MaxTime] BY <1>3
<1>4. CASE m = StartingUp
  <2>1. m.type = "starting up" BY <1>4 DEF StartingUp
  <2> QED BY <2>1
<1>5. CASE m \in PartMessages BY <1>5 DEF PartMessages
<1> QED BY <1>1, <1>2, <1>3, <1>4, <1>5 DEF Messages

LEMMA ToldOnceFits == ASSUME ControlOK, ToldOK PROVE ToldOnce
<1>1. ASSUME NEW w \in Warnings \ misled, NEW v \in 1 .. MaxVersion
     
      PROVE  Cardinality({i \in OnAir : /\ air[i].message = [type |-> "warning", id |-> w, version |-> v]
                                        /\ Scheduled(air[i].why)})
               <= IF w \in LifeSafety THEN 2 ELSE 1
  <2> DEFINE P == {i \in OnAir : /\ air[i].message = [type |-> "warning", id |-> w, version |-> v]
                                 /\ Scheduled(air[i].why)}
  <2>1. \A i \in P : <<"air", i>> \in Sayers(Word(w, v)) BY DEF Sayers, Heard, Out, Word
  <2>2. VersionFits(Sayers(Word(w, v)), w, v, told[w], over[w]) BY DEF ToldOK, MemoryFits
  <2> HIDE DEF P
  <2>3. AtMostTwice(P) BY ZenonT(40), <2>1, <2>2 DEF VersionFits, AtMostTwice
  <2>4. w \notin LifeSafety => AtMostOnce(P) BY <2>1, <2>2 DEF VersionFits, AtMostOnce
  <2>5. Cardinality(P) <= IF w \in LifeSafety THEN 2 ELSE 1 BY <2>3, <2>4, FewHave
  <2> QED BY <2>5 DEF P
<1>2. ASSUME NEW w \in Warnings \ misled, NEW i \in OnAir, NEW j \in OnAir, i < j,
             air[i].message = CancelMessage(w), Scheduled(air[j].why),
             air[j].message.type \in {"warning", "cancel"}, air[j].message.id = w
      PROVE  FALSE
  <2>1. /\ air[j].message \in Messages /\ air[i].why \in Whys \ {"none"}
        /\ i \in Int /\ j \in Int
    <3>1. air \in Seq(AirPackets) BY DEF ControlOK, OrderOK, Types
    <3>2. air[i] \in AirPackets /\ air[j] \in AirPackets /\ i \in Int /\ j \in Int BY <3>1 DEF OnAir
    <3> QED BY <3>2 DEF AirPackets
  <2>2. CancelMessage(w).type = "cancel" BY DEF CancelMessage
  <2>3. CancelMessage(w) \in Out(i) /\ Out(j) = {air[j].message}
    BY <1>2, <2>1, <2>2 DEF ToldOK, AnswersOK, Out, Scheduled, Whys
  <2>4. CASE air[j].message.type = "cancel"
    <3>1. air[j].message = CancelMessage(w) BY <1>2, <2>1, <2>4, KindsOfMessages
    <3>2. <<"air", i>> \in Sayers(CancelMessage(w)) /\ <<"air", j>> \in Sayers(CancelMessage(w))
      BY <2>3, <3>1 DEF Sayers, Heard
    <3>3. AtMostOnce(Sayers(CancelMessage(w))) BY DEF ToldOK, MemoryFits, CancelFits
    <3>4. <<"air", i>> = <<"air", j>> BY <3>2, <3>3 DEF AtMostOnce
    <3> QED BY <1>2, <2>1, <3>4
  <2>5. CASE air[j].message.type = "warning"
    <3>1. PICK v \in 1 .. MaxVersion : air[j].message = Word(w, v)
      BY <1>2, <2>1, <2>5, KindsOfMessages
    <3>2. j < i BY <2>3, <3>1 DEF ToldOK, CancelLast
    <3> QED BY <1>2, <2>1, <3>2
  <2> QED BY <1>2, <2>4, <2>5
<1> QED BY <1>1, <1>2 DEF ToldOnce

\* The schedule announces a version of a warning once (a new life-safety warning
\* once more) and cancels it once, as its last word, across restarts, runs by hand
\* and the ceiling, for any warnings and tasks: of every warning but those that an
\* operator's run before the backlog was in, or the schedule after it failed, said
\* something else of than all the bot's products do.
THEOREM EachIsToldOnce == Spec => []ToldOnce
BY ToldAlways, ToldOnceFits, PTL

-----------------------------------------------------------------------------
(* The digests *)

\* A scheduled digest, where it is, when it was built and why.
DigestAt(slot, m, why) == [slot |-> slot, message |-> m, why |-> why]
AirDigests(i) == {DigestAt(<<"air", i>>, m, air[i].why) : m \in {n \in Out(i) : n.type = "digest"}}
TaskDigests(t) == {DigestAt(<<"task", t>>, m, task[t].why) : m \in {n \in Say(t) : n.type = "digest"}}
DigestsSaid == (UNION {AirDigests(i) : i \in OnAir}) \cup (UNION {TaskDigests(t) : t \in Tasks})
DigestsKept ==
  (UNION {AirDigests(i) : i \in OnAir})
  \cup (UNION {TaskDigests(t) : t \in {u \in Tasks : Sending(u)}})

OneEach(D) == \A d, e \in D : d.slot = e.slot => d = e
Spaced(D) ==
  \A d, e \in D :
    /\ d.slot # e.slot /\ e.why = "due" /\ d.message.built <= e.message.built
    /\ d.message.built = e.message.built => d.why = "due"
    => e.message.built - d.message.built >= Interval["digest"]
BuiltBy(D, time) == \A d \in D : d.message.built \in Nat /\ d.message.built <= time

\* The memory knows the last digest that was built, and the file the last one that
\* a restart cannot undo.
DigestsOK ==
  /\ lastRun["digest"] <= now /\ saved.lastRun["digest"] <= lastRun["digest"]
  /\ BuiltBy(DigestsSaid, lastRun["digest"]) /\ BuiltBy(DigestsKept, saved.lastRun["digest"])
  /\ OneEach(DigestsSaid) /\ Spaced(DigestsSaid)

\* One digest may go on to a place where there was none.
DigestsMoved(D, E) ==
  \/ E \subseteq D
  \/ \E d \in D : \E q :
       /\ \A e \in D : e.slot # q
       /\ E \subseteq (D \ {d}) \cup {[slot |-> q, message |-> d.message, why |-> d.why]}

LEMMA DigestsGoOn ==
  ASSUME NEW D, NEW E, DigestsMoved(D, E)
  PROVE  /\ \A time : BuiltBy(D, time) => BuiltBy(E, time)
         /\ OneEach(D) => OneEach(E)
         /\ OneEach(D) /\ Spaced(D) => Spaced(E)
<1>1. CASE E \subseteq D BY <1>1 DEF BuiltBy, OneEach, Spaced
<1>2. ASSUME NEW d \in D, NEW q, \A e \in D : e.slot # q,
             E \subseteq (D \ {d}) \cup {[slot |-> q, message |-> d.message, why |-> d.why]}
      PROVE  /\ \A time : BuiltBy(D, time) => BuiltBy(E, time)
             /\ OneEach(D) => OneEach(E)
             /\ OneEach(D) /\ Spaced(D) => Spaced(E)
  <2>1. PICK moved : moved = [slot |-> q, message |-> d.message, why |-> d.why] OBVIOUS
  <2>2. moved.slot = q /\ moved.message = d.message /\ moved.why = d.why BY <2>1
  <2>3. E \subseteq (D \ {d}) \cup {moved} BY <1>2, <2>1
  <2>4. \A time : BuiltBy(D, time) => BuiltBy(E, time) BY <2>2, <2>3 DEF BuiltBy
  <2>5. OneEach(D) => OneEach(E) BY <1>2, <2>2, <2>3 DEF OneEach
  <2>6. ASSUME OneEach(D), Spaced(D), NEW x \in E, NEW y \in E, x.slot # y.slot, y.why = "due",
               x.message.built <= y.message.built, x.message.built = y.message.built => x.why = "due"
        PROVE  y.message.built - x.message.built >= Interval["digest"]
    <3>1. CASE x = moved
      <4>1. y \in D /\ y # d BY <2>3, <2>6, <3>1
      <4>2. d.slot # y.slot BY <2>6, <4>1 DEF OneEach
      <4> QED BY <2>2, <2>6, <3>1, <4>1, <4>2 DEF Spaced
    <3>2. CASE x # moved /\ y = moved
      <4>1. x \in D /\ x # d BY <2>3, <3>2
      <4>2. d.slot # x.slot BY <2>6, <4>1 DEF OneEach
      <4> QED BY <2>2, <2>6, <3>2, <4>1, <4>2 DEF Spaced
    <3>3. CASE x # moved /\ y # moved BY <2>3, <2>6, <3>3 DEF Spaced
    <3> QED BY <3>1, <3>2, <3>3
  <2>7. OneEach(D) /\ Spaced(D) => Spaced(E) BY <2>6 DEF Spaced
  <2> QED BY <2>4, <2>5, <2>7
<1> QED BY <1>1, <1>2 DEF DigestsMoved

LEMMA DigestsInPlace ==
  ASSUME UNCHANGED air, \A t \in Tasks : Lowers(task[t], task'[t])
  PROVE  /\ \A i \in OnAir : AirDigests(i)' = AirDigests(i)
         /\ OnAir' = OnAir
         /\ \A t \in Tasks : TaskDigests(t)' \subseteq TaskDigests(t)
<1>1. ASSUME NEW t \in Tasks PROVE TaskDigests(t)' \subseteq TaskDigests(t)
  <2>1. Lowers(task[t], task'[t]) OBVIOUS
  <2>2. Say(t)' \subseteq Say(t) /\ (Say(t)' # {} => task'[t].why = task[t].why)
    BY <2>1 DEF Lowers, Say, Scheduled
  <2> QED BY <2>2 DEF TaskDigests
<1>2. \A i \in OnAir : AirDigests(i)' = AirDigests(i) BY DEF AirDigests, Out
<1> QED BY <1>1, <1>2 DEF OnAir

LEMMA QuietDigests == ASSUME DigestsOK, Quiet, ControlOK, ControlOK', now <= now' PROVE DigestsOK'
<1>1. /\ \A i \in OnAir : AirDigests(i)' = AirDigests(i)
      /\ OnAir' = OnAir
      /\ \A t \in Tasks : TaskDigests(t)' \subseteq TaskDigests(t)
  BY DigestsInPlace DEF Quiet
<1>2. DigestsSaid' \subseteq DigestsSaid BY <1>1 DEF DigestsSaid
<1>3. DigestsKept' \subseteq DigestsSaid BY <1>1 DEF DigestsSaid, DigestsKept
<1>4. (\A t \in Tasks : Sending(t)' => Sending(t)) => DigestsKept' \subseteq DigestsKept
  BY <1>1 DEF DigestsKept
<1>5. lastRun' = lastRun /\ now \in Int /\ now' \in Int /\ lastRun["digest"] \in Int
  BY SchedulerConstants DEF Quiet, ControlOK, OrderOK, Types, Jobs, Times, NoTime
<1>6. lastRun'["digest"] <= now' BY <1>5 DEF DigestsOK
<1>7. /\ BuiltBy(DigestsSaid, lastRun["digest"])' /\ OneEach(DigestsSaid)' /\ Spaced(DigestsSaid)'
  BY <1>2, <1>5, DigestsGoOn DEF DigestsMoved, DigestsOK
<1>8. CASE saved' = saved /\ \A t \in Tasks : Sending(t)' => Sending(t)
  <2>1. BuiltBy(DigestsKept', saved.lastRun["digest"])
    <3>1. DigestsKept' \subseteq DigestsKept BY <1>4, <1>8
    <3>2. BuiltBy(DigestsKept, saved.lastRun["digest"]) BY DEF DigestsOK
    <3> QED BY <3>1, <3>2 DEF BuiltBy
  <2> QED BY <1>5, <1>6, <1>7, <1>8, <2>1 DEF DigestsOK
<1>9. CASE saved'.told = told /\ saved'.lastRun = lastRun
  <2>1. BuiltBy(DigestsKept', lastRun["digest"])
    BY <1>3, DigestsGoOn DEF DigestsMoved, DigestsOK
  <2> QED BY <1>5, <1>6, <1>7, <1>9, <2>1 DEF DigestsOK
<1> QED BY <1>8, <1>9 DEF Quiet

LEMMA WhereDigestsAre ==
  /\ \A d : d \in DigestsSaid <=> \/ \E i \in OnAir : d \in AirDigests(i)
                                  \/ \E t \in Tasks : d \in TaskDigests(t)
  /\ \A d : d \in DigestsSaid' <=> \/ \E i \in OnAir' : d \in AirDigests(i)'
                                   \/ \E t \in Tasks : d \in TaskDigests(t)'
  /\ \A d : d \in DigestsKept <=> \/ \E i \in OnAir : d \in AirDigests(i)
                                  \/ \E t \in Tasks : Sending(t) /\ d \in TaskDigests(t)
  /\ \A d : d \in DigestsKept' <=> \/ \E i \in OnAir' : d \in AirDigests(i)'
                                   \/ \E t \in Tasks : Sending(t)' /\ d \in TaskDigests(t)'
  /\ \A i, d : d \in AirDigests(i) => d.slot = <<"air", i>>
  /\ \A t, d : d \in TaskDigests(t) => d.slot = <<"task", t>>
<1>1. \A d : d \in DigestsSaid <=> \/ \E i \in OnAir : d \in AirDigests(i)
                                   \/ \E t \in Tasks : d \in TaskDigests(t)
  BY DEF DigestsSaid
<1>2. \A d : d \in DigestsSaid' <=> \/ \E i \in OnAir' : d \in AirDigests(i)'
                                    \/ \E t \in Tasks : d \in TaskDigests(t)'
  BY DEF DigestsSaid
<1>3. \A d : d \in DigestsKept <=> \/ \E i \in OnAir : d \in AirDigests(i)
                                   \/ \E t \in Tasks : Sending(t) /\ d \in TaskDigests(t)
  BY DEF DigestsKept
<1>4. \A d : d \in DigestsKept' <=> \/ \E i \in OnAir' : d \in AirDigests(i)'
                                    \/ \E t \in Tasks : Sending(t)' /\ d \in TaskDigests(t)'
  BY DEF DigestsKept
<1>5. \A i, d : d \in AirDigests(i) => d.slot = <<"air", i>> BY DEF AirDigests, DigestAt
<1>6. \A t, d : d \in TaskDigests(t) => d.slot = <<"task", t>> BY DEF TaskDigests, DigestAt
<1> QED BY <1>1, <1>2, <1>3, <1>4, <1>5, <1>6

LEMMA DigestNumbers ==
  ASSUME ControlOK
  PROVE  /\ now \in Nat /\ lastRun["digest"] \in Int /\ saved.lastRun["digest"] \in Int
         /\ Interval["digest"] \in Nat \ {0}
<1>1. /\ now \in Nat /\ lastRun \in [Jobs -> Times] /\ saved.lastRun \in [Jobs -> Times]
  BY SchedulerConstants DEF ControlOK, OrderOK, Types, Files
<1>2. "digest" \in Jobs /\ \A k \in Times : k \in Int BY SchedulerConstants DEF Jobs, Times, NoTime
<1> QED BY <1>1, <1>2, SchedulerConstants

\* A packet takes its task's digest along.
LEMMA SpokenDigests ==
  ASSUME ControlOK, OneEach(DigestsSaid), NEW t \in Tasks, NEW m \in task[t].batch,
         Packet(t, m) \in AirPackets, air' = Append(air, Packet(t, m)),
         \A u \in Tasks : Say(u)' \subseteq Say(u),
         \A u \in Tasks : Say(u)' # {} => task'[u].why = task[u].why,
         m \notin Say(t)'
  PROVE  /\ DigestsMoved(DigestsSaid, DigestsSaid')
         /\ Sending(t) /\ (\A u \in Tasks : Sending(u)' => Sending(u))
            => DigestsMoved(DigestsKept, DigestsKept')
<1>1. PICK k : k = Len(air) + 1 OBVIOUS
<1>2. Packet(t, m).why = task[t].why /\ Packet(t, m).message = m BY DEF Packet
<1>3. PICK p \in AirPackets : p = Packet(t, m) /\ p.why = task[t].why /\ p.message = m BY <1>2
<1>4. /\ OnAir' = OnAir \cup {k} /\ k \notin OnAir /\ air'[k] = p
      /\ \A i \in OnAir : air'[i] = air[i] /\ Out(i)' = Out(i)
  BY <1>1, <1>3, HeardMore
<1>5. Out(k)' = IF Scheduled(p.why) THEN {p.message} ELSE {} BY <1>1, <1>3, HeardMore
<1>6. \A i \in OnAir : AirDigests(i)' = AirDigests(i) BY <1>4 DEF AirDigests
<1>7. ASSUME NEW u \in Tasks PROVE TaskDigests(u)' \subseteq TaskDigests(u)
  <2>1. Say(u)' \subseteq Say(u) /\ (Say(u)' # {} => task'[u].why = task[u].why) OBVIOUS
  <2> QED BY <2>1 DEF TaskDigests
<1>8. PICK old : old = DigestAt(<<"task", t>>, m, task[t].why) OBVIOUS
<1>9. old.slot = <<"task", t>> /\ old.message = m /\ old.why = task[t].why BY <1>8 DEF DigestAt
<1>10. PICK new : new = [slot |-> <<"air", k>>, message |-> old.message, why |-> old.why] OBVIOUS
<1>11. \A d \in DigestsSaid : d.slot # <<"air", k>> BY <1>4, WhereDigestsAre
<1>12. DigestsKept \subseteq DigestsSaid BY WhereDigestsAre
<1>13. CASE Scheduled(task[t].why) /\ m.type = "digest"
  <2>1. old \in TaskDigests(t) BY <1>8, <1>13 DEF TaskDigests, Say
  <2>2. AirDigests(k)' = {new}
    <3>1. Out(k)' = {m} /\ air'[k].why = task[t].why BY <1>3, <1>4, <1>5, <1>13
    <3>2. new = [slot |-> <<"air", k>>, message |-> m, why |-> task[t].why] BY <1>9, <1>10
    <3> QED BY <1>13, <3>1, <3>2 DEF AirDigests, DigestAt
  <2>3. old \in DigestsSaid BY <2>1, WhereDigestsAre
  <2>4. \A d \in TaskDigests(t) : d = old
    <3>1. \A d \in TaskDigests(t) : d \in DigestsSaid /\ d.slot = old.slot
      BY <1>9, WhereDigestsAre
    <3> QED BY <2>3, <3>1 DEF OneEach
  <2>5. TaskDigests(t)' = {}
    <3> SUFFICES ASSUME NEW d \in TaskDigests(t)' PROVE FALSE OBVIOUS
    <3>1. d \in TaskDigests(t) BY <1>7
    <3>2. d.message = m BY <1>9, <2>4, <3>1
    <3>3. d.message \in Say(t)' BY DEF TaskDigests, DigestAt
    <3> QED BY <3>2, <3>3
  <2>6. \A u \in Tasks : u # t => old \notin TaskDigests(u) BY <1>9, WhereDigestsAre
  <2>7. \A i \in OnAir : old \notin AirDigests(i) BY <1>9, WhereDigestsAre
  <2>8. DigestsSaid' \subseteq (DigestsSaid \ {old}) \cup {new}
    BY <1>4, <1>6, <1>7, <2>2, <2>5, <2>6, <2>7, WhereDigestsAre
  <2>9. DigestsMoved(DigestsSaid, DigestsSaid')
    BY <1>10, <1>11, <2>3, <2>8 DEF DigestsMoved
  <2>10. ASSUME Sending(t), \A u \in Tasks : Sending(u)' => Sending(u)
         PROVE  DigestsMoved(DigestsKept, DigestsKept')
    <3>1. old \in DigestsKept BY <2>1, <2>10, WhereDigestsAre
    <3>2. DigestsKept' \subseteq (DigestsKept \ {old}) \cup {new}
      BY <1>4, <1>6, <1>7, <2>2, <2>5, <2>6, <2>7, <2>10, WhereDigestsAre
    <3> QED BY <1>10, <1>11, <1>12, <3>1, <3>2 DEF DigestsMoved
  <2> QED BY <2>9, <2>10
<1>14. CASE ~(Scheduled(task[t].why) /\ m.type = "digest")
  <2>1. AirDigests(k)' = {} BY <1>3, <1>5, <1>14 DEF AirDigests
  <2>2. DigestsSaid' \subseteq DigestsSaid BY <1>4, <1>6, <1>7, <2>1, WhereDigestsAre
  <2>3. (\A u \in Tasks : Sending(u)' => Sending(u)) => DigestsKept' \subseteq DigestsKept
    BY <1>4, <1>6, <1>7, <2>1, WhereDigestsAre
  <2> QED BY <2>2, <2>3 DEF DigestsMoved
<1> QED BY <1>13, <1>14

LEMMA SpeaksDigests ==
  ASSUME ControlOK, ControlOK', DigestsOK, now <= now', NEW t \in Tasks, NEW m \in task[t].batch,
         Speaks(t, m)
  PROVE  DigestsOK'
<1>1. /\ Packet(t, m) \in AirPackets /\ Say(t)' \subseteq Say(t) \ {m}
      /\ \A u \in Tasks : u # t => Say(u)' = Say(u) /\ (Sending(u)' <=> Sending(u))
      /\ Sending(t)'
  BY SpeaksFacts
<1>2. \A u \in Tasks : task'[u].why = task[u].why BY DEF Speaks
<1>3. \A u \in Tasks : Say(u)' \subseteq Say(u) BY <1>1
<1>4. /\ Sending(t) /\ air' = Append(air, Packet(t, m)) /\ lastRun' = lastRun /\ saved' = saved
      /\ \A u \in Tasks : Sending(u)' => Sending(u)
  BY <1>1 DEF Speaks
<1>5. DigestsMoved(DigestsSaid, DigestsSaid') /\ DigestsMoved(DigestsKept, DigestsKept')
  BY <1>1, <1>2, <1>3, <1>4, SpokenDigests DEF DigestsOK
<1>6. now \in Int /\ now' \in Int /\ lastRun["digest"] \in Int
  BY SchedulerConstants DEF ControlOK, OrderOK, Types, Jobs, Times, NoTime
<1>7. lastRun["digest"] <= now' BY <1>6 DEF DigestsOK
<1> QED BY <1>4, <1>5, <1>7, DigestsGoOn DEF DigestsOK

LEMMA RestartDigests ==
  ASSUME ControlOK, ControlOK', DigestsOK, Restarts PROVE DigestsOK'
<1>1. \A u \in Tasks : Say(u)' = {} BY RestartSlots
<1>2. /\ \A d \in DigestsSaid' : \E i \in OnAir' : d \in AirDigests(i)'
      /\ DigestsKept' = DigestsSaid'
  <2>1. \A t \in Tasks : TaskDigests(t)' = {} BY <1>1 DEF TaskDigests
  <2> QED BY <2>1, WhereDigestsAre
<1>3. now' = now /\ lastRun' = saved'.lastRun BY DEF Restarts
<1>4. now \in Int /\ lastRun["digest"] \in Int /\ saved.lastRun["digest"] \in Int
  BY DigestNumbers
<1>5. CASE UNCHANGED <<saved, air>>
  <2>1. DigestsSaid' \subseteq DigestsKept /\ DigestsSaid' \subseteq DigestsSaid
    <3>1. OnAir' = OnAir /\ \A i \in OnAir : AirDigests(i)' = AirDigests(i)
      BY <1>5 DEF AirDigests, Out, OnAir
    <3> QED BY <1>2, <3>1, WhereDigestsAre
  <2>2. BuiltBy(DigestsSaid', saved.lastRun["digest"]) /\ OneEach(DigestsSaid') /\ Spaced(DigestsSaid')
    BY <2>1 DEF DigestsOK, BuiltBy, OneEach, Spaced
  <2>3. saved.lastRun["digest"] <= now BY <1>4 DEF DigestsOK
  <2> QED BY <1>2, <1>3, <1>4, <1>5, <2>2, <2>3 DEF DigestsOK
<1>6. CASE saved'.lastRun = lastRun /\ DigestsMoved(DigestsSaid, DigestsSaid')
  <2>1. /\ BuiltBy(DigestsSaid', lastRun["digest"]) /\ OneEach(DigestsSaid') /\ Spaced(DigestsSaid')
    BY <1>6, DigestsGoOn DEF DigestsOK
  <2> QED BY <1>2, <1>3, <1>4, <1>6, <2>1 DEF DigestsOK
<1>7. ASSUME saved'.lastRun = lastRun, UNCHANGED air PROVE DigestsMoved(DigestsSaid, DigestsSaid')
  <2>1. OnAir' = OnAir /\ \A i \in OnAir : AirDigests(i)' = AirDigests(i)
    BY <1>7 DEF AirDigests, Out, OnAir
  <2> QED BY <1>2, <2>1, WhereDigestsAre DEF DigestsMoved
<1>8. ASSUME saved'.lastRun = lastRun, InBatch, NEW m \in task[Head(lock)].batch,
             air' = Append(air, Packet(Head(lock), m))
      PROVE  DigestsMoved(DigestsSaid, DigestsSaid')
  <2>1. PICK t \in Tasks : t = Head(lock) /\ task[t].at = "sending"
    BY <1>8, QueueFacts DEF ControlOK, InBatch
  <2>2. m \in task[t].batch /\ air' = Append(air, Packet(t, m)) BY <1>8, <2>1
  <2>3. Packet(t, m) \in AirPackets BY <2>1, <2>2, SendingPacket DEF ControlOK
  <2>4. m \notin Say(t)' /\ \A u \in Tasks : Say(u)' \subseteq Say(u) BY <1>1
  <2>5. \A u \in Tasks : Say(u)' # {} => task'[u].why = task[u].why BY <1>1
  <2> QED BY <2>2, <2>3, <2>4, <2>5, SpokenDigests DEF DigestsOK
<1> QED BY <1>5, <1>6, <1>7, <1>8 DEF Restarts

\* A task that held nothing has built no digest, or one of now.
LEMMA BuildsDigests ==
  ASSUME ControlOK, ControlOK', DigestsOK, NEW t \in Tasks, NEW why \in Whyfore,
         BuildsWarnings(t, why) \/ BuildsDigest(t, why)
  PROVE  DigestsOK'
<1>1. PICK batch : Builds(t, why, batch) BY DEF BuildsWarnings, BuildsDigest
<1>2. /\ Say(t)' = batch /\ Say(t) = {} /\ \A u \in Tasks : u # t => Say(u)' = Say(u)
  BY <1>1, BuildsSlots
<1>3. /\ saved' = saved /\ now' = now /\ OnAir' = OnAir
      /\ \A i \in OnAir : AirDigests(i)' = AirDigests(i)
      /\ \A u \in Tasks : u # t => task'[u] = task[u]
      /\ ~Sending(t)'
  BY <1>1 DEF Builds, AirDigests, Out, OnAir, Sending
<1>4. /\ TaskDigests(t) = {}
      /\ \A u \in Tasks : u # t => TaskDigests(u)' = TaskDigests(u) /\ (Sending(u)' <=> Sending(u))
  BY <1>2, <1>3 DEF TaskDigests, Sending
<1>5. DigestsSaid' \subseteq DigestsSaid \cup TaskDigests(t)' /\ DigestsKept' \subseteq DigestsKept
  BY <1>3, <1>4, WhereDigestsAre
<1>6. BuiltBy(DigestsKept', saved.lastRun["digest"]) BY <1>5 DEF DigestsOK, BuiltBy
<1>7. /\ now \in Nat /\ lastRun["digest"] \in Int /\ saved.lastRun["digest"] \in Int
      /\ Interval["digest"] \in Nat \ {0} /\ lastRun["digest"] <= now
      /\ saved.lastRun["digest"] <= lastRun["digest"]
  BY DigestNumbers DEF DigestsOK
<1>8. CASE BuildsWarnings(t, why)
  <2>0. PICK held \in Stores : \E chosen \in Allowed(held) : Builds(t, why, WarningsBatch(chosen, held))
    BY <1>8 DEF BuildsWarnings
  <2>1. PICK chosen \in Allowed(held) : Builds(t, why, WarningsBatch(chosen, held)) BY <2>0
  <2>2. Say(t)' = WarningsBatch(chosen, held) BY <2>1, BuildsSlots
  <2>3. \A m \in WarningsBatch(chosen, held) : m.type # "digest"
    BY DEF WarningsBatch, CancelMessage, WarningMessage
  <2>4. TaskDigests(t)' = {} BY <2>2, <2>3 DEF TaskDigests
  <2>5. DigestsSaid' \subseteq DigestsSaid BY <1>5, <2>4
  <2>6. lastRun'["digest"] = lastRun["digest"] BY <1>8 DEF BuildsWarnings
  <2>7. BuiltBy(DigestsSaid', lastRun["digest"]) /\ OneEach(DigestsSaid') /\ Spaced(DigestsSaid')
    BY <2>5 DEF DigestsOK, BuiltBy, OneEach, Spaced
  <2> QED BY <1>3, <1>6, <1>7, <2>6, <2>7 DEF DigestsOK
<1>9. CASE BuildsDigest(t, why)
  <2>0. PICK held \in Stores : Builds(t, why, {DigestMessage(held)}) BY <1>9 DEF BuildsDigest
  <2>1. PICK m : m = DigestMessage(held) /\ Builds(t, why, {m}) BY <2>0
  <2>2. m.type = "digest" /\ m.built = now BY <2>1 DEF DigestMessage
  <2>3. Builds(t, why, {m}) BY <2>1
  <2>4. /\ lastRun'["digest"] = now
        /\ why = "due" => (lastRun["digest"] # NoTime => now - lastRun["digest"] >= Interval["digest"])
    BY <1>9 DEF BuildsDigest
  <2>5. Say(t)' = {m} /\ task'[t].why = why BY <2>3, BuildsSlots DEF Builds
  <2>6. PICK new : new = DigestAt(<<"task", t>>, m, why) OBVIOUS
  <2>7. new.slot = <<"task", t>> /\ new.message = m /\ new.why = why BY <2>6 DEF DigestAt
  <2>8. TaskDigests(t)' = {new} BY <2>2, <2>5, <2>6 DEF TaskDigests
  <2>9. DigestsSaid' \subseteq DigestsSaid \cup {new} BY <1>5, <2>8
  <2>10. \A d \in DigestsSaid : d.slot # <<"task", t>> BY <1>4, WhereDigestsAre
  <2>11. \A d \in DigestsSaid : d.message.built \in Nat /\ d.message.built <= lastRun["digest"]
    BY DEF DigestsOK, BuiltBy
  <2>12. BuiltBy(DigestsSaid', now) BY <1>7, <2>2, <2>7, <2>9, <2>11 DEF BuiltBy
  <2>13. OneEach(DigestsSaid') BY <2>7, <2>9, <2>10 DEF OneEach, DigestsOK
  <2>14. ASSUME NEW x \in DigestsSaid', NEW y \in DigestsSaid', x.slot # y.slot, y.why = "due",
                x.message.built <= y.message.built,
                x.message.built = y.message.built => x.why = "due"
         PROVE  y.message.built - x.message.built >= Interval["digest"]
    <3>1. CASE x \in DigestsSaid /\ y \in DigestsSaid BY <2>14, <3>1 DEF DigestsOK, Spaced
    <3>2. CASE x \in DigestsSaid /\ y = new
      <4>1. x.message.built \in Nat /\ x.message.built <= lastRun["digest"] BY <2>11, <3>2
      <4>2. lastRun["digest"] # NoTime BY <1>7, <4>1 DEF NoTime
      <4>3. now - lastRun["digest"] >= Interval["digest"] BY <2>4, <2>7, <2>14, <3>2, <4>2
      <4>4. y.message.built = now BY <2>2, <2>7, <3>2
      <4> QED BY <1>7, <4>1, <4>3, <4>4
    <3>3. CASE x = new /\ y \in DigestsSaid
      <4>1. y.message.built \in Nat /\ y.message.built <= lastRun["digest"] BY <2>11, <3>3
      <4>2. x.message.built = now BY <2>2, <2>7, <3>3
      <4>3. lastRun["digest"] = now /\ y.message.built = now BY <1>7, <2>14, <4>1, <4>2
      <4>4. why = "due" BY <2>7, <2>14, <3>3, <4>2, <4>3
      <4>5. now - now >= Interval["digest"] BY <1>7, <2>4, <4>3, <4>4 DEF NoTime
      <4> QED BY <1>7, <4>5
    <3>4. CASE x = new /\ y = new BY <2>14, <3>4
    <3> QED BY <2>9, <3>1, <3>2, <3>3, <3>4
  <2>15. Spaced(DigestsSaid') BY <2>14 DEF Spaced
  <2>16. saved.lastRun["digest"] <= now BY <1>7
  <2> QED BY <1>3, <1>6, <1>7, <2>4, <2>12, <2>13, <2>15, <2>16 DEF DigestsOK
<1> QED BY <1>8, <1>9

LEMMA DigestsKeptOK == ASSUME ControlOK, DigestsOK, [Next]_vars PROVE DigestsOK'
<1>1. ControlOK' /\ Onward /\ SomeKind BY ControlKept, EveryStepIsOnward, EveryKind
<1>2. now <= now' BY <1>1 DEF Onward
<1> QED BY <1>1, <1>2, QuietDigests, RestartDigests, SpeaksDigests, BuildsDigests DEF SomeKind

LEMMA InitDigests == ASSUME Init PROVE DigestsOK
<1>1. \A t \in Tasks : Say(t) = {} BY IdleType DEF Init, Say, Scheduled
<1>2. OnAir = {} BY DEF Init, OnAir
<1>3. DigestsSaid = {} /\ DigestsKept = {} BY <1>1, <1>2 DEF DigestsSaid, DigestsKept, TaskDigests
<1>4. now = 0 /\ lastRun["digest"] = NoTime /\ saved.lastRun = lastRun BY DEF Init, Jobs
<1> QED BY <1>3, <1>4 DEF DigestsOK, BuiltBy, OneEach, Spaced, NoTime

LEMMA DigestsAlways == Spec => [](ControlOK /\ DigestsOK)
<1>1. Init => ControlOK /\ DigestsOK BY InitControl, InitDigests
<1>2. ControlOK /\ DigestsOK /\ [Next]_vars => (ControlOK /\ DigestsOK)' BY ControlKept, DigestsKeptOK
<1> QED BY <1>1, <1>2, PTL DEF Spec

\* A digest that goes out because it is due was built a whole interval after every
\* other scheduled one before it, across restarts and whoever ran those.
THEOREM DigestsAreSpaced == Spec => []DigestsKeepTheirInterval
<1>1. ASSUME ControlOK, DigestsOK PROVE DigestsKeepTheirInterval
  <2> SUFFICES ASSUME NEW i \in OnAir, NEW j \in OnAir, i # j,
                      air[i].message.type = "digest", air[j].message.type = "digest",
                      Scheduled(air[i].why), air[j].why = "due",
                      air[i].message.built <= air[j].message.built,
                      air[i].message.built = air[j].message.built => air[i].why = "due"
               PROVE  air[j].message.built - air[i].message.built >= Interval["digest"]
    BY DEF DigestsKeepTheirInterval
  <2> DEFINE d == DigestAt(<<"air", i>>, air[i].message, air[i].why)
             e == DigestAt(<<"air", j>>, air[j].message, air[j].why)
  <2>1. d \in DigestsSaid BY DEF DigestsSaid, AirDigests, Out
  <2>2. e \in DigestsSaid BY DEF DigestsSaid, AirDigests, Out, Scheduled
  <2>3. /\ d.slot # e.slot /\ d.message = air[i].message /\ d.why = air[i].why
        /\ e.message = air[j].message /\ e.why = air[j].why
    BY DEF DigestAt
  <2> HIDE DEF d, e
  <2> QED BY <1>1, <2>1, <2>2, <2>3 DEF DigestsOK, Spaced
<1> QED BY <1>1, DigestsAlways, PTL
-----------------------------------------------------------------------------
(* The numbers, and the promise to a client *)

\* The file's number is the next one, or ahead of it by what a batch has yet to
\* send and has failed to, at most a batch in all.
Ahead(unsent) ==
  \E k \in unsent .. MaxBatch, turns \in Nat : saved.nextSeq + turns * SeqModulus = nextSeq + k
NumberOK ==
  ~innerSave =>
    /\ \A t \in Tasks : Sending(t) => Ahead(Cardinality(task[t].batch))
    /\ (\A t \in Tasks : ~Sending(t)) => saved.nextSeq = nextSeq

\* What a client sees of the step: one the promise allows, or nothing.
Follows == Promise!Next \/ UNCHANGED Promise!vars

LEMMA NumberTypes ==
  ASSUME ControlOK
  PROVE  /\ SeqModulus \in Nat \ {0} /\ nextSeq \in 0 .. SeqModulus - 1
         /\ saved.nextSeq \in 0 .. SeqModulus - 1 /\ MaxBatch \in Nat
BY SchedulerConstants, BatchesAreBounded DEF ControlOK, OrderOK, Types, Files

LEMMA Wraps ==
  ASSUME NEW n \in Nat \ {0}, NEW rest \in 0 .. n - 1, NEW turns \in Nat, NEW k \in Nat,
         k = rest + turns * n
  PROVE  k % n = rest
OBVIOUS

LEMMA Turns ==
  ASSUME NEW n \in Nat \ {0}, NEW k \in Nat
  PROVE  /\ k % n \in 0 .. n - 1
         /\ \E turns \in Nat : (k % n) + turns * n = k
<1>1. k = n * (k \div n) + (k % n) /\ k \div n \in Nat /\ k % n \in 0 .. n - 1 OBVIOUS
<1>2. PICK turns \in Nat, rest \in 0 .. n - 1 : k = n * turns + rest /\ rest = k % n BY <1>1
<1>3. n * turns = turns * n OBVIOUS
<1>4. n * turns \in Nat OBVIOUS
<1>5. rest + turns * n = k BY <1>2, <1>3, <1>4
<1> QED BY <1>2, <1>5

LEMMA BatchSizes ==
  ASSUME ControlOK, NEW t \in Tasks
  PROVE  /\ IsFiniteSet(task[t].batch) /\ Cardinality(task[t].batch) \in Nat
         /\ Cardinality(task[t].batch) <= MaxBatch
BY FS_CardinalityType DEF ControlOK, OrderOK, TaskOK, RecordOK, Bounded

\* Nobody sends while the lock's head does not.
LEMMA OneSends ==
  ASSUME ControlOK
  PROVE  /\ \A t, u \in Tasks : Sending(t) /\ Sending(u) => t = u
         /\ InBatch <=> \E t \in Tasks : Sending(t)
         /\ \A t \in Tasks : Sending(t) => Head(lock) = t
BY QueueFacts DEF ControlOK, Sending, InBatch

LEMMA UnsentNumbers ==
  ASSUME NumberOK, UNCHANGED <<nextSeq, saved, innerSave>>,
         \A t \in Tasks : Sending(t)' <=> Sending(t),
         \A t \in Tasks : Sending(t) => task'[t].batch = task[t].batch
  PROVE  NumberOK'
<1>1. ASSUME NEW t \in Tasks, Sending(t)', ~innerSave PROVE Ahead(Cardinality(task[t].batch))'
  <2>1. Sending(t) /\ task'[t].batch = task[t].batch BY <1>1
  <2>2. Ahead(Cardinality(task[t].batch)) BY <1>1, <2>1 DEF NumberOK
  <2> QED BY <2>1, <2>2 DEF Ahead
<1> QED BY <1>1 DEF NumberOK

LEMMA FollowsNothing ==
  ASSUME UNCHANGED <<now, active, over, issued, misled, nextSeq, air, innerSave>>,
         backlog' = "in" <=> backlog = "in",
         \A t \in Tasks : task'[t].batch = task[t].batch
  PROVE  Follows
<1>1. (backlog = "in")' = (backlog = "in") OBVIOUS
<1>2. [t \in Tasks |-> task[t].batch]' = [t \in Tasks |-> task[t].batch] OBVIOUS
<1>3. UNCHANGED Promise!vars BY <1>1, <1>2 DEF Promise!vars, OnAir
<1> QED BY <1>3 DEF Follows

\* A task that holds what it held, and did not and does not send.
LEMMA HoldsOn ==
  ASSUME ControlOK, NumberOK, NEW t \in Tasks, NEW r \in TaskRecords,
         task' = [task EXCEPT ![t] = r], r.batch = task[t].batch, ~Sending(t), r.at # "sending",
         UNCHANGED <<now, active, over, issued, backlog, misled, nextSeq, saved, air, innerSave>>
  PROVE  NumberOK' /\ Follows
<1>1. task'[t] = r /\ \A u \in Tasks : u # t => task'[u] = task[u]
  BY TaskUpdated DEF ControlOK, OrderOK
<1>2. \A u \in Tasks : task'[u].batch = task[u].batch BY <1>1
<1>3. \A u \in Tasks : Sending(u)' <=> Sending(u) BY <1>1 DEF Sending
<1> QED BY <1>2, <1>3, UnsentNumbers, FollowsNothing

\* What a client hears of some packets.
Said(packets) ==
  [i \in 1 .. Len(packets) |-> [seq |-> packets[i].seq, message |-> packets[i].message]]
Heardable == [seq : Int, message : Messages]

LEMMA SaidIsSeq ==
  ASSUME NEW packets \in Seq(AirPackets)
  PROVE  /\ Said(packets) \in Seq(Heardable) /\ Len(Said(packets)) = Len(packets)
         /\ \A i \in 1 .. Len(packets) :
              Said(packets)[i] = [seq |-> packets[i].seq, message |-> packets[i].message]
<1>1. PICK n \in Nat : n = Len(packets) OBVIOUS
<1>2. \A i \in 1 .. n : packets[i] \in AirPackets BY <1>1
<1>3. \A i \in 1 .. n : packets[i].seq \in Int /\ packets[i].message \in Messages
  BY <1>2, SchedulerConstants DEF AirPackets
<1>4. \A i \in 1 .. n : [seq |-> packets[i].seq, message |-> packets[i].message] \in Heardable
  BY <1>3 DEF Heardable
<1>5. PICK said : said = Said(packets) OBVIOUS
<1>6. said \in [1 .. n -> Heardable] BY <1>1, <1>4, <1>5 DEF Said
<1>7. said \in Seq(Heardable) /\ Len(said) = n BY <1>6
<1>8. \A i \in 1 .. n : said[i] = [seq |-> packets[i].seq, message |-> packets[i].message]
  BY <1>1, <1>5 DEF Said
<1> QED BY <1>1, <1>5, <1>7, <1>8

LEMMA SaidMore ==
  ASSUME NEW packets \in Seq(AirPackets), NEW p \in AirPackets
  PROVE  Said(Append(packets, p)) = Append(Said(packets), [seq |-> p.seq, message |-> p.message])
<1>1. PICK n \in Nat : n = Len(packets) OBVIOUS
<1>2. PICK more \in Seq(AirPackets) :
        /\ more = Append(packets, p) /\ Len(more) = n + 1
        /\ more[n + 1] = p /\ \A i \in 1 .. n : more[i] = packets[i]
  <2>1. /\ Append(packets, p) \in Seq(AirPackets) /\ Len(Append(packets, p)) = n + 1
        /\ Append(packets, p)[n + 1] = p /\ \A i \in 1 .. n : Append(packets, p)[i] = packets[i]
    BY <1>1
  <2> QED BY <2>1
<1>3. PICK said \in Seq(Heardable) :
        /\ said = Said(packets) /\ Len(said) = n
        /\ \A i \in 1 .. n : said[i] = [seq |-> packets[i].seq, message |-> packets[i].message]
  BY <1>1, SaidIsSeq
<1>4. PICK new \in Seq(Heardable) :
        /\ new = Said(more) /\ Len(new) = n + 1
        /\ \A i \in 1 .. n + 1 : new[i] = [seq |-> more[i].seq, message |-> more[i].message]
  <2>1. /\ Said(more) \in Seq(Heardable) /\ Len(Said(more)) = Len(more)
        /\ \A i \in 1 .. Len(more) : Said(more)[i] = [seq |-> more[i].seq, message |-> more[i].message]
    BY SaidIsSeq
  <2> QED BY <1>2, <2>1
<1>5. PICK q \in Heardable : q = [seq |-> p.seq, message |-> p.message]
  <2>1. p.seq \in Int /\ p.message \in Messages BY SchedulerConstants DEF AirPackets
  <2> QED BY <2>1 DEF Heardable
<1>6. /\ Append(said, q) \in Seq(Heardable) /\ Len(Append(said, q)) = n + 1
      /\ Append(said, q)[n + 1] = q /\ \A i \in 1 .. n : Append(said, q)[i] = said[i]
  BY <1>3
<1>7. ASSUME NEW i \in 1 .. n + 1 PROVE Append(said, q)[i] = new[i]
  <2>1. CASE i \in 1 .. n
    <3>1. new[i] = [seq |-> packets[i].seq, message |-> packets[i].message] BY <1>2, <1>4, <2>1
    <3>2. Append(said, q)[i] = said[i] BY <1>6, <2>1
    <3> QED BY <1>3, <2>1, <3>1, <3>2
  <2>2. CASE i = n + 1
    <3>1. new[n + 1] = q BY <1>2, <1>4, <1>5
    <3> QED BY <1>6, <2>2, <3>1
  <2>3. i \in 1 .. n \/ i = n + 1 OBVIOUS
  <2> QED BY <2>1, <2>2, <2>3
<1>8. Append(said, q) = new BY <1>4, <1>6, <1>7, SeqEqual
<1> QED BY <1>2, <1>3, <1>4, <1>5, <1>8

LEMMA CancelsOnAir ==
  ASSUME ControlOK, NEW w \in Warnings
  PROVE  Promise!Cancelled(w) <=> \E i \in OnAir : air[i].message = CancelMessage(w)
<1>1. air \in Seq(AirPackets) BY DEF ControlOK, OrderOK, Types
<1>2. Promise!Cancelled(w) <=> \E i \in 1 .. Len(Said(air)) : Said(air)[i].message = CancelMessage(w)
  BY DEF Promise!Cancelled, Promise!CancelMessage, CancelMessage, Said, OnAir
<1>3. ASSUME NEW i \in OnAir PROVE Said(air)[i].message = air[i].message
  <2>1. Said(air)[i] = [seq |-> air[i].seq, message |-> air[i].message]
    BY <1>1, SaidIsSeq DEF OnAir
  <2> QED BY <2>1
<1> QED BY <1>1, <1>2, <1>3, SaidIsSeq DEF OnAir

\* The promise's words are the bot's.
LEMMA PromiseWords ==
  /\ Promise!Stores = Stores /\ Promise!PartMessages = PartMessages
  /\ Promise!StartingUp = StartingUp
  /\ \A held : /\ Promise!Listed(held) = Listed(held)
               /\ Promise!DigestMessage(held) = DigestMessage(held)
               /\ \A w : Promise!WarningMessage(w, held) = WarningMessage(w, held)
  /\ \A w : Promise!CancelMessage(w) = CancelMessage(w)
<1>1. Promise!Stores = Stores BY DEF Promise!Stores, Stores
<1>2. Promise!PartMessages = PartMessages /\ Promise!StartingUp = StartingUp
  BY DEF Promise!PartMessages, PartMessages, Promise!StartingUp, StartingUp
<1>3. \A held : Promise!Listed(held) = Listed(held) BY DEF Promise!Listed, Listed
<1>4. \A held : Promise!DigestMessage(held) = DigestMessage(held)
  BY <1>3 DEF Promise!DigestMessage, DigestMessage
<1>5. \A held, w : Promise!WarningMessage(w, held) = WarningMessage(w, held)
  BY DEF Promise!WarningMessage, WarningMessage
<1>6. \A w : Promise!CancelMessage(w) = CancelMessage(w)
  BY DEF Promise!CancelMessage, CancelMessage
<1> QED BY <1>1, <1>2, <1>3, <1>4, <1>5, <1>6

\* What the warnings job builds is what the store says.
LEMMA WarningsSayable ==
  ASSUME ControlOK, ToldOK, NEW held \in Stores, NEW chosen \in Allowed(held)
  PROVE  WarningsBatch(chosen, held) \subseteq Promise!Sayable(held)
<1> SUFFICES ASSUME NEW w \in chosen
             PROVE  (IF IsCancel(w, held) THEN CancelMessage(w) ELSE WarningMessage(w, held))
                      \in Promise!Sayable(held)
  BY DEF WarningsBatch
<1>1. w \in Warnings /\ (IsNews(w, held) \/ IsRepeat(w, held) \/ IsCancel(w, held))
  BY AllowedArePlans
<1>2. CASE IsCancel(w, held)
  <2>1. held[w] = 0 /\ told[w].version # 0 /\ over[w] # "ranOut" BY <1>2 DEF IsCancel
  <2>2. told[w].version \in Nat /\ over[w] \in {"no", "early", "ranOut"}
    BY <1>1, SchedulerConstants DEF ControlOK, OrderOK, Types, Told
  <2>3. over[w] = "early" \/ active[w] # 0
    <3>1. over[w] = "no" => told[w].version <= active[w]
      BY <1>1 DEF ToldOK, MemoryFits, TellsNow
    <3> QED BY <2>1, <2>2, <3>1
  <2>4. ASSUME NEW i \in OnAir, air[i].message = CancelMessage(w), w \notin misled PROVE FALSE
    <3>1. air[i].message.type = "cancel" BY <2>4 DEF CancelMessage
    <3>2. air[i].why # "answer" BY <3>1 DEF ToldOK, AnswersOK
    <3>3. air[i] \in AirPackets BY DEF ControlOK, OrderOK, Types, OnAir
    <3>4. CancelMessage(w) \in Out(i) BY <2>4, <3>2, <3>3 DEF AirPackets, Whys, Out, Scheduled
    <3>5. Sayers(CancelMessage(w)) = {} BY <1>1, <2>1, <2>4 DEF ToldOK, MemoryFits, CancelFits
    <3> QED BY <3>4, <3>5 DEF Sayers, Heard
  <2>5. Promise!Cancelled(w) => w \in misled BY <1>1, <2>4, CancelsOnAir
  <2>6. w \in Promise!Missing(held) BY <1>1, <2>1, <2>3 DEF Promise!Missing
  <2> QED BY <1>2, <2>5, <2>6, PromiseWords DEF Promise!Sayable
<1>3. CASE ~IsCancel(w, held)
  <2>1. held[w] # 0 BY <1>1, <1>3 DEF IsNews, IsRepeat
  <2>2. w \in Promise!Listed(held) BY <1>1, <2>1 DEF Promise!Listed
  <2> QED BY <1>3, <2>2, PromiseWords DEF Promise!Sayable
<1> QED BY <1>2, <1>3

\* The warnings a batch says something wrong of are those the scheduler counts.
LEMMA WarningsWrong ==
  ASSUME NEW held, NEW chosen \in Allowed(held)
  PROVE  Promise!Wrong(WarningsBatch(chosen, held), held) = {w \in chosen : held[w] # active[w]}
<1> DEFINE batch == WarningsBatch(chosen, held)
<1>1. ASSUME NEW w \in Warnings
     
      PROVE  {Promise!WarningMessage(w, held), Promise!CancelMessage(w)} \cap batch # {} <=> w \in chosen
  <2>1. WarningMessage(w, held) = Word(w, held[w]) BY DEF WarningMessage, Word
  <2>2. Word(w, held[w]) \in batch <=> w \in chosen /\ ~IsCancel(w, held) BY BatchSays
  <2>3. CancelMessage(w) \in batch <=> w \in chosen /\ IsCancel(w, held) BY BatchSays
  <2> HIDE DEF batch
  <2>4. {WarningMessage(w, held), CancelMessage(w)} \cap batch # {} <=> w \in chosen
    BY <2>1, <2>2, <2>3
  <2> QED BY <2>4, PromiseWords
<1>2. chosen \subseteq Warnings BY AllowedArePlans
<1> HIDE DEF batch
<1>3. Promise!Wrong(batch, held) = {w \in chosen : held[w] # active[w]}
  BY <1>1, <1>2 DEF Promise!Wrong
<1> QED BY <1>3 DEF batch

LEMMA OthersSayable ==
  ASSUME NEW held
  PROVE  /\ DigestMessage(held) \in Promise!Sayable(held)
         /\ \A w \in Listed(held) : WarningMessage(w, held) \in Promise!Sayable(held)
BY PromiseWords DEF Promise!Sayable

\* A task that held nothing holds something.
LEMMA TakesNumbers ==
  ASSUME ControlOK, NumberOK, NEW t \in Tasks, NEW r \in TaskRecords,
         task' = [task EXCEPT ![t] = r], ~Sending(t), r.at # "sending",
         UNCHANGED <<nextSeq, saved, innerSave>>
 
  PROVE  /\ NumberOK'
         /\ [u \in Tasks |-> task'[u].batch] = [[u \in Tasks |-> task[u].batch] EXCEPT ![t] = r.batch]
<1>1. /\ task' \in [Tasks -> TaskRecords] /\ task'[t] = r
      /\ \A u \in Tasks : u # t => task'[u] = task[u]
  BY TaskUpdated DEF ControlOK, OrderOK
<1>2. \A u \in Tasks : Sending(u)' <=> Sending(u) BY <1>1 DEF Sending
<1>3. \A u \in Tasks : Sending(u) => task'[u].batch = task[u].batch BY <1>1
<1>4. NumberOK' BY <1>2, <1>3, UnsentNumbers
<1> QED BY <1>1, <1>4

\* It is a batch of what some store says.
LEMMA TakesBatch ==
  ASSUME ControlOK, NumberOK, NEW t \in Tasks, NEW r \in TaskRecords, NEW held \in Stores,
         task' = [task EXCEPT ![t] = r], task[t].batch = {}, ~Sending(t), r.at # "sending",
         r.batch # {}, Bounded(r.batch),
         r.batch \subseteq Promise!Sayable(held) \/ r.batch = PartMessages,
         misled' \in {misled, misled \cup Promise!Wrong(r.batch, held)},
         UNCHANGED <<now, active, over, issued, backlog, nextSeq, saved, air, innerSave>>
  PROVE  NumberOK' /\ Follows
<1>1. /\ NumberOK'
      /\ [u \in Tasks |-> task'[u].batch] = [[u \in Tasks |-> task[u].batch] EXCEPT ![t] = r.batch]
  BY TakesNumbers
<1>2. r.batch \in Promise!Batches(held)
  <2>1. Cardinality(r.batch) <= Cardinality(Warnings) + PartsPerAnswer + 1 BY DEF Bounded, MaxBatch
  <2>2. \A b : Promise!Cardinality(b) = Cardinality(b) BY DEF Promise!Cardinality, Cardinality
  <2> QED BY <2>1, <2>2, PromiseWords DEF Promise!Batches
<1>3. held \in Promise!Stores BY PromiseWords
<1>4. Promise!BuildBatch(t)
  <2>1. [u \in Tasks |-> task[u].batch][t] = {} OBVIOUS
  <2>2. (backlog = "in")' = (backlog = "in") OBVIOUS
  <2> QED BY <1>1, <1>2, <1>3, <2>1, <2>2 DEF Promise!BuildBatch, OnAir
<1>5. Follows BY <1>4 DEF Follows, Promise!Next
<1> QED BY <1>1, <1>5

\* Or the packet that says the bot is starting up.
LEMMA TakesExcuse ==
  ASSUME ControlOK, NumberOK, NEW t \in Tasks, NEW r \in TaskRecords,
         task' = [task EXCEPT ![t] = r], task[t].batch = {}, ~Sending(t), r.at # "sending",
         r.batch = {StartingUp}, backlog = "loading",
         UNCHANGED <<now, active, over, issued, backlog, misled, nextSeq, saved, air, innerSave>>
  PROVE  NumberOK' /\ Follows
<1>1. /\ NumberOK'
      /\ [u \in Tasks |-> task'[u].batch] = [[u \in Tasks |-> task[u].batch] EXCEPT ![t] = {StartingUp}]
  BY TakesNumbers
<1>2. Promise!BuildExcuse(t)
  <2>1. [u \in Tasks |-> task[u].batch][t] = {} OBVIOUS
  <2>2. (backlog = "in")' = (backlog = "in") /\ backlog # "in" OBVIOUS
  <2> QED BY <1>1, <2>1, <2>2, PromiseWords DEF Promise!BuildExcuse, OnAir
<1>3. Follows BY <1>2 DEF Follows, Promise!Next
<1> QED BY <1>1, <1>3

LEMMA BuildFollows ==
  ASSUME ControlOK, ToldOK, NumberOK, NEW t \in Tasks, NEW me \in TaskRecords, me.batch = {},
         task[t].batch = {}, ~Sending(t),
         NEW j \in Jobs, NEW why \in Whyfore, Build(t, me, j, why),
         me.next \in {"jobs", "closing"},
         UNCHANGED <<saved, lock, air, now, active, over, issued, backlog, nextSeq, innerSave>>
  PROVE  NumberOK' /\ Follows
<1>1. Types BY DEF ControlOK, OrderOK
<1>2. PICK r \in TaskRecords : Built(r, me, why) /\ task' = [task EXCEPT ![t] = r]
  BY <1>1, BuildTypes DEF ControlOK, Whyfore
<1>3. task'[t] = r BY <1>1, <1>2, TaskUpdated
<1>4. r.at # "sending" /\ (r.batch # {} => Bounded(r.batch)) BY <1>2 DEF Built
<1>5. PICK held \in Stores :
        IF j = "warnings" THEN BuildWarnings(t, me, why, held) ELSE BuildDigest(t, me, why, held)
  BY DEF Build
<1>6. CASE j = "warnings"
  <2>1. PICK chosen \in Allowed(held) :
          /\ task' = [task EXCEPT ![t] =
               [me EXCEPT !.batch = WarningsBatch(chosen, held), !.why = why,
                          !.at = IF chosen = {} THEN me.next ELSE "joining",
                          !.cancelSent = me.cancelSent \/ \E w \in chosen : IsCancel(w, held)]]
          /\ misled' \in {misled, misled \cup {w \in chosen : held[w] # active[w]}}
    BY <1>5, <1>6 DEF BuildWarnings
  <2>2. r.batch = WarningsBatch(chosen, held)
    <3>1. task \in [Tasks -> TaskRecords] BY <1>1 DEF Types
    <3> QED BY <1>3, <2>1, <3>1 DEF TaskRecords
  <2>3. r.batch \subseteq Promise!Sayable(held) BY <2>2, WarningsSayable
  <2>4. misled' \in {misled, misled \cup Promise!Wrong(r.batch, held)} BY <2>1, <2>2, WarningsWrong
  <2>5. CASE r.batch # {} BY <1>2, <1>4, <2>3, <2>4, <2>5, TakesBatch
  <2>6. CASE r.batch = {}
    <3>1. misled' = misled
      <4>1. Promise!Wrong({}, held) = {} BY DEF Promise!Wrong
      <4> QED BY <2>4, <2>6, <4>1
    <3> QED BY <1>2, <1>4, <2>6, <3>1, HoldsOn
  <2> QED BY <2>5, <2>6
<1>7. CASE j # "warnings"
  <2>1. /\ misled' = misled
        /\ \/ task' = [task EXCEPT ![t] = [me EXCEPT !.at = me.next]]
           \/ task' = [task EXCEPT ![t] = [me EXCEPT !.batch = {DigestMessage(held)}, !.why = why,
                                                    !.at = "joining"]]
    BY <1>5, <1>7 DEF BuildDigest
  <2>2. r.batch \in {{}, {DigestMessage(held)}}
    <3>1. task \in [Tasks -> TaskRecords] BY <1>1 DEF Types
    <3>2. CASE task' = [task EXCEPT ![t] = [me EXCEPT !.at = me.next]]
      BY <1>3, <3>1, <3>2 DEF TaskRecords
    <3>3. CASE task' = [task EXCEPT ![t] = [me EXCEPT !.batch = {DigestMessage(held)}, !.why = why,
                                                     !.at = "joining"]]
      BY <1>3, <3>1, <3>3 DEF TaskRecords
    <3> QED BY <2>1, <3>2, <3>3
  <2>3. CASE r.batch = {DigestMessage(held)}
    <3>1. r.batch \subseteq Promise!Sayable(held) BY <2>3, OthersSayable
    <3> QED BY <1>2, <1>4, <2>1, <2>3, <3>1, TakesBatch
  <2>4. CASE r.batch = {} BY <1>2, <1>4, <2>1, <2>4, HoldsOn
  <2> QED BY <2>2, <2>3, <2>4
<1> QED BY <1>6, <1>7

LEMMA RunJobFollows ==
  ASSUME ControlOK, ToldOK, NumberOK, NEW t \in Tasks, RunJob(t) PROVE NumberOK' /\ Follows
<1> DEFINE j == Head(task[t].todo)
           me == [task[t] EXCEPT !.todo = Tail(task[t].todo)]
<1>1. /\ running = t /\ task[t].at = "jobs" /\ task[t].todo # <<>>
      /\ \/ Due(j, me.started) /\ Build(t, me, j, "due")
         \/ task' = [task EXCEPT ![t] = me] /\ misled' = misled
      /\ UNCHANGED <<now, active, over, issued, backlog, lock, running, saved, air, nextSeq, innerSave>>
  BY DEF RunJob, feedVars, historyVars
<1>2. task[t] \in TaskRecords /\ TaskOK(t) BY DEF ControlOK, OrderOK, Types
<1>3. task[t].todo \in Seq(Jobs) BY <1>2 DEF TaskRecords
<1>4. j \in Jobs /\ Tail(task[t].todo) \in Seq(Jobs) BY <1>1, <1>3
<1>5. /\ me \in TaskRecords /\ me.batch = {} /\ task[t].batch = {} /\ me.at = "jobs"
      /\ me.started <= now /\ me.next = "jobs"
  BY <1>1, <1>2, <1>4 DEF TaskRecords, TaskOK, RecordOK
<1> HIDE DEF me, j
<1>6. ~Sending(t) /\ task[t].at # "joining" /\ "due" \in Whyfore BY <1>1 DEF Sending, Whyfore
<1>7. CASE Due(j, me.started) /\ Build(t, me, j, "due")
  BY <1>1, <1>4, <1>5, <1>6, <1>7, BuildFollows
<1>8. CASE task' = [task EXCEPT ![t] = me] /\ misled' = misled
  BY <1>1, <1>5, <1>6, <1>8, HoldsOn
<1> QED BY <1>1, <1>7, <1>8

LEMMA EndJobsFollows ==
  ASSUME ControlOK, ToldOK, NumberOK, NEW t \in Tasks, EndJobs(t) PROVE NumberOK' /\ Follows
<1> DEFINE me == [task[t] EXCEPT !.next = "closing", !.started = 0, !.cancelSent = FALSE]
           idle == [me EXCEPT !.at = "closing"]
<1>1. /\ running = t /\ task[t].at = "jobs"
      /\ \/ Build(t, me, "digest", "cancelled")
         \/ task' = [task EXCEPT ![t] = idle] /\ misled' = misled
      /\ UNCHANGED <<now, active, over, issued, backlog, lock, running, saved, air, nextSeq, innerSave>>
  BY DEF EndJobs, feedVars, historyVars
<1>2. task[t] \in TaskRecords /\ TaskOK(t) BY DEF ControlOK, OrderOK, Types
<1>3. task[t].batch = {} BY <1>1, <1>2 DEF TaskOK, RecordOK
<1>4. me \in TaskRecords /\ me.batch = {} /\ me.next = "closing"
  <2>1. 0 \in 0 .. MaxTime BY SchedulerConstants
  <2>2. task[t] \in TaskRecords BY <1>2
  <2> QED BY <1>3, <2>1, <2>2 DEF TaskRecords
<1>5. idle \in TaskRecords /\ idle.batch = {} /\ idle.at = "closing"
  <2>1. PICK m \in TaskRecords : m = me /\ m.batch = {} BY <1>4
  <2>2. idle = [m EXCEPT !.at = "closing"] BY <2>1
  <2> HIDE DEF me, idle
  <2> QED BY <2>1, <2>2 DEF TaskRecords, Places
<1> HIDE DEF me, idle
<1>6. /\ ~Sending(t) /\ task[t].at # "joining" /\ "cancelled" \in Whyfore /\ "digest" \in Jobs
      /\ running' = t
  BY <1>1 DEF Sending, Whyfore, Jobs
<1>7. CASE Build(t, me, "digest", "cancelled")
  BY <1>1, <1>3, <1>4, <1>6, <1>7, BuildFollows
<1>8. CASE task' = [task EXCEPT ![t] = idle] /\ misled' = misled
  BY <1>1, <1>3, <1>5, <1>6, <1>8, HoldsOn
<1> QED BY <1>1, <1>7, <1>8

LEMMA RunNowFollows ==
  ASSUME ControlOK, ToldOK, NumberOK, NEW t \in Tasks, NEW j \in Jobs, RunNow(t, j)
  PROVE  NumberOK' /\ Follows
<1> DEFINE me == [Begin("closing", "closing") EXCEPT !.hand = TRUE]
<1>1. /\ me \in TaskRecords /\ me.next = "closing" /\ me.batch = {} /\ me.started = 0
      /\ me.hand = TRUE
  BY HandType
<1> HIDE DEF me
<1>2. /\ task[t].at = "idle" /\ running' = t /\ Build(t, me, j, "now")
      /\ UNCHANGED <<now, active, over, issued, backlog, lock, saved, air, nextSeq, innerSave>>
  BY DEF RunNow, me, feedVars, historyVars
<1>3. task[t].batch = {} BY <1>2 DEF ControlOK, OrderOK, TaskOK, RecordOK
<1>4. ~Sending(t) /\ task[t].at # "joining" /\ "now" \in Whyfore BY <1>2 DEF Sending, Whyfore
<1> QED BY <1>1, <1>2, <1>3, <1>4, BuildFollows

LEMMA StartTickFollows ==
  ASSUME ControlOK, NumberOK, NEW t \in Tasks, StartTick(t) \/ TickNow(t)
  PROVE  NumberOK' /\ Follows
<1>1. PICK r \in TaskRecords : r.at = "jobs" /\ r.batch = {} /\ task' = [task EXCEPT ![t] = r]
  BY StartedType DEF StartTick, TickNow, ControlOK, OrderOK
<1>2. /\ task[t].at = "idle"
      /\ UNCHANGED <<now, active, over, issued, backlog, misled, nextSeq, saved, air, innerSave>>
  BY DEF StartTick, TickNow, feedVars, historyVars, memoryVars
<1>3. task[t].batch = {} /\ ~Sending(t) BY <1>2 DEF ControlOK, OrderOK, TaskOK, RecordOK, Sending
<1> QED BY <1>1, <1>2, <1>3, HoldsOn

LEMMA BacklogFollows ==
  ASSUME NumberOK, BacklogIn \/ BacklogFails PROVE NumberOK' /\ Follows
<1>1. UNCHANGED <<now, active, over, issued, misled, nextSeq, saved, task, air, innerSave>>
  BY DEF BacklogIn, BacklogFails, feedVars, historyVars, memoryVars, taskVars
<1>2. NumberOK' BY <1>1, UnsentNumbers DEF Sending
<1>3. CASE BacklogIn
  <2>1. backlog # "in" /\ (backlog = "in")' = TRUE BY <1>3 DEF BacklogIn
  <2>2. Promise!Complete BY <1>1, <2>1 DEF Promise!Complete, OnAir
  <2> QED BY <1>2, <2>2 DEF Follows, Promise!Next
<1>4. CASE BacklogFails
  <2>1. backlog # "in" /\ backlog' # "in" BY <1>4 DEF BacklogFails
  <2> QED BY <1>1, <1>2, <2>1, FollowsNothing
<1> QED BY <1>3, <1>4

LEMMA AnswerFollows ==
  ASSUME ControlOK, NumberOK, NEW t \in Tasks, Answer(t) PROVE NumberOK' /\ Follows
<1>1. PICK batch \in AnswerBatches :
        task' = [task EXCEPT ![t] = [Begin("holding", "idle") EXCEPT
                                      !.batch = batch, !.why = "answer", !.answer = events']]
  BY DEF Answer
<1> DEFINE r == [Begin("holding", "idle") EXCEPT
                   !.batch = batch, !.why = "answer", !.answer = events']
<1>2. /\ task[t].at = "idle" /\ events < MaxEvents /\ events' = events + 1
      /\ UNCHANGED <<now, active, over, issued, backlog, misled, nextSeq, saved, air, innerSave>>
  <2>1. /\ task[t].at = "idle" /\ events < MaxEvents /\ events' = events + 1
        /\ UNCHANGED <<now, feedVars, backlog, memoryVars, saved, air, innerSave, misled>>
    BY DEF Answer, historyVars
  <2> QED BY <2>1 DEF feedVars, historyVars, memoryVars
<1>3. events' \in 0 .. MaxEvents BY <1>2, SchedulerConstants DEF ControlOK, OrderOK, Types
<1>4. ASSUME StoreReady
      PROVE  /\ batch \in SUBSET Messages /\ batch # {} /\ Bounded(batch)
             /\ \E held \in Stores : batch \subseteq Promise!Sayable(held) \/ batch = PartMessages
  <2>1. Types BY DEF ControlOK, OrderOK
  <2>2. PICK held \in Stores : batch \in AnswersFrom(held) BY <1>4 DEF AnswerBatches
  <2>3. CASE \E w \in Listed(held) : batch = {WarningMessage(w, held)}
    BY <2>1, <2>3, MessageTypes, BatchesAreBounded, OthersSayable DEF Listed
  <2>4. CASE batch = {DigestMessage(held)}
    BY <2>1, <2>4, MessageTypes, BatchesAreBounded, OthersSayable
  <2>5. CASE batch = PartMessages /\ batch # {} BY <2>1, <2>5, MessageTypes, BatchesAreBounded
  <2> QED BY <2>2, <2>3, <2>4, <2>5 DEF AnswersFrom
<1>a. ~StoreReady => batch = {StartingUp} /\ batch \in SUBSET Messages
  BY DEF AnswerBatches, Messages
<1>5. Begin("holding", "idle") \in TaskRecords /\ Begin("holding", "idle").at = "holding"
  BY BeginType DEF Places
<1>6. r \in TaskRecords /\ r.at = "holding" /\ r.batch = batch
  BY <1>3, <1>4, <1>5, <1>a DEF TaskRecords, Whys
<1>7. task' = [task EXCEPT ![t] = r] BY <1>1
<1> HIDE DEF r
<1>8. task[t].batch = {} /\ ~Sending(t) BY <1>2 DEF ControlOK, OrderOK, TaskOK, RecordOK, Sending
<1>9. CASE StoreReady BY <1>2, <1>4, <1>6, <1>7, <1>8, <1>9, TakesBatch
<1>10. CASE ~StoreReady
  BY <1>2, <1>6, <1>7, <1>8, <1>a, <1>10, TakesExcuse DEF StoreReady
<1> QED BY <1>9, <1>10

LEMMA MovesFollow ==
  ASSUME ControlOK, NumberOK, NEW t \in Tasks, AnswerMayGo(t) \/ Join(t)
  PROVE  NumberOK' /\ Follows
<1>1. PICK at \in {"joining", "waiting"} : task' = [task EXCEPT ![t].at = at]
  BY DEF AnswerMayGo, Join
<1> DEFINE r == [task[t] EXCEPT !.at = at]
<1>2. /\ task' = [task EXCEPT ![t] = r] /\ ~Sending(t)
      /\ UNCHANGED <<now, active, over, issued, backlog, misled, nextSeq, saved, air, innerSave>>
  BY <1>1 DEF AnswerMayGo, Join, feedVars, historyVars, memoryVars, Sending
<1>3. r \in TaskRecords /\ r.batch = task[t].batch /\ r.at # "sending"
  <2>1. task[t] \in TaskRecords BY DEF ControlOK, OrderOK, Types
  <2> QED BY <2>1 DEF TaskRecords, Places
<1> HIDE DEF r
<1> QED BY <1>2, <1>3, HoldsOn

\* A save under the next number, with nobody sending after it.
LEMMA SavedNumbers ==
  ASSUME \A t \in Tasks : ~Sending(t)', saved'.nextSeq = nextSeq' PROVE NumberOK'
<1>1. saved.nextSeq' = nextSeq' OBVIOUS
<1> QED BY <1>1 DEF NumberOK

LEMMA CloseFollows ==
  ASSUME ControlOK, NumberOK, NEW t \in Tasks, Close(t) PROVE NumberOK' /\ Follows
<1>1. /\ task[t].at = "closing" /\ saved'.nextSeq = nextSeq /\ innerSave' = (innerSave \/ InBatch)
      /\ task' = [task EXCEPT ![t] = IdleTask]
      /\ UNCHANGED <<now, active, over, issued, backlog, misled, nextSeq, air>>
  BY DEF Close, Save, feedVars, historyVars, memoryVars
<1>2. task'[t] = IdleTask /\ \A u \in Tasks : u # t => task'[u] = task[u]
  BY <1>1, IdleType, TaskUpdated DEF ControlOK, OrderOK
<1>3. task[t].batch = {} BY <1>1 DEF ControlOK, OrderOK, TaskOK, RecordOK
<1>4. \A u \in Tasks : task'[u].batch = task[u].batch BY <1>2, <1>3, IdleType
<1>5. \A u \in Tasks : Sending(u)' <=> Sending(u) BY <1>1, <1>2, IdleType DEF Sending
<1>6. innerSave \in BOOLEAN BY DEF ControlOK, OrderOK, Types
<1>7. NumberOK'
  <2>1. CASE innerSave' BY <2>1 DEF NumberOK
  <2>2. CASE ~innerSave'
    <3>1. \A u \in Tasks : ~Sending(u) BY <1>1, <2>2, OneSends
    <3> QED BY <1>1, <1>5, <3>1, SavedNumbers
  <2> QED BY <2>1, <2>2
<1>8. Follows
  <2>1. CASE innerSave' = innerSave BY <1>1, <1>4, <2>1, FollowsNothing
  <2>2. CASE innerSave' # innerSave
    <3>1. ~innerSave /\ innerSave' = TRUE
      <4>1. CASE innerSave BY <1>1, <1>6, <2>2, <4>1
      <4>2. CASE ~innerSave /\ InBatch BY <1>1, <4>2
      <4>3. CASE ~innerSave /\ ~InBatch BY <1>1, <1>6, <2>2, <4>3
      <4> QED BY <4>1, <4>2, <4>3
    <3>2. [u \in Tasks |-> task'[u].batch] = [u \in Tasks |-> task[u].batch] BY <1>4
    <3>3. Promise!Tear BY <1>1, <3>1, <3>2 DEF Promise!Tear, OnAir
    <3> QED BY <3>3 DEF Follows, Promise!Next
  <2> QED BY <2>1, <2>2
<1> QED BY <1>7, <1>8

LEMMA BeginBatchFollows ==
  ASSUME ControlOK, ControlOK', NumberOK, NEW t \in Tasks, BeginBatch(t) PROVE NumberOK' /\ Follows
<1> DEFINE r == [task[t] EXCEPT !.at = "sending"]
<1>1. /\ task[t].at = "waiting" /\ Head(lock) = t /\ saved'.nextSeq = SavedSeq
      /\ task' = [task EXCEPT ![t] = r]
      /\ UNCHANGED <<now, active, over, issued, backlog, misled, nextSeq, air, innerSave>>
  BY DEF BeginBatch, Save, feedVars, historyVars, memoryVars
<1>2. r \in TaskRecords /\ r.batch = task[t].batch /\ r.at = "sending"
  <2>1. task[t] \in TaskRecords BY DEF ControlOK, OrderOK, Types
  <2> QED BY <2>1 DEF TaskRecords, Places
<1> HIDE DEF r
<1>3. task'[t] = r /\ \A u \in Tasks : u # t => task'[u] = task[u]
  BY <1>1, <1>2, TaskUpdated DEF ControlOK, OrderOK
<1>4. \A u \in Tasks : task'[u].batch = task[u].batch BY <1>2, <1>3
<1>5. PICK size \in Nat : size = Cardinality(task[t].batch) /\ size <= MaxBatch BY BatchSizes
<1>6. /\ SeqModulus \in Nat \ {0} /\ nextSeq \in 0 .. SeqModulus - 1 /\ MaxBatch \in Nat
      /\ nextSeq + size \in Nat
  <2>1. /\ SeqModulus \in Nat \ {0} /\ nextSeq \in 0 .. SeqModulus - 1 /\ MaxBatch \in Nat
    BY NumberTypes
  <2> QED BY <2>1
<1>7. saved'.nextSeq = (nextSeq + size) % SeqModulus BY <1>1, <1>5 DEF SavedSeq
<1>8. PICK turns \in Nat : ((nextSeq + size) % SeqModulus) + turns * SeqModulus = nextSeq + size
  BY <1>6, Turns
<1>9. size \in size .. MaxBatch BY <1>5, <1>6
<1>10. Ahead(size)'
  <2>1. saved'.nextSeq + turns * SeqModulus = nextSeq' + size BY <1>1, <1>7, <1>8
  <2> QED BY <1>9, <2>1 DEF Ahead
<1>11. Sending(t)' BY <1>2, <1>3 DEF Sending
<1>12. ASSUME NEW u \in Tasks, Sending(u)' PROVE Ahead(Cardinality(task[u].batch))'
  <2>1. u = t BY <1>11, <1>12, OneSends, QueueFacts DEF Sending, ControlOK, OrderOK, QueueOK
  <2>2. Cardinality(task[u].batch)' = size BY <1>4, <1>5, <2>1
  <2> QED BY <1>10, <2>2 DEF Ahead
<1>13. NumberOK' BY <1>11, <1>12 DEF NumberOK
<1> QED BY <1>1, <1>4, <1>13, FollowsNothing

LEMMA EndBatchFollows ==
  ASSUME ControlOK, NumberOK, NEW t \in Tasks, EndBatch(t) PROVE NumberOK' /\ Follows
<1> DEFINE on == [task[t] EXCEPT !.at = task[t].next, !.sent = 0, !.why = "none"]
           r == IF task[t].next = "idle" THEN IdleTask ELSE on
<1>1. /\ task[t].at = "sending" /\ task[t].batch = {} /\ saved'.nextSeq = nextSeq
      /\ task' = [task EXCEPT ![t] = r]
      /\ UNCHANGED <<now, active, over, issued, backlog, misled, nextSeq, air, innerSave>>
  BY DEF EndBatch, Save, feedVars, historyVars
<1>2. r \in TaskRecords /\ r.batch = {} /\ r.at # "sending"
  <2>1. task[t] \in TaskRecords BY DEF ControlOK, OrderOK, Types
  <2>2. on \in TaskRecords /\ on.batch = {} /\ on.at # "sending"
    BY <1>1, <2>1 DEF TaskRecords, Places, Whys
  <2> HIDE DEF on
  <2> QED BY <2>2, IdleType
<1> HIDE DEF r, on
<1>3. task'[t] = r /\ \A u \in Tasks : u # t => task'[u] = task[u]
  BY <1>1, <1>2, TaskUpdated DEF ControlOK, OrderOK
<1>4. \A u \in Tasks : task'[u].batch = task[u].batch BY <1>1, <1>2, <1>3
<1>5. \A u \in Tasks : ~Sending(u)'
  <2>1. Sending(t) BY <1>1 DEF Sending
  <2>2. \A u \in Tasks : u # t => ~Sending(u) BY <2>1, OneSends
  <2> QED BY <1>2, <1>3, <2>2 DEF Sending
<1> QED BY <1>1, <1>4, <1>5, SavedNumbers, FollowsNothing

\* A packet that is sent or refused, when no reply is lost.
LEMMA SendFollows ==
  ASSUME ControlOK, ControlOK', NumberOK, NEW t \in Tasks, NEW m \in task[t].batch,
         NEW reply \in Replies, reply # "lost", Send(t, m, reply)
  PROVE  NumberOK' /\ Follows
<1> DEFINE left == task[t].batch \ {m}
           took == task[t].sent + (IF reply = "ok" THEN 1 ELSE 0)
           r == [task[t] EXCEPT !.batch = left, !.sent = took]
<1>1. /\ task[t].at = "sending"
      /\ air' = IF reply = "refused" THEN air ELSE Append(air, Packet(t, m))
      /\ nextSeq' = IF reply = "ok" THEN (nextSeq + 1) % SeqModulus ELSE nextSeq
      /\ task' = [task EXCEPT ![t].batch = left, ![t].sent = took]
      /\ UNCHANGED <<now, active, over, issued, backlog, misled, saved, innerSave>>
  BY DEF Send, feedVars, historyVars
<1>2. task[t] \in TaskRecords BY DEF ControlOK, OrderOK, Types
<1>3. left \in SUBSET Messages /\ took \in Nat BY <1>2 DEF TaskRecords
<1>4. task' = [task EXCEPT ![t] = r] BY <1>1, <1>2 DEF ControlOK, OrderOK, Types, TaskRecords
<1>5. r \in TaskRecords /\ r.at = "sending" /\ r.batch = left
  BY <1>1, <1>2, <1>3 DEF TaskRecords
<1> HIDE DEF r, took
<1>6. task'[t] = r /\ \A u \in Tasks : u # t => task'[u] = task[u]
  BY <1>4, <1>5, TaskUpdated DEF ControlOK, OrderOK
<1>7. reply \in {"ok", "refused"} BY SchedulerConstants
<1>8. PICK size \in Nat \ {0} : /\ size = Cardinality(task[t].batch)
                               /\ Cardinality(left) = size - 1
  <2>1. IsFiniteSet(task[t].batch) /\ Cardinality(task[t].batch) \in Nat BY BatchSizes
  <2>2. Cardinality(left) = Cardinality(task[t].batch) - 1
    BY <2>1, FS_RemoveElement
  <2>3. IsFiniteSet(left) /\ Cardinality(left) \in Nat
    BY <2>1, FS_RemoveElement, FS_CardinalityType
  <2> HIDE DEF left
  <2>4. Cardinality(task[t].batch) \in Nat \ {0} BY <2>1, <2>2, <2>3
  <2> QED BY <2>2, <2>4
<1>9. /\ SeqModulus \in Nat \ {0} /\ nextSeq \in 0 .. SeqModulus - 1
      /\ saved.nextSeq \in 0 .. SeqModulus - 1 /\ MaxBatch \in Nat
  BY NumberTypes
<1>10. ASSUME ~innerSave PROVE Ahead(size - 1)'
  <2>1. Ahead(size) BY <1>1, <1>8, <1>10 DEF NumberOK, Sending
  <2>2. PICK k \in size .. MaxBatch, turns \in Nat :
          saved.nextSeq + turns * SeqModulus = nextSeq + k
    BY <2>1 DEF Ahead
  <2>3. CASE reply = "refused"
    <3>1. k \in size - 1 .. MaxBatch /\ saved'.nextSeq + turns * SeqModulus = nextSeq' + k
      BY <1>1, <1>8, <2>2, <2>3
    <3> QED BY <3>1 DEF Ahead
  <2>4. CASE reply = "ok" /\ nextSeq + 1 < SeqModulus
    <3>1. (nextSeq + 1) % SeqModulus = nextSeq + 1
      <4>1. nextSeq + 1 \in 0 .. SeqModulus - 1 BY <1>9, <2>4
      <4>2. nextSeq + 1 = (nextSeq + 1) + 0 * SeqModulus BY <1>9
      <4> QED BY <1>9, <4>1, <4>2, Wraps
    <3>2. k - 1 \in size - 1 .. MaxBatch BY <1>8, <1>9, <2>2
    <3>3. nextSeq' = nextSeq + 1 /\ saved'.nextSeq = saved.nextSeq BY <1>1, <2>4, <3>1
    <3>4. turns * SeqModulus \in Nat BY <1>9
    <3>5. saved'.nextSeq + turns * SeqModulus = nextSeq' + (k - 1) BY <1>9, <2>2, <3>3, <3>4
    <3> QED BY <3>2, <3>5 DEF Ahead
  <2>5. CASE reply = "ok" /\ nextSeq + 1 = SeqModulus
    <3>1. (nextSeq + 1) % SeqModulus = 0
      <4>1. SeqModulus = 0 + 1 * SeqModulus /\ 0 \in 0 .. SeqModulus - 1 /\ SeqModulus \in Nat
        BY <1>9
      <4>2. SeqModulus % SeqModulus = 0 BY <1>9, <4>1, Wraps
      <4> QED BY <2>5, <4>2
    <3>2. k - 1 \in size - 1 .. MaxBatch BY <1>8, <1>9, <2>2
    <3>3. nextSeq' = 0 /\ saved'.nextSeq = saved.nextSeq BY <1>1, <2>5, <3>1
    <3>4. turns # 0
      <4> SUFFICES ASSUME turns = 0 PROVE FALSE OBVIOUS
      <4>1. turns * SeqModulus = 0 BY <1>9
      <4> QED BY <1>8, <1>9, <2>2, <2>5, <4>1
    <3>5. turns - 1 \in Nat BY <3>4
    <3>6. (turns - 1) * SeqModulus = turns * SeqModulus - SeqModulus BY <1>9
    <3>7. turns * SeqModulus \in Nat BY <1>9
    <3>8. saved'.nextSeq + (turns - 1) * SeqModulus = nextSeq' + (k - 1)
      BY <1>9, <2>2, <2>5, <3>3, <3>6, <3>7
    <3> QED BY <3>2, <3>5, <3>8 DEF Ahead
  <2>6. nextSeq + 1 < SeqModulus \/ nextSeq + 1 = SeqModulus BY <1>9
  <2> QED BY <1>7, <2>3, <2>4, <2>5, <2>6
<1>11. Sending(t)' BY <1>5, <1>6 DEF Sending
<1>12. NumberOK'
  <2> SUFFICES ASSUME ~innerSave', NEW u \in Tasks, Sending(u)'
               PROVE  Ahead(Cardinality(task[u].batch))'
    BY <1>11 DEF NumberOK
  <2>1. u = t BY <1>11, QueueFacts DEF Sending, ControlOK, OrderOK, QueueOK
  <2>2. Cardinality(task[u].batch)' = size - 1 BY <1>5, <1>6, <1>8, <2>1
  <2>3. Ahead(size - 1)' BY <1>1, <1>10
  <2> QED BY <2>2, <2>3 DEF Ahead
<1>13. [u \in Tasks |-> task'[u].batch] = [[u \in Tasks |-> task[u].batch] EXCEPT ![t] = left]
  BY <1>5, <1>6
<1>14. CASE reply = "ok"
  <2>1. PICK p \in AirPackets : p = Packet(t, m) /\ p.seq = nextSeq /\ p.message = m
    <3>1. Packet(t, m).seq = nextSeq /\ Packet(t, m).message = m BY DEF Packet
    <3> QED BY <1>1, <3>1, SendingPacket DEF ControlOK
  <2>2. air \in Seq(AirPackets) BY DEF ControlOK, OrderOK, Types
  <2>3. air' = Append(air, p) BY <1>1, <1>14, <2>1
  <2>4. Said(air') = Append(Said(air), [seq |-> nextSeq, message |-> m])
    BY <2>1, <2>2, <2>3, SaidMore
  <2>5. Promise!Send(t, m)
    <3>1. nextSeq' = (nextSeq + 1) % SeqModulus BY <1>1, <1>14
    <3>2. [i \in OnAir |-> [seq |-> air[i].seq, message |-> air[i].message]] = Said(air)
      BY DEF Said, OnAir
    <3>3. [i \in OnAir |-> [seq |-> air[i].seq, message |-> air[i].message]]' = Said(air')
      BY DEF Said, OnAir
    <3> QED BY <1>1, <1>13, <2>4, <3>1, <3>2, <3>3 DEF Promise!Send, Promise!Packet
  <2> QED BY <1>12, <2>5 DEF Follows, Promise!Next
<1>15. CASE reply = "refused"
  <2>1. nextSeq' = nextSeq /\ air' = air BY <1>1, <1>15
  <2>2. Promise!Drop(t, m) BY <1>1, <1>13, <2>1 DEF Promise!Drop, OnAir
  <2> QED BY <1>12, <2>2 DEF Follows, Promise!Next
<1> QED BY <1>7, <1>14, <1>15

\* Whatever the batches were, a restart leaves none.
LEMMA RestartFollows ==
  ASSUME ControlOK, ControlOK', NumberOK, Kill \/ Stop PROVE NumberOK' /\ Follows
<1>1. /\ UNCHANGED <<now, active, over, issued, misled>>
      /\ \A t \in Tasks : task'[t] = IdleTask
      /\ nextSeq' = saved'.nextSeq
  BY KillControl, StopControl DEF ControlOK, Kill, Stop, Load, feedVars, historyVars
<1>2. [t \in Tasks |-> task'[t].batch] = [t \in Tasks |-> {}] BY <1>1, IdleType
<1>3. NumberOK' BY <1>1, IdleType, SavedNumbers DEF Sending
<1>4. /\ SeqModulus \in Nat \ {0} /\ nextSeq \in 0 .. SeqModulus - 1
      /\ saved.nextSeq \in 0 .. SeqModulus - 1 /\ nextSeq' \in 0 .. SeqModulus - 1
      /\ MaxBatch \in Nat /\ innerSave \in BOOLEAN /\ innerSave' \in BOOLEAN
  BY NumberTypes DEF ControlOK, OrderOK, Types
<1>5. /\ [i \in OnAir |-> [seq |-> air[i].seq, message |-> air[i].message]] = Said(air)
      /\ [i \in OnAir |-> [seq |-> air[i].seq, message |-> air[i].message]]' = Said(air')
  BY DEF Said, OnAir
<1>6. ASSUME NEW skip \in 0 .. MaxBatch, nextSeq' = (nextSeq + skip) % SeqModulus,
             air' = air, innerSave' = innerSave
      PROVE  Follows
  <2>0. (backlog = "in")' \in BOOLEAN OBVIOUS
  <2>1. Promise!Restart(skip)
    BY <1>1, <1>2, <1>6, <2>0 DEF Promise!Restart, Promise!Skipped, OnAir
  <2>2. skip \in 0 .. Cardinality(Warnings) + PartsPerAnswer + 1 BY DEF MaxBatch
  <2>3. \A b : Promise!Cardinality(b) = Cardinality(b) BY DEF Promise!Cardinality, Cardinality
  <2> QED BY <2>1, <2>2, <2>3 DEF Follows, Promise!Next
<1>7. ASSUME innerSave' = TRUE, NEW heard, Said(air') = heard,
             \/ heard = Said(air)
             \/ \E t \in Tasks : \E m \in task[t].batch :
                  heard = Append(Said(air), [seq |-> nextSeq, message |-> m])
      PROVE  Follows
  <2> DEFINE before == [i \in OnAir |-> [seq |-> air[i].seq, message |-> air[i].message]]
             more(t) == {Append(before, Promise!Packet(m)) : m \in [u \in Tasks |-> task[u].batch][t]}
  <2>1. heard \in {before} \cup UNION {more(t) : t \in Tasks}
    <3>1. CASE heard = Said(air) BY <1>5, <3>1
    <3>2. ASSUME NEW t \in Tasks, NEW m \in task[t].batch,
                 heard = Append(Said(air), [seq |-> nextSeq, message |-> m])
          PROVE  heard \in UNION {more(u) : u \in Tasks}
      <4>1. m \in [u \in Tasks |-> task[u].batch][t] OBVIOUS
      <4>2. heard = Append(before, Promise!Packet(m)) BY <1>5, <3>2 DEF Promise!Packet
      <4> HIDE DEF before
      <4>3. heard \in more(t) BY <4>1, <4>2, Zenon
      <4> HIDE DEF more
      <4> QED BY <4>3, Zenon
    <3> QED BY <1>7, <3>1, <3>2
  <2>2. before' = heard BY <1>5, <1>7
  <2>3. /\ innerSave' = TRUE /\ nextSeq' \in 0 .. SeqModulus - 1 /\ (backlog = "in")' \in BOOLEAN
        /\ UNCHANGED <<now, active, over, issued, misled>>
        /\ [t \in Tasks |-> task[t].batch]' = [t \in Tasks |-> {}]
        /\ before' \in {before} \cup UNION {more(t) : t \in Tasks}
    BY <1>1, <1>2, <1>4, <1>7, <2>1, <2>2, Zenon
  <2>4. Promise!TornRestart BY <2>3, Zenon DEF Promise!TornRestart
  <2> QED BY <2>4 DEF Follows, Promise!Next
<1>8. ASSUME Kill PROVE Follows
  <2>1. UNCHANGED <<saved, air, innerSave>> BY <1>8 DEF Kill, historyVars
  <2>2. CASE innerSave
    <3>1. innerSave' = TRUE /\ Said(air') = Said(air) BY <1>4, <2>1, <2>2
    <3> QED BY <1>7, <3>1
  <2>3. CASE ~innerSave
    <3>1. PICK k \in 0 .. MaxBatch, turns \in Nat : saved.nextSeq + turns * SeqModulus = nextSeq + k
      <4>1. CASE \E t \in Tasks : Sending(t)
        <5>1. PICK t \in Tasks : Sending(t) BY <4>1
        <5>2. PICK size \in Nat : size = Cardinality(task[t].batch) BY BatchSizes
        <5>3. Ahead(size) BY <2>3, <5>1, <5>2 DEF NumberOK
        <5>4. PICK k \in size .. MaxBatch, turns \in Nat :
                saved.nextSeq + turns * SeqModulus = nextSeq + k
          BY <5>3 DEF Ahead
        <5>5. k \in 0 .. MaxBatch BY <1>4, <5>2
        <5> QED BY <5>4, <5>5
      <4>2. CASE \A t \in Tasks : ~Sending(t)
        <5>1. saved.nextSeq = nextSeq BY <2>3, <4>2 DEF NumberOK
        <5>2. saved.nextSeq + 0 * SeqModulus = nextSeq + 0 BY <1>4, <5>1
        <5>3. 0 \in 0 .. MaxBatch /\ 0 \in Nat BY <1>4
        <5> QED BY <5>2, <5>3
      <4> QED BY <4>1, <4>2
    <3>2. PICK total \in Nat : total = nextSeq + k BY <1>4
    <3>3. turns * SeqModulus \in Nat BY <1>4
    <3>4. total = saved.nextSeq + turns * SeqModulus BY <3>1, <3>2
    <3>5. total % SeqModulus = saved.nextSeq BY ZenonT(40), <1>4, <3>4, Wraps
    <3>6. nextSeq' = (nextSeq + k) % SeqModulus BY <1>1, <2>1, <3>2, <3>5
    <3>7. air' = air /\ innerSave' = innerSave BY <2>1
    <3> QED BY <1>6, <3>6, <3>7
  <2> QED BY <2>2, <2>3
<1>9. ASSUME Stop PROVE Follows
  <2>1. /\ saved'.nextSeq = nextSeq /\ innerSave' = (innerSave \/ InBatch)
        /\ \/ air' = air
           \/ /\ InBatch
              /\ \E m \in task[Head(lock)].batch : air' = Append(air, Packet(Head(lock), m))
    BY <1>9 DEF Stop, Save, NextOf
  <2>2. CASE innerSave'
    <3>0. innerSave' = TRUE BY <1>4, <2>2
    <3>1. CASE air' = air
      <4>1. Said(air') = Said(air) BY <3>1
      <4> QED BY <1>7, <3>0, <4>1
    <3>2. ASSUME InBatch, NEW m \in task[Head(lock)].batch, air' = Append(air, Packet(Head(lock), m))
          PROVE  Follows
      <4>1. PICK t \in Tasks : t = Head(lock) /\ task[t].at = "sending"
        BY <3>2, QueueFacts DEF ControlOK, InBatch
      <4>2. m \in task[t].batch /\ air' = Append(air, Packet(t, m)) BY <3>2, <4>1
      <4>3. PICK p \in AirPackets : p = Packet(t, m) /\ p.seq = nextSeq /\ p.message = m
        <5>1. Packet(t, m).seq = nextSeq /\ Packet(t, m).message = m BY DEF Packet
        <5> QED BY <4>1, <4>2, <5>1, SendingPacket DEF ControlOK
      <4>4. air \in Seq(AirPackets) /\ air' = Append(air, p) BY <4>2, <4>3 DEF ControlOK, OrderOK, Types
      <4>5. Said(air') = Append(Said(air), [seq |-> nextSeq, message |-> m])
        BY <4>3, <4>4, SaidMore
      <4> QED BY <1>7, <3>0, <4>2, <4>5
    <3> QED BY <2>1, <3>1, <3>2
  <2>3. CASE ~innerSave'
    <3>1. ~innerSave /\ ~InBatch /\ air' = air BY <2>1, <2>3
    <3>2. innerSave' = innerSave BY <1>4, <2>3, <3>1
    <3>3. (nextSeq + 0) % SeqModulus = nextSeq
      <4>1. nextSeq + 0 = nextSeq + 0 * SeqModulus /\ nextSeq + 0 \in Nat /\ 0 \in Nat BY <1>4
      <4> QED BY <1>4, <4>1, Wraps
    <3>4. nextSeq' = (nextSeq + 0) % SeqModulus /\ 0 \in 0 .. MaxBatch BY <1>1, <1>4, <2>1, <3>3
    <3> QED BY <1>6, <3>1, <3>2, <3>4
  <2> QED BY <2>2, <2>3
<1> QED BY <1>3, <1>8, <1>9

LEMMA FeedFollows ==
  ASSUME ControlOK, NumberOK,
         \/ Tick
         \/ \E w \in Warnings : Issue(w) \/ \E how \in {"early", "ranOut"} : End(w, how)
  PROVE  NumberOK' /\ Follows
<1>1. UNCHANGED <<task, nextSeq, saved, air, innerSave>>
  BY DEF Tick, Issue, End, memoryVars, taskVars, historyVars
<1>2. NumberOK' BY <1>1, UnsentNumbers DEF Sending
<1>3. [u \in Tasks |-> task'[u].batch] = [u \in Tasks |-> task[u].batch]
      /\ OnAir' = OnAir
  BY <1>1 DEF OnAir
<1>4. CASE Tick
  <2>1. Promise!Tick BY <1>1, <1>3, <1>4 DEF Tick, Promise!Tick, feedVars, historyVars, OnAir
  <2> QED BY <1>2, <2>1 DEF Follows, Promise!Next
<1>5. ASSUME NEW w \in Warnings, Issue(w) PROVE Follows
  <2>1. Promise!Issue(w) BY <1>1, <1>3, <1>5 DEF Issue, Promise!Issue, historyVars, OnAir
  <2> QED BY <2>1 DEF Follows, Promise!Next
<1>6. ASSUME NEW w \in Warnings, NEW how \in {"early", "ranOut"}, End(w, how) PROVE Follows
  <2>1. Promise!End(w, how) BY <1>1, <1>3, <1>6 DEF End, Promise!End, historyVars, OnAir
  <2> QED BY <2>1 DEF Follows, Promise!Next
<1> QED BY <1>2, <1>4, <1>5, <1>6

LEMMA EveryStepFollows ==
  ASSUME "lost" \notin Replies, ControlOK, ToldOK, NumberOK, [Next]_vars
  PROVE  NumberOK' /\ Follows
<1>1. ControlOK' BY ControlKept
<1>2. CASE UNCHANGED vars
  <2>1. UNCHANGED <<now, active, over, issued, backlog, misled, nextSeq, saved, task, air, innerSave>>
    BY <1>2 DEF vars, feedVars, historyVars, memoryVars, taskVars
  <2> QED BY <2>1, UnsentNumbers, FollowsNothing DEF Sending
<1>3. CASE Kill \/ Stop BY <1>1, <1>3, RestartFollows
<1>4. CASE Tick \/ \E w \in Warnings : Issue(w) \/ \E how \in {"early", "ranOut"} : End(w, how)
  BY <1>4, FeedFollows
<1>a. CASE BacklogIn \/ BacklogFails BY <1>a, BacklogFollows
<1>5. ASSUME NEW t \in Tickers, StartTick(t) PROVE NumberOK' /\ Follows
  BY <1>5, StartTickFollows DEF Tasks
<1>6. ASSUME NEW t \in Portals, TickNow(t) \/ \E j \in Jobs : RunNow(t, j) PROVE NumberOK' /\ Follows
  BY <1>6, StartTickFollows, RunNowFollows DEF Tasks
<1>7. ASSUME NEW t \in Askers, Answer(t) PROVE NumberOK' /\ Follows
  BY <1>7, AnswerFollows DEF Tasks
<1>8. ASSUME NEW t \in Tasks, Step(t) PROVE NumberOK' /\ Follows
  <2>1. ASSUME NEW m \in task[t].batch, NEW reply \in Replies, Send(t, m, reply)
        PROVE  NumberOK' /\ Follows
    <3>1. reply # "lost" OBVIOUS
    <3> QED BY <1>1, <2>1, <3>1, SendFollows
  <2>2. CASE RunJob(t) \/ EndJobs(t) BY <2>2, RunJobFollows, EndJobsFollows
  <2>3. CASE Close(t) \/ EndBatch(t) BY <2>3, CloseFollows, EndBatchFollows
  <2>4. CASE AnswerMayGo(t) \/ Join(t) BY <2>4, MovesFollow
  <2>5. CASE BeginBatch(t) BY <1>1, <2>5, BeginBatchFollows
  <2> QED BY <1>8, <2>1, <2>2, <2>3, <2>4, <2>5 DEF Step
<1> QED BY <1>2, <1>3, <1>4, <1>a, <1>5, <1>6, <1>7, <1>8 DEF Next

LEMMA InitFollows == ASSUME Init PROVE NumberOK /\ Promise!Init
<1>1. /\ now = 0 /\ active = [w \in Warnings |-> 0] /\ over = [w \in Warnings |-> "no"]
      /\ nextSeq = SeqModulus - 1 /\ saved.nextSeq = nextSeq /\ air = <<>> /\ innerSave = FALSE
      /\ \A t \in Tasks : task[t] = IdleTask
      /\ issued = active /\ (backlog = "in") = FALSE /\ misled = {}
  BY DEF Init
<1>2. NumberOK BY <1>1, IdleType DEF NumberOK, Sending
<1>3. [t \in Tasks |-> task[t].batch] = [t \in Tasks |-> {}] BY <1>1, IdleType
<1>4. [i \in OnAir |-> [seq |-> air[i].seq, message |-> air[i].message]] = <<>>
  BY <1>1 DEF OnAir
<1> QED BY <1>1, <1>2, <1>3, <1>4 DEF Promise!Init

LEMMA NumbersAlways == "lost" \notin Replies => (Spec => [](ControlOK /\ ToldOK /\ NumberOK))
<1> SUFFICES ASSUME "lost" \notin Replies PROVE Spec => [](ControlOK /\ ToldOK /\ NumberOK)
  OBVIOUS
<1>1. Init => ControlOK /\ ToldOK /\ NumberOK BY InitControl, InitTold, InitFollows
<1>2. ControlOK /\ ToldOK /\ NumberOK /\ [Next]_vars => (ControlOK /\ ToldOK /\ NumberOK)'
  BY ControlKept, ToldKept, EveryStepFollows
<1> QED BY <1>1, <1>2, PTL DEF Spec

\* When no reply of the radio is lost, the scheduler implements BroadcastPromise:
\* what any of its tasks sends is what the bot's products said when it was built
\* (all of them, but for runs by hand before the backlog is in or after it failed),
\* and goes out once, under the next number; a restart forgets the batches and skips
\* at most one batch's numbers; and only a file written in the middle of a batch may
\* repeat them.
THEOREM BroadcastIsKept == "lost" \notin Replies => (Spec => KeepsBroadcastPromise)
<1> SUFFICES ASSUME "lost" \notin Replies PROVE Spec => KeepsBroadcastPromise
  OBVIOUS
<1>1. Init => Promise!Init BY InitFollows
<1>2. ControlOK /\ ToldOK /\ NumberOK /\ [Next]_vars => [Promise!Next]_(Promise!vars)
  BY EveryStepFollows DEF Follows
<1> QED BY <1>1, <1>2, NumbersAlways, PTL DEF Spec, KeepsBroadcastPromise, Promise!Spec
=============================================================================
