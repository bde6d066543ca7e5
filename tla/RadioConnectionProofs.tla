------------------------ MODULE RadioConnectionProofs ------------------------
(***************************************************************************)
(* Proofs about RadioConnection and its sessions, for any number of attempts, *)
(* any messages and any load.                                               *)
(***************************************************************************)
EXTENDS RadioConnection, SequenceTheorems, TLAPS

\* The steps of an attempt before its session is touched.
Fresh == {"none", "closing", "loading", "monitoring"}
\* What a connect() waits for once its disconnect() is done.
Entered(kind) == IF kind = Radio THEN "monitoring" ELSE "loading"
\* A session that no start() has begun, or one that start() gave up.
Unstarted == {"idle", "failed"}
Doings == Fresh \union {"starting", "tables", "failing", "done", "failed"}
Attempts == [kind : {Radio, "demo"}, retry : BOOLEAN]
Ops == {"connect", "user", "lost", "failed"}
Worlds == [ses : [Sessions -> SessionType], conn : ConnType, waits : SUBSET Waiting,
           doing : [Sessions -> Doings], attempt : [Sessions -> Attempts]]
-----------------------------------------------------------------------------
(* What holds of every session. *)

Clean(x) == ~x.slow /\ ~x.hurried /\ ~x.refused
Live(x) == x.running /\ x.listens
Up == {"drain", "started"}

\* What a session that waits for its transport, or is unwound, has not.
PhasesOK(x) ==
  /\ x.at = "opening" => /\ x.link = "opening" /\ ~x.running /\ x.jobs = <<>> /\ x.asked = <<>>
                         /\ ~x.on /\ ~x.wanted /\ ~x.pending
  /\ x.at = "undoing" => ~x.running /\ ~x.listens /\ x.asked = <<>>
  /\ x.running => x.at \in Handshake \union Up
  /\ x.listens => x.at \in {"opening"} \union Handshake \union Up

\* While frames are heard, the link is open if and only if the session runs.
LinkOK(x) == x.listens => (x.running <=> x.link = "open")

\* A command waits only in a running session; a step of the handshake is that of
\* its phase, and there is one of it, and one of a drain.
HasMessage(x) == \E i \in 1 .. Len(x.jobs) : x.jobs[i] = "message"
QueueOK(x) ==
  /\ x.jobs # <<>> => x.running
  /\ \A i \in 1 .. Len(x.jobs) : x.jobs[i] \in Handshake => x.at = x.jobs[i]
  /\ \A i, j \in 1 .. Len(x.jobs) :
       x.jobs[i] # "command" /\ x.jobs[j] # "command"
       /\ (x.jobs[i] = "message" <=> x.jobs[j] = "message") => i = j

\* Without a time-out, an error or a push in the handshake, the radio owes the
\* answer to the command in flight and no other, and a handshake drains nothing.
AskedOK(x) ==
  Live(x) /\ Clean(x) /\ x.asked # <<>> => x.jobs # <<>> /\ x.asked = <<Head(x.jobs)>>

\* A drain that is asked for is under way, with its one command; only the first
\* pass is backlog.
DrainOK(x) ==
  /\ x.on => HasMessage(x)
  /\ HasMessage(x) => x.on
  /\ x.running /\ x.wanted => x.on
  /\ x.listens /\ x.pending => x.wanted
  /\ x.backlog => x.on
  /\ Live(x) /\ x.at = "started" => ~x.backlog /\ ~x.pending
  /\ Live(x) /\ Clean(x) /\ x.at \in Handshake => ~x.on /\ ~x.wanted

Nearly(x) == PhasesOK(x) /\ LinkOK(x) /\ QueueOK(x) /\ AskedOK(x) /\ DrainOK(x)

\* start() waits for the drain.
SessionOK(x) == Nearly(x) /\ (x.at = "drain" => x.on)

\* What the radio holds is being drained.
Left(x, some) ==
  some /\ Live(x) /\ x.at \in Up => x.on \/ x.slow \/ x.refused
\* What came while nobody was connected is being drained as backlog.
Missed(x, away) ==
  away /\ Live(x) /\ Clean(x) /\ x.at \in Up => x.backlog
-----------------------------------------------------------------------------
(* What the methods of a session keep. *)

LEMMA DropType ==
  ASSUME NEW x \in SessionType PROVE Drop(x) \in SessionType
BY EmptySeq DEF Drop, SessionType

LEMMA EnqueueType ==
  ASSUME NEW x \in SessionType, NEW k \in Commands PROVE Enqueue(x, k) \in SessionType
<1>1. x.jobs \in Seq(Commands) /\ x.asked \in Seq(Commands) BY DEF SessionType
<1>2. Append(x.jobs, k) \in Seq(Commands) /\ Append(x.asked, k) \in Seq(Commands) BY <1>1
<1> DEFINE asked == IF x.jobs = <<>> THEN Append(x.asked, k) ELSE x.asked
<1>3. asked \in Seq(Commands) BY <1>1, <1>2
<1> HIDE DEF asked
<1>4. [x EXCEPT !.jobs = Append(x.jobs, k), !.asked = asked] \in SessionType
  BY <1>2, <1>3 DEF SessionType
<1> QED BY <1>4 DEF Enqueue, asked

LEMMA DequeueType ==
  ASSUME NEW x \in SessionType, x.jobs # <<>>
  PROVE  /\ Dequeue(x) \in SessionType
         /\ Dequeue(x).jobs = Tail(x.jobs)
         /\ Len(Tail(x.jobs)) = Len(x.jobs) - 1
         /\ \A i \in 1 .. Len(Tail(x.jobs)) : Tail(x.jobs)[i] = x.jobs[i + 1] /\ i + 1 \in 1 .. Len(x.jobs)
<1>1. x.jobs \in Seq(Commands) /\ x.asked \in Seq(Commands) BY DEF SessionType
<1>2. /\ Tail(x.jobs) \in Seq(Commands) /\ Len(Tail(x.jobs)) = Len(x.jobs) - 1
      /\ \A i \in 1 .. Len(Tail(x.jobs)) : Tail(x.jobs)[i] = x.jobs[i + 1] /\ i + 1 \in 1 .. Len(x.jobs)
  BY <1>1
<1>3. ASSUME Len(x.jobs) > 1 PROVE x.jobs[2] \in Commands BY <1>1, <1>3
<1>4. (IF Len(x.jobs) > 1 THEN Append(x.asked, x.jobs[2]) ELSE x.asked) \in Seq(Commands)
  BY <1>1, <1>3
<1> QED BY <1>2, <1>4 DEF Dequeue, SessionType

LEMMA LoopType ==
  ASSUME NEW x \in SessionType, NEW b \in BOOLEAN
  PROVE  DrainLoop(x) \in SessionType /\ RequestDrain(x, b) \in SessionType /\ Awaited(x) \in SessionType
<1>1. ASSUME NEW y \in SessionType PROVE DrainLoop(y) \in SessionType
  <2>1. [y EXCEPT !.on = TRUE, !.wanted = FALSE, !.backlog = y.pending, !.pending = FALSE] \in SessionType
    BY DEF SessionType
  <2>2. [y EXCEPT !.on = FALSE, !.backlog = FALSE] \in SessionType BY DEF SessionType
  <2>3. "message" \in Commands BY DEF Commands
  <2> QED BY <2>1, <2>2, <2>3, EnqueueType DEF DrainLoop
<1>2. [x EXCEPT !.wanted = TRUE, !.pending = @ \/ b] \in SessionType BY DEF SessionType
<1>3. Awaited(x) \in SessionType BY DEF Awaited, SessionType, Phases
<1> QED BY <1>1, <1>2, <1>3 DEF RequestDrain

LEMMA StepType ==
  ASSUME NEW x \in SessionType, NEW k \in Commands, NEW ok \in BOOLEAN
  PROVE  Stepped(x, k, ok) \in SessionType /\ Drained(x, ok) \in SessionType
<1>1. [x EXCEPT !.at = "deviceInfo"] \in SessionType BY DEF SessionType, Phases, Handshake
<1>2. [x EXCEPT !.at = "clock"] \in SessionType BY DEF SessionType, Phases, Handshake
<1>3. [x EXCEPT !.at = "drain"] \in SessionType BY DEF SessionType, Phases, Handshake
<1>4. [Drop(x) EXCEPT !.at = "undoing", !.listens = FALSE, !.on = FALSE, !.backlog = FALSE] \in SessionType
  BY ZenonT(40), DropType DEF SessionType, Phases
<1>5. [x EXCEPT !.backlog = FALSE] \in SessionType BY DEF SessionType
<1>6. {"deviceInfo", "clock", "message"} \subseteq Commands BY DEF Commands, Handshake
<1>7. Stepped(x, k, ok) \in SessionType BY <1>1, <1>2, <1>3, <1>4, <1>6, EnqueueType, LoopType DEF Stepped
<1>8. Drained(x, ok) \in SessionType BY <1>5, <1>6, EnqueueType, LoopType DEF Drained
<1> QED BY <1>7, <1>8

LEMMA SessionTypes ==
  ASSUME NEW x \in SessionType, NEW ok \in BOOLEAN, NEW more \in BOOLEAN
  PROVE  /\ x.jobs # <<>> => Settled(x, ok, more) \in SessionType
         /\ Aborted(x) \in SessionType /\ Stop(x) \in SessionType /\ Loss(x) \in SessionType
         /\ Opened(x) \in SessionType /\ Closed(x) \in SessionType
<1>1. x.jobs # <<>> => Settled(x, ok, more) \in SessionType
  <2> SUFFICES ASSUME x.jobs # <<>> PROVE Settled(x, ok, more) \in SessionType OBVIOUS
  <2>1. Head(x.jobs) \in Commands BY DEF SessionType
  <2> QED BY <2>1, DequeueType, StepType DEF Settled
<1>2. ASSUME NEW y \in SessionType PROVE Aborted(y) \in SessionType
  <2>1. [Drop(y) EXCEPT !.on = FALSE, !.backlog = FALSE] \in SessionType BY ZenonT(40), DropType DEF SessionType
  <2> QED BY <2>1, LoopType, StepType DEF Aborted, Commands
<1>3. Stop(x) \in SessionType
  <2>1. [x EXCEPT !.wanted = FALSE] \in SessionType BY DEF SessionType
  <2>2. Aborted([x EXCEPT !.wanted = FALSE]) \in SessionType BY <1>2, <2>1
  <2> QED BY <2>2 DEF Stop, SessionType
<1>4. Loss(x) \in SessionType
  <2>1. [x EXCEPT !.link = "lost"] \in SessionType BY DEF SessionType
  <2>2. Aborted([x EXCEPT !.link = "lost"]) \in SessionType BY <1>2, <2>1
  <2> QED BY <2>2 DEF Loss, SessionType
<1>5. Opened(x) \in SessionType
  <2>1. [x EXCEPT !.link = "open", !.running = TRUE, !.up = "connected", !.at = "selfInfo"] \in SessionType
    BY DEF SessionType, Phases, Handshake
  <2> QED BY <2>1, EnqueueType DEF Opened, Commands, Handshake
<1>6. Closed(x) \in SessionType BY EmptySeq DEF Closed, SessionType
<1> QED BY <1>1, <1>2, <1>3, <1>4, <1>5, <1>6

LEMMA EnqueueIs ==
  ASSUME NEW x \in SessionType, NEW k \in Commands
  PROVE  LET y == Enqueue(x, k) IN
         /\ y.jobs = Append(x.jobs, k)
         /\ y.asked = IF x.jobs = <<>> THEN Append(x.asked, k) ELSE x.asked
         /\ y.link = x.link /\ y.running = x.running /\ y.listens = x.listens /\ y.up = x.up
         /\ y.at = x.at /\ y.on = x.on /\ y.wanted = x.wanted /\ y.pending = x.pending
         /\ y.backlog = x.backlog /\ y.slow = x.slow /\ y.hurried = x.hurried /\ y.refused = x.refused
BY DEF Enqueue, SessionType

LEMMA Appended ==
  ASSUME NEW x \in SessionType, NEW k \in Commands
  PROVE  /\ Append(x.jobs, k) # <<>> /\ Len(Append(x.jobs, k)) = Len(x.jobs) + 1
         /\ \A i \in 1 .. Len(x.jobs) : Append(x.jobs, k)[i] = x.jobs[i]
         /\ Append(x.jobs, k)[Len(x.jobs) + 1] = k
         /\ Head(Append(x.jobs, k)) = IF x.jobs = <<>> THEN k ELSE Head(x.jobs)
<1>1. x.jobs \in Seq(Commands) BY DEF SessionType
<1> QED BY <1>1

\* A command is added to those that wait.
LEMMA EnqueueOK ==
  ASSUME NEW x \in SessionType, NEW k \in Commands, QueueOK(x), AskedOK(x), x.running,
         k \in Handshake => /\ x.at = k
                            /\ \A i \in 1 .. Len(x.jobs) : x.jobs[i] \notin Handshake,
         k = "message" => ~HasMessage(x),
         Live(x) /\ Clean(x) /\ x.jobs = <<>> => x.asked = <<>>
  PROVE  /\ QueueOK(Enqueue(x, k)) /\ AskedOK(Enqueue(x, k))
         /\ HasMessage(Enqueue(x, k)) => HasMessage(x) \/ k = "message"
         /\ HasMessage(x) \/ k = "message" => HasMessage(Enqueue(x, k))
<1> DEFINE y == Enqueue(x, k)
           n == Len(x.jobs)
<1>0. n \in Nat BY DEF SessionType
<1>1. /\ y.jobs # <<>> /\ Len(y.jobs) = n + 1 /\ y.jobs[n + 1] = k
      /\ \A i \in 1 .. n : y.jobs[i] = x.jobs[i]
      /\ Head(y.jobs) = IF x.jobs = <<>> THEN k ELSE Head(x.jobs)
      /\ y.running /\ y.at = x.at
  BY EnqueueIs, Appended
<1>2. \A i \in 1 .. n + 1 : i \in 1 .. n \/ i = n + 1 BY <1>0
<1>3. /\ HasMessage(y) => HasMessage(x) \/ k = "message"
      /\ HasMessage(x) \/ k = "message" => HasMessage(y)
  <2>1. \A i \in 1 .. n : i \in 1 .. n + 1 BY <1>0
  <2>2. n + 1 \in 1 .. n + 1 BY <1>0
  <2> HIDE DEF y, n
  <2> QED BY <1>1, <1>2, <2>1, <2>2 DEF HasMessage, n
<1>4. QueueOK(y)
  <2>1. \A i \in 1 .. n + 1 : y.jobs[i] \in Handshake => y.at = y.jobs[i]
    BY <1>1, <1>2 DEF QueueOK
  <2>2. ASSUME NEW i \in 1 .. n + 1, NEW j \in 1 .. n + 1,
               y.jobs[i] # "command", y.jobs[j] # "command",
               y.jobs[i] = "message" <=> y.jobs[j] = "message"
        PROVE  i = j
    <3>1. \A l \in 1 .. n : x.jobs[l] \in Commands BY DEF SessionType
    <3>2. ASSUME NEW l \in 1 .. n, x.jobs[l] # "command", k # "command",
                 x.jobs[l] = "message" <=> k = "message"
          PROVE  FALSE
      BY <3>1, <3>2 DEF HasMessage, Commands
    <3> HIDE DEF y
    <3> QED BY SMTT(30), <1>1, <1>2, <2>2, <3>2 DEF QueueOK
  <2> HIDE DEF y, n
  <2> QED BY <1>1, <2>1, <2>2 DEF QueueOK
<1>5. AskedOK(y)
  <2>1. y.asked = IF x.jobs = <<>> THEN Append(x.asked, k) ELSE x.asked BY EnqueueIs
  <2>2. Live(y) /\ Clean(y) => Live(x) /\ Clean(x) BY EnqueueIs DEF Live, Clean
  <2>3. Append(<<>>, k) = <<k>> OBVIOUS
  <2> HIDE DEF y, n
  <2> QED BY <1>1, <2>1, <2>2, <2>3 DEF AskedOK
<1> QED BY <1>3, <1>4, <1>5

\* What the loop of a drain finds at its head: no command of its own.
LoopPre(x) ==
  /\ PhasesOK(x) /\ LinkOK(x) /\ QueueOK(x) /\ AskedOK(x) /\ ~HasMessage(x)
  /\ Live(x) /\ Clean(x) /\ x.jobs = <<>> => x.asked = <<>>
  /\ x.listens /\ x.pending => x.wanted
  /\ Live(x) /\ x.at = "started" => ~x.pending
  /\ Live(x) /\ Clean(x) /\ x.at \in Handshake => ~x.wanted
  /\ x.at # "opening"

LEMMA LoopOK ==
  ASSUME NEW x \in SessionType, LoopPre(x)
  PROVE  /\ Nearly(DrainLoop(x))
         /\ DrainLoop(x).on = (x.wanted /\ x.running)
         /\ DrainLoop(x).backlog = (x.wanted /\ x.running /\ x.pending)
         /\ DrainLoop(x).at = x.at /\ DrainLoop(x).running = x.running
         /\ DrainLoop(x).listens = x.listens /\ DrainLoop(x).link = x.link
         /\ DrainLoop(x).slow = x.slow /\ DrainLoop(x).hurried = x.hurried
         /\ DrainLoop(x).refused = x.refused
<1> DEFINE y == DrainLoop(x)
<1>1. CASE x.wanted /\ x.running
  <2> DEFINE z == [x EXCEPT !.on = TRUE, !.wanted = FALSE, !.backlog = x.pending, !.pending = FALSE]
  <2>1. z \in SessionType BY DEF SessionType
  <2>2. /\ z.on = TRUE /\ z.wanted = FALSE /\ z.backlog = x.pending /\ z.pending = FALSE
        /\ z.jobs = x.jobs /\ z.asked = x.asked /\ z.link = x.link /\ z.running = x.running
        /\ z.listens = x.listens /\ z.at = x.at /\ z.slow = x.slow /\ z.hurried = x.hurried
        /\ z.refused = x.refused
    BY DEF SessionType
  <2>3. y = Enqueue(z, "message") BY <1>1 DEF DrainLoop
  <2>4. "message" \in Commands /\ "message" \notin Handshake BY DEF Commands, Handshake
  <2>5. QueueOK(z) BY <2>2 DEF LoopPre, QueueOK
  <2>6. AskedOK(z) BY <2>2 DEF LoopPre, AskedOK, Live, Clean
  <2>7. ~HasMessage(z) BY <2>2 DEF LoopPre, HasMessage
  <2>8. Live(z) /\ Clean(z) /\ z.jobs = <<>> => z.asked = <<>> BY <2>2 DEF LoopPre, Live, Clean
  <2> HIDE DEF z, y
  <2>9. QueueOK(y) /\ AskedOK(y) /\ HasMessage(y)
    BY <1>1, <2>1, <2>2, <2>3, <2>4, <2>5, <2>6, <2>7, <2>8, EnqueueOK
  <2>10. /\ y.on = TRUE /\ y.wanted = FALSE /\ y.backlog = x.pending /\ y.pending = FALSE
         /\ y.link = x.link /\ y.running = x.running
         /\ y.listens = x.listens /\ y.at = x.at /\ y.slow = x.slow /\ y.hurried = x.hurried
         /\ y.refused = x.refused
    BY <2>1, <2>2, <2>3, <2>4, EnqueueIs
  <2>11. PhasesOK(y) /\ LinkOK(y) BY <1>1, <2>10 DEF LoopPre, PhasesOK, LinkOK
  <2>12. DrainOK(y) BY <1>1, <2>9, <2>10 DEF LoopPre, DrainOK, Live, Clean
  <2>13. /\ y.on = (x.wanted /\ x.running)
         /\ y.backlog = (x.wanted /\ x.running /\ x.pending)
    <3>1. x.pending \in BOOLEAN BY DEF SessionType
    <3> QED BY <1>1, <2>10, <3>1
  <2> QED BY <2>9, <2>10, <2>11, <2>12, <2>13 DEF Nearly, y
<1>2. CASE ~(x.wanted /\ x.running)
  <2>1. y = [x EXCEPT !.on = FALSE, !.backlog = FALSE] BY <1>2 DEF DrainLoop
  <2>2. /\ y.on = FALSE /\ y.wanted = x.wanted /\ y.backlog = FALSE /\ y.pending = x.pending
        /\ y.jobs = x.jobs /\ y.asked = x.asked /\ y.link = x.link /\ y.running = x.running
        /\ y.listens = x.listens /\ y.at = x.at /\ y.slow = x.slow /\ y.hurried = x.hurried
        /\ y.refused = x.refused
    BY <2>1 DEF SessionType
  <2> HIDE DEF y
  <2>3. QueueOK(y) BY <2>2 DEF LoopPre, QueueOK
  <2>4. AskedOK(y) BY <2>2 DEF LoopPre, AskedOK, Live, Clean
  <2>5. PhasesOK(y) /\ LinkOK(y) BY <2>2 DEF LoopPre, PhasesOK, LinkOK
  <2>6. ~HasMessage(y) BY <2>2 DEF LoopPre, HasMessage
  <2>7. DrainOK(y) BY <1>2, <2>2, <2>6 DEF LoopPre, DrainOK, Live, Clean
  <2> QED BY <1>2, <2>2, <2>3, <2>4, <2>5, <2>7 DEF Nearly, y
<1> QED BY <1>1, <1>2

LEMMA RequestOK ==
  ASSUME NEW x \in SessionType, Nearly(x), NEW b \in BOOLEAN, x.at # "opening",
         Live(x) /\ Clean(x) /\ x.at \in Handshake => FALSE,
         Live(x) /\ Clean(x) /\ x.jobs = <<>> => x.asked = <<>>,
         Live(x) /\ x.at = "started" => ~b
  PROVE  LET y == RequestDrain(x, b) IN
         /\ Nearly(y)
         /\ y.on = (x.on \/ x.running)
         /\ y.backlog = IF x.on THEN x.backlog ELSE x.running /\ (x.pending \/ b)
         /\ y.at = x.at /\ y.running = x.running
         /\ y.listens = x.listens /\ y.link = x.link
         /\ y.slow = x.slow /\ y.hurried = x.hurried /\ y.refused = x.refused
<1> DEFINE z == [x EXCEPT !.wanted = TRUE, !.pending = @ \/ b]
<1>1. z \in SessionType BY DEF SessionType
<1>2. /\ z.on = x.on /\ z.wanted = TRUE /\ z.backlog = x.backlog /\ z.pending = (x.pending \/ b)
      /\ z.jobs = x.jobs /\ z.asked = x.asked /\ z.link = x.link /\ z.running = x.running
      /\ z.listens = x.listens /\ z.at = x.at /\ z.slow = x.slow /\ z.hurried = x.hurried
      /\ z.refused = x.refused
  BY DEF SessionType
<1>3. RequestDrain(x, b) = IF x.on THEN z ELSE DrainLoop(z) BY DEF RequestDrain
<1> HIDE DEF z
<1>4. QueueOK(z) BY <1>2 DEF Nearly, QueueOK
<1>5. AskedOK(z) BY <1>2 DEF Nearly, AskedOK, Live, Clean
<1>6. PhasesOK(z) /\ LinkOK(z) BY <1>2 DEF Nearly, PhasesOK, LinkOK
<1>7. /\ HasMessage(z) => HasMessage(x)
      /\ HasMessage(x) => HasMessage(z)
  BY <1>2 DEF HasMessage
<1>8. CASE x.on
  <2>1. DrainOK(z) BY <1>2, <1>7, <1>8 DEF Nearly, DrainOK, Live, Clean
  <2> QED BY <1>2, <1>3, <1>4, <1>5, <1>6, <1>8, <2>1 DEF Nearly
<1>9. CASE ~x.on
  <2>1. LoopPre(z) BY <1>2, <1>4, <1>5, <1>6, <1>7, <1>9 DEF LoopPre, Nearly, DrainOK, Live, Clean
  <2>2. x.on = FALSE BY <1>9 DEF SessionType
  <2> QED BY <1>1, <1>2, <1>3, <1>9, <2>1, <2>2, LoopOK DEF SessionType
<1> QED BY <1>8, <1>9

LEMMA AwaitedOK ==
  ASSUME NEW x \in SessionType, Nearly(x)
  PROVE  LET y == Awaited(x) IN
         /\ SessionOK(y)
         /\ y.on = x.on /\ y.backlog = x.backlog /\ y.running = x.running
         /\ y.listens = x.listens /\ y.link = x.link
         /\ y.slow = x.slow /\ y.hurried = x.hurried /\ y.refused = x.refused
         /\ y.at = IF x.at = "drain" /\ ~x.on THEN "started" ELSE x.at
<1>1. CASE x.at = "drain" /\ ~x.on
  <2> DEFINE y == Awaited(x)
  <2>1. y = [x EXCEPT !.at = "started"] BY <1>1 DEF Awaited
  <2>2. /\ y.on = x.on /\ y.wanted = x.wanted /\ y.backlog = x.backlog /\ y.pending = x.pending
        /\ y.jobs = x.jobs /\ y.asked = x.asked /\ y.link = x.link /\ y.running = x.running
        /\ y.listens = x.listens /\ y.at = "started" /\ y.slow = x.slow /\ y.hurried = x.hurried
        /\ y.refused = x.refused
    BY <2>1 DEF SessionType
  <2> HIDE DEF y
  <2>3. QueueOK(y)
    <3>1. \A i \in 1 .. Len(x.jobs) : x.jobs[i] \notin Handshake BY <1>1 DEF Nearly, QueueOK, Handshake
    <3> QED BY <2>2, <3>1 DEF Nearly, QueueOK
  <2>4. AskedOK(y) BY <2>2 DEF Nearly, AskedOK, Live, Clean
  <2>5. PhasesOK(y) /\ LinkOK(y) BY <1>1, <2>2 DEF Nearly, PhasesOK, LinkOK, Up
  <2>6. /\ HasMessage(y) => HasMessage(x)
        /\ HasMessage(x) => HasMessage(y)
    BY <2>2 DEF HasMessage
  <2>7. DrainOK(y) BY <1>1, <2>2, <2>6 DEF Nearly, DrainOK, Live, Clean, Handshake
  <2> QED BY <1>1, <2>2, <2>3, <2>4, <2>5, <2>7 DEF Nearly, SessionOK, y
<1>2. CASE ~(x.at = "drain" /\ ~x.on)
  <2>1. Awaited(x) = x BY <1>2 DEF Awaited
  <2> QED BY <1>2, <2>1 DEF SessionOK
<1> QED BY <1>1, <1>2

\* A step of the handshake failed, and the session is unwound.
LEMMA StepFails ==
  ASSUME NEW x, NEW k, k # "clock"
  PROVE  Stepped(x, k, FALSE) =
           [Drop(x) EXCEPT !.at = "undoing", !.listens = FALSE, !.on = FALSE, !.backlog = FALSE]
BY DEF Stepped

\* The command in flight is done with.
LEMMA DequeueOK ==
  ASSUME NEW x \in SessionType, Nearly(x), x.jobs # <<>>,
         Live(x) /\ Clean(x) => x.asked = <<>>
  PROVE  LET y == Dequeue(x)
             k == Head(x.jobs) IN
         /\ QueueOK(y) /\ AskedOK(y) /\ y.running /\ x.running
         /\ Live(y) /\ Clean(y) /\ y.jobs = <<>> => y.asked = <<>>
         /\ k \in Handshake => x.at = k /\ \A i \in 1 .. Len(y.jobs) : y.jobs[i] \notin Handshake
         /\ k = "message" => ~HasMessage(y) /\ x.on
         /\ k # "message" /\ HasMessage(x) => HasMessage(y)
         /\ HasMessage(y) => HasMessage(x)
         /\ y.link = x.link /\ y.running = x.running /\ y.listens = x.listens /\ y.up = x.up
         /\ y.at = x.at /\ y.on = x.on /\ y.wanted = x.wanted /\ y.pending = x.pending
         /\ y.backlog = x.backlog /\ y.slow = x.slow /\ y.hurried = x.hurried /\ y.refused = x.refused
<1> DEFINE y == Dequeue(x)
           k == Head(x.jobs)
           n == Len(x.jobs)
<1>1. /\ y.link = x.link /\ y.running = x.running /\ y.listens = x.listens /\ y.up = x.up
      /\ y.at = x.at /\ y.on = x.on /\ y.wanted = x.wanted /\ y.pending = x.pending
      /\ y.backlog = x.backlog /\ y.slow = x.slow /\ y.hurried = x.hurried /\ y.refused = x.refused
      /\ y.asked = IF n > 1 THEN Append(x.asked, x.jobs[2]) ELSE x.asked
  BY DEF Dequeue, SessionType
<1>2. /\ y.jobs = Tail(x.jobs) /\ Len(y.jobs) = n - 1
      /\ \A i \in 1 .. n - 1 : y.jobs[i] = x.jobs[i + 1] /\ i + 1 \in 1 .. n
  BY ZenonT(40), DequeueType
<1>3. x.jobs \in Seq(Commands) BY DEF SessionType
<1>4. n \in Nat \ {0} /\ k = x.jobs[1] /\ k \in Commands /\ 1 \in 1 .. n BY <1>3
<1>5. (y.jobs = <<>> <=> n = 1) /\ (y.jobs # <<>> => Head(y.jobs) = x.jobs[2] /\ n > 1)
  <2>1. y.jobs \in Seq(Commands) BY <1>2, <1>3
  <2> HIDE DEF y, k
  <2>2. y.jobs = <<>> <=> Len(y.jobs) = 0 BY <2>1
  <2>3. y.jobs # <<>> => Head(y.jobs) = y.jobs[1] BY <2>1
  <2>4. y.jobs # <<>> => n > 1 /\ 1 \in 1 .. n - 1 /\ 1 + 1 = 2 BY <1>2, <1>4, <2>2
  <2>5. y.jobs # <<>> => y.jobs[1] = x.jobs[2] BY <1>2, <2>4
  <2> QED BY <1>2, <1>4, <2>2, <2>3, <2>4, <2>5
<1>6. x.running BY DEF Nearly, QueueOK
<1> HIDE DEF y, k
<1>7. \A i \in 1 .. n - 1 : i \in Nat /\ i + 1 # 1 BY <1>4
<1>8. QueueOK(y)
  <2>1. ASSUME NEW i \in 1 .. n - 1, y.jobs[i] \in Handshake PROVE y.at = y.jobs[i]
    BY <1>1, <1>2, <2>1 DEF Nearly, QueueOK
  <2>2. ASSUME NEW i \in 1 .. n - 1, NEW j \in 1 .. n - 1,
               y.jobs[i] # "command", y.jobs[j] # "command",
               y.jobs[i] = "message" <=> y.jobs[j] = "message"
        PROVE  i = j
    <3>1. i + 1 = j + 1 BY <1>2, <2>2 DEF Nearly, QueueOK
    <3> QED BY <1>7, <3>1
  <2> QED BY <1>1, <1>2, <1>6, <2>1, <2>2 DEF QueueOK
<1>9. k \in Handshake => x.at = k /\ \A i \in 1 .. Len(y.jobs) : y.jobs[i] \notin Handshake
  <2> SUFFICES ASSUME k \in Handshake
               PROVE  x.at = k /\ \A i \in 1 .. n - 1 : y.jobs[i] \notin Handshake
    BY <1>2
  <2>1. x.at = k BY <1>4 DEF Nearly, QueueOK
  <2>2. \A e \in Handshake : e # "command" /\ e # "message" BY DEF Handshake
  <2>3. ASSUME NEW i \in 1 .. n - 1, y.jobs[i] \in Handshake PROVE FALSE
    <3>1. i + 1 = 1 BY <1>2, <1>4, <2>2, <2>3 DEF Nearly, QueueOK
    <3> QED BY <1>7, <3>1
  <2> QED BY <2>1, <2>3
<1>10. k = "message" => ~HasMessage(y) /\ x.on
  <2> SUFFICES ASSUME k = "message" PROVE ~HasMessage(y) /\ x.on OBVIOUS
  <2>1. x.on BY <1>4 DEF Nearly, DrainOK, HasMessage
  <2>2. ASSUME NEW i \in 1 .. n - 1, y.jobs[i] = "message" PROVE FALSE
    <3>1. i + 1 = 1 BY <1>2, <1>4, <2>2 DEF Nearly, QueueOK
    <3> QED BY <1>7, <3>1
  <2> QED BY <1>2, <2>1, <2>2 DEF HasMessage
<1>11. k # "message" /\ HasMessage(x) => HasMessage(y)
  <2> SUFFICES ASSUME k # "message", NEW i \in 1 .. n, x.jobs[i] = "message" PROVE HasMessage(y)
    BY DEF HasMessage
  <2>1. i # 1 BY <1>4
  <2>2. i - 1 \in 1 .. n - 1 /\ (i - 1) + 1 = i BY <1>4, <2>1
  <2>3. y.jobs[i - 1] = x.jobs[i] BY <1>2, <2>2
  <2> QED BY <1>2, <2>2, <2>3 DEF HasMessage
<1>12. HasMessage(y) => HasMessage(x) BY <1>2 DEF HasMessage
<1>13. AskedOK(y) /\ (Live(y) /\ Clean(y) /\ y.jobs = <<>> => y.asked = <<>>)
  <2> SUFFICES ASSUME Live(y), Clean(y)
               PROVE  /\ y.asked # <<>> => y.jobs # <<>> /\ y.asked = <<Head(y.jobs)>>
                      /\ y.jobs = <<>> => y.asked = <<>>
    BY DEF AskedOK
  <2>1. x.asked = <<>> BY <1>1 DEF Live, Clean
  <2>2. Append(<<>>, x.jobs[2]) = <<x.jobs[2]>> OBVIOUS
  <2> QED BY <1>1, <1>4, <1>5, <2>1, <2>2
<1> QED BY <1>1, <1>6, <1>8, <1>9, <1>10, <1>11, <1>12, <1>13 DEF y, k

\* The command in flight ends, and the session goes on: what it keeps, and when
\* its drain is over.
LEMMA SettledOK ==
  ASSUME NEW x \in SessionType, SessionOK(x), x.jobs # <<>>,
         Live(x) /\ Clean(x) => x.asked = <<>>,
         NEW ok \in BOOLEAN, NEW more \in BOOLEAN
  PROVE  LET z == Settled(x, ok, more)
             k == Head(x.jobs) IN
         /\ SessionOK(z) /\ x.running
         /\ z.link = x.link /\ z.slow = x.slow /\ z.hurried = x.hurried /\ z.refused = x.refused
         /\ z.at = "undoing" \/ (z.running = x.running /\ z.listens = x.listens)
         /\ k \in Handshake => x.at = k /\ z.at \in {"undoing", "deviceInfo", "clock", "drain"}
         /\ k \notin Handshake => z.at = x.at \/ (x.at = "drain" /\ z.at = "started")
         /\ k = "message" => x.on
         /\ z.at \in Up => \/ z.on \/ (k = "message" /\ ~more /\ ~x.wanted)
                           \/ (k = "command" /\ x.at \in Up /\ ~x.on)
         /\ Live(z) /\ Clean(z) /\ z.at \in Up =>
              \/ z.backlog \/ (k = "message" /\ ~more) \/ (x.at \in Up /\ ~x.backlog)
<1> DEFINE y == Dequeue(x)
           k == Head(x.jobs)
           z == Settled(x, ok, more)
<1>1. y \in SessionType /\ k \in Commands
  <2>1. x.jobs \in Seq(Commands) BY DEF SessionType
  <2> QED BY <2>1, DequeueType
<1>2. /\ QueueOK(y) /\ AskedOK(y) /\ y.running /\ x.running
      /\ Live(y) /\ Clean(y) /\ y.jobs = <<>> => y.asked = <<>>
      /\ k \in Handshake => x.at = k /\ \A i \in 1 .. Len(y.jobs) : y.jobs[i] \notin Handshake
      /\ k = "message" => ~HasMessage(y) /\ x.on
      /\ k # "message" /\ HasMessage(x) => HasMessage(y)
      /\ HasMessage(y) => HasMessage(x)
      /\ y.link = x.link /\ y.running = x.running /\ y.listens = x.listens /\ y.up = x.up
      /\ y.at = x.at /\ y.on = x.on /\ y.wanted = x.wanted /\ y.pending = x.pending
      /\ y.backlog = x.backlog /\ y.slow = x.slow /\ y.hurried = x.hurried /\ y.refused = x.refused
  BY DequeueOK DEF SessionOK
<1>3. Nearly(x) /\ (x.at = "drain" => x.on) BY DEF SessionOK
<1>4. PhasesOK(y) /\ LinkOK(y) BY <1>2, <1>3 DEF Nearly, PhasesOK, LinkOK
<1>5. CASE k = "command"
  <2>1. z = y BY <1>5 DEF Settled, Handshake
  <2>2. DrainOK(y) BY <1>2, <1>3, <1>5 DEF Nearly, DrainOK, Live, Clean
  <2>3. SessionOK(z) BY <1>2, <1>3, <1>4, <2>1, <2>2 DEF SessionOK, Nearly
  <2> HIDE DEF y, z, k
  <2>4. k \notin Handshake /\ k # "message" BY <1>5 DEF Handshake
  <2>5. z.at \in Up => z.on \/ (x.at \in Up /\ ~x.on) BY <1>2, <2>1
  <2>6. z.at \in Up => z.backlog \/ (x.at \in Up /\ ~x.backlog) BY <1>2, <2>1
  <2> QED BY <1>2, <1>5, <2>1, <2>3, <2>4, <2>5, <2>6 DEF z, k
<1>6. CASE k = "message" /\ more
  <2>1. z = Enqueue(y, "message") BY <1>2, <1>6 DEF Settled, Drained, Handshake
  <2> HIDE DEF y, z, k
  <2>2. "message" \in Commands /\ "message" \notin Handshake BY DEF Commands, Handshake
  <2>3. /\ z.link = y.link /\ z.running = y.running /\ z.listens = y.listens /\ z.up = y.up
        /\ z.at = y.at /\ z.on = y.on /\ z.wanted = y.wanted /\ z.pending = y.pending
        /\ z.backlog = y.backlog /\ z.slow = y.slow /\ z.hurried = y.hurried /\ z.refused = y.refused
    BY <1>1, <2>1, <2>2, EnqueueIs
  <2>4. QueueOK(z) /\ AskedOK(z) /\ HasMessage(z) BY <1>1, <1>2, <1>6, <2>1, <2>2, EnqueueOK
  <2>5. PhasesOK(z) /\ LinkOK(z) BY <1>2, <1>3, <2>3 DEF Nearly, PhasesOK, LinkOK
  <2>6. DrainOK(z) BY <1>2, <1>3, <1>6, <2>3, <2>4 DEF Nearly, DrainOK, Live, Clean
  <2>7. SessionOK(z) BY <1>2, <1>3, <1>6, <2>3, <2>4, <2>5, <2>6 DEF SessionOK, Nearly
  <2>8. z.on BY <1>2, <1>6, <2>3
  <2>9. z.at \in Up => z.backlog \/ (x.at \in Up /\ ~x.backlog) BY <1>2, <2>3
  <2> QED BY <1>2, <1>6, <2>2, <2>3, <2>7, <2>8, <2>9 DEF z, k
<1>7. CASE k = "message" /\ ~more
  <2> DEFINE q == [y EXCEPT !.backlog = FALSE]
  <2>1. z = Awaited(DrainLoop(q)) BY <1>7 DEF Settled, Drained, Handshake
  <2>2. q \in SessionType BY <1>1 DEF SessionType
  <2>3. /\ q.on = y.on /\ q.wanted = y.wanted /\ q.backlog = FALSE /\ q.pending = y.pending
        /\ q.jobs = y.jobs /\ q.asked = y.asked /\ q.link = y.link /\ q.running = y.running
        /\ q.listens = y.listens /\ q.at = y.at /\ q.slow = y.slow /\ q.hurried = y.hurried
        /\ q.refused = y.refused
    BY <1>1 DEF SessionType
  <2> HIDE DEF y, z, k, q
  <2>4. LoopPre(q)
    <3>1. PhasesOK(q) /\ LinkOK(q) BY <1>4, <2>3 DEF PhasesOK, LinkOK
    <3>2. QueueOK(q) BY <1>2, <2>3 DEF QueueOK
    <3>3. AskedOK(q) /\ (Live(q) /\ Clean(q) /\ q.jobs = <<>> => q.asked = <<>>)
      BY <1>2, <2>3 DEF AskedOK, Live, Clean
    <3>4. ~HasMessage(q) BY <1>2, <1>7, <2>3 DEF HasMessage
    <3>5. q.at # "opening" BY <1>2, <1>3, <2>3 DEF Nearly, PhasesOK
    <3> QED BY <1>2, <1>3, <2>3, <3>1, <3>2, <3>3, <3>4, <3>5 DEF LoopPre, Nearly, DrainOK, Live, Clean
  <2> DEFINE l == DrainLoop(q)
  <2>5. l \in SessionType /\ Nearly(l) /\ l.on = (q.wanted /\ q.running)
        /\ l.at = q.at /\ l.running = q.running
        /\ l.listens = q.listens /\ l.link = q.link
        /\ l.slow = q.slow /\ l.hurried = q.hurried
        /\ l.refused = q.refused
    BY <2>2, <2>4, LoopOK, LoopType
  <2> HIDE DEF l
  <2>6. z = Awaited(l) BY <2>1 DEF l
  <2>7. /\ SessionOK(z)
        /\ z.on = l.on /\ z.running = l.running
        /\ z.listens = l.listens /\ z.link = l.link
        /\ z.slow = l.slow /\ z.hurried = l.hurried /\ z.refused = l.refused
        /\ z.at = IF l.at = "drain" /\ ~l.on THEN "started" ELSE l.at
    BY <2>5, <2>6, AwaitedOK
  <2>8. k \notin Handshake BY <1>7 DEF Handshake
  <2>9. /\ z.link = x.link /\ z.slow = x.slow /\ z.hurried = x.hurried /\ z.refused = x.refused
        /\ z.running = x.running /\ z.listens = x.listens
    BY <1>2, <2>3, <2>5, <2>7
  <2>10. z.at = x.at \/ (x.at = "drain" /\ z.at = "started") BY <1>2, <2>3, <2>5, <2>7
  <2>11. z.on \/ ~x.wanted BY <1>2, <2>3, <2>5, <2>7
  <2>12. SessionOK(z) BY <2>7
  <2>13. x.running /\ x.on BY <1>2, <1>7
  <2> QED BY <1>7, <2>8, <2>9, <2>10, <2>11, <2>12, <2>13 DEF z, k
<1>8. CASE k \in {"selfInfo", "deviceInfo"} /\ ok
  <2> DEFINE n == IF k = "selfInfo" THEN "deviceInfo" ELSE "clock"
             q == [y EXCEPT !.at = n]
  <2>1. z = Enqueue(q, n) BY <1>8 DEF Settled, Stepped, Handshake
  <2>2. q \in SessionType BY <1>1 DEF SessionType, Phases, Handshake
  <2>3. /\ q.on = y.on /\ q.wanted = y.wanted /\ q.backlog = y.backlog /\ q.pending = y.pending
        /\ q.jobs = y.jobs /\ q.asked = y.asked /\ q.link = y.link /\ q.running = y.running
        /\ q.listens = y.listens /\ q.at = n /\ q.slow = y.slow /\ q.hurried = y.hurried
        /\ q.refused = y.refused
    BY <1>1 DEF SessionType
  <2>4. k \in Handshake /\ n \in Handshake /\ n \in {"deviceInfo", "clock"} /\ n \notin Up /\ n # "drain"
        /\ n \in Commands /\ n # "message" /\ n # "opening" /\ n # "undoing" /\ n # "started"
    BY <1>8 DEF Handshake, Commands, Up
  <2> HIDE DEF y, z, k, q, n
  <2>5. /\ QueueOK(q)
        /\ \A i \in 1 .. Len(q.jobs) : q.jobs[i] \notin Handshake
    BY <1>2, <2>3, <2>4 DEF QueueOK
  <2>6. AskedOK(q) /\ (Live(q) /\ Clean(q) /\ q.jobs = <<>> => q.asked = <<>>)
    BY <1>2, <2>3 DEF AskedOK, Live, Clean
  <2>7. /\ z.link = q.link /\ z.running = q.running /\ z.listens = q.listens
        /\ z.at = q.at /\ z.on = q.on /\ z.wanted = q.wanted /\ z.pending = q.pending
        /\ z.backlog = q.backlog /\ z.slow = q.slow /\ z.hurried = q.hurried /\ z.refused = q.refused
    BY <2>1, <2>2, <2>4, EnqueueIs
  <2>8. /\ QueueOK(z) /\ AskedOK(z)
        /\ HasMessage(z) => HasMessage(q)
        /\ HasMessage(q) => HasMessage(z)
    BY <1>2, <2>1, <2>2, <2>3, <2>4, <2>5, <2>6, EnqueueOK
  <2>9. /\ HasMessage(q) => HasMessage(x)
        /\ HasMessage(x) => HasMessage(q)
    <3>1. k # "message" BY <2>4 DEF Handshake
    <3>2. /\ HasMessage(q) => HasMessage(y)
          /\ HasMessage(y) => HasMessage(q)
      BY <2>3 DEF HasMessage
    <3> QED BY <1>2, <3>1, <3>2
  <2>10. PhasesOK(z) /\ LinkOK(z) BY <1>2, <1>4, <2>3, <2>4, <2>7 DEF PhasesOK, LinkOK
  <2>11. DrainOK(z) BY <1>2, <1>3, <2>3, <2>4, <2>7, <2>8, <2>9 DEF Nearly, DrainOK, Live, Clean
  <2>12. SessionOK(z) BY <2>3, <2>4, <2>7, <2>8, <2>10, <2>11 DEF SessionOK, Nearly
  <2>13. /\ z.link = x.link /\ z.slow = x.slow /\ z.hurried = x.hurried /\ z.refused = x.refused
         /\ z.running = x.running /\ z.listens = x.listens
    BY <1>2, <2>3, <2>7
  <2>14. x.running /\ x.at = k /\ z.at \in {"deviceInfo", "clock"} /\ z.at \notin Up
    BY <1>2, <2>3, <2>4, <2>7
  <2>15. k # "message" BY <2>4 DEF Handshake
  <2> QED BY <2>4, <2>12, <2>13, <2>14, <2>15 DEF z, k
<1>9. CASE k = "clock"
  <2> DEFINE q == [y EXCEPT !.at = "drain"]
             r == RequestDrain(q, TRUE)
  <2>1. z = Awaited(r) BY <1>9 DEF Settled, Stepped, Handshake
  <2>2. q \in SessionType BY <1>1 DEF SessionType, Phases, Handshake
  <2>3. /\ q.on = y.on /\ q.wanted = y.wanted /\ q.backlog = y.backlog /\ q.pending = y.pending
        /\ q.jobs = y.jobs /\ q.asked = y.asked /\ q.link = y.link /\ q.running = y.running
        /\ q.listens = y.listens /\ q.at = "drain" /\ q.slow = y.slow /\ q.hurried = y.hurried
        /\ q.refused = y.refused
    BY <1>1 DEF SessionType
  <2>4. k \in Handshake /\ k # "message" /\ "drain" \notin Handshake /\ "drain" \in Up
    BY <1>9 DEF Handshake, Up
  <2> HIDE DEF y, z, k, q
  <2>5. QueueOK(q) BY <1>2, <2>3, <2>4 DEF QueueOK
  <2>6. AskedOK(q) /\ (Live(q) /\ Clean(q) /\ q.jobs = <<>> => q.asked = <<>>)
    BY <1>2, <2>3 DEF AskedOK, Live, Clean
  <2>7. /\ HasMessage(q) => HasMessage(x)
        /\ HasMessage(x) => HasMessage(q)
    <3>1. /\ HasMessage(q) => HasMessage(y)
          /\ HasMessage(y) => HasMessage(q)
      BY <2>3 DEF HasMessage
    <3> QED BY <1>2, <2>4, <3>1
  <2>8. PhasesOK(q) /\ LinkOK(q) BY <1>2, <1>4, <2>3, <2>4 DEF PhasesOK, LinkOK
  <2>9. DrainOK(q) BY <1>2, <1>3, <2>3, <2>4, <2>7 DEF Nearly, DrainOK, Live, Clean
  <2>10. Nearly(q) BY <2>5, <2>6, <2>8, <2>9 DEF Nearly
  <2>11. /\ Nearly(r)
         /\ r.on = (q.on \/ q.running)
         /\ r.backlog = IF q.on THEN q.backlog ELSE q.running /\ (q.pending \/ TRUE)
         /\ r.at = q.at /\ r.running = q.running
         /\ r.listens = q.listens /\ r.link = q.link
         /\ r.slow = q.slow /\ r.hurried = q.hurried /\ r.refused = q.refused
    BY <2>2, <2>3, <2>4, <2>6, <2>10, RequestOK
  <2>12. r \in SessionType BY <2>2, LoopType
  <2> HIDE DEF r
  <2>13. /\ SessionOK(z)
         /\ z.on = r.on /\ z.backlog = r.backlog /\ z.running = r.running
         /\ z.listens = r.listens /\ z.link = r.link
         /\ z.slow = r.slow /\ z.hurried = r.hurried /\ z.refused = r.refused
         /\ z.at = IF r.at = "drain" /\ ~r.on THEN "started" ELSE r.at
    BY <2>1, <2>11, <2>12, AwaitedOK
  <2>14. z.on /\ z.at = "drain" BY <1>2, <2>3, <2>11, <2>13
  <2>15. Live(z) /\ Clean(z) => z.backlog
    <3> SUFFICES ASSUME Live(z), Clean(z) PROVE z.backlog OBVIOUS
    <3>1. Live(x) /\ Clean(x) BY <1>2, <2>3, <2>11, <2>13 DEF Live, Clean
    <3>2. ~x.on BY <1>2, <1>3, <2>4, <3>1 DEF Nearly, DrainOK
    <3> QED BY <1>2, <2>3, <2>11, <2>13, <3>2
  <2>16. /\ z.link = x.link /\ z.slow = x.slow /\ z.hurried = x.hurried /\ z.refused = x.refused
         /\ z.running = x.running /\ z.listens = x.listens
    BY <1>2, <2>3, <2>11, <2>13
  <2>17. x.running /\ x.at = k BY <1>2, <2>4
  <2>18. SessionOK(z) BY <2>13
  <2> QED BY <2>4, <2>14, <2>15, <2>16, <2>17, <2>18 DEF z, k
<1>10. CASE k \in Handshake /\ k # "clock" /\ ~ok
  <2>1. z = [Drop(y) EXCEPT !.at = "undoing", !.listens = FALSE, !.on = FALSE, !.backlog = FALSE]
    <3>0. ok = FALSE BY <1>10
    <3>1. z = Stepped(y, k, FALSE) BY <1>10, <3>0 DEF Settled, Handshake
    <3> HIDE DEF y, z, k
    <3> QED BY <1>10, <3>1, StepFails
  <2>2. /\ z.at = "undoing" /\ ~z.listens /\ ~z.on /\ ~z.backlog /\ ~z.running
        /\ z.jobs = <<>> /\ z.asked = <<>> /\ z.link = y.link
        /\ z.slow = y.slow /\ z.hurried = y.hurried /\ z.refused = y.refused
    BY <1>1, <2>1 DEF SessionType, Drop
  <2> HIDE DEF y, z, k
  <2>3. ~HasMessage(z) /\ QueueOK(z) BY <2>2 DEF HasMessage, QueueOK
  <2>4. Nearly(z)
    BY <2>2, <2>3 DEF Nearly, PhasesOK, LinkOK, AskedOK, DrainOK, Live
  <2>5. SessionOK(z) BY <2>2, <2>4 DEF SessionOK
  <2>6. k # "message" /\ "undoing" \notin Up BY <1>10 DEF Handshake, Up
  <2> QED BY <1>2, <1>10, <2>2, <2>5, <2>6 DEF z, k
<1>11. k = "command" \/ k = "message" \/ k \in {"selfInfo", "deviceInfo"} \/ k = "clock"
  BY <1>1 DEF Commands, Handshake
<1>12. k \in {"selfInfo", "deviceInfo"} => k \in Handshake /\ k # "clock" BY DEF Handshake
<1> QED BY <1>5, <1>6, <1>7, <1>8, <1>9, <1>10, <1>11, <1>12

\* Every command fails, and those who wait for one go on.
LEMMA AbortedIs ==
  ASSUME NEW x \in SessionType
  PROVE  LET y == Aborted(x) IN
         /\ y.running = FALSE /\ y.jobs = <<>> /\ y.asked = <<>> /\ y.on = FALSE /\ y.backlog = FALSE
         /\ y.link = x.link /\ y.up = x.up
         /\ y.slow = x.slow /\ y.hurried = x.hurried /\ y.refused = x.refused
         /\ \/ /\ x.jobs = <<>> \/ x.at \notin Handshake \union {"drain"}
               /\ y.at = x.at /\ y.listens = x.listens
               /\ y.wanted = x.wanted /\ y.pending = x.pending
            \/ /\ x.jobs # <<>> /\ x.at = "drain" /\ y.at = "started" /\ y.listens = x.listens
               /\ y.wanted = x.wanted /\ y.pending = x.pending
            \/ /\ x.jobs # <<>> /\ x.at = "clock" /\ y.at = "started" /\ y.listens = x.listens
               /\ y.wanted = TRUE /\ y.pending = TRUE
            \/ /\ x.jobs # <<>> /\ x.at \in {"selfInfo", "deviceInfo"} /\ y.at = "undoing"
               /\ y.listens = FALSE
               /\ y.wanted = x.wanted /\ y.pending = x.pending
<1> DEFINE d == Drop(x)
           z == [d EXCEPT !.on = FALSE, !.backlog = FALSE]
           y == Aborted(x)
<1>1. d \in SessionType /\ z \in SessionType BY ZenonT(40), DropType DEF SessionType
<1>2. /\ z.running = FALSE /\ z.jobs = <<>> /\ z.asked = <<>> /\ z.on = FALSE /\ z.backlog = FALSE
      /\ z.link = x.link /\ z.up = x.up /\ z.at = x.at /\ z.listens = x.listens
      /\ z.wanted = x.wanted /\ z.pending = x.pending
      /\ z.slow = x.slow /\ z.hurried = x.hurried /\ z.refused = x.refused
  BY DEF Drop, SessionType
<1>3. y = IF Len(x.jobs) = 0 THEN z ELSE IF x.at \in Handshake THEN Stepped(z, x.at, FALSE) ELSE Awaited(z)
  BY DEF Aborted
<1>4. Len(x.jobs) = 0 <=> x.jobs = <<>>
  <2>1. x.jobs \in Seq(Commands) BY DEF SessionType
  <2> QED BY <2>1
<1>5. ASSUME NEW q \in SessionType, q.on = FALSE
      PROVE  LET w == Awaited(q) IN
             /\ w.running = q.running /\ w.jobs = q.jobs /\ w.asked = q.asked /\ w.on = FALSE
             /\ w.backlog = q.backlog /\ w.link = q.link /\ w.up = q.up /\ w.listens = q.listens
             /\ w.wanted = q.wanted /\ w.pending = q.pending
             /\ w.slow = q.slow /\ w.hurried = q.hurried /\ w.refused = q.refused
             /\ w.at = IF q.at = "drain" THEN "started" ELSE q.at
  <2>1. Awaited(q) = IF q.at = "drain" THEN [q EXCEPT !.at = "started"] ELSE q BY <1>5 DEF Awaited
  <2> QED BY <1>5, <2>1 DEF SessionType
<1> HIDE DEF z, y, d
<1>6. CASE x.jobs = <<>> BY <1>2, <1>3, <1>4, <1>6 DEF y
<1>7. CASE x.jobs # <<>> /\ x.at \notin Handshake
  <2>1. y = Awaited(z) BY <1>3, <1>4, <1>7
  <2> QED BY ZenonT(40), <1>1, <1>2, <1>5, <1>7, <2>1 DEF y
<1>8. CASE x.jobs # <<>> /\ x.at = "clock"
  <2> DEFINE q == [z EXCEPT !.at = "drain"]
             r == [q EXCEPT !.wanted = TRUE, !.pending = @ \/ TRUE]
             l == [r EXCEPT !.on = FALSE, !.backlog = FALSE]
  <2>1. y = Awaited(RequestDrain(q, TRUE)) BY <1>3, <1>4, <1>8 DEF Stepped, Handshake
  <2>2. q \in SessionType /\ q.on = FALSE /\ q.running = FALSE
    BY <1>1, <1>2 DEF SessionType, Phases
  <2>3. RequestDrain(q, TRUE) = l
    <3>1. r.running = FALSE BY <2>2 DEF SessionType
    <3> HIDE DEF q
    <3> QED BY <2>2, <3>1 DEF RequestDrain, DrainLoop
  <2>4. l \in SessionType BY <2>2 DEF SessionType
  <2>5. /\ l.running = FALSE /\ l.jobs = <<>> /\ l.asked = <<>> /\ l.on = FALSE /\ l.backlog = FALSE
        /\ l.link = x.link /\ l.up = x.up /\ l.at = "drain" /\ l.listens = x.listens
        /\ l.wanted = TRUE /\ l.pending = TRUE
        /\ l.slow = x.slow /\ l.hurried = x.hurried /\ l.refused = x.refused
    BY <1>1, <1>2 DEF SessionType
  <2> HIDE DEF l
  <2>6. y = Awaited(l) BY <2>1, <2>3
  <2>7. /\ y.running = l.running /\ y.jobs = l.jobs /\ y.asked = l.asked /\ y.on = FALSE
        /\ y.backlog = l.backlog /\ y.link = l.link /\ y.up = l.up /\ y.listens = l.listens
        /\ y.wanted = l.wanted /\ y.pending = l.pending
        /\ y.slow = l.slow /\ y.hurried = l.hurried /\ y.refused = l.refused
        /\ y.at = IF l.at = "drain" THEN "started" ELSE l.at
    BY <1>5, <2>4, <2>5, <2>6
  <2>8. y.at = "started" BY <2>5, <2>7
  <2>9. /\ y.running = FALSE /\ y.jobs = <<>> /\ y.asked = <<>> /\ y.on = FALSE /\ y.backlog = FALSE
        /\ y.link = x.link /\ y.up = x.up /\ y.listens = x.listens
        /\ y.wanted = TRUE /\ y.pending = TRUE
        /\ y.slow = x.slow /\ y.hurried = x.hurried /\ y.refused = x.refused
    BY <2>5, <2>7
  <2> QED BY <1>8, <2>8, <2>9 DEF y
<1>9. CASE x.jobs # <<>> /\ x.at \in {"selfInfo", "deviceInfo"}
  <2>1. y = Stepped(z, x.at, FALSE) BY <1>3, <1>4, <1>9 DEF Handshake
  <2>2. y = [Drop(z) EXCEPT !.at = "undoing", !.listens = FALSE, !.on = FALSE, !.backlog = FALSE]
    BY <1>9, <2>1, StepFails
  <2>3. /\ y.running = FALSE /\ y.jobs = <<>> /\ y.asked = <<>> /\ y.on = FALSE /\ y.backlog = FALSE
        /\ y.link = z.link /\ y.up = z.up /\ y.at = "undoing" /\ y.listens = FALSE
        /\ y.wanted = z.wanted /\ y.pending = z.pending
        /\ y.slow = z.slow /\ y.hurried = z.hurried /\ y.refused = z.refused
    BY <1>1, <2>2 DEF SessionType, Drop
  <2> QED BY <1>2, <1>9, <2>3 DEF y
<1> QED BY <1>6, <1>7, <1>8, <1>9 DEF Handshake

\* What may happen to a session that is stopped, lost or closed: it is no longer
\* heard, and what is known of its past stays.
Ends(x, y) ==
  /\ y \in SessionType /\ SessionOK(y) /\ ~Live(y)
  /\ y.slow = x.slow /\ y.hurried = x.hurried /\ y.refused = x.refused
  /\ y.at = "started" \/ y.at = "undoing" \/ y.at = x.at
  /\ y.asked = <<>>
  /\ x.at = "started" => y.at = "started"
  /\ y.at = "started" => x.at \in {"started", "drain", "clock"}
  /\ y.at = "undoing" => x.at \in {"undoing", "selfInfo", "deviceInfo"}

LEMMA StopOK ==
  ASSUME NEW x \in SessionType, SessionOK(x)
  PROVE  /\ Ends(x, Stop(x)) /\ ~Stop(x).running /\ ~Stop(x).listens
         /\ Stop(x).link = x.link /\ Stop(x).up = x.up
<1> DEFINE w == [x EXCEPT !.wanted = FALSE]
           a == Aborted(w)
           y == Stop(x)
<1>1. w \in SessionType BY DEF SessionType
<1>2. /\ w.jobs = x.jobs /\ w.at = x.at /\ w.link = x.link /\ w.up = x.up /\ w.wanted = FALSE
      /\ w.pending = x.pending
      /\ w.slow = x.slow /\ w.hurried = x.hurried /\ w.refused = x.refused
  BY DEF SessionType
<1>3. a \in SessionType BY <1>1, SessionTypes
<1> HIDE DEF w
<1>4. /\ a.running = FALSE /\ a.jobs = <<>> /\ a.asked = <<>> /\ a.on = FALSE /\ a.backlog = FALSE
      /\ a.link = w.link /\ a.up = w.up
      /\ a.slow = w.slow /\ a.hurried = w.hurried /\ a.refused = w.refused
      /\ \/ /\ w.jobs = <<>> \/ w.at \notin Handshake \union {"drain"}
            /\ a.at = w.at /\ a.wanted = w.wanted /\ a.pending = w.pending
         \/ /\ w.jobs # <<>> /\ w.at = "drain" /\ a.at = "started"
         \/ /\ w.jobs # <<>> /\ w.at = "clock" /\ a.at = "started"
         \/ /\ w.jobs # <<>> /\ w.at \in {"selfInfo", "deviceInfo"} /\ a.at = "undoing"
  BY <1>1, AbortedIs
<1> HIDE DEF a
<1>5. y = [a EXCEPT !.listens = FALSE] BY DEF Stop, a, w
<1>6. /\ y.running = FALSE /\ y.listens = FALSE /\ y.jobs = <<>> /\ y.asked = <<>> /\ y.on = FALSE
      /\ y.backlog = FALSE /\ y.link = a.link /\ y.up = a.up /\ y.at = a.at
      /\ y.wanted = a.wanted /\ y.pending = a.pending
      /\ y.slow = a.slow /\ y.hurried = a.hurried /\ y.refused = a.refused
  BY <1>3, <1>4, <1>5 DEF SessionType
<1>7. y \in SessionType BY SessionTypes
<1> HIDE DEF y
<1>8. ~HasMessage(y) /\ QueueOK(y) BY <1>6 DEF HasMessage, QueueOK
<1>9. x.at = "drain" => x.jobs # <<>>
  BY DEF SessionOK, Nearly, DrainOK, HasMessage
<1>10. Nearly(x) BY DEF SessionOK
<1>11. PhasesOK(y) BY <1>2, <1>4, <1>6, <1>10 DEF Nearly, PhasesOK
<1>12. SessionOK(y)
  BY <1>2, <1>4, <1>6, <1>8, <1>9, <1>11 DEF SessionOK, Nearly, LinkOK, AskedOK, DrainOK, Live
<1>13. \A e \in {"started", "undoing", "drain", "opening"} : e \notin Handshake BY DEF Handshake
<1> QED BY <1>2, <1>4, <1>6, <1>7, <1>12, <1>13 DEF Ends, Live, y

LEMMA LossOK ==
  ASSUME NEW x \in SessionType, SessionOK(x), x.link = "open"
  PROVE  /\ Ends(x, Loss(x)) /\ ~Loss(x).running /\ Loss(x).link = "lost" /\ Loss(x).up = "disconnected"
         /\ Loss(x).listens = x.listens \/ (~Loss(x).listens /\ Loss(x).at = "undoing")
         /\ x.at \in {"selfInfo", "deviceInfo"} /\ Loss(x).at = x.at => x.jobs = <<>>
<1> DEFINE w == [x EXCEPT !.link = "lost"]
           a == Aborted(w)
           y == Loss(x)
<1>1. w \in SessionType BY DEF SessionType
<1>2. /\ w.jobs = x.jobs /\ w.at = x.at /\ w.link = "lost" /\ w.up = x.up /\ w.wanted = x.wanted
      /\ w.pending = x.pending /\ w.listens = x.listens
      /\ w.slow = x.slow /\ w.hurried = x.hurried /\ w.refused = x.refused
  BY DEF SessionType
<1>3. a \in SessionType BY <1>1, SessionTypes
<1> HIDE DEF w
<1>4. /\ a.running = FALSE /\ a.jobs = <<>> /\ a.asked = <<>> /\ a.on = FALSE /\ a.backlog = FALSE
      /\ a.link = w.link /\ a.up = w.up
      /\ a.slow = w.slow /\ a.hurried = w.hurried /\ a.refused = w.refused
      /\ \/ /\ w.jobs = <<>> \/ w.at \notin Handshake \union {"drain"}
            /\ a.at = w.at /\ a.listens = w.listens /\ a.wanted = w.wanted /\ a.pending = w.pending
         \/ /\ w.jobs # <<>> /\ w.at = "drain" /\ a.at = "started" /\ a.listens = w.listens
            /\ a.wanted = w.wanted /\ a.pending = w.pending
         \/ /\ w.jobs # <<>> /\ w.at = "clock" /\ a.at = "started" /\ a.listens = w.listens
            /\ a.wanted = TRUE /\ a.pending = TRUE
         \/ /\ w.jobs # <<>> /\ w.at \in {"selfInfo", "deviceInfo"} /\ a.at = "undoing"
            /\ a.listens = FALSE
            /\ a.wanted = w.wanted /\ a.pending = w.pending
  BY <1>1, AbortedIs
<1> HIDE DEF a
<1>5. y = [a EXCEPT !.up = "disconnected"] BY DEF Loss, a, w
<1>6. /\ y.running = FALSE /\ y.listens = a.listens /\ y.jobs = <<>> /\ y.asked = <<>> /\ y.on = FALSE
      /\ y.backlog = FALSE /\ y.link = a.link /\ y.up = "disconnected" /\ y.at = a.at
      /\ y.wanted = a.wanted /\ y.pending = a.pending
      /\ y.slow = a.slow /\ y.hurried = a.hurried /\ y.refused = a.refused
  BY <1>3, <1>4, <1>5 DEF SessionType
<1>7. y \in SessionType BY SessionTypes
<1> HIDE DEF y
<1>8. ~HasMessage(y) /\ QueueOK(y) BY <1>6 DEF HasMessage, QueueOK
<1>9. x.at = "drain" => x.jobs # <<>>
  BY DEF SessionOK, Nearly, DrainOK, HasMessage
<1>10. Nearly(x) BY DEF SessionOK
<1>11. x.at # "opening" BY <1>10 DEF Nearly, PhasesOK
<1>12. PhasesOK(y) BY <1>2, <1>4, <1>6, <1>10, <1>11 DEF Nearly, PhasesOK, Up
<1>13. SessionOK(y)
  <2>1. x.listens /\ x.pending => x.wanted BY <1>10 DEF Nearly, DrainOK
  <2>2. DrainOK(y) BY <1>2, <1>4, <1>6, <1>8, <2>1 DEF DrainOK, Live
  <2> QED BY <1>2, <1>4, <1>6, <1>8, <1>9, <1>12, <2>2 DEF SessionOK, Nearly, LinkOK, AskedOK, Live
<1>14. \A e \in {"started", "undoing", "drain", "opening"} : e \notin Handshake BY DEF Handshake
<1>15. {"selfInfo", "deviceInfo"} \subseteq Handshake BY DEF Handshake
<1> QED BY <1>2, <1>4, <1>6, <1>7, <1>13, <1>14, <1>15 DEF Ends, Live, y

LEMMA OpenedOK ==
  ASSUME NEW x \in SessionType, SessionOK(x), x.at = "opening"
  PROVE  LET y == Opened(x) IN
         /\ y \in SessionType /\ SessionOK(y)
         /\ y.at = "selfInfo" /\ y.running /\ y.listens = x.listens /\ y.up = "connected"
         /\ y.slow = x.slow /\ y.hurried = x.hurried /\ y.refused = x.refused
<1> DEFINE w == [x EXCEPT !.link = "open", !.running = TRUE, !.up = "connected", !.at = "selfInfo"]
           y == Opened(x)
<1>1. w \in SessionType BY DEF SessionType, Phases, Handshake
<1>2. /\ w.link = "open" /\ w.running = TRUE /\ w.up = "connected" /\ w.at = "selfInfo"
      /\ w.jobs = x.jobs /\ w.asked = x.asked /\ w.listens = x.listens /\ w.on = x.on
      /\ w.wanted = x.wanted /\ w.pending = x.pending /\ w.backlog = x.backlog
      /\ w.slow = x.slow /\ w.hurried = x.hurried /\ w.refused = x.refused
  BY DEF SessionType
<1>3. y = Enqueue(w, "selfInfo") BY DEF Opened
<1>4. /\ x.jobs = <<>> /\ x.asked = <<>> /\ ~x.on /\ ~x.wanted /\ ~x.pending /\ ~x.backlog
  BY DEF SessionOK, Nearly, PhasesOK, DrainOK
<1>5. "selfInfo" \in Commands /\ "selfInfo" \in Handshake /\ "selfInfo" # "message"
  BY DEF Commands, Handshake
<1> HIDE DEF w, y
<1>6. QueueOK(w) /\ AskedOK(w) /\ ~HasMessage(w) BY <1>2, <1>4 DEF QueueOK, AskedOK, HasMessage
<1>7. \A i \in 1 .. Len(w.jobs) : w.jobs[i] \notin Handshake BY <1>2, <1>4
<1>8. QueueOK(y) /\ AskedOK(y) /\ ~HasMessage(y)
  BY <1>1, <1>2, <1>3, <1>4, <1>5, <1>6, <1>7, EnqueueOK
<1>9. /\ y.link = w.link /\ y.running = w.running /\ y.listens = w.listens /\ y.up = w.up
      /\ y.at = w.at /\ y.on = w.on /\ y.wanted = w.wanted /\ y.pending = w.pending
      /\ y.backlog = w.backlog /\ y.slow = w.slow /\ y.hurried = w.hurried /\ y.refused = w.refused
  BY <1>1, <1>3, <1>5, EnqueueIs
<1>10. y \in SessionType BY SessionTypes DEF y
<1>11. SessionOK(y)
  BY <1>2, <1>4, <1>5, <1>8, <1>9 DEF SessionOK, Nearly, PhasesOK, LinkOK, DrainOK, Live
<1> QED BY <1>2, <1>9, <1>10, <1>11 DEF y

\* A session that nobody hears any more is closed, or marked as failed.
LEMMA ClosedOK ==
  ASSUME NEW x \in SessionType, SessionOK(x), ~x.listens
  PROVE  LET y == Closed(x) IN
         /\ Ends(x, y) /\ y.at = x.at /\ y.running = x.running /\ ~y.listens
         /\ y.link = IF x.link = "opening" THEN "opening" ELSE "closed"
<1> DEFINE y == Closed(x)
<1>1. /\ y.link = IF x.link = "opening" THEN "opening" ELSE "closed"
      /\ y.asked = <<>> /\ y.jobs = x.jobs /\ y.at = x.at /\ y.running = x.running
      /\ y.listens = x.listens /\ y.on = x.on /\ y.wanted = x.wanted /\ y.pending = x.pending
      /\ y.backlog = x.backlog /\ y.slow = x.slow /\ y.hurried = x.hurried /\ y.refused = x.refused
  BY DEF Closed, SessionType
<1>2. y \in SessionType BY SessionTypes
<1> HIDE DEF y
<1>3. Nearly(x) /\ (x.at = "drain" => x.on) BY DEF SessionOK
<1>4. QueueOK(y) BY <1>1, <1>3 DEF Nearly, QueueOK
<1>5. /\ HasMessage(y) => HasMessage(x)
      /\ HasMessage(x) => HasMessage(y)
  BY <1>1 DEF HasMessage
<1>6. DrainOK(y) BY <1>1, <1>3, <1>5 DEF Nearly, DrainOK, Live
<1>7. PhasesOK(y) BY <1>1, <1>3 DEF Nearly, PhasesOK
<1>8. SessionOK(y) BY <1>1, <1>3, <1>4, <1>6, <1>7 DEF SessionOK, Nearly, LinkOK, AskedOK, Live
<1> QED BY <1>1, <1>2, <1>8 DEF Ends, Live, y
-----------------------------------------------------------------------------
(* What holds of the connection and its calls. *)

Starting == {"opening", "undoing", "drain"} \union Handshake

\* An attempt whose session is not begun yet, and one whose start() waits.
FreshOK(w) ==
  \A a \in Sessions :
    /\ w.doing[a] \in Fresh => w.ses[a] = NewSession /\ \A v \in w.waits : v.on # a
    /\ w.ses[a].at \in Starting => w.doing[a] = "starting"
OrderOK(w) == \A a, b \in Sessions : a <= b /\ w.doing[b] # "none" => w.doing[a] # "none"

\* A call waits for a session that nobody hears; connect() goes on once.
WaitsOK(w) ==
  \A v \in w.waits :
    /\ ~w.ses[v.on].listens
    /\ v.op \in {"connect", "failed"} => v.of \in Sessions
    /\ v.op = "connect" => w.doing[v.of] = "closing"
    /\ v.op = "failed" => w.doing[v.of] \notin Fresh /\ w.ses[v.of].at \in Unstarted
    /\ \A u \in w.waits : u.op = "connect" /\ v.op = "connect" /\ u.of = v.of => u = v

\* The session of the connection is one of a begun attempt, and is heard or over;
\* the service listens to its transport once that is monitored.
ConnOK(w) ==
  LET s == w.conn.session
      t == w.conn.transport IN
  /\ s # None =>
       /\ w.doing[s] \notin {"none", "closing", "loading"}
       /\ w.ses[s].listens \/ (~w.ses[s].running /\ w.ses[s].asked = <<>> /\ w.ses[s].at # "opening")
  /\ t # None =>
       /\ w.doing[t] \notin {"none", "closing", "loading"}
       /\ w.doing[t] \notin Fresh => w.conn.listening = t

WorldOK(w) ==
  /\ \A s \in Sessions : SessionOK(w.ses[s])
  /\ FreshOK(w) /\ OrderOK(w) /\ WaitsOK(w) /\ ConnOK(w)

\* What a call finds that goes on as `op` for the attempt a.
CallPre(w, op, a) ==
  /\ op \in Ops /\ a \in Sessions \union {None}
  /\ op \in {"connect", "failed"} => a \in Sessions
  /\ op = "connect" => /\ w.doing[a] = "closing"
                       /\ \A v \in w.waits : v.op = "connect" => v.of # a
  /\ op = "failed" => /\ w.doing[a] \notin Fresh \/ w.doing[a] = "loading"
                      /\ w.ses[a].at \in Unstarted

\* A timer that is known is armed.
TimerOK(w) == w.conn.timer => w.conn.timers > 0

LEMMA NoneIsNone == None \notin Sessions
BY SessionsAreNumbered DEF None

\* What a continuation does, call by call.
Continued(w, op, a, granted, c) ==
  /\ c \in Worlds
  /\ c.ses = w.ses /\ c.waits = w.waits /\ c.attempt = w.attempt
  /\ c.conn.listening = w.conn.listening /\ c.conn.hearing = w.conn.hearing
  /\ c.conn.handle = w.conn.handle
  /\ op = "connect" =>
       /\ c.doing[a] = Entered(w.attempt[a].kind) /\ \A b \in Sessions \ {a} : c.doing[b] = w.doing[b]
       /\ c.conn.state = "connecting" /\ c.conn.kind = w.attempt[a].kind
       /\ c.conn.session = IF w.attempt[a].kind = Radio THEN a ELSE w.conn.session
       /\ c.conn.transport = IF w.attempt[a].kind = Radio THEN a ELSE w.conn.transport
       /\ c.conn.user = FALSE
       /\ c.conn.timers = w.conn.timers /\ c.conn.timer = w.conn.timer
  /\ op # "connect" =>
       /\ c.conn.state = "disconnected" /\ c.conn.kind = "none"
       /\ c.conn.session = w.conn.session /\ c.conn.transport = w.conn.transport
       /\ c.conn.user = w.conn.user
  /\ op \in {"user", "lost"} => c.doing = w.doing
  /\ op = "failed" => c.doing[a] = "failed" /\ \A b \in Sessions \ {a} : c.doing[b] = w.doing[b]
  /\ op = "lost" /\ granted /\ ~w.conn.user => c.conn.timers > 0
  /\ TimerOK(w) => TimerOK(c)

LEMMA ContinueIs ==
  ASSUME NEW w \in Worlds, NEW op \in Ops, NEW a \in Sessions \union {None}, NEW granted \in BOOLEAN,
         op \in {"connect", "failed"} => a \in Sessions
  PROVE  Continued(w, op, a, granted, Continue(w, op, a, granted))
<1> DEFINE c == Continue(w, op, a, granted)
           off == [w EXCEPT !.conn.state = "disconnected", !.conn.kind = "none"]
<1>1. /\ off \in Worlds
      /\ off.ses = w.ses /\ off.waits = w.waits /\ off.attempt = w.attempt /\ off.doing = w.doing
      /\ off.conn.listening = w.conn.listening /\ off.conn.hearing = w.conn.hearing
      /\ off.conn.handle = w.conn.handle /\ off.conn.state = "disconnected" /\ off.conn.kind = "none"
      /\ off.conn.session = w.conn.session /\ off.conn.transport = w.conn.transport
      /\ off.conn.user = w.conn.user /\ off.conn.timers = w.conn.timers
      /\ off.conn.timer = w.conn.timer
  BY DEF Worlds, ConnType
<1>2. ASSUME NEW u \in Worlds
      PROVE  /\ Arm(u) \in Worlds /\ Arm(u).ses = u.ses /\ Arm(u).waits = u.waits
             /\ Arm(u).attempt = u.attempt /\ Arm(u).doing = u.doing
             /\ Arm(u).conn.listening = u.conn.listening /\ Arm(u).conn.hearing = u.conn.hearing
             /\ Arm(u).conn.handle = u.conn.handle /\ Arm(u).conn.state = u.conn.state
             /\ Arm(u).conn.kind = u.conn.kind /\ Arm(u).conn.session = u.conn.session
             /\ Arm(u).conn.transport = u.conn.transport /\ Arm(u).conn.user = u.conn.user
             /\ Arm(u).conn.timers > 0
  <2>1. u.conn \in ConnType /\ u.conn.timers + 1 \in Nat /\ u.conn.timers + 1 > 0 BY DEF Worlds, ConnType
  <2> DEFINE tries == IF u.conn.tries < RetryLimit THEN u.conn.tries + 1 ELSE u.conn.tries
  <2>2. tries \in Nat BY <2>1 DEF ConnType
  <2> HIDE DEF tries
  <2> DEFINE d == [u.conn EXCEPT !.timers = u.conn.timers + 1, !.timer = TRUE, !.tries = tries]
  <2>3. d \in ConnType /\ d.timers > 0 /\ d.listening = u.conn.listening /\ d.hearing = u.conn.hearing
        /\ d.handle = u.conn.handle /\ d.state = u.conn.state /\ d.kind = u.conn.kind
        /\ d.session = u.conn.session /\ d.transport = u.conn.transport /\ d.user = u.conn.user
    BY <2>1, <2>2 DEF ConnType
  <2>4. Arm(u) = [u EXCEPT !.conn = d] BY DEF Arm, tries, Worlds, ConnType
  <2> HIDE DEF d
  <2> QED BY <2>3, <2>4 DEF Worlds
<1> HIDE DEF off
<1>3. CASE op = "connect"
  <2> DEFINE kind == w.attempt[a].kind
             s == IF kind = Radio THEN a ELSE w.conn.session
             t == IF kind = Radio THEN a ELSE w.conn.transport
             e == [off.conn EXCEPT !.user = FALSE, !.state = "connecting", !.kind = kind]
             d == [e EXCEPT !.session = s, !.transport = t]
             begun == [off EXCEPT !.conn.user = FALSE, !.conn.state = "connecting", !.conn.kind = kind]
  <2>1. a \in Sessions /\ w.conn \in ConnType BY <1>3 DEF Worlds
  <2>2. kind \in {Radio, "demo"} /\ s \in Sessions \union {None} /\ t \in Sessions \union {None}
    BY <2>1 DEF Worlds, Attempts, ConnType
  <2>3. c = IF kind = Radio
            THEN [begun EXCEPT !.conn.session = a, !.conn.transport = a, !.doing[a] = "monitoring"]
            ELSE [begun EXCEPT !.doing[a] = "loading"]
    <3>1. c = Begin(off, a) BY <1>3 DEF Continue, off
    <3>2. off.attempt[a].kind = kind BY <1>1
    <3> QED BY <3>1, <3>2 DEF Begin
  <2> HIDE DEF c, kind
  <2>4. begun = [off EXCEPT !.conn = e] BY <1>1 DEF Worlds, ConnType
  <2>5. /\ e \in ConnType
        /\ e.listening = off.conn.listening /\ e.hearing = off.conn.hearing
        /\ e.handle = off.conn.handle /\ e.session = w.conn.session /\ e.transport = w.conn.transport
        /\ e.state = "connecting" /\ e.kind = kind /\ e.user = FALSE
        /\ e.timers = off.conn.timers /\ e.timer = off.conn.timer
    BY <1>1, <2>2 DEF Worlds, ConnType
  <2> HIDE DEF e, begun
  <2>6. /\ d \in ConnType
        /\ d.listening = off.conn.listening /\ d.hearing = off.conn.hearing
        /\ d.handle = off.conn.handle
        /\ d.state = "connecting" /\ d.kind = kind /\ d.session = s
        /\ d.transport = t /\ d.user = FALSE
        /\ d.timers = off.conn.timers /\ d.timer = off.conn.timer
    <3> HIDE DEF s, t
    <3> QED BY <2>2, <2>5 DEF ConnType
  <2>7. c = [off EXCEPT !.conn = d, !.doing[a] = Entered(kind)]
    <3>1. CASE kind = Radio
      <4>1. c = [begun EXCEPT !.conn.session = a, !.conn.transport = a, !.doing[a] = "monitoring"]
        BY <2>3, <3>1
      <4>2. Entered(kind) = "monitoring" /\ s = a /\ t = a BY <3>1 DEF Entered
      <4> HIDE DEF s, t
      <4> QED BY <1>1, <2>4, <2>5, <4>1, <4>2 DEF Worlds, ConnType
    <3>2. CASE kind # Radio
      <4>1. c = [begun EXCEPT !.doing[a] = "loading"] BY <2>3, <3>2
      <4>2. Entered(kind) = "loading" /\ s = e.session /\ t = e.transport BY <2>5, <3>2 DEF Entered
      <4> HIDE DEF s, t
      <4>3. d = e BY <2>5, <4>2 DEF ConnType
      <4> HIDE DEF d
      <4> QED BY <1>1, <2>4, <4>1, <4>2, <4>3 DEF Worlds
    <3> QED BY <3>1, <3>2
  <2> HIDE DEF d
  <2>8. Entered(kind) \in Doings BY DEF Entered, Doings, Fresh
  <2>9. /\ c \in Worlds
        /\ c.ses = off.ses /\ c.waits = off.waits /\ c.attempt = off.attempt /\ c.conn = d
        /\ c.doing[a] = Entered(kind) /\ \A b \in Sessions \ {a} : c.doing[b] = off.doing[b]
    BY <1>1, <2>1, <2>6, <2>7, <2>8 DEF Worlds
  <2> QED BY <1>1, <1>3, <2>6, <2>9 DEF c, s, t, kind, Continued, TimerOK
<1>4. CASE op = "user"
  <2>1. c = off BY <1>4 DEF Continue, off
  <2> QED BY <1>1, <1>4, <2>1 DEF Continued, TimerOK
<1>5. CASE op = "lost"
  <2>1. c = IF off.conn.user \/ ~granted THEN off ELSE Arm(off) BY <1>5 DEF Continue, off
  <2> HIDE DEF c
  <2>2. CASE off.conn.user \/ ~granted BY <1>1, <1>5, <2>1, <2>2 DEF c, Continued, TimerOK
  <2>3. CASE ~(off.conn.user \/ ~granted) BY <1>1, <1>2, <1>5, <2>1, <2>3 DEF c, Continued, TimerOK
  <2> QED BY <2>2, <2>3
<1>6. CASE op = "failed"
  <2> DEFINE ended == [off EXCEPT !.doing[a] = "failed"]
  <2>1. c = IF ~w.attempt[a].retry \/ off.conn.user \/ off.conn.tries >= RetryLimit THEN ended
            ELSE Arm(ended)
    BY <1>6 DEF Continue, off
  <2>2. "failed" \in Doings BY DEF Doings
  <2>3. /\ ended \in Worlds
        /\ ended.ses = off.ses /\ ended.waits = off.waits /\ ended.attempt = off.attempt
        /\ ended.conn = off.conn /\ ended.doing[a] = "failed"
        /\ \A b \in Sessions \ {a} : ended.doing[b] = off.doing[b]
    BY <1>1, <1>6, <2>2 DEF Worlds
  <2> HIDE DEF ended, c
  <2>4. c = ended \/ c = Arm(ended) BY <2>1
  <2> QED BY <1>1, <1>2, <1>6, <2>3, <2>4 DEF c, Continued, TimerOK
<1> QED BY <1>3, <1>4, <1>5, <1>6 DEF Ops

\* What a step of the connection does to the attempts: those that are begun stay so.
Goes(w, c) == \A b \in Sessions : w.doing[b] \notin Fresh => c.doing[b] \notin Fresh

LEMMA ContinueOK ==
  ASSUME NEW w \in Worlds, WorldOK(w), NEW op, NEW a, CallPre(w, op, a), NEW granted \in BOOLEAN
  PROVE  LET c == Continue(w, op, a, granted) IN WorldOK(c) /\ Goes(w, c)
<1> DEFINE c == Continue(w, op, a, granted)
<1>1. op \in Ops /\ a \in Sessions \union {None} /\ (op \in {"connect", "failed"} => a \in Sessions)
  BY DEF CallPre
<1>2. /\ c \in Worlds
      /\ c.ses = w.ses /\ c.waits = w.waits /\ c.attempt = w.attempt
      /\ c.conn.listening = w.conn.listening
      /\ op = "connect" =>
           /\ c.doing[a] = Entered(w.attempt[a].kind)
           /\ \A b \in Sessions \ {a} : c.doing[b] = w.doing[b]
           /\ c.conn.session = IF w.attempt[a].kind = Radio THEN a ELSE w.conn.session
           /\ c.conn.transport = IF w.attempt[a].kind = Radio THEN a ELSE w.conn.transport
      /\ op # "connect" =>
           c.conn.session = w.conn.session /\ c.conn.transport = w.conn.transport
      /\ op \in {"user", "lost"} => c.doing = w.doing
      /\ op = "failed" => c.doing[a] = "failed" /\ \A b \in Sessions \ {a} : c.doing[b] = w.doing[b]
  <2> HIDE DEF c
  <2>1. Continued(w, op, a, granted, c) BY <1>1, ContinueIs DEF c
  <2> QED BY <2>1 DEF Continued
<1>3. w.doing \in [Sessions -> Doings] /\ w.waits \subseteq Waiting /\ w.conn \in ConnType
  BY DEF Worlds
<1> HIDE DEF c
<1>4. /\ {"none", "closing", "loading", "monitoring"} = Fresh
      /\ "failed" \notin Fresh /\ "starting" \notin Fresh
      /\ \A kind : Entered(kind) = IF kind = Radio THEN "monitoring" ELSE "loading"
  BY DEF Fresh, Entered
<1>5. CASE op = "connect"
  <2>1. a \in Sessions /\ w.doing[a] = "closing" /\ \A v \in w.waits : v.op = "connect" => v.of # a
    BY <1>5 DEF CallPre
  <2>2. w.ses[a] = NewSession /\ \A v \in w.waits : v.on # a BY <1>4, <2>1 DEF WorldOK, FreshOK
  <2>3. c.doing[a] \in {"monitoring", "loading"} /\ \A b \in Sessions \ {a} : c.doing[b] = w.doing[b]
    BY <1>2, <1>3, <1>4, <1>5, <2>1
  <2>4. FreshOK(c)
    <3>1. w.ses[a].at = "idle" /\ "idle" \notin Starting BY <2>2 DEF NewSession, Starting, Handshake
    <3> QED BY <1>2, <1>4, <2>1, <2>2, <2>3, <3>1 DEF WorldOK, FreshOK
  <2>5. OrderOK(c)
    <3>1. \A b \in Sessions : (c.doing[b] = "none") <=> (w.doing[b] = "none") BY <2>1, <2>3
    <3> QED BY <3>1 DEF WorldOK, OrderOK
  <2>6. WaitsOK(c)
    <3> SUFFICES ASSUME NEW v \in w.waits
                 PROVE  /\ ~c.ses[v.on].listens
                        /\ v.op \in {"connect", "failed"} => v.of \in Sessions
                        /\ v.op = "connect" => c.doing[v.of] = "closing"
                        /\ v.op = "failed" => c.doing[v.of] \notin Fresh /\ c.ses[v.of].at \in Unstarted
                        /\ \A u \in w.waits : u.op = "connect" /\ v.op = "connect" /\ u.of = v.of => u = v
      BY <1>2 DEF WaitsOK
    <3>1. v.op = "failed" => v.of # a BY <1>4, <2>1 DEF WorldOK, WaitsOK
    <3> QED BY <1>2, <2>1, <2>3, <3>1 DEF WorldOK, WaitsOK
  <2>7. ConnOK(c)
    <3>1. w.ses[a].asked = <<>> /\ w.ses[a].at # "opening" /\ ~w.ses[a].running BY <2>2 DEF NewSession
    <3>2. CASE w.attempt[a].kind = Radio
      <4>1. c.conn.session = a /\ c.conn.transport = a /\ c.doing[a] = "monitoring"
        BY <1>2, <1>4, <1>5, <3>2
      <4> QED BY <1>2, <1>4, <3>1, <4>1 DEF ConnOK
    <3>3. CASE w.attempt[a].kind # Radio
      <4>1. c.conn.session = w.conn.session /\ c.conn.transport = w.conn.transport
            /\ c.conn.listening = w.conn.listening
        BY <1>2, <1>5, <3>3
      <4>2. w.conn.session # a /\ w.conn.transport # a BY <2>1, NoneIsNone DEF WorldOK, ConnOK
      <4>3. /\ w.conn.session \in Sessions \union {None}
            /\ w.conn.transport \in Sessions \union {None}
        BY <1>3 DEF ConnType
      <4> QED BY <1>2, <2>3, <4>1, <4>2, <4>3 DEF WorldOK, ConnOK
    <3> QED BY <3>2, <3>3
  <2>8. Goes(w, c) BY <1>4, <2>1, <2>3 DEF Goes
  <2> QED BY <1>2, <2>4, <2>5, <2>6, <2>7, <2>8 DEF WorldOK, c
<1>6. CASE op \in {"user", "lost"}
  <2>1. /\ c.doing = w.doing /\ c.ses = w.ses /\ c.waits = w.waits
        /\ c.conn.session = w.conn.session /\ c.conn.transport = w.conn.transport
        /\ c.conn.listening = w.conn.listening
    BY <1>2, <1>6
  <2>2. FreshOK(c) BY <2>1 DEF WorldOK, FreshOK
  <2>3. OrderOK(c) BY <2>1 DEF WorldOK, OrderOK
  <2>4. WaitsOK(c) BY <2>1 DEF WorldOK, WaitsOK
  <2>5. ConnOK(c) BY <2>1 DEF WorldOK, ConnOK
  <2> QED BY <2>1, <2>2, <2>3, <2>4, <2>5 DEF WorldOK, Goes, c
<1>7. CASE op = "failed"
  <2>1. /\ a \in Sessions /\ w.ses[a].at \in Unstarted
        /\ w.doing[a] \notin Fresh \/ w.doing[a] = "loading"
    BY <1>7 DEF CallPre
  <2>2. c.doing[a] = "failed" /\ \A b \in Sessions \ {a} : c.doing[b] = w.doing[b]
    BY <1>2, <1>3, <1>7, <2>1
  <2>3. FreshOK(c)
    <3>1. \A x \in Unstarted : x \notin Starting BY DEF Unstarted, Starting, Handshake
    <3> QED BY <1>2, <1>4, <2>1, <2>2, <3>1 DEF WorldOK, FreshOK
  <2>4. OrderOK(c)
    <3>1. \A b \in Sessions : (c.doing[b] = "none") <=> (w.doing[b] = "none") BY <1>4, <2>1, <2>2
    <3> QED BY <3>1 DEF WorldOK, OrderOK
  <2>5. WaitsOK(c)
    <3> SUFFICES ASSUME NEW v \in w.waits
                 PROVE  /\ ~c.ses[v.on].listens
                        /\ v.op \in {"connect", "failed"} => v.of \in Sessions
                        /\ v.op = "connect" => c.doing[v.of] = "closing"
                        /\ v.op = "failed" => c.doing[v.of] \notin Fresh /\ c.ses[v.of].at \in Unstarted
                        /\ \A u \in w.waits : u.op = "connect" /\ v.op = "connect" /\ u.of = v.of => u = v
      BY <1>2 DEF WaitsOK
    <3>1. v.op = "connect" => v.of # a BY <1>4, <2>1 DEF WorldOK, WaitsOK
    <3> QED BY <1>2, <1>4, <2>1, <2>2, <3>1 DEF WorldOK, WaitsOK
  <2>6. ConnOK(c)
    <3>1. /\ c.conn.session = w.conn.session /\ c.conn.transport = w.conn.transport
          /\ c.conn.listening = w.conn.listening
      BY <1>2, <1>7
    <3>2. /\ w.conn.session # None => w.conn.session \in Sessions
          /\ w.conn.transport # None => w.conn.transport \in Sessions
      BY <1>3 DEF ConnType
    <3>3. ASSUME NEW b \in Sessions, w.doing[b] \notin {"none", "closing", "loading"}
          PROVE  /\ c.doing[b] \notin {"none", "closing", "loading"}
                 /\ c.doing[b] \notin Fresh => w.doing[b] \notin Fresh
      BY <1>4, <2>1, <2>2, <3>3
    <3> QED BY <1>2, <3>1, <3>2, <3>3 DEF WorldOK, ConnOK
  <2>7. Goes(w, c) BY <1>4, <2>1, <2>2 DEF Goes
  <2> QED BY <1>2, <2>3, <2>4, <2>5, <2>6, <2>7 DEF WorldOK, c
<1> QED BY <1>1, <1>5, <1>6, <1>7 DEF Ops

\* The connection has let go of its session, which is stopped.
Torn(w, u) ==
  LET s == w.conn.session IN
  /\ u \in Worlds
  /\ u.waits = w.waits /\ u.doing = w.doing /\ u.attempt = w.attempt
  /\ u.conn.session = None /\ u.conn.transport = None /\ u.conn.listening = None
  /\ u.conn.handle = None /\ u.conn.hearing = w.conn.hearing \ {w.conn.handle}
  /\ u.conn.state = w.conn.state /\ u.conn.kind = w.conn.kind /\ u.conn.user = w.conn.user
  /\ u.conn.timers = w.conn.timers /\ u.conn.timer = w.conn.timer
  /\ \A b \in Sessions : u.ses[b] = IF b = s THEN Stop(w.ses[b]) ELSE w.ses[b]

\* A call waits for the session s to stop.
Waits(u, t, s, op, a, granted) ==
  /\ t \in Worlds
  /\ t.ses = u.ses /\ t.conn = u.conn /\ t.attempt = u.attempt
  /\ t.waits = u.waits \union {[on |-> s, op |-> op, of |-> a, granted |-> granted]}
  /\ op # "failed" => t.doing = u.doing
  /\ op = "failed" => t.doing[a] = "failing" /\ \A b \in Sessions \ {a} : t.doing[b] = u.doing[b]

TornDown(w, op, a, granted, t) ==
  \E u \in Worlds :
    /\ Torn(w, u)
    /\ LET s == w.conn.session IN
       \/ s # None /\ TakesTime(w.ses[s]) /\ Waits(u, t, s, op, a, granted)
       \/ ~(s # None /\ TakesTime(w.ses[s])) /\ t = Continue(u, op, a, granted)

LEMMA TeardownIs ==
  ASSUME NEW w \in Worlds, WorldOK(w), NEW op \in Ops, NEW a \in Sessions \union {None},
         NEW granted \in BOOLEAN,
         op \in {"connect", "failed"} => a \in Sessions
  PROVE  TornDown(w, op, a, granted, Teardown(w, op, a, granted))
<1> DEFINE s == w.conn.session
           torn == [w EXCEPT !.conn.hearing = @ \ {w.conn.handle}, !.conn.handle = None,
                             !.conn.listening = None, !.conn.transport = None, !.conn.session = None]
           d == [w.conn EXCEPT !.hearing = @ \ {w.conn.handle}, !.handle = None,
                               !.listening = None, !.transport = None, !.session = None]
           t == Teardown(w, op, a, granted)
<1>1. /\ w.conn \in ConnType /\ w.ses \in [Sessions -> SessionType] /\ w.waits \subseteq Waiting
      /\ w.doing \in [Sessions -> Doings]
  BY DEF Worlds
<1>2. /\ d \in ConnType /\ d.hearing = w.conn.hearing \ {w.conn.handle} /\ d.handle = None
      /\ d.listening = None /\ d.transport = None /\ d.session = None /\ d.state = w.conn.state
      /\ d.kind = w.conn.kind /\ d.user = w.conn.user /\ d.timers = w.conn.timers
      /\ d.timer = w.conn.timer
  BY <1>1 DEF ConnType
<1>3. torn = [w EXCEPT !.conn = d] BY <1>1 DEF Worlds, ConnType
<1> HIDE DEF torn, d
<1>4. /\ torn \in Worlds /\ torn.ses = w.ses /\ torn.waits = w.waits /\ torn.doing = w.doing
      /\ torn.attempt = w.attempt /\ torn.conn = d
  BY <1>2, <1>3 DEF Worlds
<1>5. CASE s = None
  <2>1. t = Continue(torn, op, a, granted) BY <1>5 DEF Teardown, torn
  <2>2. Torn(w, torn)
    <3>1. \A b \in Sessions : b # s BY <1>5, NoneIsNone
    <3> QED BY <1>2, <1>4, <3>1 DEF Torn
  <2> QED BY <1>4, <1>5, <2>1, <2>2 DEF TornDown
<1>6. CASE s # None
  <2> DEFINE u == [torn EXCEPT !.ses[s] = Stop(@)]
  <2>0. s \in Sessions BY <1>1, <1>6 DEF ConnType
  <2>1. Stop(w.ses[s]) \in SessionType BY <1>1, <2>0, SessionTypes
  <2>2. /\ u \in Worlds /\ u.waits = torn.waits /\ u.doing = torn.doing
        /\ u.attempt = torn.attempt /\ u.conn = torn.conn
        /\ \A b \in Sessions : u.ses[b] = IF b = s THEN Stop(w.ses[b]) ELSE w.ses[b]
    BY <1>1, <1>4, <2>0, <2>1 DEF Worlds
  <2>3. Torn(w, u)
    <3> HIDE DEF u
    <3> QED BY <1>2, <1>4, <2>2 DEF Torn
  <2> DEFINE v == [on |-> s, op |-> op, of |-> a, granted |-> granted]
             x == [u EXCEPT !.waits = @ \union {v},
                            !.doing = IF op = "failed" THEN [@ EXCEPT ![a] = "failing"] ELSE @]
  <2>4. t = IF TakesTime(w.ses[s]) THEN x ELSE Continue(u, op, a, granted)
    BY <1>6 DEF Teardown, torn
  <2> HIDE DEF u
  <2>5. v \in Waiting BY <2>0 DEF Waiting, Ops
  <2> HIDE DEF v
  <2>6. Waits(u, x, s, op, a, granted)
    <3>1. "failing" \in Doings BY DEF Doings
    <3>2. CASE op = "failed"
      <4>1. x = [u EXCEPT !.waits = @ \union {v}, !.doing = [@ EXCEPT ![a] = "failing"]] BY <3>2
      <4>2. a \in Sessions BY <3>2
      <4> HIDE DEF x
      <4>3. /\ x \in Worlds /\ x.ses = u.ses /\ x.conn = u.conn /\ x.attempt = u.attempt
            /\ x.waits = u.waits \union {v}
            /\ x.doing[a] = "failing" /\ \A b \in Sessions \ {a} : x.doing[b] = u.doing[b]
        BY <2>2, <2>5, <3>1, <4>1, <4>2 DEF Worlds
      <4> QED BY <3>2, <4>3 DEF Waits, v
    <3>3. CASE op # "failed"
      <4>1. x = [u EXCEPT !.waits = @ \union {v}] BY <2>2, <3>3 DEF Worlds
      <4> HIDE DEF x
      <4>2. /\ x \in Worlds /\ x.ses = u.ses /\ x.conn = u.conn /\ x.attempt = u.attempt
            /\ x.waits = u.waits \union {v} /\ x.doing = u.doing
        BY <2>2, <2>5, <4>1 DEF Worlds
      <4> QED BY <3>3, <4>2 DEF Waits, v
    <3> QED BY <3>2, <3>3
  <2> HIDE DEF x, t
  <2> QED BY <1>6, <2>2, <2>3, <2>4, <2>6 DEF TornDown, t
<1> QED BY <1>5, <1>6

\* How a session may have fared in a call: it is as it was, or has ended.
Fared(w, c) == \A b \in Sessions : c.ses[b] = w.ses[b] \/ Ends(w.ses[b], c.ses[b])

LEMMA StopNew == Stop(NewSession) = NewSession
<1> DEFINE n == NewSession
<1>1. n \in SessionType BY EmptySeq DEF NewSession, SessionType, Phases
<1>2. /\ n.wanted = FALSE /\ n.running = FALSE /\ n.on = FALSE /\ n.backlog = FALSE
      /\ n.listens = FALSE /\ n.jobs = <<>> /\ n.asked = <<>>
  BY DEF NewSession
<1> HIDE DEF n
<1>3. [n EXCEPT !.wanted = FALSE] = n BY <1>1, <1>2 DEF SessionType
<1>4. Drop(n) = n BY <1>1, <1>2 DEF SessionType, Drop
<1>5. [n EXCEPT !.on = FALSE, !.backlog = FALSE] = n BY <1>1, <1>2 DEF SessionType
<1>6. [n EXCEPT !.listens = FALSE] = n BY <1>1, <1>2 DEF SessionType
<1>7. Aborted(n) = n BY <1>2, <1>4, <1>5 DEF Aborted
<1>8. Stop(n) = n BY <1>3, <1>6, <1>7 DEF Stop
<1> QED BY <1>8 DEF n

LEMMA TornOK ==
  ASSUME NEW w \in Worlds, WorldOK(w), NEW u, Torn(w, u)
  PROVE  /\ WorldOK(u) /\ Fared(w, u) /\ Goes(w, u)
         /\ w.conn.session # None => ~u.ses[w.conn.session].listens /\ ~u.ses[w.conn.session].running
         /\ \A b \in Sessions : w.ses[b].at \in Unstarted => u.ses[b].at = w.ses[b].at
<1> DEFINE s == w.conn.session
<1>1. /\ w.ses \in [Sessions -> SessionType] /\ s \in Sessions \union {None} /\ w.waits \subseteq Waiting
  BY DEF Worlds, ConnType
<1>2. ASSUME NEW b \in Sessions
      PROVE  /\ w.ses[b] \in SessionType /\ SessionOK(w.ses[b])
             /\ Ends(w.ses[b], Stop(w.ses[b])) /\ ~Stop(w.ses[b]).running /\ ~Stop(w.ses[b]).listens
  BY <1>1, StopOK DEF WorldOK
<1>3. \A b \in Sessions : u.ses[b] = w.ses[b] \/ (b = s /\ u.ses[b] = Stop(w.ses[b])) BY DEF Torn
<1>4. \A b \in Sessions : /\ u.ses[b].listens => w.ses[b].listens
                          /\ u.ses[b].at \in Starting => w.ses[b].at \in Starting
                          /\ w.ses[b].at \in Unstarted => u.ses[b].at = w.ses[b].at
                          /\ w.ses[b] = NewSession => u.ses[b] = NewSession
  <2>1. {"undoing", "selfInfo", "deviceInfo"} \subseteq Starting /\ "started" \notin Starting
        /\ Unstarted = {"idle", "failed"}
    BY DEF Starting, Handshake, Unstarted
  <2> SUFFICES ASSUME NEW b \in Sessions
               PROVE  /\ u.ses[b].listens => w.ses[b].listens
                      /\ u.ses[b].at \in Starting => w.ses[b].at \in Starting
                      /\ w.ses[b].at \in Unstarted => u.ses[b].at = w.ses[b].at
                      /\ w.ses[b] = NewSession => u.ses[b] = NewSession
    OBVIOUS
  <2>2. CASE u.ses[b] = w.ses[b] BY <2>2
  <2>3. CASE u.ses[b] = Stop(w.ses[b]) BY <1>2, <2>1, <2>3, StopNew DEF Ends
  <2> QED BY <1>3, <2>2, <2>3
<1>5. u.doing = w.doing /\ u.waits = w.waits /\ u.conn.session = None /\ u.conn.transport = None BY DEF Torn
<1>6. \A b \in Sessions : SessionOK(u.ses[b]) BY <1>2, <1>3 DEF Ends
<1>7. FreshOK(u)
  <2> SUFFICES ASSUME NEW b \in Sessions
               PROVE  /\ u.doing[b] \in Fresh => u.ses[b] = NewSession /\ \A v \in u.waits : v.on # b
                      /\ u.ses[b].at \in Starting => u.doing[b] = "starting"
    BY DEF FreshOK
  <2>1. /\ w.doing[b] \in Fresh => w.ses[b] = NewSession /\ \A v \in w.waits : v.on # b
        /\ w.ses[b].at \in Starting => w.doing[b] = "starting"
    BY DEF WorldOK, FreshOK
  <2>2. w.ses[b] = NewSession => u.ses[b] = NewSession BY <1>4
  <2>3. u.ses[b].at \in Starting => w.ses[b].at \in Starting BY <1>4
  <2> HIDE DEF s
  <2> QED BY <1>5, <2>1, <2>2, <2>3
<1>8. OrderOK(u) BY <1>5 DEF WorldOK, OrderOK
<1>9. WaitsOK(u)
  <2>1. \A v \in w.waits : v.on \in Sessions BY <1>1 DEF Waiting
  <2> QED BY <1>4, <1>5, <2>1 DEF WorldOK, WaitsOK
<1>10. ConnOK(u) BY <1>5 DEF ConnOK
<1>11. Fared(w, u) BY <1>2, <1>3 DEF Fared
<1>12. s # None => ~u.ses[s].listens /\ ~u.ses[s].running BY <1>1, <1>2 DEF Torn
<1> QED BY <1>4, <1>5, <1>6, <1>7, <1>8, <1>9, <1>10, <1>11, <1>12 DEF WorldOK, Goes

LEMMA TeardownOK ==
  ASSUME NEW w \in Worlds, WorldOK(w), NEW op, NEW a, CallPre(w, op, a), NEW granted \in BOOLEAN
  PROVE  LET t == Teardown(w, op, a, granted) IN
         t \in Worlds /\ WorldOK(t) /\ Fared(w, t) /\ Goes(w, t)
<1> DEFINE s == w.conn.session
           t == Teardown(w, op, a, granted)
<1>1. op \in Ops /\ a \in Sessions \union {None} /\ (op \in {"connect", "failed"} => a \in Sessions)
  BY DEF CallPre
<1>2. TornDown(w, op, a, granted, t) BY <1>1, TeardownIs
<1> HIDE DEF t
<1>3. PICK u \in Worlds :
        /\ Torn(w, u)
        /\ \/ s # None /\ TakesTime(w.ses[s]) /\ Waits(u, t, s, op, a, granted)
           \/ t = Continue(u, op, a, granted)
  BY <1>2 DEF TornDown
<1>4. /\ WorldOK(u) /\ Fared(w, u) /\ Goes(w, u)
      /\ s # None => ~u.ses[s].listens /\ ~u.ses[s].running
      /\ \A b \in Sessions : w.ses[b].at \in Unstarted => u.ses[b].at = w.ses[b].at
  BY <1>3, TornOK
<1>5. CallPre(u, op, a) BY <1>1, <1>3, <1>4 DEF CallPre, Torn
<1>6. CASE t = Continue(u, op, a, granted)
  <2>1. t \in Worlds /\ t.ses = u.ses
    <3>1. Continued(u, op, a, granted, t) BY <1>1, <1>6, ContinueIs
    <3> QED BY <3>1 DEF Continued
  <2>2. WorldOK(t) /\ Goes(u, t) BY <1>3, <1>4, <1>5, <1>6, ContinueOK
  <2> QED BY <1>4, <2>1, <2>2 DEF Fared, Goes, t
<1>7. CASE s # None /\ TakesTime(w.ses[s]) /\ Waits(u, t, s, op, a, granted)
  <2> DEFINE v == [on |-> s, op |-> op, of |-> a, granted |-> granted]
  <2>1. /\ t \in Worlds
        /\ t.ses = u.ses /\ t.conn = u.conn /\ t.attempt = u.attempt
        /\ t.waits = u.waits \union {v}
        /\ op # "failed" => t.doing = u.doing
        /\ op = "failed" => t.doing[a] = "failing" /\ \A b \in Sessions \ {a} : t.doing[b] = u.doing[b]
    BY <1>7 DEF Waits
  <2>2. v.on = s /\ v.op = op /\ v.of = a OBVIOUS
  <2> HIDE DEF v
  <2>3. s \in Sessions BY <1>7 DEF Worlds, ConnType
  <2>4. w.doing[s] \notin Fresh
    <3>1. ~TakesTime(NewSession) BY DEF TakesTime, NewSession
    <3> QED BY <1>7, <2>3, <3>1 DEF WorldOK, FreshOK
  <2>5. u.doing = w.doing /\ u.waits = w.waits /\ u.conn.session = None /\ u.conn.transport = None
    BY <1>3 DEF Torn
  <2>6. op = "failed" => /\ a \in Sessions /\ u.ses[a].at \in Unstarted
                         /\ u.doing[a] \notin Fresh \/ u.doing[a] = "loading"
    BY <1>5 DEF CallPre
  <2>7. \A b \in Sessions : \/ t.doing[b] = u.doing[b]
                            \/ op = "failed" /\ b = a /\ t.doing[b] = "failing"
    BY <2>1
  <2>8. /\ "failing" \notin Fresh /\ Fresh = {"none", "closing", "loading", "monitoring"}
        /\ \A x \in Unstarted : x \notin Starting
    BY DEF Fresh, Unstarted, Starting, Handshake
  <2>9. \A b \in Sessions : t.doing[b] \in Fresh => u.doing[b] \in Fresh BY <2>7, <2>8
  <2>10. FreshOK(t)
    <3> SUFFICES ASSUME NEW b \in Sessions
                 PROVE  /\ t.doing[b] \in Fresh => t.ses[b] = NewSession /\ \A y \in t.waits : y.on # b
                        /\ t.ses[b].at \in Starting => t.doing[b] = "starting"
      BY DEF FreshOK
    <3>1. t.doing[b] \in Fresh => b # s BY <2>4, <2>5, <2>9
    <3>2. t.ses[b].at \in Starting => t.doing[b] = u.doing[b] BY <2>1, <2>6, <2>7, <2>8
    <3> QED BY <1>4, <2>1, <2>2, <2>9, <3>1, <3>2 DEF WorldOK, FreshOK
  <2>11. OrderOK(t)
    <3>1. \A b \in Sessions : t.doing[b] = "none" <=> u.doing[b] = "none"
      BY <2>6, <2>7, <2>8
    <3> QED BY <1>4, <3>1 DEF WorldOK, OrderOK
  <2>12. WaitsOK(t)
    <3> SUFFICES ASSUME NEW y \in t.waits
                 PROVE  /\ ~t.ses[y.on].listens
                        /\ y.op \in {"connect", "failed"} => y.of \in Sessions
                        /\ y.op = "connect" => t.doing[y.of] = "closing"
                        /\ y.op = "failed" => t.doing[y.of] \notin Fresh /\ t.ses[y.of].at \in Unstarted
                        /\ \A z \in t.waits : z.op = "connect" /\ y.op = "connect" /\ z.of = y.of => z = y
      BY DEF WaitsOK
    <3>1. "closing" \in Fresh BY DEF Fresh
    <3>2. op = "connect" => t.doing[a] = "closing" /\ \A z \in u.waits : z.op = "connect" => z.of # a
      BY <1>5, <2>1 DEF CallPre
    <3>3. CASE y = v
      BY <1>1, <1>4, <1>7, <2>1, <2>2, <2>6, <2>8, <3>2, <3>3
    <3>4. CASE y \in u.waits
      <4>1. /\ ~u.ses[y.on].listens
            /\ y.op \in {"connect", "failed"} => y.of \in Sessions
            /\ y.op = "connect" => u.doing[y.of] = "closing"
            /\ y.op = "failed" => u.doing[y.of] \notin Fresh /\ u.ses[y.of].at \in Unstarted
            /\ \A z \in u.waits : z.op = "connect" /\ y.op = "connect" /\ z.of = y.of => z = y
        BY <1>4, <3>4 DEF WorldOK, WaitsOK
      <4>2. y.op = "connect" => t.doing[y.of] = "closing" BY <2>6, <2>7, <3>1, <4>1
      <4> QED BY <2>1, <2>2, <2>9, <3>2, <3>4, <4>1, <4>2
    <3> QED BY <2>1, <3>3, <3>4
  <2>13. ConnOK(t) BY <2>1, <2>5 DEF ConnOK
  <2>14. Goes(w, t) BY <2>5, <2>9 DEF Goes
  <2> QED BY <1>4, <2>1, <2>10, <2>11, <2>12, <2>13, <2>14 DEF WorldOK, Fared, t
<1> QED BY <1>3, <1>6, <1>7
-----------------------------------------------------------------------------
(* What the calls of the connection keep. *)

\* How a session may have fared in a call: it is as it was, or no longer heard; a
\* start() that is over stays so, and what is known of its past stays.
Fares(x, y) ==
  /\ y = x \/ ~Live(y)
  /\ x.at \in {"idle", "started", "failed"} => y.at = x.at
  /\ y.slow = x.slow /\ y.hurried = x.hurried /\ y.refused = x.refused

\* The connection takes no session of an attempt that was begun before.
Names(w, c) == c.conn.session \in {None, w.conn.session} \/ w.doing[c.conn.session] \in Fresh

Kept(w, c) ==
  /\ c \in Worlds /\ WorldOK(c)
  /\ \A b \in Sessions : Fares(w.ses[b], c.ses[b])
  /\ Goes(w, c) /\ Names(w, c)
  /\ TimerOK(w) => TimerOK(c)

LEMMA EndsFares ==
  ASSUME NEW x, NEW y, Ends(x, y) PROVE Fares(x, y)
BY DEF Ends, Fares

LEMMA KeptItself ==
  ASSUME NEW w \in Worlds, WorldOK(w) PROVE Kept(w, w)
BY DEF Kept, Fares, Goes, Names

LEMMA KeptOn ==
  ASSUME NEW w \in Worlds, NEW c, NEW d, Kept(w, c), Kept(c, d) PROVE Kept(w, d)
<1>1. d \in Worlds /\ WorldOK(d) BY DEF Kept
<1>2. ASSUME NEW b \in Sessions PROVE Fares(w.ses[b], d.ses[b])
  <2>1. Fares(w.ses[b], c.ses[b]) /\ Fares(c.ses[b], d.ses[b]) BY DEF Kept
  <2> QED BY <2>1 DEF Fares
<1>3. Goes(w, d) BY DEF Kept, Goes
<1>4. Names(w, d)
  <2>1. d.conn.session \in Sessions \union {None} BY <1>1 DEF Worlds, ConnType
  <2> QED BY <2>1 DEF Kept, Goes, Names
<1> QED BY <1>1, <1>2, <1>3, <1>4 DEF Kept

\* A call that goes on, or tears the session down first, keeps all this.
LEMMA ContinueKeeps ==
  ASSUME NEW w \in Worlds, WorldOK(w), NEW op, NEW a, CallPre(w, op, a), NEW granted \in BOOLEAN
  PROVE  Kept(w, Continue(w, op, a, granted))
<1> DEFINE c == Continue(w, op, a, granted)
<1>1. op \in Ops /\ a \in Sessions \union {None} /\ (op \in {"connect", "failed"} => a \in Sessions)
  BY DEF CallPre
<1>2. Continued(w, op, a, granted, c) BY <1>1, ContinueIs
<1>3. WorldOK(c) /\ Goes(w, c) BY ContinueOK
<1> HIDE DEF c
<1>4. c \in Worlds /\ c.ses = w.ses BY <1>2 DEF Continued
<1>5. Names(w, c)
  <2>1. op = "connect" => c.conn.session \in {w.conn.session, a} BY <1>2 DEF Continued
  <2>2. op # "connect" => c.conn.session = w.conn.session BY <1>2 DEF Continued
  <2>3. op = "connect" => w.doing[a] \in Fresh BY DEF CallPre, Fresh
  <2> QED BY <2>1, <2>2, <2>3 DEF Names
<1>6. \A b \in Sessions : Fares(w.ses[b], c.ses[b]) BY <1>4 DEF Fares
<1>7. TimerOK(w) => TimerOK(c) BY <1>2 DEF Continued
<1> QED BY <1>3, <1>4, <1>5, <1>6, <1>7 DEF Kept, c

LEMMA TeardownKeeps ==
  ASSUME NEW w \in Worlds, WorldOK(w), NEW op, NEW a, CallPre(w, op, a), NEW granted \in BOOLEAN
  PROVE  Kept(w, Teardown(w, op, a, granted))
<1> DEFINE t == Teardown(w, op, a, granted)
           s == w.conn.session
<1>1. op \in Ops /\ a \in Sessions \union {None} /\ (op \in {"connect", "failed"} => a \in Sessions)
  BY DEF CallPre
<1>2. t \in Worlds /\ WorldOK(t) /\ Fared(w, t) /\ Goes(w, t) BY TeardownOK
<1>3. TornDown(w, op, a, granted, t) BY <1>1, TeardownIs
<1> HIDE DEF t
<1>4. PICK u \in Worlds :
        /\ Torn(w, u)
        /\ \/ s # None /\ TakesTime(w.ses[s]) /\ Waits(u, t, s, op, a, granted)
           \/ t = Continue(u, op, a, granted)
  BY <1>3 DEF TornDown
<1>5. u.conn.session = None /\ u.doing = w.doing BY <1>4 DEF Torn
<1>6. Names(w, t)
  <2>1. CASE t = Continue(u, op, a, granted)
    <3>1. Continued(u, op, a, granted, t) BY <1>1, <2>1, ContinueIs
    <3>2. op = "connect" => t.conn.session \in {None, a} BY <1>5, <3>1 DEF Continued
    <3>3. op # "connect" => t.conn.session = None BY <1>5, <3>1 DEF Continued
    <3>4. op = "connect" => w.doing[a] \in Fresh BY DEF CallPre, Fresh
    <3> QED BY <3>2, <3>3, <3>4 DEF Names
  <2>2. CASE Waits(u, t, s, op, a, granted) BY <1>5, <2>2 DEF Names, Waits
  <2> QED BY <1>4, <2>1, <2>2
<1>7. \A b \in Sessions : Fares(w.ses[b], t.ses[b])
  <2> SUFFICES ASSUME NEW b \in Sessions PROVE Fares(w.ses[b], t.ses[b]) OBVIOUS
  <2>1. CASE t.ses[b] = w.ses[b] BY <2>1 DEF Fares
  <2>2. CASE Ends(w.ses[b], t.ses[b]) BY <2>2, EndsFares
  <2> QED BY <1>2, <2>1, <2>2 DEF Fared
<1>8. TimerOK(w) => TimerOK(t)
  <2>1. TimerOK(w) => TimerOK(u) BY <1>4 DEF Torn, TimerOK
  <2>2. CASE t = Continue(u, op, a, granted)
    <3>1. Continued(u, op, a, granted, t) BY <1>1, <2>2, ContinueIs
    <3> QED BY <2>1, <3>1 DEF Continued
  <2>3. CASE Waits(u, t, s, op, a, granted) BY <2>1, <2>3 DEF Waits, TimerOK
  <2> QED BY <1>4, <2>2, <2>3
<1> QED BY <1>2, <1>6, <1>7, <1>8 DEF Kept, t

\* A link that is lost, or ended by the user, leaves the attempts where they are,
\* and makes only calls of its own wait.
LEMMA TeardownLeaves ==
  ASSUME NEW w \in Worlds, WorldOK(w), NEW op \in {"user", "lost"}, NEW granted \in BOOLEAN
  PROVE  LET t == Teardown(w, op, None, granted) IN
         /\ t.doing = w.doing
         /\ \A v \in t.waits : v \in w.waits \/ v.op = op
<1> DEFINE t == Teardown(w, op, None, granted)
           s == w.conn.session
<1>1. op \in Ops /\ op \notin {"connect", "failed"} BY DEF Ops
<1>2. TornDown(w, op, None, granted, t) BY <1>1, TeardownIs
<1> HIDE DEF t
<1>3. PICK u \in Worlds :
        /\ Torn(w, u)
        /\ \/ s # None /\ TakesTime(w.ses[s]) /\ Waits(u, t, s, op, None, granted)
           \/ t = Continue(u, op, None, granted)
  BY <1>2 DEF TornDown
<1>4. u.doing = w.doing /\ u.waits = w.waits BY <1>3 DEF Torn
<1>5. CASE t = Continue(u, op, None, granted)
  <2>1. Continued(u, op, None, granted, t) BY <1>1, <1>5, ContinueIs
  <2> QED BY <1>4, <2>1 DEF Continued, t
<1>6. CASE Waits(u, t, s, op, None, granted) BY <1>1, <1>4, <1>6 DEF Waits, t
<1> QED BY <1>3, <1>5, <1>6

LEMMA SaysKeeps ==
  ASSUME NEW w \in Worlds, WorldOK(w), NEW s \in Sessions, NEW granted \in BOOLEAN
  PROVE  LET t == Says(w, s, granted) IN
         /\ Kept(w, t)
         /\ t.doing = w.doing
         /\ \A v \in t.waits : v \in w.waits \/ v.op = "lost"
<1> DEFINE g == granted /\ w.conn.kind = Radio
<1>1. g \in BOOLEAN OBVIOUS
<1>2. CallPre(w, "lost", None) BY DEF CallPre, Ops
<1>3. Says(w, s, granted) = w \/ Says(w, s, granted) = Teardown(w, "lost", None, g) BY DEF Says
<1> HIDE DEF g
<1>4. Kept(w, Teardown(w, "lost", None, g)) BY <1>1, <1>2, TeardownKeeps
<1> QED BY <1>1, <1>3, <1>4, KeptItself, TeardownLeaves

\* Only the timer and what the user asked for has changed.
Reset(w, u) ==
  /\ u \in Worlds
  /\ u.ses = w.ses /\ u.waits = w.waits /\ u.doing = w.doing /\ u.attempt = w.attempt
  /\ u.conn.session = w.conn.session /\ u.conn.transport = w.conn.transport
  /\ u.conn.listening = w.conn.listening /\ u.conn.hearing = w.conn.hearing
  /\ u.conn.handle = w.conn.handle /\ u.conn.state = w.conn.state /\ u.conn.kind = w.conn.kind
  /\ TimerOK(u)

LEMMA ResetKeeps ==
  ASSUME NEW w \in Worlds, WorldOK(w), NEW u, Reset(w, u)
  PROVE  Kept(w, u)
<1>1. FreshOK(u) BY DEF Reset, WorldOK, FreshOK
<1>2. OrderOK(u) BY DEF Reset, WorldOK, OrderOK
<1>3. WaitsOK(u) BY DEF Reset, WorldOK, WaitsOK
<1>4. ConnOK(u) BY DEF Reset, WorldOK, ConnOK
<1>5. WorldOK(u) BY <1>1, <1>2, <1>3, <1>4 DEF Reset, WorldOK
<1> QED BY <1>5 DEF Reset, Kept, Fares, Goes, Names

\* connect() goes on at once where there is nothing to disconnect.
LEMMA BeginContinues ==
  ASSUME NEW w \in Worlds, NEW a \in Sessions
  PROVE  Begin(w, a) = Continue(w, "connect", a, FALSE)
<1> DEFINE kind == w.attempt[a].kind
           off == [w EXCEPT !.conn.state = "disconnected", !.conn.kind = "none"]
           d == [w.conn EXCEPT !.user = FALSE, !.state = "connecting", !.kind = kind]
           e == [off.conn EXCEPT !.user = FALSE, !.state = "connecting", !.kind = kind]
           here == [w EXCEPT !.conn.user = FALSE, !.conn.state = "connecting", !.conn.kind = kind]
           there == [off EXCEPT !.conn.user = FALSE, !.conn.state = "connecting", !.conn.kind = kind]
<1>1. Continue(w, "connect", a, FALSE) = Begin(off, a) BY DEF Continue
<1>2. w.conn \in ConnType BY DEF Worlds
<1>3. /\ off.attempt = w.attempt /\ off \in Worlds /\ off = [w EXCEPT !.conn = off.conn]
      /\ off.conn = [w.conn EXCEPT !.state = "disconnected", !.kind = "none"]
  BY DEF Worlds, ConnType
<1> HIDE DEF kind, off
<1>4. here = [w EXCEPT !.conn = d] BY DEF Worlds, ConnType
<1>5. there = [off EXCEPT !.conn = e] BY <1>3 DEF Worlds, ConnType
<1>6. d = e
  <2>1. e = [w.conn EXCEPT !.state = "disconnected", !.kind = "none", !.user = FALSE,
                           !.state = "connecting", !.kind = kind]
    BY <1>3
  <2> QED BY <1>2, <2>1 DEF ConnType
<1> HIDE DEF d, e
<1>7. there = here BY <1>3, <1>4, <1>5, <1>6 DEF Worlds
<1>8. off.attempt[a].kind = kind BY <1>3 DEF kind
<1> HIDE DEF here, there
<1>9. Begin(off, a) =
        IF kind = Radio
        THEN [there EXCEPT !.conn.session = a, !.conn.transport = a, !.doing[a] = "monitoring"]
        ELSE [there EXCEPT !.doing[a] = "loading"]
  BY <1>8 DEF Begin, there
<1>10. Begin(w, a) =
         IF kind = Radio
         THEN [here EXCEPT !.conn.session = a, !.conn.transport = a, !.doing[a] = "monitoring"]
         ELSE [here EXCEPT !.doing[a] = "loading"]
  BY DEF Begin, here, kind
<1> QED BY <1>1, <1>7, <1>9, <1>10

\* disconnect() forgets the timer, and goes on, or tears the session down first.
Disconnected(w, op, a, t) ==
  \E u \in Worlds :
    /\ Reset(w, u) /\ Kept(w, u) /\ WorldOK(u) /\ CallPre(u, op, a)
    /\ u.conn.user = (w.conn.user \/ op = "user")
    /\ \/ /\ w.conn.state = "disconnected" /\ w.conn.session = None /\ w.conn.transport = None
          /\ \/ op = "user" /\ t = u
             \/ op = "connect" /\ t = Begin(u, a)
       \/ t = Teardown(u, op, a, FALSE)

LEMMA DisconnectIs ==
  ASSUME NEW w \in Worlds, WorldOK(w), TimerOK(w),
         NEW op \in {"connect", "user"}, NEW a, CallPre(w, op, a)
  PROVE  Disconnected(w, op, a, Disconnect(w, op, a))
<1> DEFINE timers == IF w.conn.timer THEN w.conn.timers - 1 ELSE w.conn.timers
           user == w.conn.user \/ op = "user"
           d == [w.conn EXCEPT !.timers = timers, !.timer = FALSE, !.user = user]
           u == [w EXCEPT !.conn.timers = IF w.conn.timer THEN @ - 1 ELSE @,
                          !.conn.timer = FALSE,
                          !.conn.user = @ \/ op = "user"]
           c == w.conn
<1>1. c \in ConnType /\ timers \in Nat /\ user \in BOOLEAN BY DEF Worlds, ConnType, TimerOK
<1>2. u = [w EXCEPT !.conn = d] BY DEF Worlds, ConnType
<1> HIDE DEF timers, user, u
<1>3. /\ d \in ConnType /\ d.session = c.session /\ d.transport = c.transport
      /\ d.listening = c.listening /\ d.hearing = c.hearing /\ d.handle = c.handle
      /\ d.state = c.state /\ d.kind = c.kind /\ d.timer = FALSE /\ d.user = user
  BY <1>1 DEF ConnType
<1> HIDE DEF d
<1>4. Reset(w, u) /\ u.conn.user = user BY <1>2, <1>3 DEF Reset, Worlds, TimerOK
<1>5. u \in Worlds /\ Kept(w, u) /\ WorldOK(u) BY <1>4, ResetKeeps DEF Kept
<1>6. CallPre(u, op, a) BY <1>4 DEF Reset, CallPre
<1> DEFINE t == Disconnect(w, op, a)
<1>7. \/ /\ c.state = "disconnected" /\ c.session = None /\ c.transport = None
         /\ \/ op = "user" /\ t = u
            \/ op = "connect" /\ t = Begin(u, a)
      \/ t = Teardown(u, op, a, FALSE)
  BY DEF Disconnect, u
<1> HIDE DEF t
<1> QED BY <1>4, <1>5, <1>6, <1>7 DEF Disconnected, t, user

LEMMA DisconnectKeeps ==
  ASSUME NEW w \in Worlds, WorldOK(w), TimerOK(w),
         NEW op \in {"connect", "user"}, NEW a, CallPre(w, op, a)
  PROVE  Kept(w, Disconnect(w, op, a))
<1> DEFINE t == Disconnect(w, op, a)
<1>1. Disconnected(w, op, a, t) BY DisconnectIs
<1> HIDE DEF t
<1>2. PICK u \in Worlds :
        /\ Kept(w, u) /\ WorldOK(u) /\ CallPre(u, op, a)
        /\ \/ t = u
           \/ op = "connect" /\ t = Begin(u, a)
           \/ t = Teardown(u, op, a, FALSE)
  BY <1>1 DEF Disconnected
<1>3. CASE t = u BY <1>2, <1>3 DEF t
<1>4. CASE op = "connect" /\ t = Begin(u, a)
  <2>1. a \in Sessions BY <1>2, <1>4 DEF CallPre
  <2>2. Begin(u, a) = Continue(u, "connect", a, FALSE) BY <2>1, BeginContinues
  <2>3. Kept(u, Continue(u, "connect", a, FALSE)) BY <1>2, <1>4, ContinueKeeps
  <2> QED BY <1>2, <1>4, <2>2, <2>3, KeptOn DEF t
<1>5. CASE t = Teardown(u, op, a, FALSE)
  <2>1. Kept(u, Teardown(u, op, a, FALSE)) BY <1>2, TeardownKeeps
  <2> QED BY <1>2, <1>5, <2>1, KeptOn DEF t
<1> QED BY <1>2, <1>3, <1>4, <1>5

\* connect() is called for an attempt that was not made yet.
LEMMA CalledKeeps ==
  ASSUME NEW w \in Worlds, WorldOK(w), NEW a \in Sessions, w.doing[a] = "none",
         \A b \in Sessions : w.doing[b] = "none" => a <= b,
         NEW kind \in {Radio, "demo"}, NEW retry \in BOOLEAN
  PROVE  /\ Kept(w, Called(w, a, kind, retry))
         /\ CallPre(Called(w, a, kind, retry), "connect", a)
<1> DEFINE u == Called(w, a, kind, retry)
<1>1. "closing" \in Doings /\ {"none", "closing"} \subseteq Fresh BY DEF Doings, Fresh
<1>2. [kind |-> kind, retry |-> retry] \in Attempts BY DEF Attempts
<1>3. /\ u \in Worlds /\ u.ses = w.ses /\ u.waits = w.waits /\ u.conn = w.conn
      /\ u.doing[a] = "closing" /\ \A b \in Sessions \ {a} : u.doing[b] = w.doing[b]
  BY <1>1, <1>2 DEF Called, Worlds
<1> HIDE DEF u
<1>4. w.ses[a] = NewSession /\ \A v \in w.waits : v.on # a BY <1>1 DEF WorldOK, FreshOK
<1>5. FreshOK(u)
  <2>1. w.ses[a].at = "idle" /\ "idle" \notin Starting BY <1>4 DEF NewSession, Starting, Handshake
  <2> QED BY <1>3, <1>4, <2>1 DEF WorldOK, FreshOK
<1>6. OrderOK(u)
  <2> SUFFICES ASSUME NEW b \in Sessions, NEW e \in Sessions, b <= e, u.doing[e] # "none"
               PROVE  u.doing[b] # "none"
    BY DEF OrderOK
  <2>1. b # a /\ w.doing[b] = "none" => a <= b /\ a # b OBVIOUS
  <2>2. a \in Nat /\ b \in Nat /\ e \in Nat BY SessionsAreNumbered
  <2>3. CASE e = a
    <3>1. b # a => ~(a <= b) BY <2>2, <2>3
    <3> QED BY <1>3, <2>1, <3>1
  <2>4. CASE e # a BY <1>3, <2>4 DEF WorldOK, OrderOK
  <2> QED BY <2>3, <2>4
<1>7. WaitsOK(u) BY <1>1, <1>3 DEF WorldOK, WaitsOK
<1>8. ConnOK(u)
  <2>1. w.conn.session \in Sessions \union {None} /\ w.conn.transport \in Sessions \union {None}
    BY DEF Worlds, ConnType
  <2>2. w.conn.session # a /\ w.conn.transport # a BY NoneIsNone DEF WorldOK, ConnOK
  <2> QED BY <1>3, <2>1, <2>2 DEF WorldOK, ConnOK
<1>9. WorldOK(u) BY <1>3, <1>5, <1>6, <1>7, <1>8 DEF WorldOK
<1>10. Goes(w, u) BY <1>1, <1>3 DEF Goes
<1>11. Kept(w, u) BY <1>3, <1>9, <1>10 DEF Kept, Fares, Names, TimerOK
<1>12. \A v \in w.waits : v.op = "connect" => v.of # a BY DEF WorldOK, WaitsOK
<1> QED BY <1>3, <1>11, <1>12 DEF CallPre, Ops, u
-----------------------------------------------------------------------------
(* What holds of the messages, and what a step has to keep of it. *)

FateType == [how : {"none", "unheard", "live", "backlog"}, by : Sessions \union {None},
             away : BOOLEAN, during : SUBSET Sessions, astray : BOOLEAN]

\* A message that came while no client was connected is still in the radio.
AwayHeld == \E i \in 1 .. Len(held) : fate[held[i]].away

\* How a message was told, as the sessions stand.
ToldIn(f, w) ==
  /\ f.how # "none" =>
       /\ f.by \in Sessions /\ w.doing[f.by] \notin Fresh
       /\ f.away /\ f.how = "live" => ~Clean(w.ses[f.by]) \/ f.astray
       /\ f.by \in f.during => f.how # "backlog"
       /\ f.how = "unheard" => f.by # w.conn.session \/ f.astray
  /\ \A s \in f.during : w.ses[s].at = "started"

Types ==
  /\ World \in Worlds /\ held \in Seq(Messages)
  /\ fate \in [Messages -> FateType] /\ load \in LoadType

\* A radio that holds messages is being drained, as backlog where it must be.
HeldOK == \A s \in Sessions : Left(ses[s], held # <<>>) /\ Missed(ses[s], AwayHeld)

\* What may still come is not in the radio.
Apart == \A i \in 1 .. Len(held) : held[i] \notin load.messages

FateOK ==
  /\ Apart
  /\ \A m \in load.messages : fate[m].how = "none" /\ ~fate[m].away
  /\ \A m \in Messages : ToldIn(fate[m], World)

IInv == Types /\ WorldOK(World) /\ TimerOK(World) /\ HeldOK /\ FateOK

\* What a step does to a session at the least.
After(x, y) ==
  /\ x.at \in {"started", "failed"} => y.at = x.at
  /\ Clean(y) => Clean(x)

LEMMA Became ==
  ASSUME NEW w \in Worlds, Become(w)
  PROVE  World' = w /\ ses' = w.ses /\ conn' = w.conn /\ doing' = w.doing /\ waits' = w.waits
         /\ attempt' = w.attempt
<1>1. World' = [ses |-> w.ses, conn |-> w.conn, waits |-> w.waits, doing |-> w.doing,
                attempt |-> w.attempt]
  BY DEF World, Become
<1>2. w = [ses |-> w.ses, conn |-> w.conn, waits |-> w.waits, doing |-> w.doing,
           attempt |-> w.attempt]
  BY DEF Worlds
<1> QED BY <1>1, <1>2 DEF Become

LEMMA WorldIs ==
  /\ World.ses = ses /\ World.conn = conn /\ World.waits = waits /\ World.doing = doing
  /\ World.attempt = attempt
BY DEF World

\* What was told stays told.
LEMMA StillTold ==
  ASSUME NEW v \in Worlds, NEW w, NEW f, ToldIn(f, v), f.during \subseteq Sessions,
         Goes(v, w), Names(v, w), \A b \in Sessions : After(v.ses[b], w.ses[b])
  PROVE  ToldIn(f, w)
<1>1. ASSUME f.how # "none"
      PROVE  /\ f.by \in Sessions /\ w.doing[f.by] \notin Fresh
             /\ f.away /\ f.how = "live" => ~Clean(w.ses[f.by]) \/ f.astray
             /\ f.by \in f.during => f.how # "backlog"
             /\ f.how = "unheard" => f.by # w.conn.session \/ f.astray
  <2>1. f.by \in Sessions /\ v.doing[f.by] \notin Fresh BY <1>1 DEF ToldIn
  <2>2. f.by # None BY <2>1, NoneIsNone
  <2>3. After(v.ses[f.by], w.ses[f.by]) BY <2>1
  <2>4. w.doing[f.by] \notin Fresh BY <2>1 DEF Goes
  <2>5. f.away /\ f.how = "live" => ~Clean(w.ses[f.by]) \/ f.astray BY <1>1, <2>3 DEF ToldIn, After
  <2>6. f.by \in f.during => f.how # "backlog" BY <1>1 DEF ToldIn
  <2>7. f.how = "unheard" => f.by # w.conn.session \/ f.astray BY <1>1, <2>1, <2>2 DEF ToldIn, Names
  <2> QED BY <2>1, <2>4, <2>5, <2>6, <2>7
<1>2. ASSUME NEW s \in f.during PROVE w.ses[s].at = "started"
  <2>1. After(v.ses[s], w.ses[s]) OBVIOUS
  <2> QED BY <2>1 DEF ToldIn, After
<1> QED BY <1>1, <1>2 DEF ToldIn

\* What a step has to show.
LEMMA Keeps ==
  ASSUME IInv, World' \in Worlds, WorldOK(World'), TimerOK(World'),
         Goes(World, World'), Names(World, World'),
         \A b \in Sessions : After(ses[b], ses'[b]),
         held' \in Seq(Messages), fate' \in [Messages -> FateType], load' \in LoadType,
         HeldOK', Apart',
         \A m \in load'.messages : m \in load.messages /\ fate'[m] = fate[m],
         \A m \in Messages : fate'[m] = fate[m] \/ ToldIn(fate'[m], World')
  PROVE  IInv'
<1>1. Types' BY DEF Types
<1>2. \A m \in load'.messages : fate'[m].how = "none" /\ ~fate'[m].away BY DEF IInv, FateOK
<1>3. ASSUME NEW m \in Messages PROVE ToldIn(fate'[m], World')
  <2>1. ToldIn(fate[m], World) /\ fate[m].during \subseteq Sessions /\ World \in Worlds
    BY DEF IInv, Types, FateOK, FateType
  <2>2. \A b \in Sessions : After(World.ses[b], World'.ses[b]) BY DEF World
  <2>3. ToldIn(fate[m], World') BY <2>1, <2>2, StillTold
  <2> QED BY <2>3
<1>4. FateOK' BY <1>2, <1>3 DEF FateOK
<1> QED BY <1>1, <1>4 DEF IInv

\* A step that leaves each session as it is, or unheard.
Quieted == \A b \in Sessions : ses'[b] = ses[b] \/ ~Live(ses'[b])

\* A call that leaves the messages alone.
LEMMA CallKeeps ==
  ASSUME IInv, NEW w, Kept(World, w), Become(w), UNCHANGED <<held, fate>>,
         load' \in LoadType, load'.messages = load.messages
  PROVE  IInv' /\ Quieted
<1>1. /\ w \in Worlds /\ WorldOK(w) /\ TimerOK(w) /\ Goes(World, w) /\ Names(World, w)
  BY DEF Kept, IInv
<1>2. World' = w /\ ses' = w.ses BY <1>1, Became
<1>3. \A b \in Sessions : Fares(ses[b], ses'[b]) BY <1>2 DEF Kept, World
<1>4. \A b \in Sessions : After(ses[b], ses'[b]) BY <1>3 DEF Fares, After, Clean
<1>5. HeldOK'
  <2> SUFFICES ASSUME NEW s \in Sessions
               PROVE  Left(ses'[s], held' # <<>>) /\ Missed(ses'[s], AwayHeld')
    BY DEF HeldOK
  <2>1. Left(ses[s], held # <<>>) /\ Missed(ses[s], AwayHeld) BY DEF IInv, HeldOK
  <2>2. held' = held /\ (AwayHeld' => AwayHeld) BY DEF AwayHeld
  <2>3. CASE ses'[s] = ses[s] BY <2>1, <2>2, <2>3 DEF Left, Missed
  <2>4. CASE ~Live(ses'[s]) BY <2>4 DEF Left, Missed
  <2> QED BY <1>3, <2>3, <2>4 DEF Fares
<1>6. held' \in Seq(Messages) /\ fate' \in [Messages -> FateType] /\ fate' = fate /\ Apart'
  BY DEF IInv, Types, FateOK, Apart
<1>7. Quieted BY <1>3 DEF Quieted, Fares
<1> QED BY <1>1, <1>2, <1>4, <1>5, <1>6, <1>7, Keeps

\* What the invariant says of the objects.
LEMMA Known ==
  ASSUME IInv
  PROVE  /\ World \in Worlds /\ WorldOK(World) /\ TimerOK(World)
         /\ ses \in [Sessions -> SessionType] /\ conn \in ConnType /\ waits \subseteq Waiting
         /\ doing \in [Sessions -> Doings] /\ attempt \in [Sessions -> Attempts]
         /\ \A s \in Sessions : /\ SessionOK(ses[s])
                                /\ ses[s] # NewSession => doing[s] \notin Fresh
                                /\ ses[s].at \in Starting => doing[s] = "starting"
         /\ held \in Seq(Messages) /\ fate \in [Messages -> FateType] /\ load \in LoadType
<1>1. World \in Worlds /\ WorldOK(World) /\ TimerOK(World)
      /\ held \in Seq(Messages) /\ fate \in [Messages -> FateType] /\ load \in LoadType
  BY DEF IInv, Types
<1>2. /\ ses \in [Sessions -> SessionType] /\ conn \in ConnType /\ waits \subseteq Waiting
      /\ doing \in [Sessions -> Doings] /\ attempt \in [Sessions -> Attempts]
  BY <1>1, WorldIs DEF Worlds
<1>3. \A s \in Sessions : /\ SessionOK(ses[s])
                          /\ ses[s] # NewSession => doing[s] \notin Fresh
                          /\ ses[s].at \in Starting => doing[s] = "starting"
  BY <1>1, WorldIs DEF WorldOK, FreshOK
<1> QED BY <1>1, <1>2, <1>3
-----------------------------------------------------------------------------
(* The calls. *)

\* A counter of the load is spent.
LEMMA Spent ==
  ASSUME load \in LoadType
  PROVE  /\ load.attempts > 0 => LET l == [load EXCEPT !.attempts = @ - 1] IN
                                 l \in LoadType /\ l.messages = load.messages
         /\ load.stops > 0 => LET l == [load EXCEPT !.stops = @ - 1] IN
                              l \in LoadType /\ l.messages = load.messages
         /\ load.losses > 0 => LET l == [load EXCEPT !.losses = @ - 1] IN
                               l \in LoadType /\ l.messages = load.messages
         /\ load.timeouts > 0 => LET l == [load EXCEPT !.timeouts = @ - 1] IN
                                 l \in LoadType /\ l.messages = load.messages
         /\ load.commands > 0 => LET l == [load EXCEPT !.commands = @ - 1] IN
                                 l \in LoadType /\ l.messages = load.messages
         /\ [load EXCEPT !.timeouts = @] = load
BY DEF LoadType

LEMMA TapKeeps ==
  ASSUME IInv, NEW a \in Sessions, NEW kind \in {Radio, "demo"}, Tap(a, kind) PROVE IInv' /\ Quieted
<1> DEFINE u == Called(World, a, kind, FALSE)
           w == Disconnect(u, "connect", a)
<1>1. World \in Worlds /\ WorldOK(World) /\ TimerOK(World) /\ load \in LoadType BY Known
<1>2. World.doing[a] = "none" /\ \A b \in Sessions : World.doing[b] = "none" => a <= b
  BY WorldIs DEF Tap, Unused
<1>3. Kept(World, u) /\ CallPre(u, "connect", a) BY <1>1, <1>2, CalledKeeps
<1>4. Become(w) /\ UNCHANGED <<held, fate>> BY DEF Tap
<1>5. load' \in LoadType /\ load'.messages = load.messages BY <1>1, Spent DEF Tap
<1> HIDE DEF u
<1>6. u \in Worlds /\ WorldOK(u) /\ TimerOK(u) BY <1>1, <1>3 DEF Kept
<1>7. Kept(u, w) BY <1>3, <1>6, DisconnectKeeps
<1> HIDE DEF w
<1>8. Kept(World, w) BY <1>1, <1>3, <1>7, KeptOn
<1> QED BY <1>4, <1>5, <1>8, CallKeeps

\* The timer has fired: one less is armed.
Fired == [World EXCEPT !.conn.timers = @ - 1, !.conn.timer = @ /\ conn.timers > 1]

LEMMA FiredIs ==
  ASSUME IInv, conn.timers > 0
  PROVE  Reset(World, Fired) /\ Fired.conn.user = conn.user
<1> DEFINE t == conn.timer /\ conn.timers > 1
           d == [conn EXCEPT !.timers = conn.timers - 1, !.timer = t]
<1>1. World \in Worlds /\ conn \in ConnType BY Known
<1>2. Fired = [World EXCEPT !.conn = d] BY <1>1, WorldIs DEF Worlds, ConnType, Fired
<1>3. conn.timers \in Nat /\ conn.timers - 1 \in Nat /\ t \in BOOLEAN /\ (t => conn.timers - 1 > 0)
  BY <1>1 DEF ConnType
<1> HIDE DEF t
<1>4. /\ d \in ConnType /\ d.session = conn.session /\ d.transport = conn.transport
      /\ d.listening = conn.listening /\ d.hearing = conn.hearing /\ d.handle = conn.handle
      /\ d.state = conn.state /\ d.kind = conn.kind /\ d.timer = t /\ d.timers = conn.timers - 1
      /\ d.user = conn.user
  BY <1>1, <1>3 DEF ConnType
<1> HIDE DEF d
<1> QED BY <1>1, <1>2, <1>3, <1>4, WorldIs DEF Reset, Worlds, TimerOK

LEMMA TimerKeeps ==
  ASSUME IInv, NEW a \in Sessions, TimerFires(a) PROVE IInv' /\ Quieted
<1> DEFINE fired == Fired
           u == Called(fired, a, Radio, TRUE)
           w == Disconnect(u, "connect", a)
<1>1. World \in Worlds /\ WorldOK(World) /\ TimerOK(World) /\ load \in LoadType
  BY Known
<1>2. conn.timers > 0 /\ load.attempts > 0 /\ Unused(a) /\ UNCHANGED <<held, fate>> BY DEF TimerFires
<1>3. Reset(World, fired) BY <1>2, FiredIs
<1>4. Kept(World, fired) BY <1>1, <1>3, ResetKeeps
<1>5. \/ Become(fired) /\ UNCHANGED load
      \/ load' = [load EXCEPT !.attempts = @ - 1] /\ Become(w)
  BY DEF TimerFires, Fired
<1> HIDE DEF fired
<1>6. CASE Become(fired) /\ UNCHANGED load BY <1>1, <1>2, <1>4, <1>6, CallKeeps
<1>7. CASE load' = [load EXCEPT !.attempts = @ - 1] /\ Become(w)
  <2>1. fired.doing[a] = "none" /\ \A b \in Sessions : fired.doing[b] = "none" => a <= b
    BY <1>2, <1>3, WorldIs DEF Unused, Reset
  <2>2. fired \in Worlds /\ WorldOK(fired) /\ TimerOK(fired) BY <1>1, <1>4 DEF Kept
  <2>3. Kept(fired, u) /\ CallPre(u, "connect", a) BY <2>1, <2>2, CalledKeeps
  <2> HIDE DEF u
  <2>4. u \in Worlds /\ WorldOK(u) /\ TimerOK(u) BY <2>2, <2>3 DEF Kept
  <2>5. Kept(u, w) BY <2>3, <2>4, DisconnectKeeps
  <2> HIDE DEF w
  <2>6. Kept(World, w) BY <1>1, <1>4, <2>2, <2>3, <2>5, KeptOn
  <2>7. load' \in LoadType /\ load'.messages = load.messages BY <1>1, <1>2, <1>7, Spent
  <2> QED BY <1>2, <1>7, <2>6, <2>7, CallKeeps
<1> QED BY <1>5, <1>6, <1>7

LEMMA UserKeeps ==
  ASSUME IInv, UserDisconnects PROVE IInv' /\ Quieted
<1> DEFINE w == Disconnect(World, "user", None)
<1>1. World \in Worlds /\ WorldOK(World) /\ TimerOK(World) /\ load \in LoadType BY Known
<1>2. CallPre(World, "user", None) BY DEF CallPre, Ops
<1>3. Kept(World, w) BY <1>1, <1>2, DisconnectKeeps
<1>4. Become(w) /\ UNCHANGED <<held, fate>> BY DEF UserDisconnects
<1>5. load' \in LoadType /\ load'.messages = load.messages BY <1>1, Spent DEF UserDisconnects
<1> HIDE DEF w
<1> QED BY <1>3, <1>4, <1>5, CallKeeps

\* The service is given the transport of a demo.
LEMMA FileReadKeeps ==
  ASSUME IInv, NEW a \in Sessions, FileRead(a) PROVE IInv' /\ Quieted
<1> DEFINE u == [World EXCEPT !.conn.transport = a, !.doing[a] = "monitoring"]
           d == [conn EXCEPT !.transport = a]
<1>1. /\ World \in Worlds /\ WorldOK(World) /\ load \in LoadType
      /\ conn \in ConnType /\ doing[a] = "loading"
  BY Known DEF FileRead
<1>2. /\ d \in ConnType /\ d.session = conn.session /\ d.transport = a
      /\ d.listening = conn.listening /\ d.timers = conn.timers /\ d.timer = conn.timer
  BY <1>1 DEF ConnType
<1>3. u = [World EXCEPT !.conn = d, !.doing[a] = "monitoring"] BY <1>1, WorldIs DEF Worlds
<1>4. Become(u) /\ UNCHANGED <<held, fate, load>> BY DEF FileRead
<1>5. "monitoring" \in Doings /\ Fresh = {"none", "closing", "loading", "monitoring"}
  BY DEF Doings, Fresh
<1> HIDE DEF d, u
<1>6. /\ u \in Worlds /\ u.ses = ses /\ u.conn = d /\ u.waits = waits
      /\ u.attempt = attempt
      /\ u.doing[a] = "monitoring" /\ \A b \in Sessions \ {a} : u.doing[b] = doing[b]
  BY <1>1, <1>2, <1>3, <1>5, WorldIs DEF Worlds
<1>7. \A b \in Sessions : /\ u.doing[b] \in Fresh <=> doing[b] \in Fresh
                          /\ b # a => u.doing[b] = doing[b]
  BY <1>1, <1>5, <1>6
<1>8. FreshOK(u)
  <2> SUFFICES ASSUME NEW b \in Sessions
               PROVE  /\ u.doing[b] \in Fresh => ses[b] = NewSession /\ \A v \in waits : v.on # b
                      /\ ses[b].at \in Starting => u.doing[b] = "starting"
    BY <1>6 DEF FreshOK
  <2>1. /\ doing[b] \in Fresh => ses[b] = NewSession /\ \A v \in waits : v.on # b
        /\ ses[b].at \in Starting => doing[b] = "starting"
    BY <1>1, WorldIs DEF WorldOK, FreshOK
  <2> QED BY <1>1, <1>7, <2>1
<1>9. OrderOK(u)
  <2>1. \A b \in Sessions : u.doing[b] = "none" <=> doing[b] = "none" BY <1>1, <1>6
  <2> QED BY <1>1, <2>1, WorldIs DEF WorldOK, OrderOK
<1>10. WaitsOK(u)
  <2>1. \A b \in Sessions : doing[b] = "closing" => u.doing[b] = "closing" BY <1>1, <1>6
  <2> QED BY <1>1, <1>6, <1>7, <2>1, WorldIs DEF WorldOK, WaitsOK
<1>11. ConnOK(u)
  <2>1. conn.session \in Sessions \union {None} BY <1>1 DEF ConnType
  <2>2. ConnOK(World) BY <1>1 DEF WorldOK
  <2> QED BY <1>1, <1>2, <1>5, <1>6, <2>1, <2>2, WorldIs DEF ConnOK
<1>12. WorldOK(u) BY <1>1, <1>6, <1>8, <1>9, <1>10, <1>11, WorldIs DEF WorldOK
<1>13. Goes(World, u) BY <1>7, WorldIs DEF Goes
<1>14. (TimerOK(World) => TimerOK(u)) /\ Names(World, u) BY <1>2, <1>6, WorldIs DEF TimerOK, Names
<1>15. \A b \in Sessions : Fares(World.ses[b], u.ses[b]) BY <1>6, WorldIs DEF Fares
<1>16. Kept(World, u) BY <1>6, <1>12, <1>13, <1>14, <1>15 DEF Kept
<1> QED BY <1>1, <1>4, <1>16, CallKeeps

LEMMA FileFailsKeeps ==
  ASSUME IInv, NEW a \in Sessions, FileFails(a) PROVE IInv' /\ Quieted
<1> DEFINE w == Teardown(World, "failed", a, FALSE)
<1>1. /\ World \in Worlds /\ WorldOK(World) /\ load \in LoadType /\ doing[a] = "loading"
  BY Known DEF FileFails
<1>2. World.doing[a] = "loading" /\ World.ses[a] = NewSession
  BY <1>1, WorldIs DEF WorldOK, FreshOK, Fresh
<1>3. CallPre(World, "failed", a) BY <1>2 DEF CallPre, Ops, Unstarted, NewSession
<1>4. Kept(World, w) BY <1>1, <1>3, TeardownKeeps
<1>5. Become(w) /\ UNCHANGED <<held, fate>> BY DEF FileFails
<1>6. load' \in LoadType /\ load'.messages = load.messages BY <1>1, Spent DEF FileFails
<1> HIDE DEF w
<1> QED BY <1>4, <1>5, <1>6, CallKeeps

\* One session takes a step by itself.
Sole(w, s, y) == [w EXCEPT !.ses[s] = y]

LEMMA SoleOK ==
  ASSUME NEW w \in Worlds, WorldOK(w), NEW s \in Sessions, w.doing[s] \notin Fresh,
         NEW y \in SessionType, SessionOK(y),
         y.at \in Starting => w.doing[s] = "starting",
         y.listens => w.ses[s].listens,
         w.ses[s].at \in Unstarted => y.at = w.ses[s].at,
         s = w.conn.session => y.listens \/ (~y.running /\ y.asked = <<>> /\ y.at # "opening")
  PROVE  /\ Sole(w, s, y) \in Worlds /\ WorldOK(Sole(w, s, y))
         /\ Sole(w, s, y).conn = w.conn /\ Sole(w, s, y).doing = w.doing
         /\ Sole(w, s, y).waits = w.waits /\ Sole(w, s, y).attempt = w.attempt
         /\ Sole(w, s, y).ses[s] = y
         /\ \A b \in Sessions \ {s} : Sole(w, s, y).ses[b] = w.ses[b]
         /\ Goes(w, Sole(w, s, y)) /\ Names(w, Sole(w, s, y))
         /\ TimerOK(w) => TimerOK(Sole(w, s, y))
<1> DEFINE u == Sole(w, s, y)
<1>1. /\ u \in Worlds /\ u.conn = w.conn /\ u.doing = w.doing /\ u.waits = w.waits
      /\ u.attempt = w.attempt
      /\ u.ses[s] = y /\ \A b \in Sessions \ {s} : u.ses[b] = w.ses[b]
  BY DEF Worlds, Sole
<1> HIDE DEF u
<1>2. \A b \in Sessions : SessionOK(u.ses[b]) BY <1>1 DEF WorldOK
<1>3. FreshOK(u)
  <2> SUFFICES ASSUME NEW b \in Sessions
               PROVE  /\ w.doing[b] \in Fresh => u.ses[b] = NewSession /\ \A v \in w.waits : v.on # b
                      /\ u.ses[b].at \in Starting => w.doing[b] = "starting"
    BY <1>1 DEF FreshOK
  <2>1. /\ w.doing[b] \in Fresh => w.ses[b] = NewSession /\ \A v \in w.waits : v.on # b
        /\ w.ses[b].at \in Starting => w.doing[b] = "starting"
    BY DEF WorldOK, FreshOK
  <2>2. CASE b = s BY <1>1, <2>2
  <2>3. CASE b # s BY <1>1, <2>1, <2>3
  <2> QED BY <2>2, <2>3
<1>4. OrderOK(u) BY <1>1 DEF WorldOK, OrderOK
<1>5. WaitsOK(u)
  <2> SUFFICES ASSUME NEW v \in w.waits
               PROVE  /\ ~u.ses[v.on].listens
                      /\ v.op \in {"connect", "failed"} => v.of \in Sessions
                      /\ v.op = "connect" => u.doing[v.of] = "closing"
                      /\ v.op = "failed" => u.doing[v.of] \notin Fresh /\ u.ses[v.of].at \in Unstarted
                      /\ \A z \in w.waits : z.op = "connect" /\ v.op = "connect" /\ z.of = v.of => z = v
    BY <1>1 DEF WaitsOK
  <2>1. v.on \in Sessions BY DEF Worlds, Waiting
  <2> QED BY <1>1, <2>1 DEF WorldOK, WaitsOK
<1>6. ConnOK(u)
  <2>1. w.conn.session \in Sessions \union {None} /\ w.conn.transport \in Sessions \union {None}
    BY DEF Worlds, ConnType
  <2> QED BY <1>1, <2>1 DEF WorldOK, ConnOK
<1>7. WorldOK(u) BY <1>2, <1>3, <1>4, <1>5, <1>6 DEF WorldOK
<1> QED BY <1>1, <1>7 DEF Goes, Names, TimerOK, u

LEMMA SoleKeeps ==
  ASSUME NEW w \in Worlds, WorldOK(w), NEW s \in Sessions, w.doing[s] \notin Fresh,
         NEW y \in SessionType, SessionOK(y),
         y.at \in Starting => w.doing[s] = "starting",
         y.listens => w.ses[s].listens,
         s = w.conn.session => y.listens \/ (~y.running /\ y.asked = <<>> /\ y.at # "opening"),
         Fares(w.ses[s], y)
  PROVE  Kept(w, Sole(w, s, y))
<1> DEFINE u == Sole(w, s, y)
<1>1. w.ses[s].at \in Unstarted => y.at = w.ses[s].at BY DEF Fares, Unstarted
<1>2. /\ u \in Worlds /\ WorldOK(u) /\ Goes(w, u) /\ Names(w, u) /\ u.ses[s] = y
      /\ TimerOK(w) => TimerOK(u)
      /\ \A b \in Sessions \ {s} : u.ses[b] = w.ses[b]
  BY <1>1, SoleOK
<1> HIDE DEF u
<1>3. \A b \in Sessions : Fares(w.ses[b], u.ses[b]) BY <1>2 DEF Fares
<1> QED BY <1>2, <1>3 DEF Kept, u

\* start() throws, in a session that has nothing left.
Spoilt(s, y) ==
  /\ y \in SessionType /\ SessionOK(y) /\ y.at = "failed" /\ ~y.listens /\ ~y.running
  /\ y.asked = <<>> /\ Fares(ses[s], y)

LEMMA SpoiltKept ==
  ASSUME IInv, NEW s \in Sessions, doing[s] \notin Fresh, NEW y, Spoilt(s, y)
  PROVE  LET u == Sole(World, s, y) IN
         /\ Kept(World, u) /\ u.ses[s] = y /\ \A b \in Sessions \ {s} : u.ses[b] = ses[b]
         /\ u.conn = conn /\ u.doing = doing /\ u.waits = waits /\ u.attempt = attempt
<1>1. World \in Worlds /\ WorldOK(World) BY Known
<1>2. "failed" \notin Starting BY DEF Starting, Handshake
<1>3. World.doing[s] \notin Fresh /\ Fares(World.ses[s], y) BY WorldIs DEF Spoilt
<1>4. World.ses[s].at \in Unstarted => y.at = World.ses[s].at BY <1>3 DEF Fares, Unstarted
<1> QED BY <1>1, <1>2, <1>3, <1>4, SoleKeeps, SoleOK, WorldIs DEF Spoilt

LEMMA ThrowsKeeps ==
  ASSUME IInv, NEW s \in Sessions, doing[s] \notin Fresh, NEW y, Spoilt(s, y),
         NEW granted \in BOOLEAN, StartThrows(s, y, granted),
         UNCHANGED <<held, fate>>, load' \in LoadType, load'.messages = load.messages
  PROVE  IInv' /\ Quieted
<1> DEFINE u == Sole(World, s, y)
           said == IF ses[s].up = "disconnected" THEN u ELSE Says(u, s, granted)
           w == Teardown(said, "failed", s, FALSE)
<1>1. World \in Worlds /\ WorldOK(World) BY Known
<1>2. Become(w) BY DEF StartThrows, Sole
<1>3. Kept(World, u) /\ u.ses[s] = y /\ y.at = "failed" BY SpoiltKept DEF Spoilt
<1> HIDE DEF u
<1>4. u \in Worlds /\ WorldOK(u) BY <1>3 DEF Kept
<1>5. Kept(u, said)
  <2>1. Kept(u, u) BY <1>4, KeptItself
  <2>2. Kept(u, Says(u, s, granted)) BY <1>4, SaysKeeps
  <2> QED BY <2>1, <2>2
<1> HIDE DEF said
<1>6. Kept(World, said) BY <1>1, <1>3, <1>5, KeptOn
<1>7. said \in Worlds /\ WorldOK(said) BY <1>5 DEF Kept
<1>8. CallPre(said, "failed", s)
  <2>1. said.doing[s] \notin Fresh BY <1>6, WorldIs DEF Kept, Goes
  <2>2. Fares(u.ses[s], said.ses[s]) BY <1>5 DEF Kept
  <2>3. said.ses[s].at = "failed" BY <1>3, <2>2 DEF Fares
  <2> QED BY <2>1, <2>3 DEF CallPre, Ops, Unstarted
<1>9. Kept(said, w) BY <1>7, <1>8, TeardownKeeps
<1> HIDE DEF w
<1>10. Kept(World, w) BY <1>1, <1>6, <1>9, KeptOn
<1> QED BY <1>2, <1>10, CallKeeps

\* What a start() that throws leaves; a loss that was not granted to the page leaves
\* the transport closed.
Thrown(s) ==
  \E y \in SessionType, granted \in BOOLEAN :
    Spoilt(s, y) /\ StartThrows(s, y, granted) /\ (granted \/ ~TakesTime(y))

LEMMA OpenFailsKeeps ==
  ASSUME IInv, NEW a \in Sessions, NEW chosen \in BOOLEAN, OpenFails(a, chosen)
  PROVE  IInv' /\ Quieted /\ Thrown(a)
<1> DEFINE x == ses[a]
           y == [x EXCEPT !.at = "failed", !.link = "closed", !.listens = FALSE, !.up = "disconnected"]
<1>1. x \in SessionType /\ SessionOK(x) /\ x.at = "opening" /\ load \in LoadType
  BY Known DEF OpenFails
<1>2. doing[a] \notin Fresh
  <2>1. x # NewSession BY <1>1 DEF NewSession
  <2> QED BY <2>1, Known
<1>3. /\ y \in SessionType /\ y.at = "failed" /\ y.link = "closed" /\ y.listens = FALSE
      /\ y.running = x.running /\ y.jobs = x.jobs /\ y.asked = x.asked /\ y.on = x.on
      /\ y.wanted = x.wanted /\ y.pending = x.pending /\ y.backlog = x.backlog
      /\ y.slow = x.slow /\ y.hurried = x.hurried /\ y.refused = x.refused
  BY <1>1 DEF SessionType, Phases
<1>4. /\ StartThrows(a, y, chosen) /\ UNCHANGED <<held, fate>>
      /\ load' = [load EXCEPT !.losses = @ - 1] /\ load.losses > 0
  BY DEF OpenFails
<1> HIDE DEF x, y
<1>5. ~x.running /\ x.jobs = <<>> /\ x.asked = <<>> /\ ~x.on /\ ~x.wanted /\ ~x.backlog
  BY <1>1 DEF SessionOK, Nearly, PhasesOK, DrainOK
<1>6. ~HasMessage(y) /\ QueueOK(y) BY <1>3, <1>5 DEF HasMessage, QueueOK
<1>7. SessionOK(y)
  BY <1>3, <1>5, <1>6 DEF SessionOK, Nearly, PhasesOK, LinkOK, AskedOK, DrainOK, Live
<1>8. Fares(x, y) BY <1>1, <1>3 DEF Fares, Live
<1>9. load' \in LoadType /\ load'.messages = load.messages BY <1>1, <1>4, Spent
<1>10. Spoilt(a, y) BY <1>3, <1>5, <1>7, <1>8 DEF Spoilt, x
<1>11. Thrown(a)
  <2>1. ~TakesTime(y) BY <1>3 DEF TakesTime
  <2> QED BY <1>3, <1>4, <1>10, <2>1 DEF Thrown
<1> QED BY <1>2, <1>4, <1>9, <1>10, <1>11, ThrowsKeeps

LEMMA UndoneKeeps ==
  ASSUME IInv, NEW a \in Sessions, Undone(a) PROVE IInv' /\ Quieted /\ Thrown(a)
<1> DEFINE x == ses[a]
           c == Closed(x)
           y == [c EXCEPT !.at = "failed"]
<1>1. x \in SessionType /\ SessionOK(x) /\ x.at = "undoing" /\ load \in LoadType
  BY Known DEF Undone
<1>2. doing[a] \notin Fresh
  <2>1. x # NewSession BY <1>1 DEF NewSession
  <2> QED BY <2>1, Known
<1>3. ~x.running /\ ~x.listens /\ x.asked = <<>> BY <1>1 DEF SessionOK, Nearly, PhasesOK
<1>4. StartThrows(a, y, TRUE) /\ UNCHANGED <<held, fate, load>> BY DEF Undone
<1> HIDE DEF x
<1>5. /\ Ends(x, c) /\ c.at = x.at /\ c.running = x.running /\ ~c.listens
  BY <1>1, <1>3, ClosedOK
<1> HIDE DEF c
<1>6. /\ c \in SessionType /\ SessionOK(c) /\ c.asked = <<>>
      /\ c.slow = x.slow /\ c.hurried = x.hurried /\ c.refused = x.refused
  BY <1>5 DEF Ends
<1>7. /\ y \in SessionType /\ y.at = "failed" /\ y.link = c.link /\ y.listens = c.listens
      /\ y.running = c.running /\ y.jobs = c.jobs /\ y.asked = c.asked /\ y.on = c.on
      /\ y.wanted = c.wanted /\ y.pending = c.pending /\ y.backlog = c.backlog
      /\ y.slow = c.slow /\ y.hurried = c.hurried /\ y.refused = c.refused
  BY <1>6 DEF SessionType, Phases
<1> HIDE DEF y
<1>8. c.jobs = <<>> BY <1>3, <1>5, <1>6 DEF SessionOK, Nearly, QueueOK
<1>9. ~HasMessage(y) /\ ~HasMessage(c) /\ QueueOK(y) BY <1>7, <1>8 DEF HasMessage, QueueOK
<1>10. SessionOK(y)
  <2>1. DrainOK(y) BY <1>3, <1>5, <1>6, <1>7, <1>9 DEF SessionOK, Nearly, DrainOK, Live
  <2> QED BY <1>3, <1>5, <1>6, <1>7, <1>9, <2>1 DEF SessionOK, Nearly, PhasesOK, LinkOK, AskedOK
<1>11. Fares(x, y) BY <1>1, <1>3, <1>5, <1>6, <1>7 DEF Fares, Live
<1>12. Spoilt(a, y) BY <1>3, <1>5, <1>6, <1>7, <1>10, <1>11 DEF Spoilt, x
<1>13. Thrown(a) BY <1>4, <1>7, <1>12 DEF Thrown
<1> QED BY <1>1, <1>2, <1>4, <1>12, <1>13, ThrowsKeeps

\* A session that was stopped is closed; its call no longer waits, and goes on.
StopEnded(v, n) ==
  /\ n \in Worlds /\ WorldOK(n) /\ Kept(World, n)
  /\ n.conn = conn /\ n.waits = waits \ {v} /\ n.doing = doing /\ n.attempt = attempt
  /\ \A b \in Sessions : n.ses[b].running = ses[b].running /\ n.ses[b].at = ses[b].at
  /\ \/ Become(Continue(n, v.op, v.of, v.granted))
     \/ Become(Continue(Says(n, v.on, TRUE), v.op, v.of, v.granted))

LEMMA StopEndsKeeps ==
  ASSUME IInv, NEW v \in waits, StopEnds(v)
  PROVE  IInv' /\ Quieted /\ \E n : StopEnded(v, n)
<1> DEFINE s == v.on
           x == ses[s]
           y == Closed(x)
           u == Sole(World, s, y)
           n == [u EXCEPT !.waits = @ \ {v}]
           said == IF ses[s].up = "disconnected" THEN n ELSE Says(n, s, TRUE)
           w == Continue(said, v.op, v.of, v.granted)
<1>1. /\ World \in Worlds /\ WorldOK(World) /\ load \in LoadType /\ v \in Waiting
      /\ ses \in [Sessions -> SessionType]
  BY Known
<1>2. s \in Sessions /\ v.op \in Ops /\ v.of \in Sessions \union {None} /\ v.granted \in BOOLEAN
  BY <1>1 DEF Waiting, Ops
<1>3. x \in SessionType /\ SessionOK(x) BY <1>2, Known
<1>4. /\ ~x.listens
      /\ v.op \in {"connect", "failed"} => v.of \in Sessions
      /\ v.op = "connect" => doing[v.of] = "closing"
      /\ v.op = "failed" => doing[v.of] \notin Fresh /\ ses[v.of].at \in Unstarted
      /\ \A z \in waits : z.op = "connect" /\ v.op = "connect" /\ z.of = v.of => z = v
  BY <1>1, WorldIs DEF WorldOK, WaitsOK
<1>5. doing[s] \notin Fresh BY <1>1, <1>2, WorldIs DEF WorldOK, FreshOK
<1>6. Become(w) /\ UNCHANGED <<held, fate, load>>
  <2>1. [World EXCEPT !.ses[v.on] = Closed(ses[v.on]), !.waits = @ \ {v}] = n BY DEF Sole
  <2> QED BY <2>1 DEF StopEnds
<1>7. Ends(x, y) /\ y.at = x.at /\ y.running = x.running /\ ~y.listens BY <1>3, <1>4, ClosedOK
<1> HIDE DEF y
<1>8. /\ u \in Worlds /\ Kept(World, u) /\ u.waits = waits /\ u.doing = doing
      /\ u.conn = conn /\ u.attempt = attempt
      /\ u.ses[s] = y /\ \A b \in Sessions \ {s} : u.ses[b] = ses[b]
  <2>1. y \in SessionType /\ SessionOK(y) /\ y.asked = <<>> BY <1>7 DEF Ends
  <2>2. Fares(World.ses[s], y) BY <1>7, EndsFares, WorldIs
  <2>3. y.at \in Starting => World.doing[s] = "starting" BY <1>2, <1>7, Known, WorldIs
  <2>4. s = World.conn.session => ~y.running /\ y.at # "opening"
    BY <1>1, <1>2, <1>4, <1>7, NoneIsNone, WorldIs DEF WorldOK, ConnOK
  <2>5. World.doing[s] \notin Fresh BY <1>5, WorldIs
  <2>6. /\ u \in Worlds /\ u.waits = World.waits /\ u.doing = World.doing /\ u.ses[s] = y
        /\ u.conn = World.conn /\ u.attempt = World.attempt
        /\ \A b \in Sessions \ {s} : u.ses[b] = World.ses[b]
    BY <1>1, <1>2, <1>7, <2>1, <2>2, <2>3, <2>4, <2>5, SoleOK DEF Fares, Unstarted
  <2>7. Kept(World, u) BY <1>1, <1>2, <1>7, <2>1, <2>2, <2>3, <2>4, <2>5, SoleKeeps
  <2> QED BY <2>6, <2>7, WorldIs
<1> HIDE DEF u
<1>9. Kept(u, n)
  <2>1. WorldOK(u) BY <1>8 DEF Kept
  <2>2. /\ n \in Worlds /\ n.ses = u.ses /\ n.conn = u.conn /\ n.doing = u.doing
        /\ n.attempt = u.attempt /\ n.waits = u.waits \ {v}
    BY <1>8 DEF Worlds
  <2> HIDE DEF n
  <2>3. FreshOK(n) BY <2>1, <2>2 DEF WorldOK, FreshOK
  <2>4. OrderOK(n) BY <2>1, <2>2 DEF WorldOK, OrderOK
  <2>5. WaitsOK(n) BY <2>1, <2>2 DEF WorldOK, WaitsOK
  <2>6. ConnOK(n) BY <2>1, <2>2 DEF WorldOK, ConnOK
  <2>7. WorldOK(n) BY <2>1, <2>2, <2>3, <2>4, <2>5, <2>6 DEF WorldOK
  <2> QED BY <2>2, <2>7 DEF Kept, Fares, Goes, Names, TimerOK
<1>10. /\ n.waits = waits \ {v} /\ n.doing = doing /\ n.conn = conn /\ n.attempt = attempt
       /\ n.ses = u.ses
  BY <1>8 DEF Worlds
<1> HIDE DEF n
<1>11. n \in Worlds /\ WorldOK(n) /\ Kept(World, n) BY <1>1, <1>8, <1>9, KeptOn DEF Kept
<1>12. /\ Kept(n, said) /\ said.doing = n.doing
       /\ \A z \in said.waits : z \in n.waits \/ z.op = "lost"
  <2>1. /\ Kept(n, Says(n, s, TRUE)) /\ Says(n, s, TRUE).doing = n.doing
        /\ \A z \in Says(n, s, TRUE).waits : z \in n.waits \/ z.op = "lost"
    BY <1>2, <1>11, SaysKeeps
  <2>2. Kept(n, n) BY <1>11, KeptItself
  <2> QED BY <2>1, <2>2
<1> DEFINE goes == \/ Become(Continue(n, v.op, v.of, v.granted))
                   \/ Become(Continue(Says(n, s, TRUE), v.op, v.of, v.granted))
<1>20. goes BY <1>6
<1> HIDE DEF said, goes
<1>21. StopEnded(v, n)
  <2>1. \A b \in Sessions : n.ses[b].running = ses[b].running /\ n.ses[b].at = ses[b].at
    BY <1>7, <1>8, <1>10
  <2> QED BY <1>10, <1>11, <1>20, <2>1 DEF StopEnded, goes
<1>13. said \in Worlds /\ WorldOK(said) /\ Kept(World, said) BY <1>1, <1>11, <1>12, KeptOn DEF Kept
<1>14. CallPre(said, v.op, v.of)
  <2>1. v.op = "connect" => said.doing[v.of] = "closing" /\ \A z \in said.waits : z.op = "connect" => z.of # v.of
    BY <1>4, <1>10, <1>12
  <2>2. v.op = "failed" => said.doing[v.of] \notin Fresh /\ said.ses[v.of].at \in Unstarted
    <3> SUFFICES ASSUME v.op = "failed"
                 PROVE  said.doing[v.of] \notin Fresh /\ said.ses[v.of].at \in Unstarted
      OBVIOUS
    <3>1. v.of \in Sessions /\ doing[v.of] \notin Fresh /\ ses[v.of].at \in Unstarted BY <1>4
    <3>2. Fares(ses[v.of], said.ses[v.of]) BY <1>13, <3>1, WorldIs DEF Kept
    <3> QED BY <1>10, <1>12, <3>1, <3>2 DEF Fares, Unstarted
  <2> QED BY <1>2, <1>4, <2>1, <2>2 DEF CallPre
<1>15. Kept(said, w) BY <1>2, <1>13, <1>14, ContinueKeeps
<1> HIDE DEF w
<1>16. Kept(World, w) BY <1>1, <1>13, <1>15, KeptOn
<1> QED BY <1>1, <1>6, <1>16, <1>21, CallKeeps

\* connect() goes on behind start(), or has no start() to wait for.
LEMMA StartedIs ==
  ASSUME NEW w \in Worlds, NEW a \in Sessions
  PROVE  LET u == Started(w, a) IN
         /\ u \in Worlds /\ u.ses = w.ses /\ u.waits = w.waits /\ u.attempt = w.attempt
         /\ u.doing[a] = "tables" /\ \A b \in Sessions \ {a} : u.doing[b] = w.doing[b]
         /\ u.conn.state = "connected" /\ u.conn.kind = w.conn.kind /\ u.conn.user = w.conn.user
         /\ u.conn.session = w.conn.session /\ u.conn.hearing = w.conn.hearing
         /\ u.conn.handle = w.conn.handle
         /\ u.conn.transport = w.conn.transport /\ u.conn.listening = w.conn.listening
<1> DEFINE u == Started(w, a)
           d == [w.conn EXCEPT !.state = "connected"]
<1>1. w.conn \in ConnType BY DEF Worlds
<1>2. /\ d \in ConnType /\ d.state = "connected" /\ d.kind = w.conn.kind /\ d.user = w.conn.user
      /\ d.session = w.conn.session /\ d.hearing = w.conn.hearing /\ d.handle = w.conn.handle
      /\ d.transport = w.conn.transport /\ d.listening = w.conn.listening
  BY <1>1 DEF ConnType
<1>3. u = [w EXCEPT !.conn = d, !.doing[a] = "tables"] BY <1>1 DEF Started, Worlds
<1>4. "tables" \in Doings BY DEF Doings
<1> HIDE DEF d, u
<1>5. /\ u \in Worlds /\ u.ses = w.ses /\ u.conn = d /\ u.waits = w.waits
      /\ u.attempt = w.attempt
      /\ u.doing[a] = "tables" /\ \A b \in Sessions \ {a} : u.doing[b] = w.doing[b]
  BY <1>2, <1>3, <1>4 DEF Worlds
<1> QED BY <1>2, <1>5 DEF u

LEMMA StartedOK ==
  ASSUME NEW w \in Worlds, WorldOK(w), NEW a \in Sessions,
         w.doing[a] \in {"monitoring", "starting"}, w.ses[a].at \notin Starting,
         w.conn.transport = a => w.conn.listening = a
  PROVE  /\ Kept(w, Started(w, a)) /\ Started(w, a).ses = w.ses
         /\ Started(w, a).conn.session = w.conn.session
<1> DEFINE u == Started(w, a)
           d == [w.conn EXCEPT !.state = "connected"]
<1>1. w.conn \in ConnType BY DEF Worlds
<1>2. /\ d \in ConnType /\ d.session = w.conn.session /\ d.transport = w.conn.transport
      /\ d.listening = w.conn.listening /\ d.timers = w.conn.timers /\ d.timer = w.conn.timer
  BY <1>1 DEF ConnType
<1>3. u = [w EXCEPT !.conn = d, !.doing[a] = "tables"] BY <1>1 DEF Started, Worlds
<1>4. "tables" \in Doings /\ "tables" \notin Fresh /\ "starting" \notin Fresh BY DEF Doings, Fresh
<1> HIDE DEF d, u
<1>5. /\ u \in Worlds /\ u.ses = w.ses /\ u.conn = d /\ u.waits = w.waits
      /\ u.attempt = w.attempt
      /\ u.doing[a] = "tables" /\ \A b \in Sessions \ {a} : u.doing[b] = w.doing[b]
  BY <1>2, <1>3, <1>4 DEF Worlds
<1>6. FreshOK(u)
  <2> SUFFICES ASSUME NEW b \in Sessions
               PROVE  /\ u.doing[b] \in Fresh => w.ses[b] = NewSession /\ \A v \in w.waits : v.on # b
                      /\ w.ses[b].at \in Starting => u.doing[b] = "starting"
    BY <1>5 DEF FreshOK
  <2>1. /\ w.doing[b] \in Fresh => w.ses[b] = NewSession /\ \A v \in w.waits : v.on # b
        /\ w.ses[b].at \in Starting => w.doing[b] = "starting"
    BY DEF WorldOK, FreshOK
  <2>2. CASE b = a BY <1>4, <1>5, <2>2
  <2>3. CASE b # a BY <1>5, <2>1, <2>3
  <2> QED BY <2>2, <2>3
<1>7. OrderOK(u)
  <2>1. \A b \in Sessions : u.doing[b] = "none" <=> w.doing[b] = "none" BY <1>5
  <2> QED BY <2>1 DEF WorldOK, OrderOK
<1>8. WaitsOK(u) BY <1>4, <1>5 DEF WorldOK, WaitsOK
<1>9. ConnOK(u)
  <2>1. w.conn.session \in Sessions \union {None} /\ w.conn.transport \in Sessions \union {None}
    BY <1>1 DEF ConnType
  <2>2. \A b \in Sessions : /\ w.doing[b] \notin {"none", "closing", "loading"}
                              => u.doing[b] \notin {"none", "closing", "loading"}
                           /\ b # a => u.doing[b] = w.doing[b]
    BY <1>5
  <2> QED BY <1>2, <1>5, <2>1, <2>2 DEF WorldOK, ConnOK
<1>10. WorldOK(u) BY <1>5, <1>6, <1>7, <1>8, <1>9 DEF WorldOK
<1>11. Goes(w, u) BY <1>4, <1>5 DEF Goes
<1>12. (TimerOK(w) => TimerOK(u)) /\ Names(w, u) BY <1>2, <1>5 DEF TimerOK, Names
<1>13. \A b \in Sessions : Fares(w.ses[b], u.ses[b]) BY <1>5 DEF Fares
<1>14. Kept(w, u) BY <1>5, <1>10, <1>11, <1>12, <1>13 DEF Kept
<1> QED BY <1>2, <1>5, <1>14 DEF u

\* The service hears its transport, once that one's attempt is begun.
LEMMA ListensTo ==
  ASSUME NEW w \in Worlds, WorldOK(w), NEW a \in Sessions, w.doing[a] \notin Fresh,
         w.conn.transport = a
  PROVE  w.conn.listening = a
BY NoneIsNone DEF WorldOK, ConnOK

LEMMA StartReturnsKeeps ==
  ASSUME IInv, NEW a \in Sessions, StartReturns(a) PROVE IInv' /\ Quieted
<1> DEFINE w == Started(World, a)
<1>1. World \in Worlds /\ WorldOK(World) /\ load \in LoadType BY Known
<1>2. World.doing[a] = "starting" /\ World.ses[a].at = "started" BY WorldIs DEF StartReturns
<1>3. "starting" \notin Fresh /\ "started" \notin Starting BY DEF Fresh, Starting, Handshake
<1>4. Kept(World, w) BY <1>1, <1>2, <1>3, ListensTo, StartedOK
<1>5. Become(w) /\ UNCHANGED <<held, fate, load>> BY DEF StartReturns
<1> HIDE DEF w
<1> QED BY <1>1, <1>4, <1>5, CallKeeps

LEMMA TablesKeep ==
  ASSUME IInv, NEW a \in Sessions, TablesRead(a) PROVE IInv' /\ Quieted
<1> DEFINE u == [World EXCEPT !.conn.tries = 0, !.doing[a] = "done"]
           d == [conn EXCEPT !.tries = 0]
<1>1. /\ World \in Worlds /\ WorldOK(World) /\ load \in LoadType
      /\ conn \in ConnType /\ doing[a] = "tables"
  BY Known DEF TablesRead
<1>2. /\ d \in ConnType /\ d.session = conn.session /\ d.transport = conn.transport
      /\ d.listening = conn.listening /\ d.timers = conn.timers /\ d.timer = conn.timer
  BY <1>1 DEF ConnType
<1>3. u = [World EXCEPT !.conn = d, !.doing[a] = "done"] BY <1>1, WorldIs DEF Worlds
<1>4. Become(u) /\ UNCHANGED <<held, fate, load>> BY DEF TablesRead
<1>5. "done" \in Doings /\ "done" \notin Fresh /\ "tables" \notin Fresh BY DEF Doings, Fresh
<1> HIDE DEF d, u
<1>6. /\ u \in Worlds /\ u.ses = ses /\ u.conn = d /\ u.waits = waits
      /\ u.attempt = attempt
      /\ u.doing[a] = "done" /\ \A b \in Sessions \ {a} : u.doing[b] = doing[b]
  BY <1>1, <1>2, <1>3, <1>5, WorldIs DEF Worlds
<1>7. FreshOK(u)
  <2> SUFFICES ASSUME NEW b \in Sessions
               PROVE  /\ u.doing[b] \in Fresh => ses[b] = NewSession /\ \A v \in waits : v.on # b
                      /\ ses[b].at \in Starting => u.doing[b] = "starting"
    BY <1>6 DEF FreshOK
  <2>1. /\ doing[b] \in Fresh => ses[b] = NewSession /\ \A v \in waits : v.on # b
        /\ ses[b].at \in Starting => doing[b] = "starting"
    BY <1>1, WorldIs DEF WorldOK, FreshOK
  <2>2. CASE b = a BY <1>1, <1>5, <1>6, <2>1, <2>2
  <2>3. CASE b # a BY <1>6, <2>1, <2>3
  <2> QED BY <2>2, <2>3
<1>8. OrderOK(u)
  <2>1. \A b \in Sessions : u.doing[b] = "none" <=> doing[b] = "none" BY <1>1, <1>6
  <2> QED BY <1>1, <2>1, WorldIs DEF WorldOK, OrderOK
<1>9. WaitsOK(u) BY <1>1, <1>5, <1>6, WorldIs DEF WorldOK, WaitsOK
<1>10. ConnOK(u)
  <2>1. conn.session \in Sessions \union {None} /\ conn.transport \in Sessions \union {None}
    BY <1>1 DEF ConnType
  <2>2. ConnOK(World) BY <1>1 DEF WorldOK
  <2>3. \A b \in Sessions : /\ u.doing[b] \in {"none", "closing", "loading"}
                              => doing[b] \in {"none", "closing", "loading"}
                           /\ u.doing[b] \in Fresh <=> doing[b] \in Fresh
    BY <1>1, <1>5, <1>6
  <2> QED BY <1>2, <1>6, <2>1, <2>2, <2>3, WorldIs DEF ConnOK
<1>11. WorldOK(u) BY <1>1, <1>6, <1>7, <1>8, <1>9, <1>10, WorldIs DEF WorldOK
<1>12. Goes(World, u) BY <1>1, <1>5, <1>6, WorldIs DEF Goes
<1>13. (TimerOK(World) => TimerOK(u)) /\ Names(World, u) BY <1>2, <1>6, WorldIs DEF TimerOK, Names
<1>14. \A b \in Sessions : Fares(World.ses[b], u.ses[b]) BY <1>6, WorldIs DEF Fares
<1>15. Kept(World, u) BY <1>6, <1>11, <1>12, <1>13, <1>14 DEF Kept
<1> QED BY <1>1, <1>4, <1>15, CallKeeps

\* The link under a session that runs breaks.
LEMMA LossKept ==
  ASSUME IInv, NEW s \in Sessions, ses[s].link = "open", ses[s].running
  PROVE  LET y == Loss(ses[s])
             u == Sole(World, s, y) IN
         /\ Kept(World, u) /\ u \in Worlds /\ WorldOK(u)
         /\ Ends(ses[s], y) /\ ~y.running /\ y.at # "opening" /\ y.link = "lost"
         /\ u.ses[s] = y /\ \A b \in Sessions \ {s} : u.ses[b] = ses[b]
         /\ u.conn = conn /\ u.doing = doing /\ u.waits = waits /\ u.attempt = attempt
<1> DEFINE x == ses[s]
           y == Loss(x)
           u == Sole(World, s, y)
<1>1. /\ World \in Worlds /\ WorldOK(World) /\ x \in SessionType /\ SessionOK(x)
      /\ (x.at \in Starting => doing[s] = "starting")
  BY Known
<1>2. doing[s] \notin Fresh
  <2>1. x # NewSession BY DEF NewSession
  <2> QED BY <2>1, Known
<1>3. {"undoing", "selfInfo", "deviceInfo"} \subseteq Starting /\ "started" \notin Starting
  BY DEF Starting, Handshake
<1>4. /\ Ends(x, y) /\ ~y.running /\ y.link = "lost"
      /\ y.listens = x.listens \/ ~y.listens
  BY <1>1, LossOK
<1> HIDE DEF y
<1>5. y \in SessionType /\ SessionOK(y) /\ y.asked = <<>> /\ Fares(x, y) BY <1>4, EndsFares DEF Ends
<1>6. y.at \in Starting => doing[s] = "starting" BY <1>1, <1>3, <1>4 DEF Ends
<1>7. y.at # "opening"
  <2>1. x.at # "opening" BY <1>1 DEF SessionOK, Nearly, PhasesOK
  <2> QED BY <1>4, <2>1 DEF Ends
<1>8. y.listens => x.listens
  <2>1. x.listens \in BOOLEAN /\ y.listens \in BOOLEAN BY <1>1, <1>5 DEF SessionType
  <2> QED BY <1>4, <2>1
<1>9. Kept(World, u)
  BY <1>1, <1>2, <1>4, <1>5, <1>6, <1>7, <1>8, SoleKeeps, WorldIs
<1>10. /\ u.conn = World.conn /\ u.doing = World.doing /\ u.waits = World.waits
       /\ u.attempt = World.attempt
       /\ u.ses[s] = y /\ \A b \in Sessions \ {s} : u.ses[b] = World.ses[b]
  BY <1>1, <1>2, <1>4, <1>5, <1>6, <1>7, <1>8, SoleOK, WorldIs DEF Fares, Unstarted
<1> HIDE DEF u
<1> QED BY <1>4, <1>7, <1>9, <1>10, WorldIs DEF Kept, u, y

LEMMA LinkBreaksKeeps ==
  ASSUME IInv, NEW s \in Sessions, LinkBreaks(s) PROVE IInv' /\ Quieted
<1> DEFINE x == ses[s]
<1>1. /\ World \in Worlds /\ WorldOK(World) /\ load \in LoadType
      /\ x \in SessionType /\ SessionOK(x) /\ x.link = "open"
      /\ (x.at \in Starting => doing[s] = "starting")
  BY Known DEF LinkBreaks
<1>2. doing[s] \notin Fresh
  <2>1. x # NewSession BY <1>1 DEF NewSession
  <2> QED BY <2>1, Known
<1>3. load' \in LoadType /\ load'.messages = load.messages /\ UNCHANGED <<held, fate>>
  BY <1>1, Spent DEF LinkBreaks
<1>4. {"undoing", "selfInfo", "deviceInfo"} \subseteq Starting /\ "started" \notin Starting
  BY DEF Starting, Handshake
<1>5. CASE x.running
  <2> DEFINE y == Loss(x)
             u == Sole(World, s, y)
             w == IF x.up = "disconnected" \/ ~x.listens THEN u ELSE Says(u, s, TRUE)
  <2>1. Become(w)
    <3>1. [World EXCEPT !.ses[s] = Loss(@)] = u BY WorldIs DEF Sole
    <3> QED BY <1>5, <3>1 DEF LinkBreaks
  <2>7. Kept(World, u) BY <1>1, <1>5, LossKept
  <2> HIDE DEF u
  <2>8. u \in Worlds /\ WorldOK(u) BY <2>7 DEF Kept
  <2>9. Kept(u, w)
    <3>1. Kept(u, u) BY <2>8, KeptItself
    <3>2. Kept(u, Says(u, s, TRUE)) BY <2>8, SaysKeeps
    <3> QED BY <3>1, <3>2
  <2> HIDE DEF w
  <2>10. Kept(World, w) BY <1>1, <2>7, <2>9, KeptOn
  <2> QED BY <1>3, <2>1, <2>10, CallKeeps
<1>6. CASE ~x.running
  <2> DEFINE y == [x EXCEPT !.link = "lost"]
             u == Sole(World, s, y)
  <2>1. Become(u)
    <3>1. [World EXCEPT !.ses[s].link = "lost"] = u BY <1>1, WorldIs DEF Sole, Worlds
    <3> QED BY <1>6, <3>1 DEF LinkBreaks
  <2>2. /\ y \in SessionType /\ y.at = x.at /\ y.link = "lost" /\ y.listens = x.listens
        /\ y.running = x.running /\ y.jobs = x.jobs /\ y.asked = x.asked /\ y.on = x.on
        /\ y.wanted = x.wanted /\ y.pending = x.pending /\ y.backlog = x.backlog
        /\ y.slow = x.slow /\ y.hurried = x.hurried /\ y.refused = x.refused
    BY <1>1 DEF SessionType
  <2>3. ~x.listens /\ x.at # "opening" BY <1>1, <1>6 DEF SessionOK, Nearly, PhasesOK, LinkOK
  <2>4. Nearly(x) /\ (x.at = "drain" => x.on) BY <1>1 DEF SessionOK
  <2> HIDE DEF y, x
  <2>5. QueueOK(y) BY <2>2, <2>4 DEF Nearly, QueueOK
  <2>6. /\ HasMessage(y) => HasMessage(x)
        /\ HasMessage(x) => HasMessage(y)
    BY <2>2 DEF HasMessage
  <2>7. DrainOK(y) BY <2>2, <2>3, <2>4, <2>6 DEF Nearly, DrainOK, Live
  <2>8. PhasesOK(y) BY <2>2, <2>3, <2>4 DEF Nearly, PhasesOK
  <2>9. SessionOK(y) BY <2>2, <2>3, <2>4, <2>5, <2>7, <2>8 DEF SessionOK, Nearly, LinkOK, AskedOK, Live
  <2>10. Fares(x, y) BY <2>2, <2>3 DEF Fares, Live
  <2>11. s = conn.session => x.asked = <<>>
    <3>1. ConnOK(World) BY <1>1 DEF WorldOK
    <3> QED BY <2>3, <3>1, NoneIsNone, WorldIs DEF ConnOK, x
  <2>12. Kept(World, u)
    <3>1. World.ses[s] = x /\ World.conn = conn /\ World.doing = doing BY WorldIs DEF x
    <3> QED BY <1>1, <1>2, <1>6, <2>2, <2>3, <2>9, <2>10, <2>11, <3>1, SoleKeeps
  <2> HIDE DEF u
  <2> QED BY <1>3, <2>1, <2>12, CallKeeps
<1> QED BY <1>5, <1>6

\* startEventMonitoring() returns: of a radio, the session begins to open.
Monitored(a) ==
  /\ waits' = waits /\ attempt' = attempt
  /\ \A b \in Sessions \ {a} : doing'[b] = doing[b] /\ ses'[b] = ses[b]
  /\ conn'.session = conn.session /\ conn'.kind = conn.kind /\ conn'.user = conn.user
  /\ conn'.transport = conn.transport /\ conn'.listening = conn.transport
  /\ \/ /\ attempt[a].kind = Radio /\ doing'[a] = "starting" /\ conn'.state = conn.state
        /\ conn'.hearing = conn.hearing \union {a} /\ conn'.handle = a
        /\ ses'[a].at = "opening" /\ ~ses'[a].running
     \/ /\ attempt[a].kind # Radio /\ doing'[a] = "tables" /\ conn'.state = "connected"
        /\ conn'.hearing = conn.hearing /\ conn'.handle = conn.handle /\ ses'[a] = ses[a]

LEMMA MonitoringKeeps ==
  ASSUME IInv, NEW a \in Sessions, MonitoringStarts(a) PROVE IInv' /\ Quieted /\ Monitored(a)
<1> DEFINE heard == [World EXCEPT !.conn.listening = conn.transport]
           d == [conn EXCEPT !.listening = conn.transport]
           e == [d EXCEPT !.hearing = @ \union {a}, !.handle = a]
           y == [NewSession EXCEPT !.link = "opening", !.up = "connecting", !.at = "opening",
                                   !.listens = TRUE]
           w == [heard EXCEPT !.conn.hearing = @ \union {a}, !.conn.handle = a,
                              !.doing[a] = "starting",
                              !.ses[a].link = "opening", !.ses[a].up = "connecting",
                              !.ses[a].at = "opening", !.ses[a].listens = TRUE]
<1>1. /\ World \in Worlds /\ WorldOK(World) /\ TimerOK(World) /\ load \in LoadType
      /\ conn \in ConnType /\ ses \in [Sessions -> SessionType] /\ doing[a] = "monitoring"
      /\ doing \in [Sessions -> Doings]
  BY Known DEF MonitoringStarts
<1>2. /\ d \in ConnType /\ d.session = conn.session /\ d.transport = conn.transport
      /\ d.listening = conn.transport /\ d.timers = conn.timers /\ d.timer = conn.timer
      /\ d.hearing = conn.hearing /\ d.handle = conn.handle /\ d.state = conn.state
      /\ d.kind = conn.kind /\ d.user = conn.user
  BY <1>1 DEF ConnType
<1>3. heard = [World EXCEPT !.conn = d] BY <1>1, WorldIs DEF Worlds
<1>4. UNCHANGED <<held, fate, load>> BY DEF MonitoringStarts
<1>5. \/ attempt[a].kind = Radio /\ Become(w)
      \/ attempt[a].kind # Radio /\ Become(Started(heard, a))
  BY DEF MonitoringStarts
<1>6. /\ {"starting"} \subseteq Doings /\ "starting" \notin Fresh /\ "monitoring" \in Fresh
      /\ "opening" \in Starting /\ "idle" \notin Starting
  BY DEF Doings, Fresh, Starting, Handshake
<1>7. ses[a] = NewSession /\ \A v \in waits : v.on # a
  BY <1>1, <1>6, WorldIs DEF WorldOK, FreshOK
<1> HIDE DEF d
<1>8. /\ heard \in Worlds /\ heard.ses = ses /\ heard.conn = d /\ heard.waits = waits
      /\ heard.doing = doing /\ heard.attempt = attempt
  BY <1>1, <1>2, <1>3, WorldIs DEF Worlds
<1> HIDE DEF heard
<1>9. ConnOK(World) BY <1>1 DEF WorldOK
<1>10. Kept(World, heard)
  <2>1. FreshOK(heard) BY <1>1, <1>8, WorldIs DEF WorldOK, FreshOK
  <2>2. OrderOK(heard) BY <1>1, <1>8, WorldIs DEF WorldOK, OrderOK
  <2>3. WaitsOK(heard) BY <1>1, <1>8, WorldIs DEF WorldOK, WaitsOK
  <2>4. ConnOK(heard) BY <1>2, <1>8, <1>9, WorldIs DEF ConnOK
  <2>5. WorldOK(heard) BY <1>1, <1>8, <2>1, <2>2, <2>3, <2>4, WorldIs DEF WorldOK
  <2> QED BY <1>2, <1>8, <2>5, WorldIs DEF Kept, Fares, Goes, Names, TimerOK
<1>11. CASE attempt[a].kind # Radio /\ Become(Started(heard, a))
  <2>1. WorldOK(heard) BY <1>10 DEF Kept
  <2>2. heard.ses[a].at \notin Starting BY <1>6, <1>7, <1>8 DEF NewSession
  <2>3. heard.conn.transport = a => heard.conn.listening = a BY <1>2, <1>8
  <2>4. Kept(heard, Started(heard, a)) BY <1>1, <1>8, <2>1, <2>2, <2>3, StartedOK
  <2> DEFINE u == Started(heard, a)
  <2> HIDE DEF u
  <2>5. Kept(heard, u) /\ Become(u) BY <1>11, <2>4 DEF u
  <2>6. Kept(World, u) BY <1>1, <1>10, <2>5, KeptOn
  <2>7. /\ u \in Worlds /\ u.ses = ses /\ u.waits = waits /\ u.attempt = attempt
        /\ u.doing[a] = "tables" /\ \A b \in Sessions \ {a} : u.doing[b] = doing[b]
        /\ u.conn.state = "connected" /\ u.conn.kind = conn.kind /\ u.conn.user = conn.user
        /\ u.conn.session = conn.session /\ u.conn.hearing = conn.hearing
        /\ u.conn.handle = conn.handle
        /\ u.conn.transport = conn.transport /\ u.conn.listening = conn.transport
    BY <1>2, <1>8, StartedIs DEF u
  <2>8. Monitored(a)
    <3>1. /\ ses' = u.ses /\ conn' = u.conn /\ doing' = u.doing /\ waits' = u.waits
          /\ attempt' = u.attempt
      BY <2>5 DEF Become
    <3> QED BY <1>11, <2>7, <3>1 DEF Monitored
  <2> QED BY <1>1, <1>4, <2>5, <2>6, <2>8, CallKeeps
<1>12. CASE attempt[a].kind = Radio /\ Become(w)
  <2>1. /\ e \in ConnType /\ e.session = d.session /\ e.transport = d.transport
        /\ e.listening = d.listening /\ e.timers = d.timers /\ e.timer = d.timer
        /\ e.state = d.state /\ e.kind = d.kind /\ e.user = d.user /\ e.handle = a
        /\ e.hearing = d.hearing \union {a}
    BY <1>2 DEF ConnType
  <2>2. NewSession \in SessionType BY <1>1, <1>7
  <2>3. /\ y \in SessionType /\ y.at = "opening" /\ y.link = "opening" /\ y.listens = TRUE
        /\ y.running = FALSE /\ y.jobs = <<>> /\ y.asked = <<>> /\ y.on = FALSE
        /\ y.wanted = FALSE /\ y.pending = FALSE /\ y.backlog = FALSE
        /\ y.slow = FALSE /\ y.hurried = FALSE /\ y.refused = FALSE
    BY <2>2 DEF NewSession, SessionType, Phases
  <2>4. /\ w \in Worlds /\ w.conn = e /\ w.waits = waits /\ w.attempt = attempt
        /\ w.doing[a] = "starting" /\ \A b \in Sessions \ {a} : w.doing[b] = doing[b]
        /\ w.ses[a] = y /\ \A b \in Sessions \ {a} : w.ses[b] = ses[b]
    <3> DEFINE h == [heard EXCEPT !.conn.hearing = @ \union {a}, !.conn.handle = a,
                                  !.doing[a] = "starting"]
    <3>1. h = [heard EXCEPT !.conn = e, !.doing[a] = "starting"] BY <1>2, <1>8 DEF Worlds, ConnType
    <3> HIDE DEF e, h
    <3>2. /\ h \in Worlds /\ h.conn = e /\ h.waits = waits /\ h.attempt = attempt /\ h.ses = ses
          /\ h.doing[a] = "starting" /\ \A b \in Sessions \ {a} : h.doing[b] = doing[b]
      BY <1>6, <1>8, <2>1, <3>1 DEF Worlds
    <3> DEFINE y1 == [NewSession EXCEPT !.link = "opening"]
               y2 == [y1 EXCEPT !.up = "connecting"]
               y3 == [y2 EXCEPT !.at = "opening"]
               z1 == [h EXCEPT !.ses[a].link = "opening"]
               z2 == [z1 EXCEPT !.ses[a].up = "connecting"]
               z3 == [z2 EXCEPT !.ses[a].at = "opening"]
               z4 == [z3 EXCEPT !.ses[a].listens = TRUE]
    <3>3. y1 \in SessionType BY <2>2 DEF SessionType
    <3>4. y2 \in SessionType BY <3>3 DEF SessionType
    <3>5. y3 \in SessionType BY <3>4 DEF SessionType, Phases
    <3>6. y = [y3 EXCEPT !.listens = TRUE] /\ y \in SessionType BY <2>3
    <3> HIDE DEF y, y1, y2, y3
    <3>7. /\ z1 \in Worlds /\ z1.conn = h.conn /\ z1.waits = h.waits /\ z1.attempt = h.attempt
          /\ z1.doing = h.doing /\ z1.ses[a] = y1 /\ \A b \in Sessions \ {a} : z1.ses[b] = h.ses[b]
      BY <1>7, <3>2, <3>3 DEF Worlds, y1
    <3> HIDE DEF z1
    <3>8. /\ z2 \in Worlds /\ z2.conn = h.conn /\ z2.waits = h.waits /\ z2.attempt = h.attempt
          /\ z2.doing = h.doing /\ z2.ses[a] = y2 /\ \A b \in Sessions \ {a} : z2.ses[b] = h.ses[b]
      BY <3>4, <3>7 DEF Worlds, y2
    <3> HIDE DEF z2
    <3>9. /\ z3 \in Worlds /\ z3.conn = h.conn /\ z3.waits = h.waits /\ z3.attempt = h.attempt
          /\ z3.doing = h.doing /\ z3.ses[a] = y3 /\ \A b \in Sessions \ {a} : z3.ses[b] = h.ses[b]
      BY <3>5, <3>8 DEF Worlds, y3
    <3> HIDE DEF z3
    <3>10. /\ z4 \in Worlds /\ z4.conn = h.conn /\ z4.waits = h.waits /\ z4.attempt = h.attempt
           /\ z4.doing = h.doing /\ z4.ses[a] = y /\ \A b \in Sessions \ {a} : z4.ses[b] = h.ses[b]
      BY <3>6, <3>9 DEF Worlds
    <3>11. w = z4 BY DEF z1, z2, z3, h
    <3> QED BY ZenonT(40), <3>2, <3>10, <3>11
  <2>5. Become(w) BY <1>12
  <2> HIDE DEF e, y, w
  <2>7. SessionOK(y)
    <3>1. ~HasMessage(y) /\ QueueOK(y) BY <2>3 DEF HasMessage, QueueOK
    <3> QED BY <2>3, <3>1 DEF SessionOK, Nearly, PhasesOK, LinkOK, AskedOK, DrainOK, Live
  <2>8. \A b \in Sessions : SessionOK(w.ses[b]) BY <1>1, <2>4, <2>7, WorldIs DEF WorldOK
  <2>9. FreshOK(w)
    <3> SUFFICES ASSUME NEW b \in Sessions
                 PROVE  /\ w.doing[b] \in Fresh => w.ses[b] = NewSession /\ \A v \in waits : v.on # b
                        /\ w.ses[b].at \in Starting => w.doing[b] = "starting"
      BY <2>4 DEF FreshOK
    <3>1. /\ doing[b] \in Fresh => ses[b] = NewSession /\ \A v \in waits : v.on # b
          /\ ses[b].at \in Starting => doing[b] = "starting"
      BY <1>1, WorldIs DEF WorldOK, FreshOK
    <3>2. CASE b = a BY <1>6, <2>4, <3>2
    <3>3. CASE b # a BY <2>4, <3>1, <3>3
    <3> QED BY <3>2, <3>3
  <2>10. OrderOK(w)
    <3>1. \A b \in Sessions : w.doing[b] = "none" <=> doing[b] = "none" BY <1>1, <2>4
    <3> QED BY <1>1, <3>1, WorldIs DEF WorldOK, OrderOK
  <2>11. WaitsOK(w)
    <3> SUFFICES ASSUME NEW v \in waits
                 PROVE  /\ ~w.ses[v.on].listens
                        /\ v.op \in {"connect", "failed"} => v.of \in Sessions
                        /\ v.op = "connect" => w.doing[v.of] = "closing"
                        /\ v.op = "failed" => w.doing[v.of] \notin Fresh /\ w.ses[v.of].at \in Unstarted
                        /\ \A z \in waits : z.op = "connect" /\ v.op = "connect" /\ z.of = v.of => z = v
      BY <2>4 DEF WaitsOK
    <3>1. v.on \in Sessions \ {a} BY <1>1, <1>7, Known DEF Waiting
    <3>2. /\ ~ses[v.on].listens
          /\ v.op \in {"connect", "failed"} => v.of \in Sessions
          /\ v.op = "connect" => doing[v.of] = "closing"
          /\ v.op = "failed" => doing[v.of] \notin Fresh /\ ses[v.of].at \in Unstarted
          /\ \A z \in waits : z.op = "connect" /\ v.op = "connect" /\ z.of = v.of => z = v
      BY <1>1, WorldIs DEF WorldOK, WaitsOK
    <3>3. v.op \in {"connect", "failed"} => v.of # a BY <1>1, <1>6, <3>2
    <3> QED BY <2>4, <3>1, <3>2, <3>3
  <2>12. ConnOK(w)
    <3>1. conn.session \in Sessions \union {None} /\ conn.transport \in Sessions \union {None}
      BY <1>1 DEF ConnType
    <3>2. \A b \in Sessions : w.doing[b] \in {"none", "closing", "loading"}
                              => doing[b] \in {"none", "closing", "loading"}
      BY <2>4
    <3>3. w.conn.listening = conn.transport /\ w.conn.transport = conn.transport
          /\ w.conn.session = conn.session
      BY <1>2, <2>1, <2>4
    <3>4. \A b \in Sessions : b = a \/ w.ses[b] = ses[b] BY <2>4
    <3> QED BY <1>9, <2>3, <2>4, <3>1, <3>2, <3>3, <3>4, WorldIs DEF ConnOK
  <2>13. WorldOK(w) BY <2>8, <2>9, <2>10, <2>11, <2>12 DEF WorldOK
  <2>14. TimerOK(w) /\ Names(World, w) BY <1>1, <1>2, <2>1, <2>4, WorldIs DEF TimerOK, Names
  <2>15. Goes(World, w) BY <1>6, <2>4, WorldIs DEF Goes
  <2>16. World' = w /\ ses' = w.ses BY <2>5, <2>4, Became
  <2>17. \A b \in Sessions : After(ses[b], ses'[b])
    <3>1. After(ses[a], y) BY <1>7, <2>3 DEF After, Clean, NewSession
    <3> QED BY <2>4, <2>16, <3>1 DEF After
  <2>18. HeldOK'
    <3> SUFFICES ASSUME NEW b \in Sessions
                 PROVE  Left(ses'[b], held' # <<>>) /\ Missed(ses'[b], AwayHeld')
      BY DEF HeldOK
    <3>1. Left(ses[b], held # <<>>) /\ Missed(ses[b], AwayHeld) BY DEF IInv, HeldOK
    <3>2. held' = held /\ (AwayHeld' => AwayHeld) BY <1>4 DEF AwayHeld
    <3>3. CASE b = a BY <2>3, <2>4, <2>16, <3>3 DEF Left, Missed, Live
    <3>4. CASE b # a BY <2>4, <2>16, <3>1, <3>2, <3>4 DEF Left, Missed
    <3> QED BY <3>3, <3>4
  <2>19. held' \in Seq(Messages) /\ fate' \in [Messages -> FateType] /\ fate' = fate /\ Apart'
    BY <1>4 DEF IInv, Types, FateOK, Apart
  <2>20. Quieted BY <2>3, <2>4, <2>16 DEF Quieted, Live
  <2>21. Monitored(a)
    <3>1. conn' = e /\ doing' = w.doing /\ waits' = waits /\ attempt' = attempt
      BY <2>4, <2>5, Became
    <3>2. ses'[a].at = "opening" /\ ~ses'[a].running /\ \A b \in Sessions \ {a} : ses'[b] = ses[b]
      BY <2>3, <2>4, <2>16
    <3> QED BY <1>2, <1>12, <2>1, <2>4, <3>1, <3>2 DEF Monitored
  <2> QED BY <1>1, <1>4, <2>4, <2>13, <2>14, <2>15, <2>16, <2>17, <2>18, <2>19, <2>20, <2>21, Keeps
<1> QED BY <1>5, <1>11, <1>12
-----------------------------------------------------------------------------
(* The frames and the commands of one session. *)

\* Where a session's step may leave it.
StepPre(s, z) ==
  /\ z \in SessionType /\ SessionOK(z) /\ After(ses[s], z)
  /\ doing[s] \notin Fresh /\ (ses[s].at = "idle" => z.at = "idle")
  /\ z.at \in Starting => doing[s] = "starting"
  /\ z.listens => ses[s].listens
  /\ s = conn.session => z.listens \/ (~z.running /\ z.asked = <<>> /\ z.at # "opening")

LEMMA StepGoes ==
  ASSUME IInv, NEW s \in Sessions, NEW z, StepPre(s, z),
         NEW w, w = Sole(World, s, z) \/ w = Step(World, s, z)
  PROVE  /\ w \in Worlds /\ WorldOK(w) /\ TimerOK(w) /\ Goes(World, w) /\ Names(World, w)
         /\ w.conn.session = conn.session
         /\ w.ses[s] = z /\ \A b \in Sessions \ {s} : w.ses[b] = ses[b]
         /\ \A b \in Sessions : After(ses[b], w.ses[b])
<1> DEFINE u == Sole(World, s, z)
<1>1. World \in Worlds /\ WorldOK(World) /\ TimerOK(World) BY Known
<1>2. ses[s].at \in Unstarted => z.at = ses[s].at BY DEF StepPre, After, Unstarted
<1>3. /\ u \in Worlds /\ WorldOK(u) /\ TimerOK(u) /\ Goes(World, u) /\ Names(World, u)
      /\ u.conn = conn /\ u.doing = doing
      /\ u.ses[s] = z /\ \A b \in Sessions \ {s} : u.ses[b] = ses[b]
  BY <1>1, <1>2, SoleOK, WorldIs DEF StepPre
<1>4. w = u \/ (doing[s] = "starting" /\ z.at = "started" /\ w = Started(u, s)) BY DEF Step, Sole
<1> HIDE DEF u
<1>5. \A b \in Sessions : After(ses[b], u.ses[b]) BY <1>3 DEF StepPre, After
<1>6. CASE w = u BY <1>3, <1>5, <1>6
<1>7. CASE doing[s] = "starting" /\ z.at = "started" /\ w = Started(u, s)
  <2>1. "started" \notin Starting /\ "starting" \notin Fresh BY DEF Fresh, Starting, Handshake
  <2>2. u.conn.transport = s => u.conn.listening = s BY <1>3, <1>7, <2>1, ListensTo
  <2>3. Kept(u, w) /\ w.ses = u.ses /\ w.conn.session = u.conn.session
    BY <1>3, <1>7, <2>1, <2>2, StartedOK
  <2>4. w \in Worlds /\ WorldOK(w) /\ TimerOK(w) /\ Goes(u, w) /\ Names(u, w) BY <1>3, <2>3 DEF Kept
  <2>5. Goes(World, w) BY <1>3, <2>4 DEF Goes
  <2>6. Names(World, w) BY <1>3, <2>3, WorldIs DEF Names
  <2> QED BY <1>3, <1>5, <2>3, <2>4, <2>5, <2>6
<1> QED BY <1>4, <1>6, <1>7

LEMMA StepKeeps ==
  ASSUME IInv, NEW s \in Sessions, NEW z, StepPre(s, z),
         NEW w, w = Sole(World, s, z) \/ w = Step(World, s, z), Become(w),
         held' \in Seq(Messages), fate' \in [Messages -> FateType], load' \in LoadType,
         Left(z, held' # <<>>), Missed(z, AwayHeld'),
         \A b \in Sessions \ {s} : Left(ses[b], held' # <<>>) /\ Missed(ses[b], AwayHeld'),
         Apart', \A m \in load'.messages : m \in load.messages /\ fate'[m] = fate[m],
         \A m \in Messages : fate'[m] = fate[m] \/ ToldIn(fate'[m], w)
  PROVE  IInv'
<1>1. /\ w \in Worlds /\ WorldOK(w) /\ TimerOK(w) /\ Goes(World, w) /\ Names(World, w)
      /\ w.ses[s] = z /\ \A b \in Sessions \ {s} : w.ses[b] = ses[b]
      /\ \A b \in Sessions : After(ses[b], w.ses[b])
  BY StepGoes
<1>2. World' = w /\ ses' = w.ses BY <1>1, Became
<1>3. HeldOK' BY <1>1, <1>2 DEF HeldOK
<1> QED BY <1>1, <1>2, <1>3, Keeps

\* A step that leaves the messages alone, and the drain.
LEMMA QuietStepKeeps ==
  ASSUME IInv, NEW s \in Sessions, NEW z, StepPre(s, z),
         NEW w, w = Sole(World, s, z) \/ w = Step(World, s, z), Become(w),
         UNCHANGED <<held, fate>>, load' \in LoadType, load'.messages = load.messages,
         Left(z, held # <<>>), Missed(z, AwayHeld)
  PROVE  IInv'
<1>1. held' = held /\ fate' = fate /\ (AwayHeld' => AwayHeld) BY DEF AwayHeld
<1>2. held' \in Seq(Messages) /\ fate' \in [Messages -> FateType] /\ Apart'
  BY <1>1 DEF IInv, Types, FateOK, Apart
<1>3. Left(z, held' # <<>>) /\ Missed(z, AwayHeld') BY <1>1 DEF Left, Missed
<1>4. \A b \in Sessions \ {s} : Left(ses[b], held' # <<>>) /\ Missed(ses[b], AwayHeld')
  BY <1>1 DEF IInv, HeldOK, Left, Missed
<1> QED BY <1>1, <1>2, <1>3, <1>4, StepKeeps

LEMMA OpensKeeps ==
  ASSUME IInv, NEW a \in Sessions, Opens(a) PROVE IInv'
<1> DEFINE x == ses[a]
           z == Opened(x)
           w == [World EXCEPT !.ses[a] = Opened(@)]
<1>1. /\ x \in SessionType /\ SessionOK(x) /\ x.at = "opening" /\ ConnOK(World) /\ load \in LoadType
  BY Known DEF Opens, WorldOK
<1>2. doing[a] = "starting"
  <2>1. "opening" \in Starting BY DEF Starting
  <2> QED BY <1>1, <2>1, Known
<1>3. w = Sole(World, a, z) BY WorldIs DEF Sole
<1>4. Become(w) /\ UNCHANGED <<held, fate, load>> BY DEF Opens
<1> HIDE DEF w
<1>5. /\ z \in SessionType /\ SessionOK(z)
      /\ z.at = "selfInfo" /\ z.running /\ z.listens = x.listens
      /\ z.slow = x.slow /\ z.hurried = x.hurried /\ z.refused = x.refused
  BY <1>1, OpenedOK
<1> HIDE DEF z
<1>6. a = conn.session => x.listens
  BY <1>1, NoneIsNone, WorldIs DEF ConnOK
<1>7. StepPre(a, z)
  <2>1. "starting" \notin Fresh BY DEF Fresh
  <2> QED BY <1>1, <1>2, <1>5, <1>6, <2>1 DEF StepPre, After, Clean
<1>8. Left(z, held # <<>>) /\ Missed(z, AwayHeld) BY <1>5 DEF Left, Missed, Up
<1> QED BY <1>1, <1>3, <1>4, <1>7, <1>8, QuietStepKeeps

LEMMA CommandKeeps ==
  ASSUME IInv, NEW s \in Sessions, Command(s) PROVE IInv'
<1> DEFINE x == ses[s]
           z == Enqueue(x, "command")
           w == [World EXCEPT !.ses[s] = Enqueue(@, "command")]
<1>1. /\ x \in SessionType /\ SessionOK(x) /\ x.running /\ conn.session = s /\ ConnOK(World)
      /\ load \in LoadType /\ (x.at \in Starting => doing[s] = "starting")
  BY Known DEF Command, WorldOK
<1>2. doing[s] \notin Fresh
  <2>1. x # NewSession BY <1>1 DEF NewSession
  <2> QED BY <2>1, Known
<1>3. w = Sole(World, s, z) BY WorldIs DEF Sole
<1>4. Become(w) /\ UNCHANGED <<held, fate>> BY DEF Command
<1>5. load' \in LoadType /\ load'.messages = load.messages BY <1>1, Spent DEF Command
<1> HIDE DEF w
<1>6. "command" \in Commands /\ "command" \notin Handshake BY DEF Commands, Handshake
<1>7. /\ z.link = x.link /\ z.running = x.running /\ z.listens = x.listens /\ z.up = x.up
      /\ z.at = x.at /\ z.on = x.on /\ z.wanted = x.wanted /\ z.pending = x.pending
      /\ z.backlog = x.backlog /\ z.slow = x.slow /\ z.hurried = x.hurried /\ z.refused = x.refused
      /\ z \in SessionType
  BY <1>1, <1>6, EnqueueIs, EnqueueType
<1>8. Nearly(x) /\ (x.at = "drain" => x.on) BY <1>1 DEF SessionOK
<1>9. /\ QueueOK(z) /\ AskedOK(z)
      /\ HasMessage(z) => HasMessage(x)
      /\ HasMessage(x) => HasMessage(z)
  BY <1>1, <1>6, <1>8, EnqueueOK DEF Nearly, AskedOK
<1> HIDE DEF x, z
<1>10. PhasesOK(z) /\ LinkOK(z) BY <1>1, <1>7, <1>8 DEF Nearly, PhasesOK, LinkOK
<1>11. DrainOK(z) BY <1>7, <1>8, <1>9 DEF Nearly, DrainOK, Live, Clean
<1>12. SessionOK(z) BY <1>7, <1>8, <1>9, <1>10, <1>11 DEF SessionOK, Nearly
<1>13. x.listens
  <2>1. World.ses[s] = x /\ World.conn.session = s BY <1>1, WorldIs DEF x
  <2> QED BY <1>1, <2>1, NoneIsNone DEF ConnOK
<1>14. StepPre(s, z)
  <2>1. ses[s] = x BY DEF x
  <2> QED BY <1>1, <1>2, <1>7, <1>12, <1>13, <2>1 DEF StepPre, After, Clean
<1>15. Left(z, held # <<>>) /\ Missed(z, AwayHeld)
  <2>1. Left(x, held # <<>>) /\ Missed(x, AwayHeld) BY DEF x, IInv, HeldOK
  <2> QED BY <1>7, <2>1 DEF Left, Missed, Live, Clean
<1> QED BY <1>3, <1>4, <1>5, <1>14, <1>15, QuietStepKeeps

\* The conditions on a step, from what settling a command gives.
LEMMA SettledGoes ==
  ASSUME IInv, NEW s \in Sessions, ses[s].jobs # <<>>,
         NEW y \in SessionType, SessionOK(y), y.jobs = ses[s].jobs, y.at = ses[s].at,
         y.listens = ses[s].listens, y.running = ses[s].running,
         Clean(y) => Clean(ses[s]),
         Live(y) /\ Clean(y) => y.asked = <<>>,
         NEW ok \in BOOLEAN, NEW more \in BOOLEAN
  PROVE  StepPre(s, Settled(y, ok, more))
<1> DEFINE x == ses[s]
           z == Settled(y, ok, more)
           k == Head(y.jobs)
<1>1. /\ x \in SessionType /\ SessionOK(x) /\ ConnOK(World)
      /\ (x.at \in Starting => doing[s] = "starting")
  BY Known DEF WorldOK
<1>2. doing[s] \notin Fresh
  <2>1. x # NewSession BY DEF NewSession
  <2> QED BY <2>1, Known
<1>3. /\ SessionOK(z) /\ y.running
      /\ z.slow = y.slow /\ z.hurried = y.hurried /\ z.refused = y.refused
      /\ z.at = "undoing" \/ (z.running = y.running /\ z.listens = y.listens)
      /\ k \in Handshake => y.at = k /\ z.at \in {"undoing", "deviceInfo", "clock", "drain"}
      /\ k \notin Handshake => z.at = y.at \/ (y.at = "drain" /\ z.at = "started")
  BY SettledOK
<1>4. z \in SessionType BY SessionTypes
<1> HIDE DEF x, z, k
<1>5. y.at \in Handshake \union Up
  BY <1>3 DEF SessionOK, Nearly, PhasesOK
<1>6. After(x, z)
  <2>1. "started" \notin Handshake /\ "failed" \notin Handshake BY DEF Handshake
  <2>2. x.at \in {"started", "failed"} => z.at = x.at
    <3>1. x.at = "failed" => FALSE BY <1>5, <2>1 DEF x, Up
    <3> QED BY <1>3, <2>1, <3>1 DEF x
  <2> QED BY <1>3, <2>2 DEF After, Clean, x
<1>7. z.at \in Starting => doing[s] = "starting"
  <2>1. Handshake \subseteq Starting /\ "drain" \in Starting /\ "started" \notin Starting
    BY DEF Starting, Handshake
  <2> QED BY <1>1, <1>3, <2>1 DEF x
<1>8. z.at = "undoing" => ~z.running /\ ~z.listens /\ z.asked = <<>>
  BY <1>3 DEF SessionOK, Nearly, PhasesOK
<1>9. s = conn.session => z.listens \/ (~z.running /\ z.asked = <<>> /\ z.at # "opening")
  <2> SUFFICES ASSUME s = conn.session
               PROVE  z.listens \/ (~z.running /\ z.asked = <<>> /\ z.at # "opening")
    OBVIOUS
  <2>1. World.ses[s] = x /\ World.conn.session = s BY WorldIs DEF x
  <2>2. x.listens BY <1>1, <1>3, <2>1, NoneIsNone DEF ConnOK, x
  <2> QED BY <1>3, <1>8, <2>2 DEF x
<1>10. z.listens => x.listens BY <1>3, <1>8 DEF x
<1>11. x.at # "idle" BY <1>5 DEF x, Handshake, Up
<1> QED BY <1>2, <1>3, <1>4, <1>6, <1>7, <1>9, <1>10, <1>11 DEF StepPre, x, z

LEMMA TimesOutKeeps ==
  ASSUME IInv, NEW s \in Sessions, NEW later \in BOOLEAN, TimesOut(s, later) PROVE IInv'
<1> DEFINE x == ses[s]
           asked == IF later \/ x.asked = <<>> THEN x.asked ELSE SubSeq(x.asked, 1, Len(x.asked) - 1)
           y == [x EXCEPT !.slow = TRUE, !.asked = asked]
           z == Settled(y, FALSE, FALSE)
           w == Step(World, s, z)
<1>1. x \in SessionType /\ SessionOK(x) /\ x.jobs # <<>> /\ load \in LoadType
  BY Known DEF TimesOut
<1>2. asked \in Seq(Commands)
  <2>1. x.asked \in Seq(Commands) BY <1>1 DEF SessionType
  <2>2. x.asked # <<>> => SubSeq(x.asked, 1, Len(x.asked) - 1) \in Seq(Commands) BY <2>1
  <2> QED BY <2>1, <2>2
<1>3. Become(w) /\ UNCHANGED <<held, fate>>
  <2>1. y = [x EXCEPT !.slow = TRUE, !.asked = IF later \/ @ = <<>> THEN @ ELSE SubSeq(@, 1, Len(@) - 1)]
    BY <1>1 DEF SessionType
  <2> HIDE DEF y
  <2> QED BY <2>1 DEF TimesOut
<1>4. load' \in LoadType /\ load'.messages = load.messages
  <2>1. \/ load' = [load EXCEPT !.timeouts = @]
        \/ load.timeouts > 0 /\ load' = [load EXCEPT !.timeouts = @ - 1]
    BY DEF TimesOut
  <2> QED BY <1>1, <2>1, Spent
<1> HIDE DEF asked
<1>5. /\ y \in SessionType /\ y.at = x.at /\ y.link = x.link /\ y.listens = x.listens
      /\ y.running = x.running /\ y.jobs = x.jobs /\ y.on = x.on
      /\ y.wanted = x.wanted /\ y.pending = x.pending /\ y.backlog = x.backlog
      /\ y.slow = TRUE /\ y.hurried = x.hurried /\ y.refused = x.refused /\ y.asked = asked
  BY <1>1, <1>2 DEF SessionType
<1> HIDE DEF x, y
<1>6. Nearly(x) /\ (x.at = "drain" => x.on) BY <1>1 DEF SessionOK
<1>7. SessionOK(y)
  <2>1. QueueOK(y) BY <1>5, <1>6 DEF Nearly, QueueOK
  <2>2. /\ HasMessage(y) => HasMessage(x)
        /\ HasMessage(x) => HasMessage(y)
    BY <1>5 DEF HasMessage
  <2>3. DrainOK(y) BY <1>5, <1>6, <2>2 DEF Nearly, DrainOK, Live, Clean
  <2>4. PhasesOK(y) BY <1>1, <1>5, <1>6 DEF Nearly, PhasesOK, QueueOK
  <2> QED BY <1>5, <1>6, <2>1, <2>3, <2>4 DEF SessionOK, Nearly, LinkOK, AskedOK, Clean
<1>8. ~Clean(y) BY <1>5 DEF Clean
<1>9. StepPre(s, z) BY <1>1, <1>5, <1>7, <1>8, SettledGoes DEF x
<1>10. Left(z, held # <<>>) /\ Missed(z, AwayHeld)
  <2>1. z.slow = TRUE BY <1>1, <1>5, <1>7, <1>8, SettledOK
  <2> HIDE DEF z
  <2> QED BY <2>1 DEF Left, Missed, Clean
<1> HIDE DEF z
<1> QED BY <1>3, <1>4, <1>9, <1>10, QuietStepKeeps

\* The frame of a message, as it leaves the radio.
LEMMA Read ==
  ASSUME held \in Seq(Messages), held # <<>>, held' = Tail(held)
  PROVE  /\ Head(held) \in Messages /\ held' \in Seq(Messages)
         /\ Head(held) = held[1] /\ 1 \in 1 .. Len(held)
         /\ \A i \in 1 .. Len(held') : held'[i] = held[i + 1] /\ i + 1 \in 1 .. Len(held)
OBVIOUS

\* The answer to the oldest command is off the radio's hands.
Replied(x, refused) == [x EXCEPT !.asked = Tail(@), !.refused = refused]

OneLess(x, y, refused) ==
  /\ y \in SessionType /\ SessionOK(y)
  /\ y.at = x.at /\ y.link = x.link /\ y.listens = x.listens
  /\ y.running = x.running /\ y.jobs = x.jobs /\ y.on = x.on
  /\ y.wanted = x.wanted /\ y.pending = x.pending /\ y.backlog = x.backlog
  /\ y.slow = x.slow /\ y.hurried = x.hurried /\ y.refused = refused
  /\ Clean(y) => Clean(x)
  /\ Live(y) /\ Clean(y) => y.asked = <<>>

LEMMA RepliedOK ==
  ASSUME NEW x \in SessionType, SessionOK(x), x.asked # <<>>, NEW refused \in BOOLEAN,
         x.refused => refused
  PROVE  OneLess(x, Replied(x, refused), refused)
<1> DEFINE y == Replied(x, refused)
<1>1. x.asked \in Seq(Commands) /\ Tail(x.asked) \in Seq(Commands)
      /\ \A e : Tail(<<e>>) = <<>>
  <2>1. x.asked \in Seq(Commands) BY DEF SessionType
  <2> QED BY <2>1
<1>2. /\ y \in SessionType
      /\ y.at = x.at /\ y.link = x.link /\ y.listens = x.listens
      /\ y.running = x.running /\ y.jobs = x.jobs /\ y.on = x.on
      /\ y.wanted = x.wanted /\ y.pending = x.pending /\ y.backlog = x.backlog
      /\ y.slow = x.slow /\ y.hurried = x.hurried /\ y.refused = refused
      /\ y.asked = Tail(x.asked)
  BY <1>1 DEF SessionType, Replied
<1> HIDE DEF y
<1>3. Clean(y) => Clean(x) BY <1>2 DEF Clean
<1>4. Nearly(x) /\ (x.at = "drain" => x.on) BY DEF SessionOK
<1>5. Live(y) /\ Clean(y) => y.asked = <<>>
  BY <1>1, <1>2, <1>3, <1>4 DEF Nearly, AskedOK, Live
<1>6. QueueOK(y) BY <1>2, <1>4 DEF Nearly, QueueOK
<1>7. /\ HasMessage(y) => HasMessage(x)
      /\ HasMessage(x) => HasMessage(y)
  BY <1>2 DEF HasMessage
<1>8. DrainOK(y) BY <1>2, <1>3, <1>4, <1>7 DEF Nearly, DrainOK, Live
<1>9. PhasesOK(y) BY <1>2, <1>4 DEF Nearly, PhasesOK
<1>10. LinkOK(y) /\ AskedOK(y) BY <1>2, <1>4, <1>5 DEF Nearly, LinkOK, AskedOK
<1>11. SessionOK(y) BY <1>2, <1>4, <1>6, <1>8, <1>9, <1>10 DEF SessionOK, Nearly
<1> QED BY <1>2, <1>3, <1>5, <1>11 DEF OneLess, y

\* What a command that is done with leaves of its session (SettledOK), in one word.
Went(x, z, more) ==
  LET k == Head(x.jobs) IN
  /\ SessionOK(z)
  /\ z.slow = x.slow /\ z.hurried = x.hurried /\ z.refused = x.refused
  /\ z.at = "undoing" \/ (z.running = x.running /\ z.listens = x.listens)
  /\ z.at \in Up => \/ z.on \/ (k = "message" /\ ~more /\ ~x.wanted)
                    \/ (k = "command" /\ x.at \in Up /\ ~x.on)
  /\ Live(z) /\ Clean(z) /\ z.at \in Up =>
       \/ z.backlog \/ (k = "message" /\ ~more) \/ (x.at \in Up /\ ~x.backlog)

LEMMA SettledWent ==
  ASSUME NEW x \in SessionType, SessionOK(x), x.jobs # <<>>,
         Live(x) /\ Clean(x) => x.asked = <<>>,
         NEW ok \in BOOLEAN, NEW more \in BOOLEAN
  PROVE  Went(x, Settled(x, ok, more), more)
BY SettledOK DEF Went

LEMMA AnswersKeeps ==
  ASSUME IInv, NEW s \in Sessions, NEW reply \in Commands \union {"error"}, Answers(s, reply)
  PROVE  IInv'
<1> DEFINE x == ses[s]
           k == Head(x.asked)
           more == k = "message" /\ reply # "error" /\ held # <<>>
           m == Head(held)
           y == [x EXCEPT !.asked = Tail(@)]
           taken == x.listens /\ x.jobs # <<>> /\ Takes(Head(x.jobs), reply)
           noted == [y EXCEPT !.refused = @ \/ reply = "error"]
           h == IF ~x.listens \/ conn.listening # s THEN "unheard"
                ELSE IF Backlogged THEN "backlog" ELSE "live"
           o == Astray(s)
           ok == reply # "error"
           z == IF taken THEN Settled(noted, ok, more) ELSE y
           w == IF taken THEN Step(World, s, z) ELSE Sole(World, s, z)
<1>1. /\ x \in SessionType /\ SessionOK(x) /\ ConnOK(World) /\ load \in LoadType
      /\ (x.at \in Starting => doing[s] = "starting") /\ x.link = "open" /\ x.asked # <<>>
      /\ held \in Seq(Messages) /\ fate \in [Messages -> FateType]
      /\ Left(x, held # <<>>) /\ Missed(x, AwayHeld)
  BY Known DEF Answers, WorldOK, IInv, HeldOK
<1>2. doing[s] \notin Fresh
  <2>1. x # NewSession BY <1>1 DEF NewSession
  <2> QED BY <2>1, Known
<1>3. /\ reply = k \/ reply = "error"
      /\ held' = IF more THEN Tail(held) ELSE held
      /\ fate' = IF ~more THEN fate
                 ELSE [fate EXCEPT ![m].by = s, ![m].how = h, ![m].astray = o]
  BY DEF Answers
<1>4. load' \in LoadType /\ load'.messages = load.messages
  <2>1. "error" \notin Commands BY DEF Commands, Handshake
  <2>2. /\ reply = k => reply \in Commands
        /\ reply \in {k} \union (IF load.timeouts > 0 THEN {"error"} ELSE {})
        /\ load' = [load EXCEPT !.timeouts = IF reply = "error" THEN @ - 1 ELSE @]
    <3>1. x.asked \in Seq(Commands) BY <1>1 DEF SessionType
    <3>2. k \in Commands BY <1>1, <3>1
    <3> QED BY <3>2 DEF Answers
  <2>3. \/ load' = [load EXCEPT !.timeouts = @]
        \/ load.timeouts > 0 /\ load' = [load EXCEPT !.timeouts = @ - 1]
    BY <2>1, <2>2
  <2> QED BY <1>1, <2>3, Spent
<1>5. Become(w)
  <2>1. [World EXCEPT !.ses[s] = y] = Sole(World, s, y) BY DEF Sole
  <2> QED BY <2>1 DEF Answers
<1>6. /\ y \in SessionType /\ SessionOK(y)
      /\ y.at = x.at /\ y.link = x.link /\ y.listens = x.listens
      /\ y.running = x.running /\ y.jobs = x.jobs /\ y.on = x.on
      /\ y.wanted = x.wanted /\ y.pending = x.pending /\ y.backlog = x.backlog
      /\ y.slow = x.slow /\ y.hurried = x.hurried /\ y.refused = x.refused
      /\ Clean(y) => Clean(x)
  <2>1. x.refused \in BOOLEAN BY <1>1 DEF SessionType
  <2>2. y = Replied(x, x.refused) BY <1>1 DEF SessionType, Replied
  <2> HIDE DEF x, y
  <2>3. OneLess(x, y, x.refused) BY <1>1, <2>1, <2>2, RepliedOK
  <2> QED BY <2>3 DEF OneLess
<1>7. /\ noted \in SessionType /\ SessionOK(noted)
      /\ noted.at = x.at /\ noted.link = x.link /\ noted.listens = x.listens
      /\ noted.running = x.running /\ noted.jobs = x.jobs /\ noted.on = x.on
      /\ noted.wanted = x.wanted /\ noted.pending = x.pending /\ noted.backlog = x.backlog
      /\ noted.slow = x.slow /\ noted.hurried = x.hurried
      /\ noted.refused = (x.refused \/ reply = "error")
      /\ Clean(noted) => Clean(x)
      /\ Live(noted) /\ Clean(noted) => noted.asked = <<>>
  <2> DEFINE r == x.refused \/ reply = "error"
  <2>1. r \in BOOLEAN /\ (x.refused => r) BY <1>1 DEF SessionType
  <2>2. noted = Replied(x, r) BY <1>1 DEF SessionType, Replied
  <2>3. x.refused \/ reply = "error" <=> r OBVIOUS
  <2> HIDE DEF x, noted, r
  <2>4. OneLess(x, noted, r) BY <1>1, <2>1, <2>2, RepliedOK
  <2> QED BY <2>4 DEF r, OneLess
<1>8. /\ held' \in Seq(Messages) /\ (held' # <<>> => held # <<>>)
      /\ more => m \in Messages /\ m = held[1] /\ 1 \in 1 .. Len(held)
      /\ \A i \in 1 .. Len(held') : \E j \in 1 .. Len(held) : held'[i] = held[j]
  <2> HIDE DEF x, k
  <2>1. CASE more
    <3>1. held # <<>> /\ held' = Tail(held) BY <1>3, <2>1
    <3> QED BY <1>1, <3>1, Read
  <2>2. CASE ~more
    <3>1. held' = held BY <1>3, <2>2
    <3> QED BY <1>1, <2>2, <3>1
  <2> QED BY <2>1, <2>2
<1>9. /\ fate' \in [Messages -> FateType]
      /\ \A e \in Messages : fate'[e].away = fate[e].away
      /\ \A e \in Messages : fate'[e] = fate[e]
                             \/ /\ more /\ e = m /\ fate'[e].by = s /\ fate'[e].how = h
                                /\ fate'[e].astray = o /\ fate'[e].during = fate[e].during
  <2>1. h \in {"unheard", "live", "backlog"} /\ o \in BOOLEAN BY DEF Astray
  <2> HIDE DEF x, k, h, m, o
  <2>2. CASE more
    <3>1. fate' = [fate EXCEPT ![m].by = s, ![m].how = h, ![m].astray = o] /\ m \in Messages BY <1>3, <1>8, <2>2
    <3>2. /\ fate' \in [Messages -> FateType]
          /\ fate'[m].by = s /\ fate'[m].how = h /\ fate'[m].astray = o
          /\ fate'[m].during = fate[m].during /\ fate'[m].away = fate[m].away
          /\ \A e \in Messages \ {m} : fate'[e] = fate[e]
      BY <1>1, <2>1, <3>1 DEF FateType
    <3> HIDE DEF more
    <3> QED BY <2>2, <3>2
  <2>3. CASE ~more BY <1>1, <1>3, <2>3
  <2> QED BY <2>2, <2>3
<1>10. AwayHeld' => AwayHeld
  <2>1. \A i \in 1 .. Len(held) : held[i] \in Messages BY <1>1
  <2> QED BY <1>8, <1>9, <2>1 DEF AwayHeld
<1>11. /\ StepPre(s, z) /\ (Clean(z) => Clean(x))
       /\ Left(z, held' # <<>>) /\ Missed(z, AwayHeld')
  <2> HIDE DEF y, noted, k
  <2>1. CASE taken
    <3> DEFINE q == Settled(noted, ok, more)
               j == Head(noted.jobs)
    <3>1. ok \in BOOLEAN /\ more \in BOOLEAN OBVIOUS
    <3> HIDE DEF ok, more
    <3>2. StepPre(s, q) BY <1>7, <2>1, <3>1, SettledGoes
    <3>3. /\ SessionOK(q)
          /\ q.slow = noted.slow /\ q.hurried = noted.hurried /\ q.refused = noted.refused
          /\ q.at = "undoing" \/ (q.running = noted.running /\ q.listens = noted.listens)
          /\ q.at \in Up => \/ q.on \/ (j = "message" /\ ~more /\ ~noted.wanted)
                            \/ (j = "command" /\ noted.at \in Up /\ ~noted.on)
          /\ Live(q) /\ Clean(q) /\ q.at \in Up =>
               \/ q.backlog \/ (j = "message" /\ ~more) \/ (noted.at \in Up /\ ~noted.backlog)
      <4>1. noted.jobs # <<>> BY <1>7, <2>1
      <4>2. Went(noted, q, more)
        <5> HIDE DEF noted, more, ok
        <5> QED BY <1>7, <3>1, <4>1, SettledWent
      <4> HIDE DEF q, noted, more
      <4> QED BY <4>2 DEF Went
    <3> HIDE DEF q
    <3>4. j = "message" /\ ~more => q.refused \/ held' = <<>>
      <4>1. "message" \notin Handshake BY DEF Handshake
      <4>2. j = "message" => reply = "message" \/ reply = "error" BY <1>7, <2>1 DEF Takes
      <4>3. reply = "message" => k = "message" BY <1>3
      <4>4. ~more => held' = held BY <1>3
      <4>5. reply = "error" => q.refused BY <1>7, <3>3
      <4>6. k = "message" /\ reply = "message" /\ ~more => held = <<>> BY DEF more
      <4> QED BY <4>2, <4>3, <4>4, <4>5, <4>6
    <3>5. Clean(q) => Clean(x) /\ ~q.refused BY <1>7, <3>3 DEF Clean
    <3>6. Live(q) /\ q.at \in Up => Live(x) BY <1>7, <3>3 DEF Live, Up
    <3>7. Left(q, held' # <<>>)
      <4> SUFFICES ASSUME held' # <<>>, Live(q), q.at \in Up PROVE q.on \/ q.slow \/ q.refused
        BY DEF Left
      <4>1. x.at \in Up /\ ~x.on => x.slow \/ x.refused BY <1>1, <1>8, <3>6 DEF Left
      <4>2. x.refused => q.refused BY <1>7, <3>3
      <4> QED BY <1>7, <3>3, <3>4, <4>1, <4>2
    <3>8. Missed(q, AwayHeld')
      <4> SUFFICES ASSUME AwayHeld', Live(q), Clean(q), q.at \in Up PROVE q.backlog
        BY DEF Missed
      <4>1. held' # <<>> BY DEF AwayHeld
      <4>2. x.at \in Up => x.backlog BY <1>1, <1>10, <3>5, <3>6 DEF Missed
      <4> QED BY <1>7, <3>3, <3>4, <3>5, <4>1, <4>2
    <3>9. z = q BY <2>1 DEF q
    <3> HIDE DEF z
    <3> QED BY <3>2, <3>5, <3>7, <3>8, <3>9
  <2>2. CASE ~taken
    <3>1. z = y BY <2>2
    <3> HIDE DEF z
    <3>2. After(x, y) BY <1>6 DEF After
    <3>3. s = conn.session => x.listens
      <4>1. World.ses[s] = x /\ World.conn = conn BY WorldIs
      <4> QED BY <1>1, <4>1, NoneIsNone DEF ConnOK
    <3>4. StepPre(s, y) BY <1>1, <1>2, <1>6, <3>2, <3>3 DEF StepPre
    <3>5. Left(y, held' # <<>>) BY <1>1, <1>6, <1>8 DEF Left, Live
    <3>6. Missed(y, AwayHeld') BY <1>1, <1>6, <1>10 DEF Missed, Live
    <3> QED BY <1>6, <3>1, <3>4, <3>5, <3>6
  <2> QED BY <2>1, <2>2
<1>12. w = Sole(World, s, z) \/ w = Step(World, s, z) OBVIOUS
<1> HIDE DEF y, noted, taken, z, w, o
<1>13. /\ Goes(World, w) /\ w.conn.session = conn.session /\ w.ses[s] = z
       /\ \A b \in Sessions : After(ses[b], w.ses[b])
  BY <1>11, <1>12, StepGoes
<1>14. ASSUME more PROVE ToldIn(fate'[m], w)
  <2>1. m \in Messages /\ m = held[1] /\ 1 \in 1 .. Len(held) /\ k = "message" BY <1>8, <1>14
  <2>2. fate'[m] = fate[m] \/ (/\ fate'[m].by = s /\ fate'[m].how = h /\ fate'[m].astray = o
                             /\ fate'[m].during = fate[m].during)
    BY <1>9, <2>1
  <2>3. ToldIn(fate[m], World) /\ fate[m].during \subseteq Sessions /\ World \in Worlds
    BY <2>1, Known DEF IInv, FateOK, FateType
  <2>4. CASE fate'[m] = fate[m]
    <3>1. Names(World, w) BY <1>13, WorldIs DEF Names
    <3>2. \A b \in Sessions : After(World.ses[b], w.ses[b]) BY <1>13, WorldIs
    <3> QED BY <1>13, <2>3, <2>4, <3>1, <3>2, StillTold
  <2>5. CASE /\ fate'[m].by = s /\ fate'[m].how = h /\ fate'[m].astray = o
             /\ fate'[m].during = fate[m].during
    <3> DEFINE f == fate'[m]
    <3>1. w.doing[s] \notin Fresh BY <1>2, <1>13, WorldIs DEF Goes
    <3>2. Nearly(x) BY <1>1 DEF SessionOK
    <3>3. x.listens => x.running BY <1>1, <3>2 DEF Nearly, LinkOK
    <3>0. /\ Backlogged => conn.transport = conn.listening
          /\ conn.transport = s => conn.listening = s
          /\ ~o => (s \in {conn.session, conn.listening} => conn.transport = s)
      <4>1. Backlogged => doing[conn.transport] \notin Fresh
        <5> SUFFICES ASSUME Backlogged PROVE doing[conn.transport] \notin Fresh OBVIOUS
        <5>1. conn.transport \in Sessions BY Known DEF Backlogged, ConnType
        <5>2. ses[conn.transport] # NewSession BY DEF Backlogged, NewSession
        <5> QED BY <5>1, <5>2, Known
      <4>2. World.doing = doing /\ World.conn = conn BY WorldIs
      <4> QED BY <1>1, <1>2, <4>1, <4>2, NoneIsNone DEF ConnOK, Backlogged, Astray, o
    <3>4. f.away /\ h = "live" => ~Clean(z) \/ o
      <4> SUFFICES ASSUME f.away, h = "live", Clean(z), ~o PROVE FALSE OBVIOUS
      <4>0. x.listens /\ conn.listening = s /\ ~Backlogged OBVIOUS
      <4>1. x.listens /\ ~x.backlog /\ Clean(x) /\ Live(x)
        BY <1>11, <3>0, <3>3, <4>0, NoneIsNone DEF Live, Backlogged
      <4>2. AwayHeld BY <1>9, <2>1 DEF AwayHeld
      <4>3. x.at \notin Up BY <1>1, <4>1, <4>2 DEF Missed
      <4>4. x.at \in Handshake BY <3>2, <4>1, <4>3 DEF Nearly, PhasesOK, Live
      <4>5. ~x.on BY <3>2, <4>1, <4>4 DEF Nearly, DrainOK
      <4>6. x.jobs # <<>> /\ x.asked = <<Head(x.jobs)>> BY <1>1, <3>2, <4>1 DEF Nearly, AskedOK
      <4>7. Head(x.jobs) = "message" BY <2>1, <4>6
      <4>8. x.jobs \in Seq(Commands) BY <1>1 DEF SessionType
      <4>9. x.jobs[1] = "message" /\ 1 \in 1 .. Len(x.jobs) BY <4>6, <4>7, <4>8
      <4> QED BY <3>2, <4>5, <4>9 DEF Nearly, DrainOK, HasMessage
    <3>5. s \in f.during => h # "backlog"
      <4> SUFFICES ASSUME s \in fate[m].during, h = "backlog" PROVE FALSE BY <2>5
      <4>1. x.at = "started" BY <2>3, WorldIs DEF ToldIn
      <4>2. x.listens /\ x.backlog BY <3>0 DEF Backlogged
      <4> QED BY <3>2, <3>3, <4>1, <4>2 DEF Nearly, DrainOK, Live
    <3>6. h = "unheard" => s # w.conn.session \/ o
      <4> SUFFICES ASSUME h = "unheard", s = conn.session, ~o PROVE FALSE BY <1>13
      <4>1. World.ses[s] = x /\ World.conn = conn /\ World.doing = doing BY WorldIs
      <4>2. conn.listening = s /\ x.listens BY <1>1, <3>0, <4>1, NoneIsNone DEF ConnOK
      <4> QED BY <4>2
    <3>7. \A b \in f.during : w.ses[b].at = "started"
      BY <1>13, <2>3, <2>5, WorldIs DEF ToldIn, After
    <3> HIDE DEF f, h
    <3> QED BY <1>13, <2>5, <3>1, <3>4, <3>5, <3>6, <3>7 DEF ToldIn, f
  <2> QED BY <2>2, <2>4, <2>5
<1>15. \A b \in Sessions \ {s} : Left(ses[b], held' # <<>>) /\ Missed(ses[b], AwayHeld')
  BY <1>8, <1>10 DEF IInv, HeldOK, Left, Missed
<1>16. \A e \in load'.messages : e \in load.messages /\ fate'[e] = fate[e]
  <2> SUFFICES ASSUME NEW e \in load.messages PROVE fate'[e] = fate[e] BY <1>4
  <2>1. e \in Messages BY <1>1 DEF LoadType
  <2>2. more => m # e BY <1>8 DEF IInv, FateOK, Apart
  <2> HIDE DEF more, m, h
  <2> QED BY <1>9, <2>1, <2>2
<1>17. \A e \in Messages : fate'[e] = fate[e] \/ ToldIn(fate'[e], w) BY <1>9, <1>14
<1>18. Apart' BY <1>4, <1>8 DEF IInv, FateOK, Apart
<1> HIDE DEF m, more, h
<1> QED BY <1>18, <1>4, <1>5, <1>8, <1>9, <1>11, <1>12, <1>15, <1>16, <1>17, StepKeeps

\* A push has come to a session: its drain is asked for.
Pushed(x) == RequestDrain([x EXCEPT !.hurried = @ \/ x.at \in Handshake], FALSE)

PushedTo(x, z) ==
  /\ z \in SessionType /\ SessionOK(z) /\ z.on
  /\ z.at = x.at /\ z.link = x.link /\ z.listens = x.listens /\ z.running = x.running
  /\ Clean(z) => Clean(x)
  /\ x.on => z.backlog = x.backlog

LEMMA PushedOK ==
  ASSUME NEW x \in SessionType, SessionOK(x), x.link = "open", x.listens
  PROVE  PushedTo(x, Pushed(x)) /\ x.running
<1> DEFINE y == [x EXCEPT !.hurried = @ \/ x.at \in Handshake]
           z == RequestDrain(y, FALSE)
<1>1. /\ y \in SessionType
      /\ y.at = x.at /\ y.link = x.link /\ y.listens = x.listens /\ y.running = x.running
      /\ y.jobs = x.jobs /\ y.asked = x.asked /\ y.on = x.on
      /\ y.wanted = x.wanted /\ y.pending = x.pending /\ y.backlog = x.backlog
      /\ y.slow = x.slow /\ y.refused = x.refused
      /\ y.hurried = (x.hurried \/ x.at \in Handshake)
  BY DEF SessionType
<1>2. Pushed(x) = z BY DEF Pushed
<1> HIDE DEF y
<1>3. Clean(y) => Clean(x) /\ x.at \notin Handshake BY <1>1 DEF Clean
<1>4. Nearly(x) BY DEF SessionOK
<1>5. x.running BY <1>4 DEF Nearly, LinkOK
<1>6. y.at # "opening" BY <1>1, <1>4, <1>5 DEF Nearly, PhasesOK
<1>7. Nearly(y)
  <2>1. QueueOK(y) BY <1>1, <1>4 DEF Nearly, QueueOK
  <2>2. AskedOK(y) BY <1>1, <1>3, <1>4 DEF Nearly, AskedOK, Live
  <2>3. PhasesOK(y) /\ LinkOK(y) BY <1>1, <1>4 DEF Nearly, PhasesOK, LinkOK
  <2>4. /\ HasMessage(y) => HasMessage(x)
        /\ HasMessage(x) => HasMessage(y)
    BY <1>1 DEF HasMessage
  <2>5. DrainOK(y) BY <1>1, <1>3, <1>4, <2>4 DEF Nearly, DrainOK, Live
  <2> QED BY <2>1, <2>2, <2>3, <2>5 DEF Nearly
<1>8. Live(y) /\ Clean(y) /\ y.at \in Handshake => FALSE BY <1>1, <1>3
<1>9. Live(y) /\ Clean(y) /\ y.jobs = <<>> => y.asked = <<>> BY <1>7 DEF Nearly, AskedOK
<1>10. /\ Nearly(z) /\ z.on = (y.on \/ y.running)
       /\ z.backlog = (IF y.on THEN y.backlog ELSE y.running /\ (y.pending \/ FALSE))
       /\ z.at = y.at /\ z.running = y.running /\ z.listens = y.listens /\ z.link = y.link
       /\ z.slow = y.slow /\ z.hurried = y.hurried /\ z.refused = y.refused
  BY <1>1, <1>6, <1>7, <1>8, <1>9, RequestOK
<1>11. z \in SessionType BY <1>1, LoopType
<1> HIDE DEF z
<1>12. SessionOK(z) BY <1>1, <1>5, <1>10 DEF SessionOK
<1>13. Clean(z) => Clean(x) BY <1>3, <1>10 DEF Clean
<1> QED BY <1>1, <1>2, <1>5, <1>10, <1>11, <1>12, <1>13 DEF PushedTo

LEMMA ArrivesKeeps ==
  ASSUME IInv, NEW m \in Messages, Arrives(m) PROVE IInv'
<1> DEFINE open == {s \in Sessions : ses[s].link = "open"}
           told == {s \in open : ses[s].listens}
<1>1. /\ World \in Worlds /\ WorldOK(World) /\ TimerOK(World)
      /\ ses \in [Sessions -> SessionType] /\ load \in LoadType
      /\ held \in Seq(Messages) /\ fate \in [Messages -> FateType]
      /\ \A s \in Sessions : SessionOK(ses[s])
  BY Known
<1>2. /\ m \in load.messages /\ load' = [load EXCEPT !.messages = @ \ {m}]
      /\ held' = Append(held, m)
      /\ fate' = [fate EXCEPT ![m].away = (open = {}),
                              ![m].during = {s \in open : ses[s].at = "started"}]
      /\ UNCHANGED <<conn, waits, doing, attempt>>
  BY DEF Arrives
<1>3. ses' = [s \in Sessions |-> IF s \notin told THEN ses[s] ELSE Pushed(ses[s])]
  BY DEF Arrives, Pushed
<1>4. \A s \in Sessions : \/ s \notin told /\ ses'[s] = ses[s]
                          \/ /\ s \in told /\ ses[s].listens /\ ses[s].link = "open"
                             /\ ses[s].running /\ PushedTo(ses[s], ses'[s])
  BY <1>1, <1>3, PushedOK
<1>5. load' \in LoadType /\ load'.messages = load.messages \ {m} BY <1>1, <1>2 DEF LoadType
<1>6. /\ held' \in Seq(Messages) /\ Len(held') = Len(held) + 1 /\ held'[Len(held) + 1] = m
      /\ \A i \in 1 .. Len(held) : held'[i] = held[i]
      /\ \A i \in 1 .. Len(held') : i \in 1 .. Len(held) \/ i = Len(held) + 1
  BY <1>1, <1>2
<1>7. /\ fate' \in [Messages -> FateType]
      /\ fate'[m].how = fate[m].how /\ fate'[m].away = (open = {})
      /\ fate'[m].during = {s \in open : ses[s].at = "started"}
      /\ \A e \in Messages \ {m} : fate'[e] = fate[e]
  <2> DEFINE f == [fate[m] EXCEPT !.away = (open = {}), !.during = {s \in open : ses[s].at = "started"}]
  <2>1. f \in FateType /\ f.how = fate[m].how /\ f.away = (open = {})
        /\ f.during = {s \in open : ses[s].at = "started"}
    BY <1>1 DEF FateType
  <2>2. fate' = [fate EXCEPT ![m] = f] BY <1>1, <1>2 DEF FateType
  <2> HIDE DEF f, open
  <2> QED BY <1>1, <2>1, <2>2
<1> HIDE DEF open, told
<1>8. ses' \in [Sessions -> SessionType]
  <2>1. \A s \in Sessions : ses'[s] \in SessionType BY <1>1, <1>4 DEF PushedTo
  <2> QED BY <1>3, <2>1
<1>9. /\ World'.ses = ses' /\ World'.conn = conn /\ World'.waits = waits /\ World'.doing = doing
      /\ World'.attempt = attempt
  BY <1>2 DEF World
<1>10. World' \in Worlds BY <1>1, <1>2, <1>8 DEF Worlds, World
<1>11. \A s \in Sessions : /\ SessionOK(ses'[s]) /\ ses'[s].at = ses[s].at
                           /\ ses'[s].running = ses[s].running /\ ses'[s].listens = ses[s].listens
                           /\ After(ses[s], ses'[s])
                           /\ ses'[s] = ses[s] \/ (ses[s].listens /\ ses[s].link = "open")
  BY <1>1, <1>4 DEF PushedTo, After
<1>12. WorldOK(World')
  <2>1. FreshOK(World')
    <3> SUFFICES ASSUME NEW a \in Sessions
                 PROVE  /\ doing[a] \in Fresh => ses'[a] = NewSession /\ \A v \in waits : v.on # a
                        /\ ses'[a].at \in Starting => doing[a] = "starting"
      BY <1>9 DEF FreshOK
    <3>1. /\ doing[a] \in Fresh => ses[a] = NewSession /\ \A v \in waits : v.on # a
          /\ ses[a].at \in Starting => doing[a] = "starting"
      BY <1>1, WorldIs DEF WorldOK, FreshOK
    <3>2. NewSession.link = "idle" BY DEF NewSession
    <3> QED BY <1>11, <3>1, <3>2
  <2>2. OrderOK(World') BY <1>1, <1>9, WorldIs DEF WorldOK, OrderOK
  <2>3. WaitsOK(World')
    <3> SUFFICES ASSUME NEW v \in waits
                 PROVE  /\ ~ses'[v.on].listens
                        /\ v.op \in {"connect", "failed"} => v.of \in Sessions
                        /\ v.op = "connect" => doing[v.of] = "closing"
                        /\ v.op = "failed" => doing[v.of] \notin Fresh /\ ses'[v.of].at \in Unstarted
                        /\ \A u \in waits : u.op = "connect" /\ v.op = "connect" /\ u.of = v.of => u = v
      BY <1>9 DEF WaitsOK
    <3>1. /\ ~ses[v.on].listens
          /\ v.op \in {"connect", "failed"} => v.of \in Sessions
          /\ v.op = "connect" => doing[v.of] = "closing"
          /\ v.op = "failed" => doing[v.of] \notin Fresh /\ ses[v.of].at \in Unstarted
          /\ \A u \in waits : u.op = "connect" /\ v.op = "connect" /\ u.of = v.of => u = v
      BY <1>1, WorldIs DEF WorldOK, WaitsOK
    <3>2. v.on \in Sessions BY Known DEF Waiting
    <3> QED BY <1>11, <3>1, <3>2
  <2>4. ConnOK(World')
    <3>1. conn.session \in Sessions \union {None} BY Known DEF ConnType
    <3>2. ConnOK(World) BY <1>1 DEF WorldOK
    <3> QED BY <1>9, <1>11, <3>1, <3>2, WorldIs DEF ConnOK
  <2> QED BY <1>9, <1>11, <2>1, <2>2, <2>3, <2>4 DEF WorldOK
<1>13. TimerOK(World') /\ Goes(World, World') /\ Names(World, World')
  BY <1>1, <1>9, WorldIs DEF TimerOK, Goes, Names
<1>14. fate[m].how = "none" BY <1>2 DEF IInv, FateOK
<1>15. ToldIn(fate'[m], World')
  BY <1>7, <1>9, <1>11, <1>14 DEF ToldIn, open
<1>16. AwayHeld' => open = {} \/ AwayHeld
  <2> SUFFICES ASSUME NEW i \in 1 .. Len(held'), fate'[held'[i]].away PROVE open = {} \/ AwayHeld
    BY DEF AwayHeld
  <2>1. held'[i] \in Messages BY <1>6
  <2>2. CASE held'[i] = m BY <1>7, <2>2
  <2>3. CASE held'[i] # m
    <3>1. i \in 1 .. Len(held) /\ fate'[held'[i]] = fate[held'[i]] BY <1>6, <1>7, <2>1, <2>3
    <3>2. held'[i] = held[i] BY <1>6, <3>1
    <3> QED BY <3>1, <3>2 DEF AwayHeld
  <2> QED BY <2>2, <2>3
<1>17. HeldOK'
  <2> SUFFICES ASSUME NEW s \in Sessions
               PROVE  Left(ses'[s], held' # <<>>) /\ Missed(ses'[s], AwayHeld')
    BY DEF HeldOK
  <2>1. Nearly(ses[s]) BY <1>1 DEF SessionOK
  <2>2. CASE s \in told
    <3>1. /\ ses[s].listens /\ ses[s].link = "open" /\ ses[s].running
          /\ PushedTo(ses[s], ses'[s])
      BY <1>4, <2>2
    <3>2. open # {} BY <3>1 DEF open
    <3>3. Left(ses'[s], held' # <<>>) BY <3>1 DEF Left, PushedTo
    <3>4. Missed(ses'[s], AwayHeld')
      <4> SUFFICES ASSUME AwayHeld', Live(ses'[s]), Clean(ses'[s]), ses'[s].at \in Up
                   PROVE  ses'[s].backlog
        BY DEF Missed
      <4>1. Missed(ses[s], AwayHeld) BY DEF IInv, HeldOK
      <4>2. Live(ses[s]) /\ Clean(ses[s]) /\ ses[s].at \in Up BY <3>1 DEF PushedTo, Live
      <4>3. ses[s].backlog BY <1>16, <3>2, <4>1, <4>2 DEF Missed
      <4>4. ses[s].on BY <2>1, <4>3 DEF Nearly, DrainOK
      <4> QED BY <3>1, <4>3, <4>4 DEF PushedTo
    <3> QED BY <3>3, <3>4
  <2>3. CASE s \notin told
    <3>1. ses'[s] = ses[s] BY <1>4, <2>3
    <3>2. ~Live(ses[s])
      <4>1. ses[s].link # "open" \/ ~ses[s].listens BY <2>3 DEF told, open
      <4> QED BY <2>1, <4>1 DEF Nearly, LinkOK, Live
    <3> QED BY <3>1, <3>2 DEF Left, Missed
  <2> QED BY <2>2, <2>3
<1>18. \A e \in load'.messages : e \in load.messages /\ fate'[e] = fate[e]
  <2>1. \A e \in load.messages : e \in Messages BY <1>1 DEF LoadType
  <2> QED BY <1>5, <1>7, <2>1
<1>19. Apart'
  <2> SUFFICES ASSUME NEW i \in 1 .. Len(held') PROVE held'[i] \notin load'.messages BY DEF Apart
  <2>1. i \in 1 .. Len(held) => held[i] \notin load.messages BY DEF IInv, FateOK, Apart
  <2> QED BY <1>5, <1>6, <2>1
<1>20. \A e \in Messages : fate'[e] = fate[e] \/ ToldIn(fate'[e], World') BY <1>7, <1>15
<1>21. \A s \in Sessions : After(ses[s], ses'[s]) BY <1>11
<1> QED BY <1>5, <1>6, <1>7, <1>10, <1>12, <1>13, <1>17, <1>18, <1>19, <1>20, <1>21, Keeps

LEMMA AnswersAndPushesKeeps ==
  ASSUME IInv, NEW s \in Sessions, NEW m \in Messages, AnswersAndPushes(s, m) PROVE IInv'
<1> DEFINE x == ses[s]
           n == [x EXCEPT !.asked = Tail(@)]
           y == RequestDrain(n, FALSE)
           z == Settled(y, TRUE, FALSE)
           w == Step(World, s, z)
<1>1. /\ x \in SessionType /\ SessionOK(x) /\ load \in LoadType /\ World \in Worlds
      /\ fate \in [Messages -> FateType] /\ \A b \in Sessions : SessionOK(ses[b])
  BY Known
<1>2. /\ x.link = "open" /\ x.listens /\ x.asked # <<>> /\ x.jobs # <<>> /\ Head(x.jobs) = "message"
      /\ \A b \in Sessions \ {s} : ses[b].link # "open"
      /\ m \in load.messages /\ load' = [load EXCEPT !.messages = @ \ {m}]
      /\ held' = <<m>>
      /\ fate' = [fate EXCEPT ![m].during = IF x.at = "started" THEN {s} ELSE {}]
      /\ Become(w)
  BY DEF AnswersAndPushes
<1>3. load' \in LoadType /\ load'.messages = load.messages \ {m} BY <1>1, <1>2 DEF LoadType
<1>4. fate[m].how = "none" /\ ~fate[m].away BY <1>2 DEF IInv, FateOK
<1>5. /\ fate' \in [Messages -> FateType]
      /\ fate'[m].how = "none" /\ ~fate'[m].away
      /\ fate'[m].during = IF x.at = "started" THEN {s} ELSE {}
      /\ \A e \in Messages \ {m} : fate'[e] = fate[e]
  <2> DEFINE d == IF x.at = "started" THEN {s} ELSE {}
             f == [fate[m] EXCEPT !.during = d]
  <2>1. d \subseteq Sessions /\ fate[m] \in FateType BY <1>1
  <2> HIDE DEF x, d
  <2>2. f \in FateType /\ f.how = fate[m].how /\ f.away = fate[m].away /\ f.during = d
    BY <2>1 DEF FateType
  <2>3. fate' = [fate EXCEPT ![m] = f] BY <1>2 DEF d
  <2> HIDE DEF f
  <2> QED BY <1>1, <1>4, <2>2, <2>3 DEF d
<1>6. HasMessage(x) /\ x.on
  <2>1. x.jobs \in Seq(Commands) BY <1>1 DEF SessionType
  <2>2. x.jobs[1] = "message" /\ 1 \in 1 .. Len(x.jobs) BY <1>2, <2>1
  <2> HIDE DEF x
  <2> QED BY <1>1, <2>2 DEF HasMessage, SessionOK, Nearly, DrainOK
<1>7. n \in SessionType /\ OneLess(x, n, x.refused)
  <2>1. x.refused \in BOOLEAN /\ n = Replied(x, x.refused) BY <1>1 DEF SessionType, Replied
  <2> HIDE DEF x, n
  <2>2. OneLess(x, n, x.refused) BY <1>1, <1>2, <2>1, RepliedOK
  <2> QED BY <2>2 DEF OneLess
<1> HIDE DEF n
<1>8. /\ y \in SessionType
      /\ y.at = n.at /\ y.link = n.link /\ y.listens = n.listens /\ y.running = n.running
      /\ y.jobs = n.jobs /\ y.asked = n.asked /\ y.on = n.on /\ y.wanted = TRUE
      /\ y.pending = n.pending /\ y.backlog = n.backlog
      /\ y.slow = n.slow /\ y.hurried = n.hurried /\ y.refused = n.refused
  <2>1. n.on BY <1>6, <1>7 DEF OneLess
  <2>2. y = [n EXCEPT !.wanted = TRUE, !.pending = @ \/ FALSE] BY <2>1 DEF RequestDrain
  <2> HIDE DEF y
  <2> QED BY <1>7, <2>2 DEF SessionType
<1> HIDE DEF x, y
<1>9. /\ y.at = x.at /\ y.link = x.link /\ y.listens = x.listens /\ y.running = x.running
      /\ y.jobs = x.jobs /\ y.on = x.on /\ y.backlog = x.backlog
      /\ Clean(y) => Clean(x)
      /\ Live(y) /\ Clean(y) => y.asked = <<>>
  <2>1. /\ Clean(y) => Clean(n)
        /\ Live(y) => Live(n)
    BY <1>8 DEF Clean, Live
  <2> QED BY <1>7, <1>8, <2>1 DEF OneLess
<1>10. SessionOK(y)
  <2>1. SessionOK(n) BY <1>7 DEF OneLess
  <2>2. QueueOK(y) BY <1>8, <2>1 DEF SessionOK, Nearly, QueueOK
  <2>3. AskedOK(y) BY <1>9 DEF AskedOK
  <2>4. /\ HasMessage(y) => HasMessage(n)
        /\ HasMessage(n) => HasMessage(y)
    BY <1>8 DEF HasMessage
  <2>5. PhasesOK(y) /\ LinkOK(y)
    <3>1. x.running BY <1>1, <1>2 DEF SessionOK, Nearly, QueueOK
    <3> QED BY <1>8, <1>9, <2>1, <3>1 DEF SessionOK, Nearly, PhasesOK, LinkOK
  <2>6. Clean(y) => Clean(n) BY <1>8 DEF Clean
  <2>7. DrainOK(y)
    <3>1. n.on BY <1>6, <1>8, <1>9
    <3> QED BY <1>8, <2>1, <2>4, <2>6, <3>1 DEF SessionOK, Nearly, DrainOK, Live
  <2> QED BY <1>8, <2>1, <2>2, <2>3, <2>5, <2>7 DEF SessionOK, Nearly
<1>11. StepPre(s, z) BY <1>2, <1>8, <1>9, <1>10, SettledGoes DEF x
<1>12. z.at \in Up => z.on
  <2>1. y.jobs # <<>> /\ Head(y.jobs) = "message" BY <1>2, <1>9
  <2>2. Went(y, z, FALSE) BY <1>8, <1>9, <1>10, <2>1, SettledWent
  <2> HIDE DEF z
  <2> QED BY <1>8, <2>1, <2>2 DEF Went
<1>13. ~AwayHeld'
  <2>1. Len(held') = 1 /\ held'[1] = m BY <1>2
  <2>2. \A i \in 1 .. Len(held') : held'[i] = m BY <2>1
  <2> QED BY <1>5, <2>2 DEF AwayHeld
<1> HIDE DEF z
<1>14. Left(z, held' # <<>>) /\ Missed(z, AwayHeld') BY <1>12, <1>13 DEF Left, Missed
<1>15. \A b \in Sessions \ {s} : Left(ses[b], held' # <<>>) /\ Missed(ses[b], AwayHeld')
  <2> TAKE b \in Sessions \ {s}
  <2>1. ~Live(ses[b]) BY <1>1, <1>2 DEF SessionOK, Nearly, LinkOK, Live
  <2> QED BY <2>1 DEF Left, Missed
<1>16. \A b \in Sessions : After(ses[b], w.ses[b]) BY <1>11, StepGoes
<1>17. ToldIn(fate'[m], w)
  <2>1. x.at = "started" => w.ses[s].at = "started" BY <1>16 DEF After, x
  <2> HIDE DEF w
  <2> QED BY <1>5, <2>1 DEF ToldIn
<1>18. held' \in Seq(Messages) /\ Apart'
  <2>1. Len(held') = 1 /\ held'[1] = m /\ held' \in Seq(Messages) BY <1>2
  <2>2. \A i \in 1 .. Len(held') : held'[i] = m BY <2>1
  <2> QED BY <1>3, <2>1, <2>2 DEF Apart
<1>19. \A e \in load'.messages : e \in load.messages /\ fate'[e] = fate[e]
  <2>1. \A e \in load.messages : e \in Messages BY <1>1 DEF LoadType
  <2> QED BY <1>3, <1>5, <2>1
<1>20. \A e \in Messages : fate'[e] = fate[e] \/ ToldIn(fate'[e], w) BY <1>5, <1>17
<1>21. w = Step(World, s, z) BY DEF w
<1> HIDE DEF w
<1> QED BY <1>2, <1>3, <1>5, <1>11, <1>14, <1>15, <1>18, <1>19, <1>20, <1>21, StepKeeps
-----------------------------------------------------------------------------
(* What the runs check, proved. *)

LEMMA NewIsOK == NewSession \in SessionType /\ SessionOK(NewSession)
BY EmptySeq
   DEF NewSession, SessionType, SessionOK, Nearly, PhasesOK, LinkOK, QueueOK, AskedOK, DrainOK,
       HasMessage, Live, Clean, Phases, Handshake, Up

LEMMA Begins == Init => IInv
<1> SUFFICES ASSUME Init PROVE IInv OBVIOUS
<1>1. /\ ses \in [Sessions -> SessionType] /\ \A s \in Sessions : ses[s] = NewSession
      /\ waits = {} /\ doing \in [Sessions -> Doings] /\ \A a \in Sessions : doing[a] = "none"
      /\ attempt \in [Sessions -> Attempts]
      /\ held = <<>> /\ held \in Seq(Messages)
  BY NewIsOK, EmptySeq DEF Init, Doings, Fresh, Attempts
<1>2. conn \in ConnType /\ conn.session = None /\ conn.transport = None /\ ~conn.timer
  BY DEF Init, ConnType, Radio
<1>3. World \in Worlds BY <1>1, <1>2 DEF Worlds, World
<1>4. load \in LoadType BY ConnectionConstants DEF Init
<1>5. /\ fate \in [Messages -> FateType]
      /\ \A m \in Messages : fate[m].how = "none" /\ ~fate[m].away /\ fate[m].during = {}
  BY DEF Init, FateType
<1>6. WorldOK(World)
  <2>1. NewSession.at = "idle" /\ "idle" \notin Starting BY DEF NewSession, Starting, Handshake
  <2> QED BY <1>1, <1>2, <2>1, NewIsOK, WorldIs DEF WorldOK, FreshOK, OrderOK, WaitsOK, ConnOK
<1>7. TimerOK(World) BY <1>2, WorldIs DEF TimerOK
<1>8. HeldOK
  <2>1. ~Live(NewSession) BY DEF Live, NewSession
  <2> QED BY <1>1, <2>1 DEF HeldOK, Left, Missed
<1>9. FateOK
  <2>1. Apart BY <1>1 DEF Apart
  <2>2. \A m \in load.messages : m \in Messages BY <1>4 DEF LoadType
  <2> QED BY <1>5, <2>1, <2>2 DEF FateOK, ToldIn
<1> QED BY <1>1, <1>3, <1>4, <1>5, <1>6, <1>7, <1>8, <1>9 DEF IInv, Types

LEMMA StepKeepsAll == IInv /\ [Next]_vars => IInv'
<1> SUFFICES ASSUME IInv, [Next]_vars PROVE IInv' OBVIOUS
<1>1. ASSUME NEW a \in Sessions, NEW kind \in {Radio, "demo"}, Tap(a, kind) PROVE IInv'
  BY <1>1, TapKeeps
<1>2. ASSUME NEW a \in Sessions, TimerFires(a) PROVE IInv' BY <1>2, TimerKeeps
<1>3. ASSUME NEW a \in Sessions, MonitoringStarts(a) PROVE IInv' BY <1>3, MonitoringKeeps
<1>4. ASSUME NEW a \in Sessions, Opens(a) PROVE IInv' BY <1>4, OpensKeeps
<1>5. ASSUME NEW a \in Sessions, NEW chosen \in BOOLEAN, OpenFails(a, chosen) PROVE IInv'
  BY <1>5, OpenFailsKeeps
<1>6. ASSUME NEW a \in Sessions, Undone(a) PROVE IInv' BY <1>6, UndoneKeeps
<1>7. ASSUME NEW a \in Sessions, StartReturns(a) PROVE IInv' BY <1>7, StartReturnsKeeps
<1>8. ASSUME NEW a \in Sessions, TablesRead(a) PROVE IInv' BY <1>8, TablesKeep
<1>9. CASE UserDisconnects BY <1>9, UserKeeps
<1>10. ASSUME NEW v \in waits, StopEnds(v) PROVE IInv' BY <1>10, StopEndsKeeps
<1>11. ASSUME NEW s \in Sessions, Command(s) PROVE IInv' BY <1>11, CommandKeeps
<1>12. ASSUME NEW s \in Sessions, LinkBreaks(s) PROVE IInv' BY <1>12, LinkBreaksKeeps
<1>13. ASSUME NEW s \in Sessions, NEW reply \in Commands \union {"error"}, Answers(s, reply)
       PROVE  IInv'
  BY <1>13, AnswersKeeps
<1>14. ASSUME NEW s \in Sessions, NEW later \in BOOLEAN, TimesOut(s, later) PROVE IInv'
  BY <1>14, TimesOutKeeps
<1>15. ASSUME NEW m \in Messages, Arrives(m) PROVE IInv' BY <1>15, ArrivesKeeps
<1>16. ASSUME NEW m \in Messages, NEW s \in Sessions, AnswersAndPushes(s, m) PROVE IInv'
  BY <1>16, AnswersAndPushesKeeps
<1>17. CASE UNCHANGED vars
  <2>1. UNCHANGED <<ses, held, fate, conn, waits, doing, attempt, load>> BY <1>17 DEF vars
  <2>2. World' = World BY <2>1 DEF World
  <2> QED BY <2>1, <2>2 DEF IInv, Types, HeldOK, AwayHeld, FateOK, Apart
<1>18. ASSUME NEW a \in Sessions, FileRead(a) PROVE IInv' BY <1>18, FileReadKeeps
<1>19. ASSUME NEW a \in Sessions, FileFails(a) PROVE IInv' BY <1>19, FileFailsKeeps
<1> HIDE DEF IInv
<1> QED BY <1>1, <1>2, <1>3, <1>4, <1>5, <1>6, <1>7, <1>8, <1>9, <1>10, <1>11, <1>12, <1>13, <1>14,
           <1>15, <1>16, <1>17, <1>18, <1>19 DEF Next

LEMMA Invariance == Spec => []IInv
BY Begins, StepKeepsAll, PTL DEF Spec

\* A session that is up, and none of whose commands failed, drains whatever its radio
\* holds: no push falls between two passes, whichever commands, time-outs, taps, losses
\* and stops come in between.
THEOREM NothingIsLeft == Spec => []NothingLeftInRadio
<1>1. IInv => NothingLeftInRadio
  BY DEF IInv, HeldOK, Left, Live, Up, NothingLeftInRadio
<1> QED BY <1>1, Invariance, PTL
-----------------------------------------------------------------------------
(* While calls do not overlap. *)

\* A session that hears frames is up, and a handshake has its step in the queue.
HasStep(x) == \E i \in 1 .. Len(x.jobs) : x.jobs[i] = x.at
Sound(x) == Live(x) => x.up = "connected" /\ (x.at \in Handshake => HasStep(x))

\* connect() waits, before start() or in it.
Busy == {"loading", "monitoring", "starting"}
NoneBusy(w) == \A a \in Sessions : w.doing[a] \notin Busy
Last(w, a) == \A b \in Sessions : b > a => w.doing[b] = "none"

\* The connection hears its session and no other, and none but that one is up; the
\* service has the transport of that one, and listens to no other.
HearsOK(w) ==
  /\ \A s \in Sessions : w.ses[s].running \/ w.ses[s].at = "opening" => s = w.conn.session
  /\ w.conn.hearing \subseteq {w.conn.handle}
  /\ w.conn.handle # None => w.conn.handle = w.conn.session
  /\ w.conn.state # "disconnected" =>
       w.conn.kind # "none" /\ (w.conn.session # None => w.conn.kind = Radio)
  /\ w.conn.session # None => w.conn.transport = w.conn.session
  /\ w.conn.listening # None => w.conn.listening = w.conn.transport

\* A call that waits for a session to stop is alone, but for the start() that was
\* undone by the loss it deals with.
WaitingOK(w) ==
  \A v \in w.waits :
    /\ \A u \in w.waits : u = v
    /\ \A a \in Sessions : w.doing[a] \in Busy => v.op = "lost" /\ w.ses[a].at = "undoing"
    /\ w.conn.session = None /\ w.conn.listening = None
    /\ v.op \in {"connect", "failed"} => Last(w, v.of)
    /\ v.op = "user" => w.conn.user
    /\ v.op = "lost" => ~w.conn.user /\ v.granted

\* An attempt under way is the last one, and the connection's.
BusyOK(w) ==
  \A a \in Sessions : w.doing[a] \in Busy =>
    /\ \A b \in Sessions : w.doing[b] \in Busy => a = b
    /\ ~w.conn.user /\ Last(w, a) /\ w.conn.state # "connected"
    /\ w.conn.session \in {None, a}
    /\ w.ses[a].at # "undoing" =>
         /\ w.conn.state = "connecting" /\ w.conn.kind = w.attempt[a].kind
         /\ w.attempt[a].kind = Radio => w.conn.session = a
    /\ w.doing[a] = "loading" =>
         w.attempt[a].kind # Radio /\ w.conn.session = None /\ w.conn.listening = None
    /\ w.doing[a] = "starting" =>
         /\ w.attempt[a].kind = Radio /\ w.ses[a].at \in Starting
         /\ w.ses[a].at # "undoing" => w.conn.handle = a /\ w.conn.hearing = {a}
         /\ w.ses[a].at \in Handshake \union {"drain"} => Live(w.ses[a])

\* With no call under way the connection rests, with a session that is heard, or
\* with none and a timer where one is due.
RestOK(w) ==
  w.waits = {} /\ NoneBusy(w) =>
    /\ w.conn.state # "connecting"
    /\ w.conn.state = "disconnected" =>
         /\ w.conn.session = None
         /\ ~w.conn.user => \A a \in Sessions :
              w.doing[a] \in {"tables", "done"} /\ Last(w, a) => w.conn.timers > 0
    /\ w.conn.state = "connected" =>
         /\ ~w.conn.user
         /\ w.conn.kind = Radio =>
              /\ w.conn.session # None /\ w.conn.handle = w.conn.session
              /\ w.conn.hearing = {w.conn.session} /\ Live(w.ses[w.conn.session])

CalmOK(w) == HearsOK(w) /\ WaitingOK(w) /\ BusyOK(w) /\ RestOK(w)

SoundOK == \A s \in Sessions : Sound(ses[s])
CalmTold == calm => \A m \in Messages : ~fate[m].astray
LInv == IInv /\ SoundOK /\ (calm => CalmOK(World)) /\ CalmTold

-----------------------------------------------------------------------------
(* Calls that do not overlap. *)

\* Nothing is up, and nothing is heard.
Off(u) ==
  /\ u.conn.session = None /\ u.conn.handle = None /\ u.conn.hearing = {}
  /\ u.conn.listening = None
  /\ \A s \in Sessions : ~u.ses[s].running /\ u.ses[s].at # "opening"

NoneOpening(w) == \A s \in Sessions : w.ses[s].at # "opening"

\* A call that deals with a loss waits, alone.
Lost(w) == \A v \in w.waits : /\ \A u \in w.waits : u = v
                              /\ v.op = "lost" /\ v.granted

LEMMA StateIs ==
  ASSUME NEW w \in Worlds
  PROVE  /\ w.conn \in ConnType /\ w.conn.session \in Sessions \union {None}
         /\ w.conn.hearing \subseteq Sessions /\ w.conn.user \in BOOLEAN
         /\ w.conn.state \in {"disconnected", "connecting", "connected"}
         /\ w.waits \subseteq Waiting /\ w.doing \in [Sessions -> Doings]
         /\ w.ses \in [Sessions -> SessionType]
BY DEF Worlds, ConnType

\* A connection that has no session hears none.
LEMMA NothingUp ==
  ASSUME NEW w \in Worlds, HearsOK(w), w.conn.session = None, w.conn.listening = None
  PROVE  Off(w)
<1>1. w.conn.hearing \subseteq Sessions BY StateIs
<1>2. w.conn.handle = None BY DEF HearsOK
<1>3. \A s \in Sessions : s # None BY NoneIsNone
<1> QED BY <1>1, <1>2, <1>3 DEF HearsOK, Off

\* With its session the connection lets go of all that is up.
LEMMA TornOff ==
  ASSUME NEW w \in Worlds, WorldOK(w), HearsOK(w), NoneOpening(w), NEW u, Torn(w, u)
  PROVE  Off(u) /\ \A b \in Sessions : w.ses[b].at = "undoing" => u.ses[b].at = "undoing"
<1>1. w.conn.hearing \subseteq {w.conn.handle} BY DEF HearsOK
<1>2. ASSUME NEW b \in Sessions
      PROVE  /\ ~u.ses[b].running /\ u.ses[b].at # "opening"
             /\ w.ses[b].at = "undoing" => u.ses[b].at = "undoing"
  <2>1. w.ses[b].at # "opening" BY DEF NoneOpening
  <2>2. CASE b = w.conn.session
    <3>1. u.ses[b] = Stop(w.ses[b]) BY <2>2 DEF Torn
    <3>2. w.ses[b] \in SessionType /\ SessionOK(w.ses[b]) BY StateIs DEF WorldOK
    <3>3. Ends(w.ses[b], u.ses[b]) /\ ~u.ses[b].running BY <3>1, <3>2, StopOK
    <3> QED BY <2>1, <3>3 DEF Ends
  <2>3. CASE b # w.conn.session
    <3>1. u.ses[b] = w.ses[b] BY <2>3 DEF Torn
    <3> QED BY <2>1, <2>3, <3>1 DEF HearsOK
  <2> QED BY <2>2, <2>3
<1> QED BY <1>1, <1>2 DEF Off, Torn

\* Where the calm can come to: a connection that rests,
LEMMA RestsCalm ==
  ASSUME NEW c \in Worlds, Off(c), c.waits = {}, NoneBusy(c), c.conn.state = "disconnected",
         \/ c.conn.user \/ c.conn.timers > 0
         \/ \E a \in Sessions : Last(c, a) /\ c.doing[a] \notin {"none", "tables", "done"}
  PROVE  CalmOK(c)
<1>1. ASSUME NEW a \in Sessions, Last(c, a), c.doing[a] \notin {"none", "tables", "done"},
             NEW b \in Sessions, Last(c, b), c.doing[b] \in {"tables", "done"}
      PROVE  FALSE
  <2>1. a \in Nat /\ b \in Nat BY SessionsAreNumbered
  <2>2. a < b \/ b < a \/ a = b BY <2>1
  <2> QED BY <1>1, <2>1, <2>2 DEF Last
<1>2. HearsOK(c) BY DEF HearsOK, Off
<1>3. WaitingOK(c) /\ BusyOK(c) BY DEF WaitingOK, BusyOK, NoneBusy
<1>4. RestOK(c)
  <2>1. ~c.conn.user => \A b \in Sessions :
              c.doing[b] \in {"tables", "done"} /\ Last(c, b) => c.conn.timers > 0
    BY <1>1
  <2> QED BY <2>1 DEF RestOK, Off
<1> QED BY <1>2, <1>3, <1>4 DEF CalmOK

\* one that waits for its session to stop,
LEMMA WaitsCalm ==
  ASSUME NEW c \in Worlds, Off(c), NEW v, c.waits = {v}, BusyOK(c),
         c.conn.state # "disconnected" => c.conn.kind # "none",
         \A a \in Sessions : c.doing[a] \in Busy => v.op = "lost" /\ c.ses[a].at = "undoing",
         v.op \in {"connect", "failed"} => Last(c, v.of),
         v.op = "user" => c.conn.user,
         v.op = "lost" => ~c.conn.user /\ v.granted
  PROVE  CalmOK(c)
<1>1. HearsOK(c) BY DEF HearsOK, Off
<1>2. WaitingOK(c) BY DEF WaitingOK, Off
<1>3. RestOK(c) BY DEF RestOK
<1> QED BY <1>1, <1>2, <1>3 DEF CalmOK

\* and one that has begun to connect.
LEMMA OffConnects ==
  ASSUME NEW u \in Worlds, WorldOK(u), Off(u), u.waits = {}, NoneBusy(u),
         NEW a \in Sessions, u.doing[a] = "closing", Last(u, a), NEW g \in BOOLEAN
  PROVE  CalmOK(Continue(u, "connect", a, g))
<1> DEFINE c == Continue(u, "connect", a, g)
<1>1. Continued(u, "connect", a, g, c) BY ContinueIs DEF Ops
<1> HIDE DEF c
<1>2. /\ c \in Worlds /\ c.ses = u.ses /\ c.waits = {} /\ c.attempt = u.attempt
      /\ c.conn.hearing = {} /\ c.conn.handle = None
      /\ c.doing[a] = Entered(u.attempt[a].kind)
      /\ \A b \in Sessions \ {a} : c.doing[b] = u.doing[b]
      /\ c.conn.state = "connecting" /\ c.conn.kind = u.attempt[a].kind
      /\ c.conn.session = IF u.attempt[a].kind = Radio THEN a ELSE None
      /\ u.attempt[a].kind = Radio => c.conn.transport = a
      /\ c.conn.user = FALSE /\ c.conn.listening = None
  BY <1>1 DEF Continued, Off
<1>3. \A b \in Sessions : c.doing[b] \in Busy => b = a BY <1>2 DEF NoneBusy
<1>4. Last(c, a)
  <2>1. \A b \in Sessions : b > a => b # a BY SessionsAreNumbered
  <2> QED BY <1>2, <2>1 DEF Last
<1>5. u.ses[a] = NewSession BY DEF WorldOK, FreshOK, Fresh
<1>6. u.attempt[a].kind \in {Radio, "demo"} BY DEF Worlds, Attempts
<1>7. HearsOK(c)
  <2>1. Radio # "none" BY DEF Radio
  <2> QED BY <1>2, <1>6, <2>1 DEF HearsOK, Off
<1>8. WaitingOK(c) BY <1>2 DEF WaitingOK
<1>9. BusyOK(c)
  <2> SUFFICES ASSUME NEW b \in Sessions, c.doing[b] \in Busy
               PROVE  /\ \A e \in Sessions : c.doing[e] \in Busy => b = e
                      /\ ~c.conn.user /\ Last(c, b) /\ c.conn.state # "connected"
                      /\ c.conn.session \in {None, b}
                      /\ c.conn.state = "connecting" /\ c.conn.kind = c.attempt[b].kind
                      /\ c.attempt[b].kind = Radio => c.conn.session = b
                      /\ c.doing[b] = "loading" =>
                           c.attempt[b].kind # Radio /\ c.conn.session = None /\ c.conn.listening = None
                      /\ c.doing[b] # "starting"
    BY DEF BusyOK
  <2> QED BY <1>2, <1>3, <1>4 DEF Entered
<1>10. RestOK(c) BY <1>2 DEF RestOK, NoneBusy, Busy, Entered
<1> QED BY <1>7, <1>8, <1>9, <1>10 DEF CalmOK, c

LEMMA OffFails ==
  ASSUME NEW u \in Worlds, Off(u), NEW a \in Sessions, Last(u, a),
         \A b \in Sessions : u.doing[b] \in Busy => b = a,
         u.waits = {} \/ (Lost(u) /\ ~u.conn.user), NEW g \in BOOLEAN
  PROVE  CalmOK(Continue(u, "failed", a, g))
<1> DEFINE c == Continue(u, "failed", a, g)
<1>1. Continued(u, "failed", a, g, c) BY ContinueIs DEF Ops
<1> HIDE DEF c
<1>2. /\ c \in Worlds /\ c.ses = u.ses /\ c.waits = u.waits
      /\ c.conn.hearing = {} /\ c.conn.handle = None /\ c.conn.session = None
      /\ c.conn.listening = None
      /\ c.doing[a] = "failed" /\ \A b \in Sessions \ {a} : c.doing[b] = u.doing[b]
      /\ c.conn.state = "disconnected" /\ c.conn.user = u.conn.user
  BY <1>1 DEF Continued, Off
<1>3. Off(c) BY <1>2 DEF Off
<1>4. NoneBusy(c) BY <1>2 DEF NoneBusy, Busy
<1>5. Last(c, a)
  <2>1. \A b \in Sessions : b > a => b # a BY SessionsAreNumbered
  <2> QED BY <1>2, <2>1 DEF Last
<1>6. CASE u.waits = {} BY <1>2, <1>3, <1>4, <1>5, <1>6, RestsCalm DEF c
<1>7. CASE u.waits # {} /\ Lost(u) /\ ~u.conn.user
  <2>1. PICK v \in u.waits : TRUE BY <1>7
  <2>2. c.waits = {v} /\ v.op = "lost" /\ v.granted BY <1>2, <1>7, <2>1 DEF Lost
  <2>3. BusyOK(c) BY <1>4 DEF BusyOK, NoneBusy
  <2> QED BY <1>2, <1>3, <1>4, <1>7, <2>2, <2>3, WaitsCalm DEF c, NoneBusy
<1> QED BY <1>6, <1>7

LEMMA OffUser ==
  ASSUME NEW u \in Worlds, Off(u), u.waits = {}, NoneBusy(u), u.conn.user, NEW g \in BOOLEAN
  PROVE  CalmOK(Continue(u, "user", None, g))
<1> DEFINE c == Continue(u, "user", None, g)
<1>1. Continued(u, "user", None, g, c) BY ContinueIs DEF Ops
<1> HIDE DEF c
<1>2. /\ c \in Worlds /\ c.ses = u.ses /\ c.waits = {} /\ c.doing = u.doing
      /\ c.conn.hearing = {} /\ c.conn.handle = None /\ c.conn.session = None
      /\ c.conn.listening = None
      /\ c.conn.state = "disconnected" /\ c.conn.user = u.conn.user
  BY <1>1 DEF Continued, Off
<1>3. Off(c) /\ NoneBusy(c) BY <1>2 DEF Off, NoneBusy
<1> QED BY <1>2, <1>3, RestsCalm DEF c

\* An attempt that waits for its link to be unwound is all that may be busy.
Undoing(w) == \A a \in Sessions : w.doing[a] \in Busy => w.ses[a].at = "undoing"

LEMMA StillBusy ==
  ASSUME NEW w, NEW c, BusyOK(w), Undoing(w), c.doing = w.doing, c.attempt = w.attempt,
         c.conn.user = w.conn.user, c.conn.session = None, c.conn.listening = None,
         c.conn.state # "connected",
         \A b \in Sessions : w.ses[b].at = "undoing" => c.ses[b].at = "undoing"
  PROVE  BusyOK(c) /\ Undoing(c)
<1>1. Undoing(c) BY DEF Undoing
<1>2. \A a \in Sessions : Last(w, a) => Last(c, a) BY DEF Last
<1>3. "undoing" \in Starting /\ "undoing" \notin Handshake \union {"drain"}
  BY DEF Starting, Handshake
<1>4. BusyOK(c)
  <2> SUFFICES ASSUME NEW a \in Sessions, c.doing[a] \in Busy
               PROVE  /\ \A b \in Sessions : c.doing[b] \in Busy => a = b
                      /\ ~c.conn.user /\ Last(c, a) /\ c.conn.state # "connected"
                      /\ c.conn.session \in {None, a}
                      /\ c.ses[a].at = "undoing"
                      /\ c.doing[a] = "loading" => c.attempt[a].kind # Radio
                      /\ c.doing[a] = "starting" => c.attempt[a].kind = Radio
    BY <1>3 DEF BusyOK
  <2> QED BY <1>1, <1>2 DEF BusyOK, Undoing
<1> QED BY <1>1, <1>4

LEMMA OffLost ==
  ASSUME NEW u \in Worlds, Off(u), u.waits = {}, ~u.conn.user, BusyOK(u), Undoing(u)
  PROVE  CalmOK(Continue(u, "lost", None, TRUE))
<1> DEFINE c == Continue(u, "lost", None, TRUE)
<1>1. Continued(u, "lost", None, TRUE, c) BY ContinueIs DEF Ops
<1> HIDE DEF c
<1>2. /\ c \in Worlds /\ c.ses = u.ses /\ c.waits = {} /\ c.doing = u.doing
      /\ c.attempt = u.attempt
      /\ c.conn.hearing = {} /\ c.conn.handle = None /\ c.conn.session = None
      /\ c.conn.listening = None
      /\ c.conn.state = "disconnected" /\ c.conn.user = u.conn.user /\ c.conn.timers > 0
  BY <1>1 DEF Continued, Off
<1>3. Off(c) BY <1>2 DEF Off
<1>4. BusyOK(c) BY <1>2, StillBusy
<1>5. CASE NoneBusy(c) BY <1>2, <1>3, <1>5, RestsCalm DEF c
<1>6. CASE ~NoneBusy(c)
  <2>1. HearsOK(c) BY <1>2, <1>3 DEF HearsOK, Off
  <2>2. WaitingOK(c) BY <1>2 DEF WaitingOK
  <2>3. RestOK(c) BY <1>6 DEF RestOK
  <2> QED BY <1>4, <2>1, <2>2, <2>3 DEF CalmOK, c
<1> QED BY <1>5, <1>6

\* What a teardown comes to, once the connection has let go.
LetGo(w, op, a, g, t) ==
  \E u \in Worlds :
    /\ Torn(w, u) /\ Off(u) /\ WorldOK(u)
    /\ \A b \in Sessions : w.ses[b].at = "undoing" => u.ses[b].at = "undoing"
    /\ \/ /\ w.conn.session # None /\ TakesTime(w.ses[w.conn.session])
          /\ Waits(u, t, w.conn.session, op, a, g)
       \/ /\ w.conn.session = None \/ ~TakesTime(w.ses[w.conn.session])
          /\ t = Continue(u, op, a, g)

LEMMA LetsGo ==
  ASSUME NEW w \in Worlds, WorldOK(w), HearsOK(w), NoneOpening(w),
         NEW op \in Ops, NEW a \in Sessions \union {None}, NEW g \in BOOLEAN,
         op \in {"connect", "failed"} => a \in Sessions
  PROVE  LetGo(w, op, a, g, Teardown(w, op, a, g))
<1> DEFINE t == Teardown(w, op, a, g)
<1>1. TornDown(w, op, a, g, t) BY TeardownIs
<1> HIDE DEF t
<1>2. PICK u \in Worlds :
        /\ Torn(w, u)
        /\ LET s == w.conn.session IN
           \/ s # None /\ TakesTime(w.ses[s]) /\ Waits(u, t, s, op, a, g)
           \/ ~(s # None /\ TakesTime(w.ses[s])) /\ t = Continue(u, op, a, g)
  BY <1>1 DEF TornDown
<1>3. /\ Off(u) /\ WorldOK(u)
      /\ \A b \in Sessions : w.ses[b].at = "undoing" => u.ses[b].at = "undoing"
  BY <1>2, TornOff, TornOK
<1> QED BY <1>2, <1>3 DEF t, LetGo

\* The session stopped is waited for by one call.
OneWaits(t, op, a, g) ==
  /\ t \in Worlds /\ Off(t)
  /\ \E v : t.waits = {v} /\ v.op = op /\ v.of = a /\ v.granted = g

LEMMA WaitsAlone ==
  ASSUME NEW u, Off(u), u.waits = {}
  PROVE  \A t, s, op, a, g : Waits(u, t, s, op, a, g) => OneWaits(t, op, a, g)
<1> SUFFICES ASSUME NEW t, NEW s, NEW op, NEW a, NEW g, Waits(u, t, s, op, a, g)
             PROVE  OneWaits(t, op, a, g)
  OBVIOUS
<1> DEFINE v == [on |-> s, op |-> op, of |-> a, granted |-> g]
<1>1. t.waits = {v} /\ t \in Worlds /\ Off(t) BY DEF Waits, Off
<1>2. v.op = op /\ v.of = a /\ v.granted = g OBVIOUS
<1> HIDE DEF v
<1> QED BY <1>1, <1>2 DEF OneWaits

LEMMA ConnectTears ==
  ASSUME NEW w \in Worlds, WorldOK(w), HearsOK(w), NoneOpening(w), w.waits = {}, NoneBusy(w),
         NEW a \in Sessions, w.doing[a] = "closing", Last(w, a)
  PROVE  CalmOK(Teardown(w, "connect", a, FALSE))
<1> DEFINE t == Teardown(w, "connect", a, FALSE)
<1>1. PICK u \in Worlds :
        /\ Torn(w, u) /\ Off(u) /\ WorldOK(u)
        /\ \/ Waits(u, t, w.conn.session, "connect", a, FALSE)
           \/ t = Continue(u, "connect", a, FALSE)
  <2>1. LetGo(w, "connect", a, FALSE, t) BY LetsGo DEF Ops
  <2> HIDE DEF t
  <2> QED BY <2>1 DEF LetGo
<1> HIDE DEF t
<1>2. u.waits = {} /\ NoneBusy(u) /\ u.doing[a] = "closing" /\ Last(u, a)
  BY <1>1 DEF Torn, NoneBusy, Last
<1>3. CASE t = Continue(u, "connect", a, FALSE) BY <1>1, <1>2, <1>3, OffConnects DEF t
<1>4. CASE Waits(u, t, w.conn.session, "connect", a, FALSE)
  <2>1. OneWaits(t, "connect", a, FALSE) BY <1>1, <1>2, <1>4, WaitsAlone
  <2>2. PICK v : t.waits = {v} /\ v.op = "connect" /\ v.of = a BY <2>1 DEF OneWaits
  <2>3. /\ t.doing = w.doing
        /\ t.conn.state # "disconnected" => t.conn.kind # "none"
    BY <1>1, <1>4 DEF Waits, Torn, HearsOK
  <2>4. NoneBusy(t) /\ BusyOK(t) /\ Last(t, a) BY <2>3 DEF NoneBusy, BusyOK, Last
  <2> QED BY <2>1, <2>2, <2>3, <2>4, WaitsCalm DEF t, OneWaits, NoneBusy
<1> QED BY <1>1, <1>3, <1>4

LEMMA UserTears ==
  ASSUME NEW w \in Worlds, WorldOK(w), HearsOK(w), NoneOpening(w), w.waits = {}, NoneBusy(w),
         w.conn.user
  PROVE  CalmOK(Teardown(w, "user", None, FALSE))
<1> DEFINE t == Teardown(w, "user", None, FALSE)
<1>1. PICK u \in Worlds :
        /\ Torn(w, u) /\ Off(u)
        /\ \/ Waits(u, t, w.conn.session, "user", None, FALSE)
           \/ t = Continue(u, "user", None, FALSE)
  <2>1. LetGo(w, "user", None, FALSE, t) BY LetsGo DEF Ops
  <2> HIDE DEF t
  <2> QED BY <2>1 DEF LetGo
<1> HIDE DEF t
<1>2. u.waits = {} /\ NoneBusy(u) /\ u.conn.user BY <1>1 DEF Torn, NoneBusy
<1>3. CASE t = Continue(u, "user", None, FALSE) BY <1>1, <1>2, <1>3, OffUser DEF t
<1>4. CASE Waits(u, t, w.conn.session, "user", None, FALSE)
  <2>1. OneWaits(t, "user", None, FALSE) BY <1>1, <1>2, <1>4, WaitsAlone
  <2>2. PICK v : t.waits = {v} /\ v.op = "user" BY <2>1 DEF OneWaits
  <2>3. /\ t.doing = w.doing /\ t.conn.user
        /\ t.conn.state # "disconnected" => t.conn.kind # "none"
    BY <1>1, <1>2, <1>4 DEF Waits, Torn, HearsOK
  <2>4. NoneBusy(t) /\ BusyOK(t) BY <2>3 DEF NoneBusy, BusyOK
  <2> QED BY <2>1, <2>2, <2>3, <2>4, WaitsCalm DEF t, OneWaits, NoneBusy
<1> QED BY <1>1, <1>3, <1>4

\* An attempt fails: the last one, while nothing or a loss is dealt with.
LEMMA FailsTears ==
  ASSUME NEW w \in Worlds, WorldOK(w), HearsOK(w), NoneOpening(w),
         NEW a \in Sessions, Last(w, a), \A b \in Sessions : w.doing[b] \in Busy => b = a,
         w.waits = {} \/ (w.conn.session = None /\ Lost(w) /\ ~w.conn.user)
  PROVE  CalmOK(Teardown(w, "failed", a, FALSE))
<1> DEFINE t == Teardown(w, "failed", a, FALSE)
<1>1. PICK u \in Worlds :
        /\ Torn(w, u) /\ Off(u)
        /\ \/ w.conn.session # None /\ Waits(u, t, w.conn.session, "failed", a, FALSE)
           \/ t = Continue(u, "failed", a, FALSE)
  <2>1. LetGo(w, "failed", a, FALSE, t) BY LetsGo DEF Ops
  <2> HIDE DEF t
  <2> QED BY <2>1 DEF LetGo
<1> HIDE DEF t
<1>2. /\ u.waits = w.waits /\ u.doing = w.doing /\ u.conn.user = w.conn.user
      /\ u.conn.state = w.conn.state /\ u.conn.kind = w.conn.kind
  BY <1>1 DEF Torn
<1>3. /\ Last(u, a)
      /\ \A b \in Sessions : u.doing[b] \in Busy => b = a
      /\ u.waits = {} \/ (w.conn.session = None /\ Lost(u) /\ ~u.conn.user)
  BY <1>2 DEF Last, Lost
<1>4. CASE t = Continue(u, "failed", a, FALSE) BY <1>1, <1>3, <1>4, OffFails DEF t
<1>5. CASE w.conn.session # None /\ Waits(u, t, w.conn.session, "failed", a, FALSE)
  <2>1. OneWaits(t, "failed", a, FALSE) BY <1>1, <1>3, <1>5, WaitsAlone
  <2>2. PICK v : t.waits = {v} /\ v.op = "failed" /\ v.of = a BY <2>1 DEF OneWaits
  <2>3. /\ t.doing[a] = "failing" /\ \A b \in Sessions \ {a} : t.doing[b] = u.doing[b]
        /\ t.conn.state # "disconnected" => t.conn.kind # "none"
    BY <1>2, <1>5 DEF Waits, HearsOK
  <2>4. NoneBusy(t) BY <1>3, <2>3 DEF NoneBusy, Busy
  <2>5. BusyOK(t) BY <2>4 DEF NoneBusy, BusyOK
  <2>6. Last(t, a)
    <3>1. \A b \in Sessions : b > a => b # a BY SessionsAreNumbered
    <3> QED BY <1>3, <2>3, <3>1 DEF Last
  <2> QED BY <2>1, <2>2, <2>3, <2>4, <2>5, <2>6, WaitsCalm DEF t, OneWaits, NoneBusy
<1> QED BY <1>1, <1>4, <1>5

\* A link is lost: what its teardown leaves.
LEMMA LostLeaves ==
  ASSUME NEW w \in Worlds, WorldOK(w), HearsOK(w), NoneOpening(w), w.waits = {}, NEW g \in BOOLEAN,
         g \/ w.conn.session = None \/ ~TakesTime(w.ses[w.conn.session])
  PROVE  LET t == Teardown(w, "lost", None, g) IN
         /\ t \in Worlds /\ Off(t) /\ Lost(t)
         /\ t.doing = w.doing /\ t.attempt = w.attempt /\ t.conn.user = w.conn.user
         /\ t.conn.state # "disconnected" => t.conn.state = w.conn.state /\ t.conn.kind = w.conn.kind
         /\ \A b \in Sessions : w.ses[b].at = "undoing" => t.ses[b].at = "undoing"
<1> DEFINE t == Teardown(w, "lost", None, g)
<1>1. PICK u \in Worlds :
        /\ Torn(w, u) /\ Off(u)
        /\ \A b \in Sessions : w.ses[b].at = "undoing" => u.ses[b].at = "undoing"
        /\ \/ g /\ Waits(u, t, w.conn.session, "lost", None, g)
           \/ t = Continue(u, "lost", None, g)
  <2>1. LetGo(w, "lost", None, g, t) BY LetsGo DEF Ops
  <2> HIDE DEF t
  <2> QED BY <2>1 DEF LetGo
<1> HIDE DEF t
<1>2. /\ u.waits = {} /\ u.doing = w.doing /\ u.conn.user = w.conn.user /\ u.attempt = w.attempt
      /\ u.conn.state = w.conn.state /\ u.conn.kind = w.conn.kind
  BY <1>1 DEF Torn
<1>3. CASE t = Continue(u, "lost", None, g)
  <2>1. Continued(u, "lost", None, g, t) BY <1>3, ContinueIs DEF Ops
  <2>2. /\ t \in Worlds /\ t.ses = u.ses /\ t.waits = u.waits /\ t.attempt = u.attempt
        /\ t.doing = u.doing /\ t.conn.user = u.conn.user /\ t.conn.state = "disconnected"
        /\ t.conn.hearing = u.conn.hearing /\ t.conn.handle = u.conn.handle
        /\ t.conn.session = u.conn.session /\ t.conn.listening = u.conn.listening
    BY <2>1 DEF Continued
  <2>3. Off(t) /\ Lost(t) BY <1>1, <1>2, <2>2 DEF Off, Lost
  <2> QED BY <1>1, <1>2, <2>2, <2>3 DEF t
<1>4. CASE g /\ Waits(u, t, w.conn.session, "lost", None, g)
  <2>1. OneWaits(t, "lost", None, g) BY <1>1, <1>2, <1>4, WaitsAlone
  <2>2. PICK v : t.waits = {v} /\ v.op = "lost" /\ v.granted = g BY <2>1 DEF OneWaits
  <2>3. Lost(t) BY <1>4, <2>2 DEF Lost
  <2>4. t.doing = u.doing /\ t.attempt = u.attempt /\ t.conn = u.conn /\ t.ses = u.ses
    BY <1>4 DEF Waits
  <2> QED BY <1>1, <1>2, <2>1, <2>3, <2>4 DEF t, OneWaits
<1> QED BY <1>1, <1>3, <1>4

\* A link that is up is lost, and its call waits for the session to stop.
LEMMA LostCalm ==
  ASSUME NEW w \in Worlds, WorldOK(w), HearsOK(w), NoneOpening(w), w.waits = {},
         w.conn.session # None, TakesTime(w.ses[w.conn.session]), ~w.conn.user,
         BusyOK(w), Undoing(w), NoneBusy(w) \/ w.conn.state # "connected"
  PROVE  CalmOK(Teardown(w, "lost", None, TRUE))
<1> DEFINE t == Teardown(w, "lost", None, TRUE)
<1>1. PICK u \in Worlds :
        /\ Torn(w, u) /\ Off(u)
        /\ \A b \in Sessions : w.ses[b].at = "undoing" => u.ses[b].at = "undoing"
        /\ Waits(u, t, w.conn.session, "lost", None, TRUE)
  <2>1. LetGo(w, "lost", None, TRUE, t) BY LetsGo DEF Ops
  <2> HIDE DEF t
  <2> QED BY <2>1 DEF LetGo
<1> HIDE DEF t
<1>2. /\ u.waits = {} /\ t.doing = w.doing /\ t.conn.user = w.conn.user /\ t.attempt = w.attempt
      /\ t.conn.state = w.conn.state /\ t.conn.kind = w.conn.kind /\ t.ses = u.ses
      /\ t.conn.session = None /\ t.conn.listening = None
  BY <1>1 DEF Torn, Waits
<1>3. OneWaits(t, "lost", None, TRUE) BY <1>1, <1>2, WaitsAlone
<1>4. PICK v : t.waits = {v} /\ v.op = "lost" /\ v.granted = TRUE BY <1>3 DEF OneWaits
<1>5. BusyOK(t) /\ Undoing(t)
  <2>1. CASE NoneBusy(w) BY <1>2, <2>1 DEF NoneBusy, BusyOK, Undoing
  <2>2. CASE w.conn.state # "connected" BY <1>1, <1>2, <2>2, StillBusy
  <2> QED BY <2>1, <2>2
<1>6. t.conn.state # "disconnected" => t.conn.kind # "none" BY <1>2 DEF HearsOK
<1> QED BY <1>2, <1>3, <1>4, <1>5, <1>6, WaitsCalm DEF t, OneWaits, Undoing
-----------------------------------------------------------------------------
(* What each step leaves of the calm: the calls. *)

LEMMA QuietedSound ==
  ASSUME SoundOK, Quieted PROVE SoundOK'
BY DEF SoundOK, Quieted, Sound

\* What is shown of the objects a step makes holds of the next state.
LEMMA BecomesCalm ==
  ASSUME NEW w, Become(w), CalmOK(w) PROVE CalmOK(World')
<1> DEFINE e == World'
<1>1. /\ e.ses = w.ses /\ e.conn = w.conn /\ e.waits = w.waits /\ e.doing = w.doing
      /\ e.attempt = w.attempt
  BY DEF World, Become
<1> HIDE DEF e
<1>2. HearsOK(e) BY <1>1 DEF CalmOK, HearsOK
<1>3. WaitingOK(e) BY <1>1 DEF CalmOK, WaitingOK, Last
<1>4. BusyOK(e) BY <1>1 DEF CalmOK, BusyOK, Last
<1>5. RestOK(e) BY <1>1 DEF CalmOK, RestOK, NoneBusy, Last
<1> QED BY <1>2, <1>3, <1>4, <1>5 DEF CalmOK, e

\* With no call under way, no session waits for its transport either.
LEMMA Rested ==
  ASSUME LInv, calm, Quiet
  PROVE  /\ World \in Worlds /\ WorldOK(World) /\ TimerOK(World) /\ CalmOK(World)
         /\ HearsOK(World) /\ NoneOpening(World) /\ World.waits = {} /\ NoneBusy(World)
<1>1. IInv /\ CalmOK(World) BY DEF LInv
<1>2. World.waits = {} /\ NoneBusy(World) BY WorldIs DEF Quiet, NoneBusy, Busy
<1>3. NoneOpening(World)
  <2>1. "opening" \in Starting /\ "starting" \in Busy BY DEF Starting, Busy
  <2> QED BY <1>1, <1>2, <2>1, Known, WorldIs DEF NoneOpening, NoneBusy
<1> QED BY <1>1, <1>2, <1>3, Known DEF CalmOK

LEMMA DisconnectCalm ==
  ASSUME NEW w \in Worlds, WorldOK(w), TimerOK(w), HearsOK(w), NoneOpening(w), w.waits = {},
         NoneBusy(w), NEW op \in {"connect", "user"}, NEW a, CallPre(w, op, a),
         op = "connect" => Last(w, a), op = "user" => a = None
  PROVE  CalmOK(Disconnect(w, op, a))
<1> DEFINE t == Disconnect(w, op, a)
<1>1. Disconnected(w, op, a, t) BY DisconnectIs
<1> SUFFICES CalmOK(t) OBVIOUS
<1> HIDE DEF t
<1>2. PICK u :
        /\ Reset(w, u) /\ WorldOK(u) /\ CallPre(u, op, a)
        /\ u.conn.user = (w.conn.user \/ op = "user")
        /\ \/ /\ w.conn.state = "disconnected" /\ w.conn.session = None /\ w.conn.transport = None
              /\ \/ op = "user" /\ t = u
                 \/ op = "connect" /\ t = Begin(u, a)
           \/ t = Teardown(u, op, a, FALSE)
  BY <1>1 DEF Disconnected
<1>3. /\ u \in Worlds /\ HearsOK(u) /\ NoneOpening(u) /\ u.waits = {} /\ NoneBusy(u)
      /\ op = "connect" => Last(u, a)
  BY <1>2 DEF Reset, HearsOK, NoneOpening, NoneBusy, Last
<1>4. CASE op = "user"
  <2>1. u.conn.user
    <3>1. u.conn.user = TRUE BY <1>2, <1>4
    <3> QED BY <3>1
  <2>2. CASE t = u
    <3>1. CASE u.conn.session = None /\ u.conn.transport = None /\ u.conn.state = "disconnected"
      <4>0. u.conn.listening = None BY <1>3, <3>1 DEF HearsOK
      <4>1. Off(u) BY <1>3, <3>1, <4>0, NothingUp
      <4> QED BY <1>3, <2>1, <2>2, <3>1, <4>1, RestsCalm
    <3>2. CASE t = Teardown(u, "user", None, FALSE)
      <4>1. CalmOK(Teardown(u, "user", None, FALSE)) BY <1>2, <1>3, <2>1, UserTears
      <4> QED BY <3>2, <4>1
    <3> QED BY <1>2, <1>4, <2>2, <3>1, <3>2 DEF Reset
  <2>3. CASE t = Teardown(u, "user", None, FALSE)
    <3>1. CalmOK(Teardown(u, "user", None, FALSE)) BY <1>2, <1>3, <2>1, UserTears
    <3> QED BY <2>3, <3>1
  <2> QED BY <1>2, <1>4, <2>2, <2>3
<1>5. CASE op = "connect"
  <2>1. a \in Sessions /\ u.doing[a] = "closing" /\ Last(u, a) BY <1>2, <1>3, <1>5 DEF CallPre
  <2>2. CASE u.conn.session = None /\ u.conn.transport = None /\ t = Begin(u, a)
    <3>0. u.conn.listening = None BY <1>3, <2>2 DEF HearsOK
    <3>1. Off(u) BY <1>3, <2>2, <3>0, NothingUp
    <3>2. t = Continue(u, "connect", a, FALSE) BY <1>3, <2>1, <2>2, BeginContinues
    <3>3. \A g \in BOOLEAN : CalmOK(Continue(u, "connect", a, g))
      BY <1>2, <1>3, <2>1, <3>1, OffConnects
    <3> QED BY <3>2, <3>3
  <2>3. CASE t = Teardown(u, "connect", a, FALSE)
    <3>1. CalmOK(Teardown(u, "connect", a, FALSE)) BY <1>2, <1>3, <2>1, ConnectTears
    <3> QED BY <2>3, <3>1
  <2> QED BY <1>2, <1>5, <2>2, <2>3 DEF Reset
<1> QED BY <1>4, <1>5

\* A call of connect() is the last one made.
LEMMA CalledCalm ==
  ASSUME NEW w \in Worlds, WorldOK(w), TimerOK(w), HearsOK(w), NoneOpening(w), w.waits = {},
         NoneBusy(w), NEW a \in Sessions, w.doing[a] = "none",
         \A b \in Sessions : w.doing[b] = "none" => a <= b,
         NEW kind \in {Radio, "demo"}, NEW retry \in BOOLEAN
  PROVE  CalmOK(Disconnect(Called(w, a, kind, retry), "connect", a))
<1> DEFINE u == Called(w, a, kind, retry)
<1>1. Kept(w, u) /\ CallPre(u, "connect", a) BY CalledKeeps
<1>2. "closing" \in Doings BY DEF Doings, Fresh
<1>3. /\ u.ses = w.ses /\ u.waits = w.waits /\ u.conn = w.conn
      /\ u.doing[a] = "closing" /\ \A b \in Sessions \ {a} : u.doing[b] = w.doing[b]
  BY <1>2 DEF Called, Worlds
<1> HIDE DEF u
<1>4. u \in Worlds /\ WorldOK(u) /\ TimerOK(u) BY <1>1 DEF Kept
<1>5. HearsOK(u) /\ NoneOpening(u) BY <1>3 DEF HearsOK, NoneOpening
<1>6. NoneBusy(u)
  <2>1. "closing" \notin Busy BY DEF Busy
  <2> QED BY <1>3, <2>1 DEF NoneBusy
<1>7. Last(u, a)
  <2> SUFFICES ASSUME NEW b \in Sessions, b > a PROVE u.doing[b] = "none" BY DEF Last
  <2>1. a \in Nat /\ b \in Nat BY SessionsAreNumbered
  <2>2. a <= b /\ a # b BY <2>1
  <2>3. w.doing[b] = "none" BY <2>2 DEF WorldOK, OrderOK
  <2> QED BY <1>3, <2>2, <2>3
<1>8. CalmOK(Disconnect(u, "connect", a)) BY <1>1, <1>3, <1>4, <1>5, <1>6, <1>7, DisconnectCalm
<1> QED BY <1>8 DEF u

LEMMA TapCalm ==
  ASSUME LInv, NEW a \in Sessions, NEW kind \in {Radio, "demo"}, Tap(a, kind)
  PROVE  SoundOK' /\ (calm' => CalmOK(World'))
<1>1. IInv' /\ Quieted BY TapKeeps DEF LInv
<1>2. ASSUME calm' PROVE CalmOK(World')
  <2> DEFINE w == Disconnect(Called(World, a, kind, FALSE), "connect", a)
  <2>1. calm /\ Quiet /\ Unused(a) /\ Become(w) BY <1>2 DEF Tap
  <2>2. World.doing[a] = "none" /\ \A b \in Sessions : World.doing[b] = "none" => a <= b
    BY <2>1, WorldIs DEF Unused
  <2>3. CalmOK(w) BY <2>1, <2>2, Rested, CalledCalm
  <2> HIDE DEF w
  <2> QED BY <2>1, <2>3, BecomesCalm
<1> QED BY <1>1, <1>2, QuietedSound DEF LInv

LEMMA UserCalm ==
  ASSUME LInv, UserDisconnects
  PROVE  SoundOK' /\ (calm' => CalmOK(World'))
<1>1. IInv' /\ Quieted BY UserKeeps DEF LInv
<1>2. ASSUME calm' PROVE CalmOK(World')
  <2> DEFINE w == Disconnect(World, "user", None)
  <2>1. calm /\ Quiet /\ Become(w) BY <1>2 DEF UserDisconnects
  <2>2. CallPre(World, "user", None) BY DEF CallPre, Ops
  <2>3. CalmOK(w) BY <2>1, <2>2, Rested, DisconnectCalm
  <2> HIDE DEF w
  <2> QED BY <2>1, <2>3, BecomesCalm
<1> QED BY <1>1, <1>2, QuietedSound DEF LInv

LEMMA TimerCalm ==
  ASSUME LInv, NEW a \in Sessions, TimerFires(a)
  PROVE  SoundOK' /\ (calm' => CalmOK(World'))
<1>1. IInv' /\ Quieted BY TimerKeeps DEF LInv
<1>2. ASSUME calm' PROVE CalmOK(World')
  <2>1. calm /\ Quiet /\ Unused(a) /\ conn.timers > 0 BY <1>2 DEF TimerFires
  <2>2. IInv /\ Reset(World, Fired) /\ Fired.conn.user = conn.user BY <2>1, FiredIs DEF LInv
  <2>3. \/ Become(Fired) /\ (conn.state # "disconnected" \/ conn.user)
        \/ Become(Disconnect(Called(Fired, a, Radio, TRUE), "connect", a))
    BY DEF TimerFires, Fired
  <2>4. Kept(World, Fired) BY <2>1, <2>2, Rested, ResetKeeps
  <2>5. Fired \in Worlds /\ WorldOK(Fired) /\ TimerOK(Fired)
    BY <2>1, <2>4, Rested DEF Kept
  <2>6. /\ HearsOK(World) /\ WaitingOK(World) /\ BusyOK(World) /\ RestOK(World)
        /\ NoneOpening(World) /\ World.waits = {} /\ NoneBusy(World)
    BY <2>1, Rested DEF CalmOK
  <2>7. /\ HearsOK(Fired) /\ NoneOpening(Fired) /\ Fired.waits = {} /\ NoneBusy(Fired)
    BY <2>2, <2>6 DEF Reset, HearsOK, NoneOpening, NoneBusy
  <2>8. CASE Become(Fired) /\ (conn.state # "disconnected" \/ conn.user)
    <3>1. WaitingOK(Fired) /\ BusyOK(Fired) BY <2>7 DEF WaitingOK, BusyOK, NoneBusy
    <3>2. RestOK(Fired) BY <2>2, <2>6, <2>8, WorldIs DEF RestOK, Reset, NoneBusy, Last
    <3> QED BY <2>7, <2>8, <3>1, <3>2, BecomesCalm DEF CalmOK
  <2>9. CASE Become(Disconnect(Called(Fired, a, Radio, TRUE), "connect", a))
    <3> DEFINE w == Disconnect(Called(Fired, a, Radio, TRUE), "connect", a)
    <3>1. Fired.doing[a] = "none" /\ \A b \in Sessions : Fired.doing[b] = "none" => a <= b
      BY <2>1, <2>2, WorldIs DEF Unused, Reset
    <3>2. CalmOK(w) BY <2>5, <2>7, <3>1, CalledCalm
    <3> HIDE DEF w
    <3>3. Become(w) BY <2>9 DEF w
    <3> QED BY <3>2, <3>3, BecomesCalm
  <2> QED BY <2>3, <2>8, <2>9
<1> QED BY <1>1, <1>2, QuietedSound DEF LInv
-----------------------------------------------------------------------------
(* What each step leaves of the calm: the awaits of connect(), and the losses. *)

LEMMA MonitoringCalm ==
  ASSUME LInv, NEW a \in Sessions, MonitoringStarts(a)
  PROVE  SoundOK' /\ (calm' => CalmOK(World'))
<1>1. IInv' /\ Quieted /\ Monitored(a) BY MonitoringKeeps DEF LInv
<1>2. ASSUME calm' PROVE CalmOK(World')
  <2> DEFINE e == World'
  <2>1. /\ e.ses = ses' /\ e.conn = conn' /\ e.waits = waits' /\ e.doing = doing'
        /\ e.attempt = attempt'
    BY DEF World
  <2>2. /\ IInv /\ HearsOK(World) /\ WaitingOK(World) /\ BusyOK(World)
        /\ doing[a] = "monitoring" /\ conn \in ConnType
    BY <1>2, Known DEF LInv, CalmOK, MonitoringStarts
  <2> HIDE DEF e
  <2>3. doing[a] \in Busy /\ ses[a].at = "idle"
    <3>1. doing[a] \in Fresh BY <2>2 DEF Fresh
    <3>2. ses[a] = NewSession BY <2>2, <3>1, Known
    <3> QED BY <2>2, <3>2 DEF NewSession, Busy
  <2>4. /\ \A b \in Sessions : doing[b] \in Busy => b = a
        /\ ~conn.user /\ Last(World, a) /\ conn.session \in {None, a}
        /\ conn.state = "connecting" /\ conn.kind = attempt[a].kind
        /\ attempt[a].kind = Radio => conn.session = a
    BY <2>2, <2>3, WorldIs DEF BusyOK
  <2>5. waits = {} BY <2>2, <2>3, WorldIs DEF WaitingOK
  <2>6. /\ \A s \in Sessions : ses[s].running \/ ses[s].at = "opening" => s = conn.session
        /\ conn.hearing \subseteq {conn.handle}
        /\ conn.handle # None => conn.handle = conn.session
        /\ conn.kind # "none" /\ (conn.session # None => conn.kind = Radio)
        /\ conn.session # None => conn.transport = conn.session
    BY <2>2, <2>4, WorldIs DEF HearsOK
  <2>7. /\ waits' = waits /\ attempt' = attempt
        /\ \A b \in Sessions \ {a} : doing'[b] = doing[b] /\ ses'[b] = ses[b]
        /\ conn'.session = conn.session /\ conn'.kind = conn.kind /\ conn'.user = conn.user
        /\ conn'.transport = conn.transport /\ conn'.listening = conn.transport
    BY <1>1 DEF Monitored
  <2>8. WaitingOK(e) BY <2>1, <2>5, <2>7 DEF WaitingOK
  <2>9. Last(e, a)
    <3>1. \A b \in Sessions : b > a => b # a BY SessionsAreNumbered
    <3> QED BY <2>1, <2>4, <2>7, <3>1, WorldIs DEF Last
  <2>10. CASE /\ attempt[a].kind = Radio /\ doing'[a] = "starting" /\ conn'.state = conn.state
              /\ conn'.hearing = conn.hearing \union {a} /\ conn'.handle = a
              /\ ses'[a].at = "opening" /\ ~ses'[a].running
    <3>1. conn.hearing \subseteq {a}
      <4>1. conn.hearing \subseteq Sessions BY <2>2 DEF ConnType
      <4> QED BY <2>4, <2>6, <2>10, <4>1, NoneIsNone
    <3>2. HearsOK(e)
      <4>1. \A s \in Sessions : ses'[s].running \/ ses'[s].at = "opening" => s = conn'.session
        BY <2>4, <2>6, <2>7, <2>10
      <4> QED BY <2>1, <2>4, <2>6, <2>7, <2>10, <3>1, <4>1 DEF HearsOK
    <3>3. /\ "opening" \in Starting /\ "opening" \notin Handshake \union {"drain"}
          /\ "starting" \in Busy
      BY DEF Starting, Handshake, Busy
    <3>4. \A b \in Sessions : doing'[b] \in Busy => b = a BY <2>4, <2>7
    <3>5. BusyOK(e)
      <4> SUFFICES ASSUME NEW b \in Sessions, doing'[b] \in Busy
                   PROVE  /\ \A c \in Sessions : doing'[c] \in Busy => b = c
                          /\ ~conn'.user /\ Last(e, b) /\ conn'.state # "connected"
                          /\ conn'.session \in {None, b}
                          /\ conn'.state = "connecting" /\ conn'.kind = attempt'[b].kind
                          /\ conn'.session = b /\ attempt'[b].kind = Radio
                          /\ ses'[b].at = "opening" /\ doing'[b] = "starting"
                          /\ conn'.handle = b /\ conn'.hearing = {b}
        BY <2>1, <3>3 DEF BusyOK
      <4>1. b = a BY <3>4
      <4> QED BY <2>4, <2>7, <2>9, <2>10, <3>1, <3>4, <4>1
    <3>6. RestOK(e) BY <2>1, <2>10, <3>3 DEF RestOK, NoneBusy
    <3> QED BY <2>8, <3>2, <3>5, <3>6 DEF CalmOK, e
  <2>11. CASE /\ attempt[a].kind # Radio /\ doing'[a] = "tables" /\ conn'.state = "connected"
              /\ conn'.hearing = conn.hearing /\ conn'.handle = conn.handle /\ ses'[a] = ses[a]
    <3>1. \A s \in Sessions : ses'[s] = ses[s] BY <2>7, <2>11
    <3>2. HearsOK(e) BY <2>1, <2>6, <2>7, <2>11, <3>1 DEF HearsOK
    <3>3. NoneBusy(e)
      <4>1. "tables" \notin Busy BY DEF Busy
      <4> QED BY <2>1, <2>4, <2>7, <2>11, <4>1 DEF NoneBusy
    <3>4. BusyOK(e) BY <3>3 DEF BusyOK, NoneBusy
    <3>5. RestOK(e) BY <2>1, <2>4, <2>7, <2>11 DEF RestOK
    <3> QED BY <2>8, <3>2, <3>4, <3>5 DEF CalmOK, e
  <2> QED BY <1>1, <2>10, <2>11 DEF Monitored
<1> QED BY <1>1, <1>2, QuietedSound DEF LInv

\* In the calm the demo whose file is read is the attempt under way, with no session.
LEMMA Loading ==
  ASSUME LInv, calm, NEW a \in Sessions, doing[a] = "loading"
  PROVE  /\ \A b \in Sessions : doing[b] \in Busy => b = a
         /\ ~conn.user /\ Last(World, a) /\ conn.session = None /\ conn.listening = None
         /\ conn.state = "connecting" /\ conn.kind = attempt[a].kind /\ attempt[a].kind # Radio
         /\ waits = {} /\ NoneOpening(World)
<1>1. /\ IInv /\ WaitingOK(World) /\ BusyOK(World) /\ doing[a] \in Busy
      /\ \A b \in Sessions : ses[b].at \in Starting => doing[b] = "starting"
  BY Known DEF LInv, CalmOK, Busy
<1>2. ses[a].at # "undoing" /\ "undoing" \in Starting /\ "opening" \in Starting
  BY <1>1 DEF Starting
<1>3. /\ \A b \in Sessions : doing[b] \in Busy => b = a
      /\ ~conn.user /\ Last(World, a) /\ conn.session = None /\ conn.listening = None
      /\ conn.state = "connecting" /\ conn.kind = attempt[a].kind /\ attempt[a].kind # Radio
  BY <1>1, <1>2, WorldIs DEF BusyOK
<1>4. waits = {} BY <1>1, <1>2, WorldIs DEF WaitingOK
<1>5. NoneOpening(World) BY <1>1, <1>2, <1>3, WorldIs DEF NoneOpening, Busy
<1> QED BY <1>3, <1>4, <1>5

LEMMA FileReadCalm ==
  ASSUME LInv, NEW a \in Sessions, FileRead(a)
  PROVE  SoundOK' /\ (calm' => CalmOK(World'))
<1>1. IInv' /\ Quieted BY FileReadKeeps DEF LInv
<1>2. ASSUME calm' PROVE CalmOK(World')
  <2> DEFINE u == [World EXCEPT !.conn.transport = a, !.doing[a] = "monitoring"]
             d == [conn EXCEPT !.transport = a]
  <2>1. /\ World \in Worlds /\ conn \in ConnType /\ doing[a] = "loading" /\ calm
        /\ HearsOK(World)
    BY <1>2, Known DEF LInv, FileRead, CalmOK
  <2>2. /\ \A b \in Sessions : doing[b] \in Busy => b = a
        /\ ~conn.user /\ Last(World, a) /\ conn.session = None /\ conn.listening = None
        /\ conn.state = "connecting" /\ conn.kind = attempt[a].kind /\ attempt[a].kind # Radio
        /\ waits = {}
    BY <2>1, Loading
  <2>3. /\ d.session = conn.session /\ d.hearing = conn.hearing /\ d.handle = conn.handle
        /\ d.state = conn.state /\ d.kind = conn.kind /\ d.user = conn.user
        /\ d.listening = conn.listening
    BY <2>1 DEF ConnType
  <2>4. u = [World EXCEPT !.conn = d, !.doing[a] = "monitoring"] BY <2>1, WorldIs DEF Worlds
  <2>5. Become(u) BY DEF FileRead
  <2> HIDE DEF d, u
  <2>6. /\ u.ses = ses /\ u.conn = d /\ u.waits = waits /\ u.attempt = attempt
        /\ u.doing[a] = "monitoring" /\ \A b \in Sessions \ {a} : u.doing[b] = doing[b]
    BY <2>1, <2>4, WorldIs DEF Worlds
  <2>7. HearsOK(u) BY <2>1, <2>2, <2>3, <2>6, WorldIs DEF HearsOK
  <2>8. WaitingOK(u) BY <2>2, <2>6 DEF WaitingOK
  <2>9. Last(u, a)
    <3>1. \A b \in Sessions : b > a => b # a BY SessionsAreNumbered
    <3> QED BY <2>2, <2>6, <3>1, WorldIs DEF Last
  <2>10. BusyOK(u)
    <3> SUFFICES ASSUME NEW b \in Sessions, u.doing[b] \in Busy
                 PROVE  /\ \A c \in Sessions : u.doing[c] \in Busy => b = c
                        /\ ~u.conn.user /\ Last(u, b) /\ u.conn.state = "connecting"
                        /\ u.conn.session = None /\ u.conn.kind = u.attempt[b].kind
                        /\ u.attempt[b].kind # Radio /\ u.doing[b] = "monitoring"
      BY DEF BusyOK
    <3>1. b = a /\ \A c \in Sessions : u.doing[c] \in Busy => c = a BY <2>2, <2>6
    <3> QED BY <2>2, <2>3, <2>6, <2>9, <3>1
  <2>11. RestOK(u) BY <2>6 DEF RestOK, NoneBusy, Busy
  <2> QED BY <2>5, <2>7, <2>8, <2>10, <2>11, BecomesCalm DEF CalmOK
<1> QED BY <1>1, <1>2, QuietedSound DEF LInv

LEMMA FileFailsCalm ==
  ASSUME LInv, NEW a \in Sessions, FileFails(a)
  PROVE  SoundOK' /\ (calm' => CalmOK(World'))
<1>1. IInv' /\ Quieted BY FileFailsKeeps DEF LInv
<1>2. ASSUME calm' PROVE CalmOK(World')
  <2> DEFINE w == Teardown(World, "failed", a, FALSE)
  <2>1. calm /\ doing[a] = "loading" /\ Become(w) BY <1>2 DEF FileFails
  <2>2. World \in Worlds /\ WorldOK(World) /\ HearsOK(World)
    BY <2>1, Known DEF LInv, CalmOK
  <2>3. /\ \A b \in Sessions : World.doing[b] \in Busy => b = a
        /\ Last(World, a) /\ World.waits = {} /\ NoneOpening(World)
    BY <2>1, Loading, WorldIs
  <2>4. CalmOK(w) BY <2>2, <2>3, FailsTears
  <2> HIDE DEF w
  <2> QED BY <2>1, <2>4, BecomesCalm
<1> QED BY <1>1, <1>2, QuietedSound DEF LInv

\* In the calm a start() that returns was not stopped meanwhile.
LEMMA StartReturnsCalm ==
  ASSUME LInv, NEW a \in Sessions, StartReturns(a)
  PROVE  SoundOK' /\ (calm' => CalmOK(World'))
<1>1. IInv' /\ Quieted BY StartReturnsKeeps DEF LInv
<1>2. ASSUME calm' PROVE FALSE
  <2>1. BusyOK(World) /\ World.doing[a] = "starting" /\ World.ses[a].at = "started"
    BY <1>2, WorldIs DEF LInv, CalmOK, StartReturns
  <2> QED BY <2>1 DEF BusyOK, Busy, Starting, Handshake
<1> QED BY <1>1, <1>2, QuietedSound DEF LInv

LEMMA TablesCalm ==
  ASSUME LInv, NEW a \in Sessions, TablesRead(a)
  PROVE  SoundOK' /\ (calm' => CalmOK(World'))
<1>1. IInv' /\ Quieted BY TablesKeep DEF LInv
<1>2. ASSUME calm' PROVE CalmOK(World')
  <2> DEFINE u == [World EXCEPT !.conn.tries = 0, !.doing[a] = "done"]
             d == [conn EXCEPT !.tries = 0]
  <2>1. /\ World \in Worlds /\ conn \in ConnType /\ doing[a] = "tables" /\ CalmOK(World)
    BY <1>2, Known DEF LInv, TablesRead
  <2>2. /\ d.session = conn.session /\ d.hearing = conn.hearing /\ d.handle = conn.handle
        /\ d.state = conn.state /\ d.kind = conn.kind /\ d.user = conn.user
        /\ d.timers = conn.timers
        /\ d.transport = conn.transport /\ d.listening = conn.listening
    BY <2>1 DEF ConnType
  <2>3. u = [World EXCEPT !.conn = d, !.doing[a] = "done"] BY <2>1, WorldIs DEF Worlds
  <2>4. Become(u) BY DEF TablesRead
  <2> HIDE DEF d, u
  <2>5. /\ u.ses = ses /\ u.conn = d /\ u.waits = waits /\ u.attempt = attempt
        /\ u.doing[a] = "done" /\ \A b \in Sessions \ {a} : u.doing[b] = doing[b]
    BY <2>1, <2>3, WorldIs DEF Worlds
  <2>6. \A b \in Sessions : /\ u.doing[b] \in Busy => u.doing[b] = doing[b]
                            /\ doing[b] \in Busy => u.doing[b] = doing[b]
                            /\ u.doing[b] = "none" <=> doing[b] = "none"
                            /\ u.doing[b] \in {"tables", "done"} => doing[b] \in {"tables", "done"}
    BY <2>1, <2>5 DEF Busy
  <2>7. \A b \in Sessions : Last(u, b) <=> Last(World, b) BY <2>6, WorldIs DEF Last
  <2>8. HearsOK(u) BY <2>1, <2>2, <2>5, WorldIs DEF CalmOK, HearsOK
  <2>9. WaitingOK(u)
    <3> SUFFICES ASSUME NEW v \in waits
                 PROVE  /\ \A z \in waits : z = v
                        /\ \A b \in Sessions : u.doing[b] \in Busy => v.op = "lost" /\ ses[b].at = "undoing"
                        /\ conn.session = None /\ conn.listening = None
                        /\ v.op \in {"connect", "failed"} => Last(u, v.of)
                        /\ v.op = "user" => conn.user
                        /\ v.op = "lost" => ~conn.user /\ v.granted
      BY <2>2, <2>5 DEF WaitingOK
    <3>1. WorldOK(World) BY Known DEF LInv
    <3>2. v.op \in {"connect", "failed"} => v.of \in Sessions BY <3>1, WorldIs DEF WorldOK, WaitsOK
    <3> QED BY <2>1, <2>6, <2>7, <3>2, WorldIs DEF CalmOK, WaitingOK
  <2>10. BusyOK(u)
    <3> SUFFICES ASSUME NEW b \in Sessions, u.doing[b] \in Busy
                 PROVE  /\ \A c \in Sessions : u.doing[c] \in Busy => b = c
                        /\ ~conn.user /\ Last(u, b) /\ conn.state # "connected"
                        /\ conn.session \in {None, b}
                        /\ ses[b].at # "undoing" =>
                             /\ conn.state = "connecting" /\ conn.kind = attempt[b].kind
                             /\ attempt[b].kind = Radio => conn.session = b
                        /\ doing[b] = "loading" =>
                             attempt[b].kind # Radio /\ conn.session = None /\ conn.listening = None
                        /\ doing[b] = "starting" =>
                             /\ attempt[b].kind = Radio /\ ses[b].at \in Starting
                             /\ ses[b].at # "undoing" => conn.handle = b /\ conn.hearing = {b}
                             /\ ses[b].at \in Handshake \union {"drain"} => Live(ses[b])
      BY <2>2, <2>5, <2>6 DEF BusyOK
    <3>1. doing[b] \in Busy BY <2>6
    <3> QED BY <2>1, <2>6, <2>7, <3>1, WorldIs DEF CalmOK, BusyOK
  <2>11. RestOK(u)
    <3>1. NoneBusy(u) => NoneBusy(World) BY <2>6, WorldIs DEF NoneBusy
    <3> QED BY <2>1, <2>2, <2>5, <2>6, <2>7, <3>1, WorldIs DEF CalmOK, RestOK
  <2> QED BY <2>4, <2>8, <2>9, <2>10, <2>11, BecomesCalm DEF CalmOK
<1> QED BY <1>1, <1>2, QuietedSound DEF LInv

\* The call that waits is alone; the connection has let go of all, and it goes on.
LEMMA StopEndsCalm ==
  ASSUME LInv, NEW v \in waits, StopEnds(v)
  PROVE  SoundOK' /\ (calm' => CalmOK(World'))
<1>1. IInv' /\ Quieted /\ \E n : StopEnded(v, n) BY StopEndsKeeps DEF LInv
<1>2. ASSUME calm' PROVE CalmOK(World')
  <2>1. PICK n : StopEnded(v, n) BY <1>1
  <2>2. /\ IInv /\ World \in Worlds /\ WorldOK(World) /\ v \in World.waits
        /\ HearsOK(World) /\ WaitingOK(World) /\ BusyOK(World)
    BY <1>2, Known, WorldIs DEF LInv, CalmOK, StopEnds
  <2>3. /\ \A u \in waits : u = v
        /\ \A a \in Sessions : doing[a] \in Busy => v.op = "lost" /\ ses[a].at = "undoing"
        /\ conn.session = None /\ conn.listening = None
        /\ v.op \in {"connect", "failed"} => Last(World, v.of)
        /\ v.op = "user" => conn.user
        /\ v.op = "lost" => ~conn.user /\ v.granted
    BY <2>2, WorldIs DEF WaitingOK
  <2>4. /\ v.op \in Ops /\ v.of \in Sessions \union {None} /\ v.granted \in BOOLEAN
        /\ v.op \in {"connect", "failed"} => v.of \in Sessions
        /\ v.op = "connect" => doing[v.of] = "closing"
    <3>1. v \in Waiting BY Known, <2>2
    <3> QED BY <2>2, <3>1, WorldIs DEF Waiting, Ops, WorldOK, WaitsOK
  <2>5. /\ n \in Worlds /\ WorldOK(n) /\ n.conn = conn /\ n.waits = {} /\ n.doing = doing
        /\ n.attempt = attempt
        /\ \A b \in Sessions : n.ses[b].running = ses[b].running /\ n.ses[b].at = ses[b].at
    BY <2>1, <2>3 DEF StopEnded
  <2>6. Off(n)
    <3>1. Off(World) BY <2>2, <2>3, WorldIs, NothingUp
    <3> QED BY <2>5, <3>1, WorldIs DEF Off
  <2> DEFINE w == Continue(n, v.op, v.of, v.granted)
  <2>7. Become(w)
    <3>1. Says(n, v.on, TRUE) = n BY <2>6 DEF Says, Off
    <3> QED BY <2>1, <3>1 DEF StopEnded
  <2>8. \A a \in Sessions : n.doing[a] \in Busy => v.op = "lost" /\ n.ses[a].at = "undoing"
    BY <2>3, <2>5
  <2>9. CASE v.op = "connect"
    <3>1. NoneBusy(n) BY <2>8, <2>9 DEF NoneBusy
    <3>2. v.of \in Sessions /\ n.doing[v.of] = "closing" /\ Last(n, v.of)
      BY <2>3, <2>4, <2>5, <2>9, WorldIs DEF Last
    <3>3. CalmOK(Continue(n, "connect", v.of, v.granted))
      BY <2>4, <2>5, <2>6, <3>1, <3>2, OffConnects
    <3> QED BY <2>7, <2>9, <3>3, BecomesCalm
  <2>10. CASE v.op = "user"
    <3>1. NoneBusy(n) BY <2>8, <2>10 DEF NoneBusy
    <3>2. CalmOK(Continue(n, "user", None, v.granted))
      BY <2>3, <2>4, <2>5, <2>6, <2>10, <3>1, OffUser
    <3>3. Continue(n, "user", None, v.granted) = Continue(n, "user", v.of, v.granted) BY DEF Continue
    <3> QED BY <2>7, <2>10, <3>2, <3>3, BecomesCalm
  <2>11. CASE v.op = "lost"
    <3>1. Undoing(n) BY <2>8 DEF Undoing
    <3>2. BusyOK(n)
      <4>1. "undoing" \in Starting /\ "undoing" \notin Handshake \union {"drain"}
        BY DEF Starting, Handshake
      <4> QED BY <2>2, <2>5, <2>8, <4>1, WorldIs DEF BusyOK, Last
    <3>3. CalmOK(Continue(n, "lost", None, TRUE))
      BY <2>3, <2>5, <2>6, <2>11, <3>1, <3>2, OffLost
    <3>4. Continue(n, "lost", None, TRUE) = Continue(n, "lost", v.of, TRUE) BY DEF Continue
    <3>5. v.granted = TRUE BY <2>3, <2>4, <2>11
    <3> QED BY <2>7, <2>11, <3>3, <3>4, <3>5, BecomesCalm
  <2>12. CASE v.op = "failed"
    <3>1. v.of \in Sessions /\ Last(n, v.of) BY <2>3, <2>4, <2>5, <2>12, WorldIs DEF Last
    <3>2. \A b \in Sessions : n.doing[b] \in Busy => b = v.of BY <2>8, <2>12
    <3>3. CalmOK(Continue(n, "failed", v.of, v.granted)) BY <2>4, <2>5, <2>6, <3>1, <3>2, OffFails
    <3> QED BY <2>7, <2>12, <3>3, BecomesCalm
  <2> QED BY <2>4, <2>9, <2>10, <2>11, <2>12 DEF Ops
<1> QED BY <1>1, <1>2, QuietedSound DEF LInv

\* Of an attempt that waits in start(), or for its link to be unwound.
Sets(w, s) ==
  /\ \A b \in Sessions : w.doing[b] \in Busy => b = s
  /\ Last(w, s) /\ ~w.conn.user
  /\ w.waits = {} \/ (w.conn.session = None /\ Lost(w))

LEMMA StarterSets ==
  ASSUME NEW w \in Worlds, WaitingOK(w), BusyOK(w), NEW s \in Sessions, w.doing[s] \in Busy
  PROVE  /\ Sets(w, s)
         /\ w.ses[s].at # "undoing" => w.waits = {}
<1>1. /\ \A b \in Sessions : w.doing[b] \in Busy => b = s
      /\ Last(w, s) /\ ~w.conn.user
  BY DEF BusyOK
<1>2. \A v \in w.waits : /\ \A u \in w.waits : u = v
                         /\ v.op = "lost" /\ w.ses[s].at = "undoing"
                         /\ w.conn.session = None /\ v.granted
  BY DEF WaitingOK
<1> QED BY <1>1, <1>2 DEF Sets, Lost

\* A start() that throws says first that its link is lost, where it is heard.
LEMMA ThrowsCalm ==
  ASSUME LInv, calm, NEW s \in Sessions, ses[s].at \in {"opening", "undoing"}, Thrown(s)
  PROVE  CalmOK(World')
<1>1. PICK y \in SessionType, granted \in BOOLEAN :
        Spoilt(s, y) /\ StartThrows(s, y, granted) /\ (granted \/ ~TakesTime(y))
  BY DEF Thrown
<1> DEFINE u == Sole(World, s, y)
           said == IF ses[s].up = "disconnected" THEN u ELSE Says(u, s, granted)
<1>2. Become(Teardown(said, "failed", s, FALSE)) BY <1>1 DEF StartThrows, Sole
<1>3. /\ IInv /\ World \in Worlds /\ WorldOK(World)
      /\ HearsOK(World) /\ WaitingOK(World) /\ BusyOK(World)
  BY Known DEF LInv, CalmOK
<1>4. doing[s] = "starting" /\ "starting" \in Busy /\ "starting" \notin Fresh
  <2>1. ses[s].at \in Starting BY DEF Starting
  <2> QED BY <1>3, <2>1, Known DEF Busy, Fresh
<1>5. Sets(World, s) BY <1>3, <1>4, WorldIs, StarterSets
<1>6. /\ Kept(World, u) /\ u.ses[s] = y /\ \A b \in Sessions \ {s} : u.ses[b] = ses[b]
      /\ u.conn = conn /\ u.doing = doing /\ u.waits = waits /\ u.attempt = attempt
  BY <1>1, <1>3, <1>4, SpoiltKept
<1> HIDE DEF u
<1>7. u \in Worlds /\ WorldOK(u) BY <1>6 DEF Kept
<1>8. Sets(u, s) BY <1>5, <1>6, WorldIs DEF Sets, Last, Lost
<1>9. NoneOpening(u)
  <2> SUFFICES ASSUME NEW b \in Sessions, u.ses[b].at = "opening" PROVE FALSE BY DEF NoneOpening
  <2>1. b # s BY <1>1, <1>6 DEF Spoilt
  <2>2. ses[b].at \in Starting BY <1>6, <2>1 DEF Starting
  <2>3. doing[b] = "starting" BY <1>3, <2>2, Known
  <2> QED BY <1>4, <1>5, <2>1, <2>3, WorldIs DEF Sets
<1>10. HearsOK(u)
  <2>1. \A b \in Sessions : u.ses[b].running \/ u.ses[b].at = "opening" => b = u.conn.session
    BY <1>1, <1>3, <1>6, <1>9, WorldIs DEF HearsOK, Spoilt, NoneOpening
  <2> QED BY <1>3, <1>6, <2>1, WorldIs DEF HearsOK
<1>11. CASE said = u
  <2>1. CalmOK(Teardown(u, "failed", s, FALSE)) BY <1>7, <1>8, <1>9, <1>10, FailsTears DEF Sets
  <2> QED BY <1>2, <1>11, <2>1, BecomesCalm
<1>12. CASE said # u
  <2> DEFINE t == Says(u, s, granted)
  <2>1. said = t /\ t # u BY <1>12
  <2>2. s \in u.conn.hearing /\ u.conn.state # "disconnected" BY <2>1 DEF Says
  <2>3. u.conn.session = s /\ u.conn.kind = Radio /\ u.waits = {}
    <3>1. u.conn.handle = s BY <1>10, <2>2 DEF HearsOK
    <3>2. u.conn.session = s /\ s # None BY <1>10, <3>1, NoneIsNone DEF HearsOK
    <3> QED BY <1>8, <1>10, <2>2, <3>2 DEF HearsOK, Sets
  <2>4. t = Teardown(u, "lost", None, granted)
    <3>1. (granted /\ u.conn.kind = Radio) = granted BY <2>3
    <3> QED BY <2>2, <3>1 DEF Says
  <2>5. WorldOK(t)
    <3>1. Kept(u, t) BY <1>7, SaysKeeps
    <3> QED BY <3>1 DEF Kept
  <2> HIDE DEF said, t
  <2>6. granted \/ u.conn.session = None \/ ~TakesTime(u.ses[u.conn.session])
    BY <1>1, <1>6, <2>3
  <2>7. /\ t \in Worlds /\ Off(t) /\ Lost(t)
        /\ t.doing = u.doing /\ t.conn.user = u.conn.user
        /\ t.conn.state # "disconnected" => t.conn.state = u.conn.state /\ t.conn.kind = u.conn.kind
    BY <1>7, <1>9, <1>10, <2>3, <2>4, <2>6, LostLeaves
  <2>8. HearsOK(t) /\ NoneOpening(t) BY <1>10, <2>7 DEF HearsOK, Off, NoneOpening
  <2>9. Last(t, s) /\ (\A b \in Sessions : t.doing[b] \in Busy => b = s) /\ ~t.conn.user
    BY <1>8, <2>7 DEF Sets, Last
  <2>10. t.conn.session = None BY <2>7 DEF Off
  <2>11. CalmOK(Teardown(t, "failed", s, FALSE))
    BY <2>5, <2>7, <2>8, <2>9, <2>10, FailsTears
  <2> QED BY <1>2, <2>1, <2>11, BecomesCalm
<1> QED BY <1>11, <1>12

LEMMA OpenFailsCalm ==
  ASSUME LInv, NEW a \in Sessions, NEW chosen \in BOOLEAN, OpenFails(a, chosen)
  PROVE  SoundOK' /\ (calm' => CalmOK(World'))
<1>1. IInv' /\ Quieted /\ Thrown(a) BY OpenFailsKeeps DEF LInv
<1>2. ses[a].at \in {"opening", "undoing"} /\ calm' = calm BY DEF OpenFails
<1> QED BY <1>1, <1>2, ThrowsCalm, QuietedSound DEF LInv

LEMMA UndoneCalm ==
  ASSUME LInv, NEW a \in Sessions, Undone(a)
  PROVE  SoundOK' /\ (calm' => CalmOK(World'))
<1>1. IInv' /\ Quieted /\ Thrown(a) BY UndoneKeeps DEF LInv
<1>2. ses[a].at \in {"opening", "undoing"} /\ calm' = calm BY DEF Undone
<1> QED BY <1>1, <1>2, ThrowsCalm, QuietedSound DEF LInv

\* The calm looks at no more of a session than whether it runs and is heard, and
\* what its start() waits for.
LEMMA SameCalm ==
  ASSUME NEW w, CalmOK(w), w.conn.session \in Sessions \union {None},
         NEW e, e.conn = w.conn, e.waits = w.waits, e.doing = w.doing,
         e.attempt = w.attempt,
         \A b \in Sessions : /\ e.ses[b].running = w.ses[b].running
                             /\ e.ses[b].listens = w.ses[b].listens /\ e.ses[b].at = w.ses[b].at
  PROVE  CalmOK(e)
<1>1. HearsOK(e) BY DEF CalmOK, HearsOK
<1>2. WaitingOK(e) BY DEF CalmOK, WaitingOK, Last
<1>3. BusyOK(e) BY DEF CalmOK, BusyOK, Last, Live
<1>4. RestOK(e)
  <2>1. NoneBusy(e) => NoneBusy(w) BY DEF NoneBusy
  <2>2. \A a : Last(e, a) => Last(w, a) BY DEF Last
  <2>3. w.conn.session # None /\ Live(w.ses[w.conn.session]) => Live(e.ses[w.conn.session])
    BY DEF Live
  <2> QED BY <2>1, <2>2, <2>3 DEF CalmOK, RestOK
<1> QED BY <1>1, <1>2, <1>3, <1>4 DEF CalmOK

\* A link that breaks is one that this object hears of, in an attempt or in none.
LEMMA LinkBreaksCalm ==
  ASSUME LInv, NEW s \in Sessions, LinkBreaks(s)
  PROVE  SoundOK' /\ (calm' => CalmOK(World'))
<1>1. IInv' /\ Quieted BY LinkBreaksKeeps DEF LInv
<1>2. ASSUME calm' PROVE CalmOK(World')
  <2> DEFINE x == ses[s]
             y == Loss(x)
             u == Sole(World, s, y)
  <2>1. /\ IInv /\ World \in Worlds /\ WorldOK(World) /\ CalmOK(World) /\ SoundOK
        /\ HearsOK(World) /\ WaitingOK(World) /\ BusyOK(World) /\ RestOK(World)
        /\ x \in SessionType /\ SessionOK(x) /\ (x.at \in Starting => doing[s] = "starting")
        /\ x.link = "open" /\ x.at \notin {"clock", "drain"}
    BY <1>2, Known DEF LInv, CalmOK, LinkBreaks
  <2>2. CASE ~x.running
    <3> DEFINE w == [World EXCEPT !.ses[s].link = "lost"]
    <3>1. Become(w) BY <2>2 DEF LinkBreaks
    <3>2. /\ w.conn = World.conn /\ w.waits = World.waits /\ w.doing = World.doing
          /\ w.attempt = World.attempt
          /\ \A b \in Sessions : /\ w.ses[b].running = World.ses[b].running
                                 /\ w.ses[b].listens = World.ses[b].listens
                                 /\ w.ses[b].at = World.ses[b].at
      BY <2>1 DEF Worlds, SessionType
    <3> HIDE DEF w
    <3>3. World.conn.session \in Sessions \union {None} BY <2>1, StateIs
    <3>4. CalmOK(w) BY <2>1, <3>2, <3>3, SameCalm
    <3> QED BY <3>1, <3>4, BecomesCalm
  <2>3. CASE x.running
    <3>1. s = conn.session BY <2>1, <2>3, WorldIs DEF HearsOK
    <3>2. s # None /\ x.listens
      <4>1. s # None BY NoneIsNone
      <4> QED BY <2>1, <2>3, <3>1, <4>1, WorldIs DEF WorldOK, ConnOK
    <3>3. x.up = "connected" /\ (x.at \in Handshake => HasStep(x))
      BY <2>1, <2>3, <3>2 DEF SoundOK, Sound, Live
    <3>4. Become(Says(u, s, TRUE))
      <4>1. [World EXCEPT !.ses[s] = Loss(@)] = u BY WorldIs DEF Sole
      <4> QED BY <2>3, <3>2, <3>3, <4>1 DEF LinkBreaks
    <3>5. waits = {} BY <2>1, <3>1, <3>2, WorldIs DEF WaitingOK
    <3>6. /\ u \in Worlds /\ WorldOK(u) /\ Ends(x, y) /\ ~y.running /\ y.at # "opening"
          /\ y.link = "lost"
          /\ u.ses[s] = y /\ \A b \in Sessions \ {s} : u.ses[b] = ses[b]
          /\ u.conn = conn /\ u.doing = doing /\ u.waits = waits /\ u.attempt = attempt
      BY <2>1, <2>3, LossKept
    <3>7. x.at \in {"selfInfo", "deviceInfo"} /\ y.at = x.at => x.jobs = <<>>
      BY <2>1, LossOK
    <3>8. x.at \in {"selfInfo", "deviceInfo", "started"}
      BY <2>1, <2>3 DEF SessionOK, Nearly, PhasesOK, Handshake, Up
    <3> HIDE DEF x, y, u
    <3>9. CASE x.at \in {"selfInfo", "deviceInfo"}
      <4>1. x.at \in Handshake /\ x.at \in Starting /\ x.at # "undoing" BY <3>9 DEF Handshake, Starting
      <4>2. x.jobs # <<>> BY <3>3, <4>1 DEF HasStep
      <4>3. y.at = "undoing" BY <3>6, <3>7, <3>9, <4>2 DEF Ends
      <4>4. doing[s] = "starting" /\ "starting" \in Busy BY <2>1, <4>1 DEF Busy
      <4>5. /\ \A b \in Sessions : doing[b] \in Busy => b = s
            /\ ~conn.user /\ Last(World, s) /\ conn.state = "connecting"
            /\ conn.kind = Radio /\ conn.hearing = {s} /\ attempt[s].kind = Radio
        BY <2>1, <4>1, <4>4, WorldIs DEF BusyOK, x
      <4>6. NoneOpening(u)
        <5> SUFFICES ASSUME NEW b \in Sessions \ {s}, ses[b].at = "opening" PROVE FALSE
          BY <3>6 DEF NoneOpening
        <5>1. doing[b] = "starting" BY <2>1, Known DEF Starting
        <5> QED BY <4>4, <4>5, <5>1
      <4>7. HearsOK(u)
        <5>1. \A b \in Sessions : u.ses[b].running \/ u.ses[b].at = "opening" => b = u.conn.session
          BY <2>1, <3>6, <4>6, WorldIs DEF HearsOK, NoneOpening
        <5> QED BY <2>1, <3>6, <5>1, WorldIs DEF HearsOK
      <4>8. BusyOK(u) /\ Undoing(u)
        <5>1. Undoing(u) BY <3>6, <4>3, <4>5 DEF Undoing
        <5>2. "undoing" \in Starting /\ "undoing" \notin Handshake \union {"drain"}
          BY DEF Starting, Handshake
        <5>3. Last(u, s) BY <3>6, <4>5, WorldIs DEF Last
        <5>4. \A b \in Sessions : u.doing[b] \in Busy => b = s BY <3>6, <4>5
        <5> QED BY <3>1, <3>6, <4>3, <4>4, <4>5, <5>1, <5>2, <5>3, <5>4 DEF BusyOK
      <4>9. Says(u, s, TRUE) = Teardown(u, "lost", None, TRUE)
        <5>1. (TRUE /\ u.conn.kind = Radio) = TRUE BY <3>6, <4>5
        <5> QED BY <3>6, <4>5, <5>1 DEF Says
      <4>10. TakesTime(u.ses[u.conn.session]) BY <3>1, <3>6 DEF TakesTime
      <4>11. CalmOK(Teardown(u, "lost", None, TRUE))
        BY <3>1, <3>2, <3>5, <3>6, <4>5, <4>6, <4>7, <4>8, <4>10, LostCalm
      <4> QED BY <3>4, <4>9, <4>11, BecomesCalm
    <3>10. CASE x.at = "started"
      <4>1. NoneBusy(World)
        <5> SUFFICES ASSUME NEW b \in Sessions, doing[b] \in Busy PROVE FALSE
          BY WorldIs DEF NoneBusy
        <5>1. b = s BY <2>1, <3>1, <3>2, WorldIs DEF BusyOK
        <5>2. doing[s] \notin {"loading", "monitoring"}
          <6>1. ses[s] # NewSession BY <2>3 DEF NewSession, x
          <6>2. doing[s] \notin Fresh BY <2>1, <6>1, Known
          <6> QED BY <6>2 DEF Fresh
        <5>3. "started" \notin Starting BY DEF Starting, Handshake
        <5> QED BY <2>1, <3>10, <5>1, <5>2, <5>3, WorldIs DEF BusyOK, Busy, x
      <4>2. /\ conn.state \in {"disconnected", "connecting", "connected"}
        BY <2>1, Known DEF ConnType
      <4>3. conn.state = "connected" /\ ~conn.user /\ conn.kind = Radio /\ conn.hearing = {s}
        <5>1. conn.state = "connected"
          BY <2>1, <3>1, <3>2, <3>5, <4>1, <4>2, WorldIs DEF RestOK
        <5>2. conn.kind = Radio BY <2>1, <3>1, <3>2, <5>1, WorldIs DEF HearsOK
        <5> QED BY <2>1, <3>1, <3>5, <4>1, <5>1, <5>2, WorldIs DEF RestOK
      <4>4. NoneBusy(u) BY <3>6, <4>1, WorldIs DEF NoneBusy
      <4>5. BusyOK(u) /\ Undoing(u) BY <4>4 DEF NoneBusy, BusyOK, Undoing
      <4>6. NoneOpening(u)
        <5> SUFFICES ASSUME NEW b \in Sessions \ {s}, ses[b].at = "opening" PROVE FALSE
          BY <3>6 DEF NoneOpening
        <5>1. doing[b] = "starting" BY <2>1, Known DEF Starting
        <5> QED BY <4>1, <5>1, WorldIs DEF NoneBusy, Busy
      <4>7. HearsOK(u)
        <5>1. \A b \in Sessions : u.ses[b].running \/ u.ses[b].at = "opening" => b = u.conn.session
          BY <2>1, <3>6, <4>6, WorldIs DEF HearsOK, NoneOpening
        <5> QED BY <2>1, <3>6, <5>1, WorldIs DEF HearsOK
      <4>8. Says(u, s, TRUE) = Teardown(u, "lost", None, TRUE)
        <5>1. (TRUE /\ u.conn.kind = Radio) = TRUE BY <3>6, <4>3
        <5> QED BY <3>6, <4>3, <5>1 DEF Says
      <4>9. TakesTime(u.ses[u.conn.session]) BY <3>1, <3>6 DEF TakesTime
      <4>10. CalmOK(Teardown(u, "lost", None, TRUE))
        BY <3>1, <3>2, <3>5, <3>6, <4>3, <4>4, <4>5, <4>6, <4>7, <4>9, LostCalm
      <4> QED BY <3>4, <4>8, <4>10, BecomesCalm
    <3> QED BY <3>8, <3>9, <3>10
  <2> QED BY <2>2, <2>3
<1> QED BY <1>1, <1>2, QuietedSound DEF LInv
-----------------------------------------------------------------------------
(* What each step leaves of the calm: the steps of a session. *)

\* A session goes on; a step of the handshake stays in the queue.
Alike(x, z) == z.running = x.running /\ z.listens = x.listens /\ z.up = x.up
On(x, z) ==
  /\ Alike(x, z)
  /\ z.at = x.at \/ (x.at = "drain" /\ z.at = "started")
  /\ x.at \in Handshake /\ HasStep(x) => HasStep(z)

LEMMA OnOn ==
  ASSUME NEW x, NEW y, NEW z, On(x, y), On(y, z) PROVE On(x, z)
<1>1. "drain" # "started" OBVIOUS
<1>2. "drain" \notin Handshake BY DEF Handshake
<1> QED BY <1>1, <1>2 DEF On, Alike

LEMMA OnItself ==
  ASSUME NEW x, NEW z, Alike(x, z), z.at = x.at, z.jobs = x.jobs PROVE On(x, z)
BY DEF On, HasStep

LEMMA EnqueueOn ==
  ASSUME NEW x \in SessionType, NEW k \in Commands
  PROVE  /\ On(x, Enqueue(x, k)) /\ Enqueue(x, k).at = x.at
         /\ k = x.at => HasStep(Enqueue(x, k))
<1> DEFINE y == Enqueue(x, k)
           n == Len(x.jobs)
<1>0. n \in Nat BY DEF SessionType
<1>1. /\ Len(y.jobs) = n + 1 /\ y.jobs[n + 1] = k
      /\ \A i \in 1 .. n : y.jobs[i] = x.jobs[i]
      /\ Alike(x, y) /\ y.at = x.at
  BY EnqueueIs, Appended DEF Alike
<1>2. n + 1 \in 1 .. n + 1 /\ \A i \in 1 .. n : i \in 1 .. n + 1 BY <1>0
<1> HIDE DEF y
<1>3. HasStep(x) => HasStep(y) BY <1>1, <1>2 DEF HasStep, n
<1>4. k = x.at => HasStep(y) BY <1>1, <1>2 DEF HasStep
<1> QED BY <1>1, <1>3, <1>4 DEF On, y

LEMMA DequeueOn ==
  ASSUME NEW x \in SessionType, x.jobs # <<>>
  PROVE  /\ Dequeue(x) \in SessionType /\ Alike(x, Dequeue(x)) /\ Dequeue(x).at = x.at
         /\ Head(x.jobs) \notin Handshake => On(x, Dequeue(x))
<1> DEFINE y == Dequeue(x)
<1>1. /\ y \in SessionType /\ y.jobs = Tail(x.jobs) /\ Len(Tail(x.jobs)) = Len(x.jobs) - 1
  BY DequeueType
<1>2. Alike(x, y) /\ y.at = x.at BY DEF Dequeue, SessionType, Alike
<1>3. /\ Len(x.jobs) \in Nat /\ Head(x.jobs) = x.jobs[1]
      /\ \A i \in 1 .. Len(Tail(x.jobs)) : Tail(x.jobs)[i] = x.jobs[i + 1]
  BY DEF SessionType
<1> HIDE DEF y
<1>4. ASSUME Head(x.jobs) \notin Handshake, x.at \in Handshake, HasStep(x) PROVE HasStep(y)
  <2>1. PICK i \in 1 .. Len(x.jobs) : x.jobs[i] = x.at BY <1>4 DEF HasStep
  <2>2. i # 1 BY <1>3, <1>4, <2>1
  <2>3. i - 1 \in 1 .. Len(Tail(x.jobs)) /\ (i - 1) + 1 = i BY <1>1, <1>3, <2>1, <2>2
  <2>4. y.jobs[i - 1] = y.at BY <1>1, <1>2, <1>3, <2>1, <2>3
  <2> QED BY <1>1, <2>3, <2>4 DEF HasStep
<1> QED BY <1>1, <1>2, <1>4 DEF On, y

LEMMA DrainOn ==
  ASSUME NEW x \in SessionType, NEW b \in BOOLEAN
  PROVE  /\ On(x, DrainLoop(x)) /\ DrainLoop(x).at = x.at
         /\ On(x, RequestDrain(x, b)) /\ RequestDrain(x, b).at = x.at
         /\ On(x, Awaited(x)) /\ On(x, Drained(x, b))
<1>1. "message" \in Commands BY DEF Commands
<1>2. ASSUME NEW y \in SessionType PROVE On(y, DrainLoop(y)) /\ DrainLoop(y).at = y.at
  <2> DEFINE z == [y EXCEPT !.on = TRUE, !.wanted = FALSE, !.backlog = y.pending, !.pending = FALSE]
             d == [y EXCEPT !.on = FALSE, !.backlog = FALSE]
  <2>1. z \in SessionType /\ Alike(y, z) /\ z.at = y.at /\ z.jobs = y.jobs
    BY DEF SessionType, Alike
  <2>2. Alike(y, d) /\ d.at = y.at /\ d.jobs = y.jobs BY DEF SessionType, Alike
  <2>3. DrainLoop(y) = Enqueue(z, "message") \/ DrainLoop(y) = d BY DEF DrainLoop
  <2> HIDE DEF z, d
  <2>4. On(y, z) /\ On(y, d) BY <2>1, <2>2, OnItself
  <2>5. On(z, Enqueue(z, "message")) /\ Enqueue(z, "message").at = z.at BY <1>1, <2>1, EnqueueOn
  <2>6. On(y, Enqueue(z, "message")) BY <2>4, <2>5, OnOn
  <2> QED BY <2>1, <2>2, <2>3, <2>4, <2>5, <2>6
<1>3. On(x, RequestDrain(x, b)) /\ RequestDrain(x, b).at = x.at
  <2> DEFINE z == [x EXCEPT !.wanted = TRUE, !.pending = @ \/ b]
  <2>1. z \in SessionType /\ Alike(x, z) /\ z.at = x.at /\ z.jobs = x.jobs
    BY DEF SessionType, Alike
  <2>2. RequestDrain(x, b) = z \/ RequestDrain(x, b) = DrainLoop(z) BY DEF RequestDrain
  <2> HIDE DEF z
  <2>3. On(x, z) BY <2>1, OnItself
  <2>4. On(z, DrainLoop(z)) /\ DrainLoop(z).at = z.at BY <1>2, <2>1
  <2>5. On(x, DrainLoop(z)) BY <2>3, <2>4, OnOn
  <2> QED BY <2>1, <2>2, <2>3, <2>4, <2>5
<1>4. ASSUME NEW y \in SessionType PROVE On(y, Awaited(y))
  <2>1. "drain" \notin Handshake BY DEF Handshake
  <2>2. CASE y.at = "drain" /\ ~y.on
    <3> DEFINE z == [y EXCEPT !.at = "started"]
    <3>1. Alike(y, z) /\ z.at = "started" BY DEF SessionType, Alike
    <3>2. Awaited(y) = z BY <2>2 DEF Awaited
    <3> HIDE DEF z
    <3> QED BY <2>1, <2>2, <3>1, <3>2 DEF On
  <2>3. CASE ~(y.at = "drain" /\ ~y.on)
    <3>1. Awaited(y) = y BY <2>3 DEF Awaited
    <3> QED BY <3>1 DEF On, Alike
  <2> QED BY <2>2, <2>3
<1>5. On(x, Drained(x, b))
  <2> DEFINE z == [x EXCEPT !.backlog = FALSE]
  <2>1. z \in SessionType /\ Alike(x, z) /\ z.at = x.at /\ z.jobs = x.jobs
    BY DEF SessionType, Alike
  <2>2. Drained(x, b) = Enqueue(x, "message") \/ Drained(x, b) = Awaited(DrainLoop(z))
    BY DEF Drained
  <2> HIDE DEF z
  <2>3. On(x, z) BY <2>1, OnItself
  <2>4. DrainLoop(z) \in SessionType BY <2>1, LoopType
  <2>5. On(x, DrainLoop(z)) BY <1>2, <2>1, <2>3, OnOn
  <2>6. On(x, Awaited(DrainLoop(z))) BY <1>4, <2>4, <2>5, OnOn
  <2> QED BY <1>1, <2>2, <2>6, EnqueueOn
<1> QED BY <1>2, <1>3, <1>4, <1>5

\* A command that ends takes start() a step further, or ends it, or leaves it.
Moved(x, z) ==
  \/ z.at = "undoing" /\ ~z.running /\ x.at \in Handshake
  \/ On(x, z)
  \/ /\ Alike(x, z) /\ x.at \in Handshake
     /\ (z.at \in Handshake /\ HasStep(z)) \/ z.at \in {"drain", "started"}

LEMMA SettledMoves ==
  ASSUME NEW x \in SessionType, QueueOK(x), x.jobs # <<>>,
         NEW y \in SessionType, Alike(x, y), y.at = x.at, y.jobs = x.jobs,
         NEW ok \in BOOLEAN, NEW more \in BOOLEAN
  PROVE  Moved(x, Settled(y, ok, more))
<1> DEFINE k == Head(y.jobs)
           d == Dequeue(y)
           z == Settled(y, ok, more)
<1>1. /\ d \in SessionType /\ Alike(y, d) /\ d.at = y.at
      /\ k \notin Handshake => On(y, d)
  BY DequeueOn
<1>2. On(x, y) BY OnItself
<1>3. k \in Commands BY DEF SessionType
<1>4. k \in Handshake => x.at = k
  <2>1. k = x.jobs[1] /\ 1 \in 1 .. Len(x.jobs) BY DEF SessionType
  <2> QED BY <2>1 DEF QueueOK
<1>5. z = CASE k \in Handshake -> Stepped(d, k, ok)
            [] k = "message" -> Drained(d, more)
            [] OTHER -> d
  BY DEF Settled
<1> HIDE DEF k, d, z
<1>6. CASE k \notin Handshake
  <2>1. z = Drained(d, more) \/ z = d BY <1>5, <1>6
  <2>2. On(x, d) BY <1>1, <1>2, <1>6, OnOn
  <2>3. On(d, Drained(d, more)) BY <1>1, DrainOn
  <2>4. On(x, Drained(d, more)) BY <2>2, <2>3, OnOn
  <2> QED BY <2>1, <2>2, <2>4 DEF Moved, z
<1>7. CASE k \in Handshake
  <2>1. z = Stepped(d, k, ok) BY <1>5, <1>7 DEF Handshake
  <2>2. Alike(x, d) /\ x.at \in Handshake BY <1>1, <1>4, <1>7 DEF Alike
  <2>3. CASE k = "selfInfo" /\ ok
    <3> DEFINE e == [d EXCEPT !.at = "deviceInfo"]
    <3>1. e \in SessionType /\ Alike(d, e) /\ e.at = "deviceInfo"
      BY <1>1 DEF SessionType, Alike, Phases, Handshake
    <3>2. z = Enqueue(e, "deviceInfo") BY <2>1, <2>3 DEF Stepped
    <3> HIDE DEF e
    <3>3. "deviceInfo" \in Commands /\ "deviceInfo" \in Handshake BY DEF Commands, Handshake
    <3>4. On(e, z) /\ z.at = e.at /\ HasStep(z) BY <3>1, <3>2, <3>3, EnqueueOn
    <3> QED BY <2>2, <3>1, <3>3, <3>4 DEF Moved, On, Alike, z
  <2>4. CASE k = "deviceInfo" /\ ok
    <3> DEFINE e == [d EXCEPT !.at = "clock"]
    <3>1. e \in SessionType /\ Alike(d, e) /\ e.at = "clock"
      BY <1>1 DEF SessionType, Alike, Phases, Handshake
    <3>2. z = Enqueue(e, "clock") BY <2>1, <2>4 DEF Stepped
    <3> HIDE DEF e
    <3>3. "clock" \in Commands /\ "clock" \in Handshake BY DEF Commands, Handshake
    <3>4. On(e, z) /\ z.at = e.at /\ HasStep(z) BY <3>1, <3>2, <3>3, EnqueueOn
    <3> QED BY <2>2, <3>1, <3>3, <3>4 DEF Moved, On, Alike, z
  <2>5. CASE k = "clock"
    <3> DEFINE e == [d EXCEPT !.at = "drain"]
               r == RequestDrain(e, TRUE)
    <3>1. e \in SessionType /\ Alike(d, e) /\ e.at = "drain"
      BY <1>1 DEF SessionType, Alike, Phases
    <3>2. z = Awaited(r) BY <2>1, <2>5 DEF Stepped
    <3> HIDE DEF e
    <3>3. r \in SessionType /\ On(e, r) BY <3>1, LoopType, DrainOn
    <3> HIDE DEF r
    <3>4. On(r, z) BY <3>2, <3>3, DrainOn
    <3>5. On(e, z) BY <3>3, <3>4, OnOn
    <3> QED BY <2>2, <3>1, <3>5 DEF Moved, On, Alike, z
  <2>6. CASE k # "clock" /\ ~(k = "selfInfo" /\ ok) /\ ~(k = "deviceInfo" /\ ok)
    <3> DEFINE e == [Drop(d) EXCEPT !.at = "undoing", !.listens = FALSE, !.on = FALSE, !.backlog = FALSE]
    <3>1. z = e BY <2>1, <2>6 DEF Stepped
    <3>2. e.at = "undoing" /\ ~e.running BY <1>1 DEF Drop, SessionType
    <3> HIDE DEF e
    <3> QED BY <2>2, <3>1, <3>2 DEF Moved, z
  <2> QED BY <2>3, <2>4, <2>5, <2>6
<1> QED BY <1>6, <1>7

LEMMA MovedSound ==
  ASSUME NEW x, NEW z, Moved(x, z), Sound(x) PROVE Sound(z)
<1>1. "started" \notin Handshake /\ "drain" \notin Handshake BY DEF Handshake
<1> QED BY <1>1 DEF Moved, On, Alike, Sound, Live

LEMMA SoleFields ==
  ASSUME IInv, NEW s \in Sessions, NEW z \in SessionType
  PROVE  LET u == Sole(World, s, z) IN
         /\ u \in Worlds
         /\ u.conn = conn /\ u.doing = doing /\ u.waits = waits /\ u.attempt = attempt
         /\ u.ses[s] = z /\ \A b \in Sessions \ {s} : u.ses[b] = ses[b]
<1>1. World \in Worlds BY Known
<1> QED BY <1>1, WorldIs DEF Sole, Worlds

\* A session whose start() waits is the connection's, in the calm.
Starter(s) ==
  /\ waits = {} /\ ~conn.user /\ conn.state = "connecting" /\ conn.kind = Radio
  /\ conn.session = s /\ conn.handle = s /\ conn.hearing = {s} /\ attempt[s].kind = Radio
  /\ conn.transport = s /\ (conn.listening # None => conn.listening = s)
  /\ \A b \in Sessions : doing[b] \in Busy => b = s
  /\ Last(World, s)
  /\ \A b \in Sessions : ses[b].running \/ ses[b].at = "opening" => b = s
  /\ ses[s].at \in Starting

LEMMA StarterIs ==
  ASSUME LInv, calm, NEW s \in Sessions, doing[s] = "starting", ses[s].at # "undoing"
  PROVE  Starter(s)
<1>1. HearsOK(World) /\ WaitingOK(World) /\ BusyOK(World) /\ doing[s] \in Busy
  BY DEF LInv, CalmOK, Busy
<1>2. /\ ~conn.user /\ conn.state = "connecting" /\ conn.kind = Radio
      /\ conn.session = s /\ conn.handle = s /\ conn.hearing = {s} /\ attempt[s].kind = Radio
      /\ \A b \in Sessions : doing[b] \in Busy => b = s
      /\ Last(World, s) /\ ses[s].at \in Starting
  BY <1>1, WorldIs DEF BusyOK
<1>5. conn.transport = s /\ (conn.listening # None => conn.listening = s)
  BY <1>1, <1>2, NoneIsNone, WorldIs DEF HearsOK
<1>3. waits = {} BY <1>1, <1>2, NoneIsNone, WorldIs DEF WaitingOK
<1>4. \A b \in Sessions : ses[b].running \/ ses[b].at = "opening" => b = s
  BY <1>1, <1>2, WorldIs DEF HearsOK
<1> QED BY <1>2, <1>3, <1>4, <1>5 DEF Starter

LEMMA StarterHears ==
  ASSUME NEW s \in Sessions, Starter(s), NEW u, u.conn = conn, NEW z, u.ses[s] = z,
         \A b \in Sessions \ {s} : u.ses[b] = ses[b]
  PROVE  HearsOK(u)
<1>1. \A b \in Sessions : u.ses[b].running \/ u.ses[b].at = "opening" => b = s BY DEF Starter
<1> QED BY <1>1 DEF Starter, HearsOK, Radio

LEMMA StarterGoes ==
  ASSUME LInv, NEW s \in Sessions, Starter(s), doing[s] = "starting",
         NEW z \in SessionType, z.at \in Starting,
         z.at \in Handshake \union {"drain"} => Live(z)
  PROVE  CalmOK(Sole(World, s, z))
<1> DEFINE u == Sole(World, s, z)
<1>1. /\ u.conn = conn /\ u.doing = doing /\ u.waits = waits /\ u.attempt = attempt
      /\ u.ses[s] = z /\ \A b \in Sessions \ {s} : u.ses[b] = ses[b]
  BY SoleFields DEF LInv
<1> HIDE DEF u
<1>2. HearsOK(u) BY <1>1, StarterHears
<1>3. WaitingOK(u) BY <1>1 DEF WaitingOK, Starter
<1>4. BusyOK(u)
  <2> SUFFICES ASSUME NEW b \in Sessions, doing[b] \in Busy
               PROVE  /\ doing[b] = "starting"
                      /\ \A c \in Sessions : doing[c] \in Busy => b = c
                      /\ ~conn.user /\ Last(u, b) /\ conn.state = "connecting"
                      /\ conn.session = b /\ conn.kind = attempt[b].kind
                      /\ attempt[b].kind = Radio /\ u.ses[b].at \in Starting
                      /\ conn.handle = b /\ conn.hearing = {b}
                      /\ u.ses[b].at \in Handshake \union {"drain"} => Live(u.ses[b])
    BY <1>1 DEF BusyOK
  <2>1. b = s BY DEF Starter
  <2>2. Last(u, s) BY <1>1, WorldIs DEF Starter, Last
  <2> QED BY <1>1, <2>1, <2>2 DEF Starter
<1>5. RestOK(u) BY <1>1 DEF RestOK, NoneBusy, Busy
<1> QED BY <1>2, <1>3, <1>4, <1>5 DEF CalmOK, u

LEMMA StarterStarts ==
  ASSUME LInv, NEW s \in Sessions, Starter(s), NEW z \in SessionType, Live(z)
  PROVE  CalmOK(Started(Sole(World, s, z), s))
<1> DEFINE u == Sole(World, s, z)
           c == Started(u, s)
<1>1. /\ u \in Worlds
      /\ u.conn = conn /\ u.doing = doing /\ u.waits = waits /\ u.attempt = attempt
      /\ u.ses[s] = z /\ \A b \in Sessions \ {s} : u.ses[b] = ses[b]
  BY SoleFields DEF LInv
<1> HIDE DEF u
<1>2. /\ c.ses = u.ses /\ c.waits = {}
      /\ c.doing[s] = "tables" /\ \A b \in Sessions \ {s} : c.doing[b] = doing[b]
      /\ c.conn.state = "connected" /\ c.conn.kind = Radio /\ ~c.conn.user
      /\ c.conn.session = s /\ c.conn.hearing = {s} /\ c.conn.handle = s
      /\ c.conn.transport = s /\ (c.conn.listening # None => c.conn.listening = s)
  BY <1>1, StartedIs DEF Starter
<1> HIDE DEF c
<1>3. \A b \in Sessions : c.ses[b].running \/ c.ses[b].at = "opening" => b = s
  BY <1>1, <1>2 DEF Starter
<1>4. HearsOK(c) BY <1>2, <1>3 DEF HearsOK, Radio
<1>5. NoneBusy(c)
  <2>1. "tables" \notin Busy BY DEF Busy
  <2> QED BY <1>2, <2>1 DEF NoneBusy, Starter
<1>6. WaitingOK(c) /\ BusyOK(c) BY <1>2, <1>5 DEF WaitingOK, BusyOK, NoneBusy
<1>7. RestOK(c)
  <2>1. s # None BY NoneIsNone
  <2> QED BY <1>1, <1>2, <2>1 DEF RestOK
<1> QED BY <1>4, <1>6, <1>7 DEF CalmOK, c, u

\* One session moves, and its start() with it.
LEMMA StepCalm ==
  ASSUME LInv, NEW s \in Sessions, ses[s].jobs # <<>>, NEW z \in SessionType, Moved(ses[s], z),
         Become(Step(World, s, z)), calm' = calm
  PROVE  SoundOK' /\ (calm' => CalmOK(World'))
<1> DEFINE x == ses[s]
           u == Sole(World, s, z)
<1>1. /\ IInv /\ World \in Worlds /\ WorldOK(World) /\ SoundOK
      /\ SessionOK(x) /\ (x.at \in Starting => doing[s] = "starting")
  BY Known DEF LInv
<1>2. /\ u \in Worlds
      /\ u.conn = conn /\ u.doing = doing /\ u.waits = waits /\ u.attempt = attempt
      /\ u.ses[s] = z /\ \A b \in Sessions \ {s} : u.ses[b] = ses[b]
  BY <1>1, SoleFields
<1>3. IF doing[s] = "starting" /\ z.at = "started" /\ z.running
      THEN Become(Started(u, s)) ELSE Become(u)
  BY DEF Step, Sole
<1> HIDE DEF x, u
<1>4. SoundOK'
  <2>1. ses' = u.ses
    <3>1. Started(u, s).ses = u.ses BY <1>2, StartedIs
    <3> QED BY <1>3, <3>1 DEF Become
  <2>2. Sound(z) BY <1>1, MovedSound DEF SoundOK
  <2>3. \A b \in Sessions : Sound(ses'[b]) BY <1>1, <1>2, <2>1, <2>2 DEF SoundOK
  <2> QED BY <2>3 DEF SoundOK
<1>5. ASSUME calm PROVE CalmOK(World')
  <2>1. CalmOK(World) BY <1>5 DEF LInv
  <2>2. x.running /\ x.at \in Handshake \union Up
    BY <1>1 DEF SessionOK, Nearly, QueueOK, PhasesOK, x
  <2>3. s = conn.session BY <2>1, <2>2, WorldIs DEF CalmOK, HearsOK, x
  <2>4. Live(x)
    <3>1. s # None BY NoneIsNone
    <3> QED BY <1>1, <2>2, <2>3, <3>1, WorldIs DEF WorldOK, ConnOK, Live, x
  <2>5. CASE doing[s] = "starting"
    <3>1. x.at # "undoing" /\ x.at # "started" /\ Starter(s)
      <4>1. x.at # "undoing" BY <2>2 DEF Handshake, Up
      <4>2. Starter(s) BY <1>5, <2>5, <4>1, StarterIs DEF x
      <4> QED BY <4>1, <4>2 DEF Starter, Starting, Handshake, x
    <3>2. CASE z.at = "started"
      <4>1. Live(z) BY <2>4, <3>1, <3>2 DEF Moved, On, Alike, Live, x
      <4>2. CalmOK(Started(u, s)) BY <3>1, <4>1, StarterStarts DEF u
      <4>3. Become(Started(u, s)) BY <1>3, <2>5, <3>2, <4>1 DEF Live
      <4> QED BY <4>2, <4>3, BecomesCalm
    <3>3. CASE z.at # "started"
      <4>1. /\ z.at \in Starting
            /\ z.at \in Handshake \union {"drain"} => Live(z)
        <5>1. x.at \in Handshake \union {"drain"} BY <2>2, <3>1 DEF Up
        <5>2. \/ z.at = "undoing" /\ ~z.running
              \/ Alike(x, z) /\ z.at \in Handshake \union {"drain"}
          BY <3>3, <5>1 DEF Moved, On, x
        <5>3. CASE z.at = "undoing" BY <5>3 DEF Starting, Handshake
        <5>4. CASE Alike(x, z) /\ z.at \in Handshake \union {"drain"}
          <6>1. Live(z) BY <2>4, <5>4 DEF Alike, Live
          <6> QED BY <5>4, <6>1 DEF Starting
        <5> QED BY <5>2, <5>3, <5>4
      <4>2. CalmOK(u) BY <2>5, <3>1, <4>1, StarterGoes DEF u
      <4> QED BY <1>3, <3>3, <4>2, BecomesCalm
    <3> QED BY <3>2, <3>3
  <2>6. CASE doing[s] # "starting"
    <3>1. x.at = "started"
      <4>1. Handshake \subseteq Starting /\ "drain" \in Starting BY DEF Starting
      <4> QED BY <1>1, <2>2, <2>6, <4>1 DEF Up
    <3>2. Alike(x, z) /\ z.at = x.at
      <4>1. "started" \notin Handshake BY DEF Handshake
      <4> QED BY <3>1, <4>1 DEF Moved, On, x
    <3>3. conn.session \in Sessions \union {None} BY <2>3
    <3>4. \A b \in Sessions : /\ u.ses[b].running = World.ses[b].running
                              /\ u.ses[b].listens = World.ses[b].listens
                              /\ u.ses[b].at = World.ses[b].at
      BY <1>2, <3>2, WorldIs DEF Alike, x
    <3>5. CalmOK(u) BY <1>2, <2>1, <3>3, <3>4, WorldIs, SameCalm
    <3>6. Become(u) BY <1>3, <2>6
    <3> QED BY <3>5, <3>6, BecomesCalm
  <2> QED BY <2>5, <2>6
<1> QED BY <1>4, <1>5
LEMMA OpensCalm ==
  ASSUME LInv, NEW a \in Sessions, Opens(a)
  PROVE  SoundOK' /\ (calm' => CalmOK(World'))
<1> DEFINE x == ses[a]
           z == Opened(x)
           u == Sole(World, a, z)
<1>1. /\ IInv /\ World \in Worlds /\ WorldOK(World) /\ SoundOK
      /\ x \in SessionType /\ SessionOK(x) /\ x.at = "opening"
      /\ calm' = calm /\ Become(u)
  BY Known, WorldIs DEF LInv, Opens, Sole
<1>2. doing[a] = "starting"
  <2>1. "opening" \in Starting BY DEF Starting
  <2> QED BY <1>1, <2>1, Known
<1>3. z \in SessionType /\ z.at = "selfInfo" /\ z.running /\ z.listens = x.listens /\ z.up = "connected"
  BY <1>1, OpenedOK
<1>4. HasStep(z)
  <2> DEFINE w == [x EXCEPT !.link = "open", !.running = TRUE, !.up = "connected", !.at = "selfInfo"]
  <2>1. w \in SessionType /\ w.at = "selfInfo" BY <1>1 DEF SessionType, Phases, Handshake
  <2>2. z = Enqueue(w, "selfInfo") BY DEF Opened
  <2>3. "selfInfo" \in Commands BY DEF Commands, Handshake
  <2> HIDE DEF w, z
  <2> QED BY <2>1, <2>2, <2>3, EnqueueOn
<1>5. "selfInfo" \in Handshake /\ "selfInfo" \in Starting BY DEF Handshake, Starting
<1> HIDE DEF x, z
<1>6. u.ses[a] = z /\ \A b \in Sessions \ {a} : u.ses[b] = ses[b] BY <1>1, <1>3, SoleFields
<1> HIDE DEF u
<1>7. SoundOK'
  <2>1. Sound(z) BY <1>3, <1>4 DEF Sound
  <2>2. \A b \in Sessions : Sound(u.ses[b]) BY <1>1, <1>6, <2>1 DEF SoundOK
  <2> QED BY <1>1, <2>2 DEF SoundOK, Become
<1>8. ASSUME calm PROVE CalmOK(World')
  <2>1. Starter(a) BY <1>1, <1>2, <1>8, StarterIs DEF x
  <2>2. x.listens
    <3>1. World.conn.session = a /\ World.ses[a] = x BY <2>1, WorldIs DEF Starter, x
    <3> QED BY <1>1, <3>1, NoneIsNone DEF WorldOK, ConnOK
  <2>3. Live(z) BY <1>3, <2>2 DEF Live
  <2>4. CalmOK(Sole(World, a, z)) BY <1>2, <1>3, <1>5, <2>1, <2>3, StarterGoes
  <2> QED BY <1>1, <2>4, BecomesCalm DEF u
<1> QED BY <1>1, <1>7, <1>8

\* A session that takes a command, or hears a frame, and waits as before.
LEMMA OnCalm ==
  ASSUME LInv, conn' = conn, waits' = waits, doing' = doing, attempt' = attempt, calm' = calm,
         \A b \in Sessions : On(ses[b], ses'[b]) /\ ses'[b].at = ses[b].at
  PROVE  SoundOK' /\ (calm' => CalmOK(World'))
<1>1. SoundOK'
  <2>1. \A b \in Sessions : Moved(ses[b], ses'[b]) /\ Sound(ses[b]) BY DEF LInv, SoundOK, Moved
  <2>2. \A b \in Sessions : Sound(ses'[b]) BY <2>1, MovedSound
  <2> QED BY <2>2 DEF SoundOK
<1>2. ASSUME calm PROVE CalmOK(World')
  <2> DEFINE e == World'
  <2>1. /\ e.ses = ses' /\ e.conn = conn /\ e.waits = waits /\ e.doing = doing /\ e.attempt = attempt
    BY DEF World
  <2> HIDE DEF e
  <2>2. CalmOK(World) /\ World.conn.session \in Sessions \union {None}
    BY <1>2, Known, StateIs DEF LInv
  <2>3. \A b \in Sessions : /\ e.ses[b].running = World.ses[b].running
                            /\ e.ses[b].listens = World.ses[b].listens
                            /\ e.ses[b].at = World.ses[b].at
    BY <2>1, WorldIs DEF On, Alike
  <2>4. CalmOK(e) BY <2>1, <2>2, <2>3, WorldIs, SameCalm
  <2> QED BY <2>4 DEF e
<1> QED BY <1>1, <1>2

\* The same, of one session alone.
LEMMA SoleCalm ==
  ASSUME LInv, NEW s \in Sessions, NEW z \in SessionType, On(ses[s], z), z.at = ses[s].at,
         Become(Sole(World, s, z)), calm' = calm
  PROVE  SoundOK' /\ (calm' => CalmOK(World'))
<1> DEFINE u == Sole(World, s, z)
<1>1. /\ u.conn = conn /\ u.doing = doing /\ u.waits = waits /\ u.attempt = attempt
      /\ u.ses[s] = z /\ \A b \in Sessions \ {s} : u.ses[b] = ses[b]
  BY SoleFields DEF LInv
<1>2. Become(u) OBVIOUS
<1> HIDE DEF u
<1>3. \A b \in Sessions : On(ses[b], ses'[b]) /\ ses'[b].at = ses[b].at
  <2>1. \A b \in Sessions : On(ses[b], ses[b]) BY OnItself DEF Alike
  <2> QED BY <1>1, <1>2, <2>1 DEF Become
<1> QED BY <1>1, <1>2, <1>3, OnCalm DEF Become

LEMMA CommandCalm ==
  ASSUME LInv, NEW s \in Sessions, Command(s)
  PROVE  SoundOK' /\ (calm' => CalmOK(World'))
<1> DEFINE z == Enqueue(ses[s], "command")
<1>1. ses[s] \in SessionType /\ "command" \in Commands BY Known DEF LInv, Commands
<1>2. z \in SessionType /\ On(ses[s], z) /\ z.at = ses[s].at BY <1>1, EnqueueType, EnqueueOn
<1>3. Become(Sole(World, s, z)) /\ calm' = calm BY WorldIs DEF Command, Sole
<1> HIDE DEF z
<1> QED BY <1>2, <1>3, SoleCalm

LEMMA TimesOutCalm ==
  ASSUME LInv, NEW s \in Sessions, NEW later \in BOOLEAN, TimesOut(s, later)
  PROVE  SoundOK' /\ (calm' => CalmOK(World'))
<1> DEFINE x == ses[s]
           asked == IF later \/ x.asked = <<>> THEN x.asked ELSE SubSeq(x.asked, 1, Len(x.asked) - 1)
           y == [x EXCEPT !.slow = TRUE, !.asked = asked]
           z == Settled(y, FALSE, FALSE)
<1>1. x \in SessionType /\ SessionOK(x) /\ x.jobs # <<>> /\ calm' = calm
  BY Known DEF LInv, TimesOut
<1>2. asked \in Seq(Commands)
  <2>1. x.asked \in Seq(Commands) BY <1>1 DEF SessionType
  <2>2. x.asked # <<>> => SubSeq(x.asked, 1, Len(x.asked) - 1) \in Seq(Commands) BY <2>1
  <2> QED BY <2>1, <2>2
<1>3. Become(Step(World, s, z))
  <2>1. y = [x EXCEPT !.slow = TRUE, !.asked = IF later \/ @ = <<>> THEN @ ELSE SubSeq(@, 1, Len(@) - 1)]
    BY <1>1 DEF SessionType
  <2> HIDE DEF y
  <2> QED BY <2>1 DEF TimesOut
<1> HIDE DEF asked
<1>4. y \in SessionType /\ Alike(x, y) /\ y.at = x.at /\ y.jobs = x.jobs
  BY <1>1, <1>2 DEF SessionType, Alike
<1> HIDE DEF y
<1>5. QueueOK(x) BY <1>1 DEF SessionOK, Nearly
<1>6. Moved(x, z) /\ z \in SessionType BY <1>1, <1>4, <1>5, SettledMoves, SessionTypes
<1> HIDE DEF z
<1> QED BY <1>1, <1>3, <1>6, StepCalm

LEMMA AnswersCalm ==
  ASSUME LInv, NEW s \in Sessions, NEW reply \in Commands \union {"error"}, Answers(s, reply)
  PROVE  SoundOK' /\ (calm' => CalmOK(World'))
<1> DEFINE x == ses[s]
           more == Head(x.asked) = "message" /\ reply # "error" /\ held # <<>>
           y == [x EXCEPT !.asked = Tail(@)]
           noted == [y EXCEPT !.refused = @ \/ reply = "error"]
           ok == reply # "error"
           z == Settled(noted, ok, more)
<1>1. x \in SessionType /\ SessionOK(x) /\ x.asked # <<>> /\ calm' = calm
  BY Known DEF LInv, Answers
<1>2. \/ x.jobs # <<>> /\ Become(Step(World, s, z))
      \/ Become(Sole(World, s, y))
  BY WorldIs DEF Answers, Sole
<1>3. Tail(x.asked) \in Seq(Commands)
  <2>1. x.asked \in Seq(Commands) BY <1>1 DEF SessionType
  <2> QED BY <1>1, <2>1
<1>4. y \in SessionType /\ Alike(x, y) /\ y.at = x.at /\ y.jobs = x.jobs
  BY <1>1, <1>3 DEF SessionType, Alike
<1>5. more \in BOOLEAN /\ ok \in BOOLEAN OBVIOUS
<1> HIDE DEF x, y, more, ok
<1>6. noted \in SessionType /\ Alike(x, noted) /\ noted.at = x.at /\ noted.jobs = x.jobs
  BY <1>4 DEF SessionType, Alike
<1>7. QueueOK(x) BY <1>1 DEF SessionOK, Nearly
<1> HIDE DEF noted
<1>8. CASE x.jobs # <<>> /\ Become(Step(World, s, z))
  <2>1. Moved(x, z) /\ z \in SessionType
    BY <1>1, <1>5, <1>6, <1>7, <1>8, SettledMoves, SessionTypes
  <2> HIDE DEF z
  <2> QED BY <1>1, <1>8, <2>1, StepCalm DEF x
<1>9. CASE Become(Sole(World, s, y))
  <2>1. On(x, y) BY <1>4, OnItself
  <2> QED BY <1>1, <1>4, <1>9, <2>1, SoleCalm DEF x
<1> QED BY <1>2, <1>8, <1>9

LEMMA ArrivesCalm ==
  ASSUME LInv, NEW m \in Messages, Arrives(m)
  PROVE  SoundOK' /\ (calm' => CalmOK(World'))
<1>1. conn' = conn /\ waits' = waits /\ doing' = doing /\ attempt' = attempt /\ calm' = calm
  BY DEF Arrives
<1>2. ASSUME NEW b \in Sessions PROVE On(ses[b], ses'[b]) /\ ses'[b].at = ses[b].at
  <2> DEFINE x == ses[b]
             n == [x EXCEPT !.hurried = @ \/ x.at \in Handshake]
  <2>1. x \in SessionType BY Known DEF LInv
  <2>2. n \in SessionType /\ Alike(x, n) /\ n.at = x.at /\ n.jobs = x.jobs
    BY <2>1 DEF SessionType, Alike
  <2>3. ses'[b] = x \/ ses'[b] = RequestDrain(n, FALSE) BY DEF Arrives
  <2> HIDE DEF x, n
  <2>4. On(x, x) /\ On(x, n) BY <2>2, OnItself DEF Alike
  <2>5. On(n, RequestDrain(n, FALSE)) /\ RequestDrain(n, FALSE).at = n.at BY <2>2, DrainOn
  <2>6. On(x, RequestDrain(n, FALSE)) BY <2>4, <2>5, OnOn
  <2> QED BY <2>2, <2>3, <2>4, <2>5, <2>6 DEF x
<1> QED BY <1>1, <1>2, OnCalm

LEMMA AnswersAndPushesCalm ==
  ASSUME LInv, NEW s \in Sessions, NEW m \in Messages, AnswersAndPushes(s, m)
  PROVE  SoundOK' /\ (calm' => CalmOK(World'))
<1> DEFINE x == ses[s]
           n == [x EXCEPT !.asked = Tail(@)]
           y == RequestDrain(n, FALSE)
           z == Settled(y, TRUE, FALSE)
<1>1. /\ x \in SessionType /\ SessionOK(x) /\ x.asked # <<>> /\ x.jobs # <<>>
      /\ Head(x.jobs) = "message" /\ calm' = calm /\ Become(Step(World, s, z))
  BY Known DEF LInv, AnswersAndPushes
<1>2. x.on
  <2>1. x.jobs \in Seq(Commands) BY <1>1 DEF SessionType
  <2>2. x.jobs[1] = "message" /\ 1 \in 1 .. Len(x.jobs) BY <1>1, <2>1
  <2> HIDE DEF x
  <2> QED BY <1>1, <2>2 DEF HasMessage, SessionOK, Nearly, DrainOK
<1>3. Tail(x.asked) \in Seq(Commands)
  <2>1. x.asked \in Seq(Commands) BY <1>1 DEF SessionType
  <2> QED BY <1>1, <2>1
<1>4. n \in SessionType /\ Alike(x, n) /\ n.at = x.at /\ n.jobs = x.jobs /\ n.on = x.on
  BY <1>1, <1>3 DEF SessionType, Alike
<1> HIDE DEF x, n
<1>5. y = [n EXCEPT !.wanted = TRUE, !.pending = @ \/ FALSE] BY <1>2, <1>4 DEF RequestDrain
<1> HIDE DEF y
<1>6. y \in SessionType /\ Alike(x, y) /\ y.at = x.at /\ y.jobs = x.jobs
  BY <1>4, <1>5 DEF SessionType, Alike
<1>7. QueueOK(x) BY <1>1 DEF SessionOK, Nearly
<1>8. Moved(x, z) /\ z \in SessionType BY <1>1, <1>6, <1>7, SettledMoves, SessionTypes
<1> HIDE DEF z
<1> QED BY <1>1, <1>8, StepCalm DEF x

LEMMA CalmBegins == Init => LInv
<1> SUFFICES ASSUME Init PROVE LInv OBVIOUS
<1>1. /\ waits = {} /\ \A s \in Sessions : ses[s] = NewSession /\ doing[s] = "none"
      /\ conn.session = None /\ conn.handle = None /\ conn.hearing = {}
      /\ conn.transport = None /\ conn.listening = None /\ conn.state = "disconnected"
  BY DEF Init
<1>2. ~NewSession.running /\ NewSession.at = "idle" BY DEF NewSession
<1>3. SoundOK BY <1>1, <1>2 DEF SoundOK, Sound, Live
<1>4. HearsOK(World) /\ WaitingOK(World) /\ BusyOK(World) /\ RestOK(World)
  BY <1>1, <1>2, WorldIs DEF HearsOK, WaitingOK, BusyOK, RestOK, Busy
<1>5. CalmTold BY DEF Init, CalmTold
<1> QED BY <1>3, <1>4, <1>5, Begins DEF LInv, CalmOK

\* In the calm nothing is read astray.
LEMMA ToldInCalm ==
  ASSUME LInv, NEW s \in Sessions, NEW reply \in Commands \union {"error"}, Answers(s, reply)
  PROVE  CalmTold'
<1> DEFINE more == Head(ses[s].asked) = "message" /\ reply # "error" /\ held # <<>>
           m == Head(held)
<1> SUFFICES ASSUME calm', NEW l \in Messages PROVE ~fate'[l].astray BY DEF CalmTold
<1>1. IInv /\ calm /\ HearsOK(World) /\ ~fate[l].astray BY DEF LInv, CalmOK, CalmTold, Answers
<1>2. ~Astray(s) BY <1>1, NoneIsNone, WorldIs DEF HearsOK, Astray
<1>3. held \in Seq(Messages) /\ fate \in [Messages -> FateType] BY <1>1, Known
<1>4. CASE ~more
  <2>1. fate' = fate BY <1>4 DEF Answers
  <2> QED BY <1>1, <2>1
<1>5. CASE more
  <2> DEFINE o == Astray(s)
  <2>1. \E h : fate' = [fate EXCEPT ![m].by = s, ![m].how = h, ![m].astray = o]
    BY <1>5 DEF Answers
  <2> HIDE DEF m, o
  <2>2. fate'[l].astray = IF l = m THEN o ELSE fate[l].astray BY <1>3, <2>1 DEF FateType
  <2> QED BY <1>1, <1>2, <2>2 DEF o
<1> QED BY <1>4, <1>5

LEMMA ToldKeeps ==
  ASSUME LInv, [Next]_vars PROVE CalmTold'
<1>0. ASSUME UNCHANGED fate, calm' => calm PROVE CalmTold' BY <1>0 DEF LInv, CalmTold
<1>00. ASSUME calm' => calm, \A l \in Messages : fate'[l].astray = fate[l].astray PROVE CalmTold'
  BY <1>00 DEF LInv, CalmTold
<1>000. fate \in [Messages -> FateType] BY Known DEF LInv
<1>1. ASSUME NEW a \in Sessions, NEW kind \in {Radio, "demo"}, Tap(a, kind) PROVE CalmTold'
  BY <1>0, <1>1 DEF Tap
<1>2. ASSUME NEW a \in Sessions, TimerFires(a) PROVE CalmTold' BY <1>0, <1>2 DEF TimerFires
<1>3. ASSUME NEW a \in Sessions, FileRead(a) PROVE CalmTold' BY <1>0, <1>3 DEF FileRead
<1>4. ASSUME NEW a \in Sessions, FileFails(a) PROVE CalmTold' BY <1>0, <1>4 DEF FileFails
<1>5. ASSUME NEW a \in Sessions, MonitoringStarts(a) PROVE CalmTold'
  BY <1>0, <1>5 DEF MonitoringStarts
<1>6. ASSUME NEW a \in Sessions, Opens(a) PROVE CalmTold' BY <1>0, <1>6 DEF Opens
<1>7. ASSUME NEW a \in Sessions, NEW chosen \in BOOLEAN, OpenFails(a, chosen) PROVE CalmTold'
  BY <1>0, <1>7 DEF OpenFails
<1>8. ASSUME NEW a \in Sessions, Undone(a) PROVE CalmTold' BY <1>0, <1>8 DEF Undone
<1>9. ASSUME NEW a \in Sessions, StartReturns(a) PROVE CalmTold' BY <1>0, <1>9 DEF StartReturns
<1>10. ASSUME NEW a \in Sessions, TablesRead(a) PROVE CalmTold' BY <1>0, <1>10 DEF TablesRead
<1>11. CASE UserDisconnects BY <1>0, <1>11 DEF UserDisconnects
<1>12. ASSUME NEW v \in waits, StopEnds(v) PROVE CalmTold' BY <1>0, <1>12 DEF StopEnds
<1>13. ASSUME NEW s \in Sessions, Command(s) PROVE CalmTold' BY <1>0, <1>13 DEF Command
<1>14. ASSUME NEW s \in Sessions, LinkBreaks(s) PROVE CalmTold' BY <1>0, <1>14 DEF LinkBreaks
<1>15. ASSUME NEW s \in Sessions, NEW reply \in Commands \union {"error"}, Answers(s, reply)
       PROVE  CalmTold'
  BY <1>15, ToldInCalm
<1>16. ASSUME NEW s \in Sessions, NEW later \in BOOLEAN, TimesOut(s, later) PROVE CalmTold'
  BY <1>0, <1>16 DEF TimesOut
<1>17. ASSUME NEW m \in Messages, Arrives(m) PROVE CalmTold'
  <2>1. calm' = calm BY <1>17 DEF Arrives
  <2>2. \E b, e : fate' = [fate EXCEPT ![m].away = b, ![m].during = e] BY <1>17 DEF Arrives
  <2>3. \A l \in Messages : fate'[l].astray = fate[l].astray BY <1>000, <2>2 DEF FateType
  <2> QED BY <1>00, <2>1, <2>3
<1>18. ASSUME NEW m \in Messages, NEW s \in Sessions, AnswersAndPushes(s, m) PROVE CalmTold'
  <2>1. calm' = calm BY <1>18 DEF AnswersAndPushes
  <2>2. \E e : fate' = [fate EXCEPT ![m].during = e] BY <1>18 DEF AnswersAndPushes
  <2>3. \A l \in Messages : fate'[l].astray = fate[l].astray BY <1>000, <2>2 DEF FateType
  <2> QED BY <1>00, <2>1, <2>3
<1>19. CASE UNCHANGED vars BY <1>0, <1>19 DEF vars
<1> QED
  BY <1>1, <1>2, <1>3, <1>4, <1>5, <1>6, <1>7, <1>8, <1>9, <1>10, <1>11, <1>12, <1>13, <1>14,
     <1>15, <1>16, <1>17, <1>18, <1>19 DEF Next

LEMMA CalmStep == LInv /\ [Next]_vars => LInv'
<1> SUFFICES ASSUME LInv, [Next]_vars PROVE LInv' OBVIOUS
<1> DEFINE Goal == SoundOK' /\ (calm' => CalmOK(World'))
<1>0. IInv' /\ CalmTold' BY StepKeepsAll, ToldKeeps DEF LInv
<1> SUFFICES Goal BY <1>0 DEF LInv
<1> HIDE DEF Goal
<1>1. ASSUME NEW a \in Sessions, NEW kind \in {Radio, "demo"}, Tap(a, kind) PROVE Goal
  BY <1>1, TapCalm DEF Goal
<1>2. ASSUME NEW a \in Sessions, TimerFires(a) PROVE Goal BY <1>2, TimerCalm DEF Goal
<1>18. ASSUME NEW a \in Sessions, FileRead(a) PROVE Goal BY <1>18, FileReadCalm DEF Goal
<1>19. ASSUME NEW a \in Sessions, FileFails(a) PROVE Goal BY <1>19, FileFailsCalm DEF Goal
<1>3. ASSUME NEW a \in Sessions, MonitoringStarts(a) PROVE Goal BY <1>3, MonitoringCalm DEF Goal
<1>4. ASSUME NEW a \in Sessions, Opens(a) PROVE Goal BY <1>4, OpensCalm DEF Goal
<1>5. ASSUME NEW a \in Sessions, NEW chosen \in BOOLEAN, OpenFails(a, chosen) PROVE Goal
  BY <1>5, OpenFailsCalm DEF Goal
<1>6. ASSUME NEW a \in Sessions, Undone(a) PROVE Goal BY <1>6, UndoneCalm DEF Goal
<1>7. ASSUME NEW a \in Sessions, StartReturns(a) PROVE Goal BY <1>7, StartReturnsCalm DEF Goal
<1>8. ASSUME NEW a \in Sessions, TablesRead(a) PROVE Goal BY <1>8, TablesCalm DEF Goal
<1>9. CASE UserDisconnects BY <1>9, UserCalm DEF Goal
<1>10. ASSUME NEW v \in waits, StopEnds(v) PROVE Goal BY <1>10, StopEndsCalm DEF Goal
<1>11. ASSUME NEW s \in Sessions, Command(s) PROVE Goal BY <1>11, CommandCalm DEF Goal
<1>12. ASSUME NEW s \in Sessions, LinkBreaks(s) PROVE Goal BY <1>12, LinkBreaksCalm DEF Goal
<1>13. ASSUME NEW s \in Sessions, NEW reply \in Commands \union {"error"}, Answers(s, reply)
       PROVE  Goal
  BY <1>13, AnswersCalm DEF Goal
<1>14. ASSUME NEW s \in Sessions, NEW later \in BOOLEAN, TimesOut(s, later) PROVE Goal
  BY <1>14, TimesOutCalm DEF Goal
<1>15. ASSUME NEW m \in Messages, Arrives(m) PROVE Goal BY <1>15, ArrivesCalm DEF Goal
<1>16. ASSUME NEW m \in Messages, NEW s \in Sessions, AnswersAndPushes(s, m) PROVE Goal
  BY <1>16, AnswersAndPushesCalm DEF Goal
<1>17. CASE UNCHANGED vars
  <2>1. UNCHANGED <<ses, conn, waits, doing, attempt, calm>> BY <1>17 DEF vars
  <2>2. World' = World BY <2>1 DEF World
  <2>3. SoundOK' BY <2>1 DEF LInv, SoundOK
  <2>4. calm' => CalmOK(World') BY <2>1, <2>2 DEF LInv
  <2> QED BY <2>3, <2>4 DEF Goal
<1> QED
  BY <1>1, <1>2, <1>3, <1>4, <1>5, <1>6, <1>7, <1>8, <1>9, <1>10, <1>11, <1>12, <1>13, <1>14,
     <1>15, <1>16, <1>17, <1>18, <1>19 DEF Next

\* What came while nobody was connected is never heard as live, nor what came to a
\* session that was up as backlog, but for a push into the handshake or a command that
\* failed; and the service hears all that the session of the connection reads.  A demo
\* whose file comes late, over a session connected meanwhile, is all that undoes this,
\* and only calls that overlap bring it about.
THEOREM BacklogIsKnown == Spec => []BacklogIsTold
<1>1. LInv => BacklogIsTold
  <2> SUFFICES ASSUME LInv, NEW m \in Messages, fate[m].how # "none"
               PROVE  LET f == fate[m]
                          x == ses[f.by] IN
                      /\ f.away /\ f.how = "live" => x.hurried \/ x.slow \/ x.refused \/ f.astray
                      /\ f.by \in f.during => f.how # "backlog"
                      /\ f.how = "unheard" => f.by # conn.session \/ f.astray
                      /\ f.astray => ~calm
    BY DEF BacklogIsTold
  <2>1. ToldIn(fate[m], World) BY DEF LInv, IInv, FateOK
  <2>2. fate[m].astray => ~calm BY DEF LInv, CalmTold
  <2> QED BY <2>1, <2>2, WorldIs DEF ToldIn, Clean
<1> QED BY <1>1, CalmBegins, CalmStep, PTL DEF Spec

\* While calls do not overlap, what the fields of the connection say of the link is so,
\* and a link that broke is tried again, whatever the losses, time-outs, stops and taps.
THEOREM LinkKnown == Spec => []LinkIsKnown
<1>1. LInv => LinkIsKnown
  <2> SUFFICES ASSUME LInv, calm
               PROVE  /\ conn.state # "disconnected" => conn.kind # "none"
                      /\ conn.state = "connected" /\ conn.kind = Radio /\ waits = {} =>
                           /\ conn.session # None /\ conn.session \in conn.hearing
                           /\ conn.listening = conn.session /\ ses[conn.session].running
                      /\ \A s \in Sessions : ses[s].running => s = conn.session
                      /\ waits = {} /\ conn.state = "disconnected" /\ ~conn.user =>
                           \A a \in Sessions :
                             doing[a] \in {"tables", "done"} /\ (\A b \in Sessions : b > a => doing[b] = "none")
                               => conn.timers > 0
    BY DEF LinkIsKnown
  <2>1. /\ IInv /\ World \in Worlds /\ WorldOK(World)
        /\ HearsOK(World) /\ BusyOK(World) /\ RestOK(World)
    BY Known DEF LInv, CalmOK
  <2>2. /\ conn.state # "disconnected" => conn.kind # "none"
        /\ \A s \in Sessions : ses[s].running => s = conn.session
    BY <2>1, WorldIs DEF HearsOK
  <2>3. ASSUME conn.state = "connected", conn.kind = Radio, waits = {}
        PROVE  /\ conn.session # None /\ conn.session \in conn.hearing
               /\ conn.listening = conn.session /\ ses[conn.session].running
    <3>1. NoneBusy(World) BY <2>1, <2>3, WorldIs DEF BusyOK, NoneBusy
    <3>2. /\ conn.session # None /\ conn.hearing = {conn.session} /\ Live(ses[conn.session])
      BY <2>1, <2>3, <3>1, WorldIs DEF RestOK
    <3>3. conn.session \in Sessions BY <2>1, <3>2, StateIs, WorldIs
    <3>4. doing[conn.session] \notin Fresh
      <4>1. ses[conn.session] # NewSession BY <3>2 DEF Live, NewSession
      <4> QED BY <2>1, <3>3, <4>1, Known
    <3>5. conn.transport = conn.session BY <2>1, <3>2, WorldIs DEF HearsOK
    <3>6. conn.listening = conn.session BY <2>1, <3>3, <3>4, <3>5, WorldIs, ListensTo
    <3> QED BY <3>2, <3>6 DEF Live
  <2>4. ASSUME waits = {}, conn.state = "disconnected", ~conn.user,
               NEW a \in Sessions, doing[a] \in {"tables", "done"},
               \A b \in Sessions : b > a => doing[b] = "none"
        PROVE  conn.timers > 0
    <3>1. Last(World, a) BY <2>4, WorldIs DEF Last
    <3>2. NoneBusy(World)
      <4> SUFFICES ASSUME NEW b \in Sessions, doing[b] \in Busy PROVE FALSE
        BY WorldIs DEF NoneBusy
      <4>1. Last(World, b) BY <2>1, WorldIs DEF BusyOK
      <4>2. a \in Nat /\ b \in Nat BY SessionsAreNumbered
      <4>3. a < b \/ b < a \/ a = b BY <4>2
      <4> QED BY <2>4, <3>1, <4>1, <4>2, <4>3, WorldIs DEF Last, Busy
    <3> QED BY <2>1, <2>4, <3>1, <3>2, WorldIs DEF RestOK
  <2> QED BY <2>2, <2>3, <2>4
<1> QED BY <1>1, CalmBegins, CalmStep, PTL DEF Spec
=============================================================================
