--------------------------- MODULE RadioConnection ---------------------------
(***************************************************************************)
(* The web client's connection (web/src/app/RadioConnection.js) and the       *)
(* sessions under it: what taps, the reconnect timer and a lost link do to the  *)
(* one object that knows which link is up, how the weather service is given      *)
(* its transport, and how the messages of a radio are read.                    *)
(*                                                                          *)
(* Each call of connect() is an attempt of its own, with a session if it is for  *)
(* a radio; attempts may overlap, as nothing keeps a second tap, or the timer,   *)
(* from calling it while the first waits.  `waits` holds the calls that wait      *)
(* for session.stop(), `doing` the attempts that wait for something else.        *)
(*                                                                          *)
(* Left out: names, settings and tables of the radio (the commands that read     *)
(* and write them are `Command`), the adverts, what the service does with a      *)
(* datagram beyond marking it live or backlog, and the link to a bridge, which   *)
(* is a demo's without the file.                                              *)
(***************************************************************************)
EXTENDS MeshCoreSession, FiniteSets

CONSTANTS
  RetryLimit,  \* the 8 of #onRetryFailed
  Loads        \* bound: what may happen in a behaviour; one is chosen at the start

LoadType == [messages : SUBSET Messages, taps : SUBSET {"radio", "demo"}, attempts : Nat,
             stops : Nat, losses : Nat, timeouts : Nat, commands : Nat]

ASSUME ConnectionConstants == RetryLimit \in Nat /\ Loads \subseteq LoadType

VARIABLES
  conn,    \* the RadioConnection and the service's end of it
  waits,   \* the calls that wait for a session to stop, and what they do then
  doing,   \* where each attempt waits otherwise
  attempt, \* of each attempt: the kind of link, and whether the timer made it
  load,    \* what may still happen
  calm     \* history: no call came upon another that was not done

vars == <<ses, held, fate, conn, waits, doing, attempt, load, calm>>

None == 0
Radio == "radio"

ConnType ==
  [state : {"disconnected", "connecting", "connected"},
   kind : {"none", Radio, "demo"},
   session : Sessions \union {None}, transport : Sessions \union {None},
   listening : Sessions \union {None},   \* the service's subscription to datagrams
   hearing : SUBSET Sessions,            \* the sessions whose events come here
   handle : Sessions \union {None},      \* sessionUnsubscribe is that of this one
   user : BOOLEAN, tries : Nat,          \* userDisconnected, reconnectAttempt
   timers : Nat, timer : BOOLEAN]        \* timers armed; reconnectTimer is one of them

Waiting == [on : Sessions, op : {"connect", "user", "lost", "failed"},
            of : Sessions \union {None}, granted : BOOLEAN]

\* Every object of this world changes together where one calls another.
World == [ses |-> ses, conn |-> conn, waits |-> waits, doing |-> doing, attempt |-> attempt]
Become(w) == /\ ses' = w.ses /\ conn' = w.conn
             /\ waits' = w.waits /\ doing' = w.doing /\ attempt' = w.attempt

\* Nobody waits: every call of connect() and disconnect() is done.
Quiet == waits = {} /\ \A a \in Sessions : doing[a] \notin {"loading", "monitoring", "starting"}
-----------------------------------------------------------------------------
(* What the calls do between their awaits. *)

\* After the disconnect() that connect() begins with.  A radio's session is made at
\* once and the service has its transport; a demo waits for its file, and touches
\* neither before it has it.
Begin(w, a) ==
  LET begun == [w EXCEPT !.conn.user = FALSE, !.conn.state = "connecting",
                         !.conn.kind = w.attempt[a].kind] IN
  IF w.attempt[a].kind = Radio
  THEN [begun EXCEPT !.conn.session = a, !.conn.transport = a, !.doing[a] = "monitoring"]
  ELSE [begun EXCEPT !.doing[a] = "loading"]

\* setTimeout: a timer that is armed already is forgotten, not cleared.
Arm(w) == [w EXCEPT !.conn.timers = @ + 1, !.conn.timer = TRUE,
                    !.conn.tries = IF @ < RetryLimit THEN @ + 1 ELSE @]

\* mutation: a lost link counts against the limit of failed attempts.
CountingContinue(w, op, a, granted) ==
  LET off == [w EXCEPT !.conn.state = "disconnected", !.conn.kind = "none"] IN
  CASE op = "connect" -> Begin(off, a)
    [] op = "user" -> off
    [] op = "lost" ->
         IF off.conn.user \/ ~granted \/ off.conn.tries >= RetryLimit THEN off ELSE Arm(off)
    [] op = "failed" ->
         LET ended == [off EXCEPT !.doing[a] = "failed"] IN
         IF ~w.attempt[a].retry \/ off.conn.user \/ off.conn.tries >= RetryLimit THEN ended
         ELSE Arm(ended)

\* What a call does when the session it stopped is closed.
Continue(w, op, a, granted) ==
  LET off == [w EXCEPT !.conn.state = "disconnected", !.conn.kind = "none"] IN
  CASE op = "connect" -> Begin(off, a)
    [] op = "user" -> off
    [] op = "lost" -> IF off.conn.user \/ ~granted THEN off ELSE Arm(off)
    [] op = "failed" ->
         LET ended == [off EXCEPT !.doing[a] = "failed"] IN
         IF ~w.attempt[a].retry \/ off.conn.user \/ off.conn.tries >= RetryLimit THEN ended
         ELSE Arm(ended)

\* #teardown, awaited by a call that goes on with `op`.
Teardown(w, op, a, granted) ==
  LET s == w.conn.session
      torn == [w EXCEPT !.conn.hearing = @ \ {w.conn.handle}, !.conn.handle = None,
                        !.conn.listening = None, !.conn.transport = None, !.conn.session = None] IN
  IF s = None THEN Continue(torn, op, a, granted)
  ELSE LET stopped == [torn EXCEPT !.ses[s] = Stop(@)] IN
       IF TakesTime(w.ses[s])
       THEN [stopped EXCEPT !.waits = @ \union {[on |-> s, op |-> op, of |-> a, granted |-> granted]},
                            !.doing = IF op = "failed" THEN [@ EXCEPT ![a] = "failing"] ELSE @]
       ELSE Continue(stopped, op, a, granted)

\* #onSessionEvent: session s says that it is disconnected; #onLinkLost.
Says(w, s, granted) ==
  IF s \in w.conn.hearing /\ w.conn.state # "disconnected"
  THEN Teardown(w, "lost", None, granted /\ w.conn.kind = Radio)
  ELSE w

\* disconnect()
Disconnect(w, op, a) ==
  LET cleared == [w EXCEPT !.conn.timers = IF w.conn.timer THEN @ - 1 ELSE @,
                           !.conn.timer = FALSE,
                           !.conn.user = @ \/ op = "user"]
      c == w.conn IN
  IF c.state = "disconnected" /\ c.session = None /\ c.transport = None
  THEN IF op = "connect" THEN Begin(cleared, a) ELSE cleared
  ELSE Teardown(cleared, op, a, FALSE)

\* session.start() has returned to #connectRadio.
Started(w, a) ==
  [w EXCEPT !.conn.state = "connected", !.doing[a] = "tables"]

\* The session s takes a step; a start() that ends with the link still up goes on
\* at once, as nothing can come between.
Step(w, s, x) ==
  LET y == [w EXCEPT !.ses[s] = x] IN
  IF doing[s] = "starting" /\ x.at = "started" /\ x.running THEN Started(y, s) ELSE y
-----------------------------------------------------------------------------
(* The user and the timer. *)

\* connect() is called: the attempt a, the next one.
Unused(a) == doing[a] = "none" /\ \A b \in Sessions : doing[b] = "none" => a <= b
Called(w, a, kind, retry) ==
  [w EXCEPT !.doing[a] = "closing", !.attempt[a] = [kind |-> kind, retry |-> retry]]

Tap(a, kind) ==
  /\ load.attempts > 0 /\ kind \in load.taps /\ Unused(a)
  /\ load' = [load EXCEPT !.attempts = @ - 1]
  /\ calm' = (calm /\ Quiet)
  /\ Become(Disconnect(Called(World, a, kind, FALSE), "connect", a))
  /\ UNCHANGED <<held, fate>>

\* The callback of setTimeout, a second and more after it was armed: the calls
\* of stop() under way are over by then.
TimerFires(a) ==
  /\ conn.timers > 0 /\ load.attempts > 0 /\ Unused(a)
  /\ waits = {} /\ \A s \in Sessions : ses[s].at # "undoing"
  /\ calm' = (calm /\ Quiet)
  /\ LET fired == [World EXCEPT !.conn.timers = @ - 1,
                                !.conn.timer = @ /\ conn.timers > 1] IN
     IF conn.state # "disconnected" \/ conn.user
     THEN Become(fired) /\ UNCHANGED load
     ELSE /\ load' = [load EXCEPT !.attempts = @ - 1]
          /\ Become(Disconnect(Called(fired, a, Radio, TRUE), "connect", a))
  /\ UNCHANGED <<held, fate>>

UserDisconnects ==
  /\ load.stops > 0 /\ load' = [load EXCEPT !.stops = @ - 1]
  /\ calm' = (calm /\ Quiet)
  /\ Become(Disconnect(World, "user", None))
  /\ UNCHANGED <<held, fate>>
-----------------------------------------------------------------------------
(* connect(), after its disconnect(). *)

\* The demo's file is read: the service has its transport, whatever it had.
FileRead(a) ==
  /\ doing[a] = "loading"
  /\ Become([World EXCEPT !.conn.transport = a, !.doing[a] = "monitoring"])
  /\ UNCHANGED <<held, fate, load, calm>>

\* It is not to be had: connect()'s handler, which ends whatever is connected by then.
FileFails(a) ==
  /\ doing[a] = "loading"
  /\ load.losses > 0 /\ load' = [load EXCEPT !.losses = @ - 1]
  /\ Become(Teardown(World, "failed", a, FALSE))
  /\ UNCHANGED <<held, fate, calm>>

\* startEventMonitoring(), after the jobs ahead of it in the service's queue: it
\* subscribes to the transport the service has by then.  A demo is up with that.
MonitoringStarts(a) ==
  /\ doing[a] = "monitoring"
  /\ LET heard == [World EXCEPT !.conn.listening = conn.transport] IN
     IF attempt[a].kind = Radio
     THEN Become([heard EXCEPT !.conn.hearing = @ \union {a}, !.conn.handle = a,
                               !.doing[a] = "starting",
                               !.ses[a].link = "opening", !.ses[a].up = "connecting",
                               !.ses[a].at = "opening", !.ses[a].listens = TRUE])
     ELSE Become(Started(heard, a))
  /\ UNCHANGED <<held, fate, load, calm>>

\* transport.connect() returns.
Opens(a) ==
  /\ ses[a].at = "opening"
  /\ Become([World EXCEPT !.ses[a] = Opened(@)])
  /\ UNCHANGED <<held, fate, load, calm>>

\* start() throws: connect()'s handler, after the session has said that it is off.
StartThrows(s, x, granted) ==
  LET said == IF ses[s].up = "disconnected" THEN [World EXCEPT !.ses[s] = x]
              ELSE Says([World EXCEPT !.ses[s] = x], s, granted) IN
  Become(Teardown(said, "failed", s, FALSE))

\* It throws: the chooser was closed, or the device chosen does not open.
OpenFails(a, chosen) ==
  /\ ses[a].at = "opening" /\ (attempt[a].retry => chosen)
  /\ load.losses > 0 /\ load' = [load EXCEPT !.losses = @ - 1]
  /\ UNCHANGED <<held, fate, calm>>
  /\ StartThrows(a, [ses[a] EXCEPT !.at = "failed", !.link = "closed", !.listens = FALSE,
                                   !.up = "disconnected"], chosen)

\* A step of the handshake failed, and the transport is closed.
Undone(a) ==
  /\ ses[a].at = "undoing"
  /\ UNCHANGED <<held, fate, load, calm>>
  /\ StartThrows(a, [Closed(ses[a]) EXCEPT !.at = "failed"], TRUE)

\* start() returns although the session was stopped, or lost its link, meanwhile.
StartReturns(a) ==
  /\ doing[a] = "starting" /\ ses[a].at = "started"
  /\ Become(Started(World, a))
  /\ UNCHANGED <<held, fate, load, calm>>

\* The tables are read, or were not to be had: connect() is done.
TablesRead(a) ==
  /\ doing[a] = "tables"
  /\ Become([World EXCEPT !.conn.tries = 0, !.doing[a] = "done"])
  /\ UNCHANGED <<held, fate, load, calm>>

\* A call of session.stop() returns; the session may say that it is off.
StopEnds(v) ==
  /\ v \in waits
  /\ LET x == Closed(ses[v.on])
         w == [World EXCEPT !.ses[v.on] = x, !.waits = @ \ {v}]
         said == IF ses[v.on].up = "disconnected" THEN w ELSE Says(w, v.on, TRUE) IN
     Become(Continue(said, v.op, v.of, v.granted))
  /\ UNCHANGED <<held, fate, load, calm>>
-----------------------------------------------------------------------------
(* The radio, and the frames that come from it. *)

\* A command of someone else: a table of the radio, a setting, a request sent.
Command(s) ==
  /\ load.commands > 0 /\ load' = [load EXCEPT !.commands = @ - 1]
  /\ conn.session = s /\ conn.state = "connected" /\ ses[s].running
  /\ Become([World EXCEPT !.ses[s] = Enqueue(@, "command")])
  /\ UNCHANGED <<held, fate, calm>>

\* isDrainingBacklog() of the transport that the service has now.
Backlogged == conn.transport # None /\ ses[conn.transport].backlog
\* It is not that of the session s, which is connected, or heard.
Astray(s) == s \in {conn.session, conn.listening} /\ conn.transport # s

\* The radio answers the oldest command it has not answered; the frame completes
\* the command in flight if it fits, whichever it was meant for.  A message is
\* heard by the service as it comes (channelDataReceived), marked by what its
\* transport is draining; a demo's never drains.
Answers(s, reply) ==
  LET x == ses[s]
      k == Head(x.asked)
      more == k = "message" /\ reply # "error" /\ held # <<>>
      m == Head(held)
      y == [x EXCEPT !.asked = Tail(@)]
      taken == x.listens /\ x.jobs # <<>> /\ Takes(Head(x.jobs), reply)
      noted == [y EXCEPT !.refused = @ \/ reply = "error"] IN
  /\ x.link = "open" /\ x.asked # <<>>
  /\ reply \in {k} \union (IF load.timeouts > 0 THEN {"error"} ELSE {})
  /\ load' = [load EXCEPT !.timeouts = IF reply = "error" THEN @ - 1 ELSE @]
  /\ held' = IF more THEN Tail(held) ELSE held
  /\ fate' = IF ~more THEN fate
             ELSE [fate EXCEPT ![m].by = s,
                               ![m].how = IF ~x.listens \/ conn.listening # s THEN "unheard"
                                          ELSE IF Backlogged THEN "backlog" ELSE "live",
                               ![m].astray = Astray(s)]
  /\ Become(IF taken THEN Step(World, s, Settled(noted, reply # "error", more))
            ELSE [World EXCEPT !.ses[s] = y])
  /\ UNCHANGED calm

\* No frame in time; the radio may still answer later, or never.
TimesOut(s, later) ==
  LET x == ses[s]
      y == [x EXCEPT !.slow = TRUE,
                     !.asked = IF later \/ @ = <<>> THEN @ ELSE SubSeq(@, 1, Len(@) - 1)] IN
  /\ x.jobs # <<>>
  /\ LET free == ~x.listens \/ x.asked = <<>> IN
     /\ free \/ load.timeouts > 0
     /\ load' = [load EXCEPT !.timeouts = IF free THEN @ ELSE @ - 1]
  /\ Become(Step(World, s, Settled(y, FALSE, FALSE)))
  /\ UNCHANGED <<held, fate, calm>>

\* The mesh brings a message.  A radio with a client pushes "messages waiting".
Arrives(m) ==
  /\ m \in load.messages /\ load' = [load EXCEPT !.messages = @ \ {m}]
  /\ held' = Append(held, m)
  /\ LET open == {s \in Sessions : ses[s].link = "open"}
         told == {s \in open : ses[s].listens} IN
     /\ fate' = [fate EXCEPT ![m].away = (open = {}),
                             ![m].during = {s \in open : ses[s].at = "started"}]
     /\ ses' = [s \in Sessions |->
                  IF s \notin told THEN ses[s]
                  ELSE RequestDrain([ses[s] EXCEPT !.hurried = @ \/ ses[s].at \in Handshake], FALSE)]
  /\ UNCHANGED <<conn, waits, doing, attempt, calm>>

\* None is left, and one comes just behind that answer: a serial port hands both
\* frames over in one chunk, and the push is heard before the drain goes on.
AnswersAndPushes(s, m) ==
  LET x == ses[s] IN
  /\ x.link = "open" /\ x.listens /\ \A t \in Sessions \ {s} : ses[t].link # "open"
  /\ x.asked # <<>> /\ Head(x.asked) = "message" /\ held = <<>>
  /\ x.jobs # <<>> /\ Head(x.jobs) = "message"
  /\ m \in load.messages /\ load' = [load EXCEPT !.messages = @ \ {m}]
  /\ held' = <<m>>
  /\ fate' = [fate EXCEPT ![m].during = IF x.at = "started" THEN {s} ELSE {}]
  /\ Become(Step(World, s, Settled(RequestDrain([x EXCEPT !.asked = Tail(@)], FALSE), TRUE, FALSE)))
  /\ UNCHANGED calm

\* The link breaks: out of range, unplugged, restarted.
LinkBreaks(s) ==
  /\ ses[s].link = "open"
  /\ load.losses > 0 /\ load' = [load EXCEPT !.losses = @ - 1]
  /\ calm' = (calm /\ ses[s].at \notin {"clock", "drain"})
  /\ IF ses[s].running
     THEN LET w == [World EXCEPT !.ses[s] = Loss(@)] IN
          Become(IF ses[s].up = "disconnected" \/ ~ses[s].listens THEN w ELSE Says(w, s, TRUE))
     ELSE Become([World EXCEPT !.ses[s].link = "lost"])
  /\ UNCHANGED <<held, fate>>
-----------------------------------------------------------------------------
Init ==
  /\ ses = [s \in Sessions |-> NewSession] /\ held = <<>>
  /\ fate = [m \in Messages |-> [how |-> "none", by |-> None, away |-> FALSE, during |-> {},
                             astray |-> FALSE]]
  /\ conn = [state |-> "disconnected", kind |-> "none", session |-> None, transport |-> None,
             listening |-> None, hearing |-> {}, handle |-> None, user |-> FALSE, tries |-> 0,
             timers |-> 0, timer |-> FALSE]
  /\ waits = {} /\ doing = [a \in Sessions |-> "none"]
  /\ attempt = [a \in Sessions |-> [kind |-> Radio, retry |-> FALSE]]
  /\ load \in Loads /\ calm = TRUE

Next ==
  \/ \E a \in Sessions : \/ \E kind \in {Radio, "demo"} : Tap(a, kind)
                         \/ TimerFires(a) \/ FileRead(a) \/ FileFails(a)
                         \/ MonitoringStarts(a) \/ Opens(a)
                         \/ \E chosen \in BOOLEAN : OpenFails(a, chosen)
                         \/ Undone(a) \/ StartReturns(a) \/ TablesRead(a)
  \/ UserDisconnects
  \/ \E v \in waits : StopEnds(v)
  \/ \E s \in Sessions : \/ Command(s) \/ LinkBreaks(s)
                         \/ \E reply \in Commands \union {"error"} : Answers(s, reply)
                         \/ \E later \in BOOLEAN : TimesOut(s, later)
  \/ \E m \in Messages : Arrives(m) \/ \E s \in Sessions : AnswersAndPushes(s, m)

Spec == Init /\ [][Next]_vars

\* The browser runs what is ready, a fetch ends, a transport that is told to close does, and a
\* command is answered or times out.  Nothing makes a transport open.
Fairness ==
  /\ \A a \in Sessions : WF_vars(FileRead(a)) /\ WF_vars(MonitoringStarts(a))
                        /\ WF_vars(StartReturns(a)) /\ WF_vars(TablesRead(a)) /\ WF_vars(Undone(a))
                        /\ WF_vars(\/ \E reply \in Commands : Answers(a, reply)
                                   \/ \E later \in BOOLEAN : TimesOut(a, later))
  /\ WF_vars(\E v \in waits : StopEnds(v))

FairSpec == Spec /\ Fairness
-----------------------------------------------------------------------------
TypeOK ==
  /\ ses \in [Sessions -> SessionType] /\ held \in Seq(Messages)
  /\ conn \in ConnType /\ waits \subseteq Waiting
  /\ doing \in [Sessions -> {"none", "closing", "loading", "monitoring", "starting", "tables",
                             "failing", "done", "failed"}]
  /\ attempt \in [Sessions -> [kind : {Radio, "demo"}, retry : BOOLEAN]] /\ calm \in BOOLEAN
  /\ \A m \in Messages :
       /\ fate[m].how \in {"none", "unheard", "live", "backlog"}
       /\ fate[m].by \in Sessions \union {None}
       /\ fate[m].away \in BOOLEAN /\ fate[m].during \subseteq Sessions
       /\ fate[m].astray \in BOOLEAN
  \* The command in flight is the last one sent.
  /\ \A s \in Sessions : ses[s].jobs # <<>> /\ ses[s].asked # <<>> =>
       ses[s].asked[Len(ses[s].asked)] = Head(ses[s].jobs)

\* No message stays in the radio unasked for: once a session is up, and no command
\* of a drain has failed, a radio that holds one is being drained (#requestDrain
\* arms a running drain again, so that no push falls between two passes).
NothingLeftInRadio ==
  \A s \in Sessions :
    /\ ses[s].running /\ ses[s].listens /\ ses[s].at = "started" /\ held # <<>>
    => ses[s].on \/ ses[s].slow \/ ses[s].refused

\* What came while no client was connected is heard as backlog and what comes
\* once the client is up as live, where no push came into the handshake and no
\* command failed (isDrainingBacklog; WeatherService stamps each datagram as it
\* comes).  The service is listening before the first of them is read.  A demo whose
\* file comes late takes the service away from a session that came after it (README,
\* Divergences): what that reads is astray, and only calls that overlap do it.
BacklogIsTold ==
  \A m \in Messages :
    LET f == fate[m] IN
    f.how # "none" =>
      LET x == ses[f.by] IN
      /\ f.away /\ f.how = "live" => x.hurried \/ x.slow \/ x.refused \/ f.astray
      /\ f.by \in f.during => f.how # "backlog"
      /\ f.how = "unheard" => f.by # conn.session \/ f.astray
      /\ f.astray => ~calm

\* What the fields of RadioConnection say of the link is so while calls do not
\* overlap: connected means that it has a kind, and a radio's running session of
\* which this object hears (or its loss is being dealt with); nothing else is open.
\* And a link that broke is tried again: with no call under way, the page rests
\* disconnected with no timer only where the user ended the link or the last attempt
\* failed (#onLinkLost, #onRetryFailed; reconnectAttempt starts over with each success).
LinkIsKnown ==
  calm =>
    /\ conn.state # "disconnected" => conn.kind # "none"
    /\ conn.state = "connected" /\ conn.kind = Radio /\ waits = {} =>
         conn.session # None /\ conn.session \in conn.hearing /\ conn.listening = conn.session
         /\ ses[conn.session].running
    /\ \A s \in Sessions : ses[s].running => s = conn.session
    /\ waits = {} /\ conn.state = "disconnected" /\ ~conn.user =>
         \A a \in Sessions :
           doing[a] \in {"tables", "done"} /\ (\A b \in Sessions : b > a => doing[b] = "none")
             => conn.timers > 0

\* "Which link is up or coming up" (RadioConnection.js, the field kind): while the
\* connection says that it is connected there is one.  A link that breaks late in
\* the handshake breaks it (README, Divergences).
ConnectedHasLink == conn.state = "connected" /\ waits = {} => conn.kind # "none"

\* No call of connect() waits for ever, once its transport is open, whatever else
\* the user and the timer did meanwhile.
EveryAttemptEnds ==
  \A a \in Sessions :
    doing[a] \in {"closing", "loading", "monitoring", "failing", "tables"} \/ (doing[a] = "starting" /\ ses[a].at # "opening")
    ~> doing[a] \in {"done", "failed"} \/ ses[a].at = "opening"
=============================================================================
