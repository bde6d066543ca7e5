--------------------------- MODULE MeshCoreSession ---------------------------
(***************************************************************************)
(* One session of the web client with a companion radio                      *)
(* (web/src/radio/MeshCoreSession.js) and the radio at the other end: the      *)
(* queue of commands, of which one is in flight and takes the first frame that  *)
(* fits, with nothing on the wire to say which command a frame answers; the      *)
(* handshake of start(); and the drain of the messages the radio holds.         *)
(*                                                                          *)
(* A session is a record, and what its methods do to it is an operator; who     *)
(* calls them, and the actions, are in RadioConnection.  What runs between two   *)
(* awaits is one step.                                                      *)
(*                                                                          *)
(* Left out: what the replies say, the parsing of frames, contact lists that     *)
(* come in many frames, and setTime (one exchange stands for the clock's two).   *)
(***************************************************************************)
EXTENDS Naturals, Sequences

CONSTANTS
  Sessions,   \* one for each attempt to connect, numbered from 1
  Messages    \* what the mesh may leave with the radio

ASSUME SessionsAreNumbered == Sessions \subseteq Nat \ {0}

VARIABLES
  ses,   \* the sessions
  held,  \* the messages the radio holds, oldest first
  fate   \* history of each message: how it was read, and where it came in

Handshake == {"selfInfo", "deviceInfo", "clock"}
Commands == Handshake \union {"message", "command"}
\* What start() waits for, and how it ended.
Phases == {"idle", "opening", "drain", "started", "undoing", "failed"} \union Handshake

SessionType ==
  [link : {"idle", "opening", "open", "lost", "closed"},  \* the transport under it
   running : BOOLEAN, listens : BOOLEAN,                  \* #running; subscribed to the transport
   up : {"disconnected", "connecting", "connected"},      \* #state
   at : Phases,
   jobs : Seq(Commands),   \* #queue; the first is #waiter, in flight
   asked : Seq(Commands),  \* sent, and not yet answered by the radio
   on : BOOLEAN, wanted : BOOLEAN, pending : BOOLEAN, \* #drainTask, #drainRequested, #backlogDrainPending
   backlog : BOOLEAN,      \* #drainingBacklog
   slow : BOOLEAN, hurried : BOOLEAN, refused : BOOLEAN]  \* history

NewSession ==
  [link |-> "idle", running |-> FALSE, listens |-> FALSE, up |-> "disconnected", at |-> "idle",
   jobs |-> <<>>, asked |-> <<>>, on |-> FALSE, wanted |-> FALSE, pending |-> FALSE,
   backlog |-> FALSE, slow |-> FALSE, hurried |-> FALSE, refused |-> FALSE]
-----------------------------------------------------------------------------
(* The queue of commands. *)

\* #serialize, #sendAndMatch: a command goes to the radio when those before it are done.
Enqueue(x, k) ==
  [x EXCEPT !.jobs = Append(@, k),
            !.asked = IF x.jobs = <<>> THEN Append(@, k) ELSE @]

\* The command in flight is done with, and the next one goes out.
Dequeue(x) ==
  [x EXCEPT !.jobs = Tail(@),
            !.asked = IF Len(x.jobs) > 1 THEN Append(@, x.jobs[2]) ELSE @]

\* The matchers: a frame of the command's own kind, or an error; those of the
\* handshake (#sendAndWait) pass an error over, and wait on.
Takes(k, reply) == reply = k \/ (reply = "error" /\ k \notin Handshake)

\* The link is gone: the command in flight is failed (#failWaiter), and each of
\* those behind it as it is sent.
Drop(x) == [x EXCEPT !.running = FALSE, !.jobs = <<>>, !.asked = <<>>]
-----------------------------------------------------------------------------
(* The drain of the radio's messages. *)

\* mutation: every later pass is backlog too.
StickyDrainLoop(x) ==
  IF x.wanted /\ x.running
  THEN Enqueue([x EXCEPT !.on = TRUE, !.wanted = FALSE, !.backlog = x.pending], "message")
  ELSE [x EXCEPT !.on = FALSE, !.backlog = FALSE]

\* #runDrainLoop, at the head of its loop: another pass, or the end.
DrainLoop(x) ==
  IF x.wanted /\ x.running
  THEN Enqueue([x EXCEPT !.on = TRUE, !.wanted = FALSE, !.backlog = x.pending, !.pending = FALSE],
               "message")
  ELSE [x EXCEPT !.on = FALSE, !.backlog = FALSE]

\* mutation: a drain that runs is enough.
HeedlessRequestDrain(x, backlog) ==
  IF x.on THEN x ELSE DrainLoop([x EXCEPT !.wanted = TRUE, !.pending = @ \/ backlog])

\* #requestDrain: a drain that runs is armed again.
RequestDrain(x, backlog) ==
  LET y == [x EXCEPT !.wanted = TRUE, !.pending = @ \/ backlog] IN
  IF x.on THEN y ELSE DrainLoop(y)

\* start() waits for the drain it asked for, whoever began it; a drain that
\* cannot begin is over at once.
Awaited(x) == IF x.at = "drain" /\ ~x.on THEN [x EXCEPT !.at = "started"] ELSE x

\* getMessage returns: a message is followed by the next, and an empty queue, an
\* error or a time-out ends the pass.
Drained(x, more) ==
  IF more /\ x.running THEN Enqueue(x, "message")
  ELSE Awaited(DrainLoop([x EXCEPT !.backlog = FALSE]))
-----------------------------------------------------------------------------
(* start() and its end. *)

\* A step of the handshake returns, or fails: then the half-started session is
\* unwound, except that a clock that cannot be read is reported and passed over.
Stepped(x, k, ok) ==
  CASE k = "selfInfo" /\ ok -> Enqueue([x EXCEPT !.at = "deviceInfo"], "deviceInfo")
    [] k = "deviceInfo" /\ ok -> Enqueue([x EXCEPT !.at = "clock"], "clock")
    [] k = "clock" -> Awaited(RequestDrain([x EXCEPT !.at = "drain"], TRUE))
    [] OTHER -> [Drop(x) EXCEPT !.at = "undoing", !.listens = FALSE, !.on = FALSE, !.backlog = FALSE]

\* The command in flight ends, well or not; `more`, for a message.
Settled(x, ok, more) ==
  LET k == Head(x.jobs)
      y == Dequeue(x) IN
  CASE k \in Handshake -> Stepped(y, k, ok)
    [] k = "message" -> Drained(y, more)
    [] OTHER -> y

\* mutation: the waiter is forgotten, not failed.
SilentAborted(x) == Drop(x)

\* Every command fails at once; those who wait for one go on.
Aborted(x) ==
  LET y == Drop(x)
      z == [y EXCEPT !.on = FALSE, !.backlog = FALSE] IN
  IF Len(x.jobs) = 0 THEN z
  ELSE IF x.at \in Handshake THEN Stepped(z, x.at, FALSE)
  ELSE Awaited(z)

\* The transport is open: the handshake begins.
Opened(x) ==
  Enqueue([x EXCEPT !.link = "open", !.running = TRUE, !.up = "connected", !.at = "selfInfo"],
          "selfInfo")

\* stop(), up to its await of transport.disconnect().
Stop(x) == [Aborted([x EXCEPT !.wanted = FALSE]) EXCEPT !.listens = FALSE]

\* The transport is closed: what opens may still open, if nobody closed the chooser;
\* a command that has gone out meanwhile is left to its time-out.
Closed(x) ==
  [x EXCEPT !.link = IF @ = "opening" THEN @ ELSE "closed", !.up = "disconnected", !.asked = <<>>]

\* A call of stop() has something to wait for.
TakesTime(x) == x.link \in {"opening", "open", "lost"}

\* #handleTransportLoss
Loss(x) == [Aborted([x EXCEPT !.link = "lost"]) EXCEPT !.up = "disconnected"]
=============================================================================
