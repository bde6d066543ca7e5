------------------------------ MODULE NodeLink ------------------------------
(***************************************************************************)
(* The bot's link to its companion node (meshcore/radio.py, with main.py's   *)
(* side of it): coming up, fetching what the node has queued, noticing that   *)
(* the link is gone, and connecting again.                                   *)
(*                                                                          *)
(* Everything runs on one event loop.  The actors are the task that brings    *)
(* the radio up (`main`), the loops it starts, the drain of the node's queue   *)
(* and the handlers of the node's pushes; an action is what one of them does    *)
(* between two awaits.  A task that was created runs before an answer of the    *)
(* node that is awaited later: the loop takes what is ready in order, and the   *)
(* answer comes over the serial line.                                         *)
(*                                                                          *)
(* Left out: the settings written to the node, the adverts and the contact     *)
(* table, adoption of a strange radio (a node that is adopted is opened again   *)
(* like any other), and two reconnects at once.                               *)
(***************************************************************************)
EXTENDS Naturals, FiniteSets

CONSTANTS
  SilentCommands,  \* SILENT_COMMANDS
  Loads            \* bound: what may happen in a behaviour; one is chosen at the start

ASSUME LinkConstants ==
  /\ SilentCommands \in Nat \ {0}
  /\ \A l \in Loads : {l.messages, l.losses, l.breaks, l.reconnects} \subseteq Nat

VARIABLES
  load,          \* what may still happen: messages, pushes and fetches lost, the link broken, an operator
  node,          \* the node at the other end: "ok", "closed" (its port is gone) or "silent"
  inbox,         \* the messages the node has queued for us
  tickles,       \* its MSG_WAITING pushes under way
  closing,       \* the serial layer's DISCONNECTED event is under way
  main,          \* where the task that connects is; the await it is in
  stranger,      \* this radio is not the node in the profile (_snapshot_profile returns at once)
  running, lost, \* _running and _lost of the radio object
  poll, watch,   \* _queue_poll_loop and _link_watchdog: "none", "created", "asleep", "asking" or "ended"
  silent,        \* the watchdog's count
  drain,         \* _drain_queue: "idle" (not _draining), "fetch", "message", "empty" or "failed"
  again,         \* _drain_again
  drainTasks,    \* drains created that have not begun
  missed         \* history: a push or a fetch was lost since the queue was last found empty

linkVars == <<load, node, inbox, tickles, closing, main, stranger, running, lost, poll, watch, silent,
              drain, again, drainTasks, missed>>
loopVars == <<poll, watch, silent>>
drainVars == <<drain, again, drainTasks>>
stateVars == <<main, stranger, running, lost>>

Phases == {"open", "configure", "firstDrain", "settings", "snapshot", "serving", "reconnect", "retry"}
Loop == {"none", "created", "asleep", "asking", "ended"}

\* The radio object holds an open port, and is subscribed to the node's pushes.
Open == main \notin {"open", "retry", "reconnect"}
Subscribed == main \in {"firstDrain", "settings", "snapshot", "serving"}
Draining == drain # "idle"
Linked == Open /\ node = "ok"

LinkInit ==
  /\ load \in Loads
  /\ node \in {"ok", "closed"} /\ inbox = 0 /\ tickles = 0 /\ closing = FALSE
  /\ main = "open" /\ stranger = FALSE /\ running = FALSE /\ lost = FALSE
  /\ poll = "none" /\ watch = "none" /\ silent = 0
  /\ drain = "idle" /\ again = FALSE /\ drainTasks = 0 /\ missed = FALSE
-----------------------------------------------------------------------------
(* Coming up: MeshcoreRadio.start(), awaited by main.py. *)

Opens ==
  /\ main = "open" /\ node = "ok"
  /\ main' = "configure" /\ stranger' \in BOOLEAN
  /\ UNCHANGED <<load, node, inbox, tickles, closing, running, lost, loopVars, drainVars, missed>>

\* start() raises; the retry loop, or the reconnect, tries the same object again
\* a minute later.  What it had created stays with it.
StartFails ==
  /\ main \in {"open", "configure", "settings"} /\ node # "ok"
  /\ main' = "retry" /\ running' = FALSE
  /\ UNCHANGED <<load, node, inbox, tickles, closing, stranger, lost, loopVars, drainVars, missed>>

StartAgain ==
  /\ main = "retry" /\ main' = "open"
  /\ UNCHANGED <<load, node, inbox, tickles, closing, stranger, running, lost, loopVars, drainVars, missed>>

\* The line after the first drain: the poll loop, unless one is there already.
PollCreated == IF poll \in {"none", "ended"} THEN "created" ELSE poll

\* The channels are resolved and the handlers subscribed: drain the queue.
Configured ==
  /\ main = "configure" /\ node = "ok"
  /\ IF Draining
     THEN again' = TRUE /\ main' = "settings" /\ poll' = PollCreated /\ UNCHANGED drain
     ELSE drain' = "fetch" /\ again' = FALSE /\ main' = "firstDrain" /\ UNCHANGED poll
  /\ UNCHANGED <<load, node, inbox, tickles, closing, stranger, running, lost, watch, silent, drainTasks, missed>>

\* Clock, contacts and advert are done, each with commands of its own; the loops
\* are created.  The profile is only refreshed from its own node: with a stranger
\* start() goes on to `_running = True` without another await.
SettingsDone ==
  /\ main = "settings" /\ poll # "created"
  /\ watch' = "created" /\ silent' = 0
  /\ running' = stranger /\ main' = IF stranger THEN "serving" ELSE "snapshot"
  /\ UNCHANGED <<load, node, inbox, tickles, closing, stranger, lost, poll, drainVars, missed>>

SnapshotDone ==
  /\ main = "snapshot" /\ watch # "created"
  /\ main' = "serving" /\ running' = TRUE
  /\ UNCHANGED <<load, node, inbox, tickles, closing, stranger, lost, loopVars, drainVars, missed>>
-----------------------------------------------------------------------------
(* The node's message queue: _drain_queue and the MSG_WAITING pushes. *)

MessageArrives ==
  /\ node = "ok" /\ load.messages > 0
  /\ load' = [load EXCEPT !.messages = @ - 1] /\ inbox' = inbox + 1
  /\ tickles' = IF Subscribed THEN tickles + 1 ELSE tickles
  /\ UNCHANGED <<node, closing, stateVars, loopVars, drainVars, missed>>

TickleLost ==
  /\ tickles > 0 /\ load.losses > 0
  /\ tickles' = tickles - 1 /\ load' = [load EXCEPT !.losses = @ - 1] /\ missed' = TRUE
  /\ UNCHANGED <<node, inbox, closing, stateVars, loopVars, drainVars>>

\* mutation: a push during a drain is ignored.
TickleIgnored ==
  /\ tickles > 0 /\ tickles' = tickles - 1
  /\ drainTasks' = IF Draining THEN drainTasks ELSE drainTasks + 1
  /\ UNCHANGED <<load, node, inbox, closing, stateVars, loopVars, drain, again, missed>>

OnMessagesWaiting ==
  /\ tickles > 0 /\ tickles' = tickles - 1
  /\ IF Draining THEN again' = TRUE /\ UNCHANGED drainTasks
                 ELSE drainTasks' = drainTasks + 1 /\ UNCHANGED again
  /\ UNCHANGED <<load, node, inbox, closing, stateVars, loopVars, drain, missed>>

\* The top of the drain's loop: another fetch while there is a link object.
NextFetch ==
  IF main \notin {"open", "retry"}
  THEN drain' = "fetch" /\ again' = FALSE ELSE drain' = "idle" /\ UNCHANGED again

DrainBegins ==
  /\ drainTasks > 0 /\ drainTasks' = drainTasks - 1
  /\ IF Draining THEN again' = TRUE /\ UNCHANGED drain ELSE NextFetch
  /\ UNCHANGED <<load, node, inbox, tickles, closing, stateVars, loopVars, missed>>

NodeAnswersFetch ==
  /\ drain = "fetch" /\ Linked
  /\ IF inbox > 0 THEN drain' = "message" /\ inbox' = inbox - 1 /\ UNCHANGED missed
                  ELSE drain' = "empty" /\ missed' = FALSE /\ UNCHANGED inbox
  /\ UNCHANGED <<load, node, tickles, closing, stateVars, loopVars, again, drainTasks>>

\* No answer in time is taken like an empty queue; a command that raises ends the drain.
FetchFails ==
  /\ drain = "fetch" /\ (load.losses > 0 \/ ~Linked)
  /\ load' = IF Linked THEN [load EXCEPT !.losses = @ - 1] ELSE load
  /\ drain' \in {"empty", "failed"} /\ missed' = TRUE
  /\ UNCHANGED <<node, inbox, tickles, closing, stateVars, loopVars, again, drainTasks>>

\* The message is handed to its subscribers; a short pause, then the next fetch.
MessageFetched ==
  /\ drain = "message" /\ NextFetch
  /\ UNCHANGED <<load, node, inbox, tickles, closing, stateVars, loopVars, drainTasks, missed>>

\* A drain that start() awaited ends: the next line creates the poll loop.
StartGoesOn ==
  IF main = "firstDrain" /\ drain' = "idle"
  THEN main' = "settings" /\ poll' = PollCreated ELSE UNCHANGED <<main, poll>>

QueueEmpty ==
  /\ drain = "empty"
  /\ IF again THEN NextFetch ELSE drain' = "idle" /\ UNCHANGED again
  /\ StartGoesOn
  /\ UNCHANGED <<load, node, inbox, tickles, closing, stranger, running, lost, watch, silent, drainTasks, missed>>

DrainBreaks ==
  /\ drain = "failed" /\ drain' = "idle"
  /\ IF again /\ main \notin {"open", "retry"}
     THEN again' = FALSE /\ drainTasks' = drainTasks + 1 ELSE UNCHANGED <<again, drainTasks>>
  /\ StartGoesOn
  /\ UNCHANGED <<load, node, inbox, tickles, closing, stranger, running, lost, watch, silent, missed>>

\* _queue_poll_loop looks at _running first, and the clock's command lets it do so
\* while start() is under way: it never gets to sleep, let alone to drain.
PollLooks ==
  /\ poll = "created" /\ poll' = IF running THEN "asleep" ELSE "ended"
  /\ UNCHANGED <<load, node, inbox, tickles, closing, stateVars, watch, silent, drainVars, missed>>
-----------------------------------------------------------------------------
(* Losing the node: three ways to notice, and one way on. *)

\* _link_lost; its handler starts a reconnect.
LinkLost ==
  IF lost \/ ~running THEN UNCHANGED <<lost, running, main>>
  ELSE lost' = TRUE /\ running' = FALSE /\ main' = "reconnect"

OnDisconnected ==
  /\ closing /\ closing' = FALSE /\ LinkLost
  /\ UNCHANGED <<load, node, inbox, tickles, stranger, loopVars, drainVars, missed>>

WatchLooks ==
  /\ watch = "created" /\ watch' = IF running THEN "asleep" ELSE "ended"
  /\ UNCHANGED <<load, node, inbox, tickles, closing, stateVars, poll, silent, drainVars, missed>>

WatchWakes ==
  /\ watch = "asleep"
  /\ IF running /\ node = "closed" THEN LinkLost ELSE UNCHANGED <<lost, running, main>>
  /\ watch' = IF running /\ node # "closed" THEN "asking" ELSE "ended"
  /\ UNCHANGED <<load, node, inbox, tickles, closing, stranger, poll, silent, drainVars, missed>>

\* mutation: the count starts again with every command.
WatchForgets ==
  /\ watch = "asking" /\ silent' = IF Linked THEN 0 ELSE 1
  /\ IF silent' >= SilentCommands THEN LinkLost ELSE UNCHANGED <<lost, running, main>>
  /\ watch' = IF silent' >= SilentCommands \/ ~running THEN "ended" ELSE "asleep"
  /\ UNCHANGED <<load, node, inbox, tickles, closing, stranger, poll, drainVars, missed>>

\* get_bat was answered, or was not.
WatchHears ==
  /\ watch = "asking"
  /\ silent' = IF Linked THEN 0 ELSE silent + 1
  /\ IF silent' >= SilentCommands THEN LinkLost ELSE UNCHANGED <<lost, running, main>>
  /\ watch' = IF silent' >= SilentCommands \/ ~running THEN "ended" ELSE "asleep"
  /\ UNCHANGED <<load, node, inbox, tickles, closing, stranger, poll, drainVars, missed>>

\* The portal's reconnect: stop(), awaited by reconnect_radio.
OperatorReconnects ==
  /\ main = "serving" /\ load.reconnects > 0
  /\ load' = [load EXCEPT !.reconnects = @ - 1]
  /\ main' = "reconnect" /\ running' = FALSE
  /\ watch' = "ended"
  /\ UNCHANGED <<node, inbox, tickles, closing, stranger, lost, poll, silent, drainVars, missed>>

\* The old link is stopped, its watchdog cancelled; a new MeshcoreRadio takes over.
NewRadio ==
  /\ main = "reconnect" /\ main' = "open"
  /\ running' = FALSE /\ lost' = FALSE /\ stranger' = FALSE
  /\ poll' = "none" /\ watch' = "none" /\ silent' = 0
  /\ drain' = "idle" /\ again' = FALSE /\ drainTasks' = 0
  /\ tickles' = 0 /\ closing' = FALSE
  /\ UNCHANGED <<load, node, inbox, missed>>
-----------------------------------------------------------------------------
(* The node and its cable. *)

NodeBreaks(how) ==
  /\ node = "ok" /\ load.breaks > 0
  /\ load' = [load EXCEPT !.breaks = @ - 1]
  /\ node' = how /\ closing' = (how = "closed" /\ Open)
  /\ UNCHANGED <<inbox, tickles, stateVars, loopVars, drainVars, missed>>

\* A port that is gone needs to be opened again; a node can find its voice.
NodeReturns ==
  /\ node # "ok" /\ (node = "silent" \/ ~Open)
  /\ node' = "ok"
  /\ UNCHANGED <<load, inbox, tickles, closing, stateVars, loopVars, drainVars, missed>>
-----------------------------------------------------------------------------
Connecting == Opens \/ StartFails \/ StartAgain \/ Configured \/ SettingsDone \/ SnapshotDone
Fetching == OnMessagesWaiting \/ DrainBegins \/ NodeAnswersFetch \/ FetchFails \/ MessageFetched
            \/ QueueEmpty \/ DrainBreaks
Watching == PollLooks \/ OnDisconnected \/ WatchLooks \/ WatchWakes \/ WatchHears

LinkBot == Connecting \/ Fetching \/ Watching
LinkNext == LinkBot \/ MessageArrives \/ TickleLost \/ OperatorReconnects
            \/ (\E how \in {"closed", "silent"} : NodeBreaks(how)) \/ NodeReturns
-----------------------------------------------------------------------------
LinkTypeOK ==
  /\ {load.messages, load.losses, load.breaks, load.reconnects} \subseteq Nat
  /\ node \in {"ok", "closed", "silent"} /\ inbox \in Nat /\ tickles \in Nat /\ drainTasks \in Nat
  /\ main \in Phases /\ {closing, stranger, running, lost, again, missed} \subseteq BOOLEAN
  /\ poll \in Loop /\ watch \in Loop /\ silent \in 0..SilentCommands
  /\ drain \in {"idle", "fetch", "message", "empty", "failed"}

(* No message is left in the node's queue unless a push or a fetch was lost:   *)
(* while one is there, a push is under way, a drain is to begin, or the one     *)
(* that runs will look again, whenever it came and whatever the drain had        *)
(* been told (_drain_again).                                                   *)
NothingStranded ==
  (Subscribed /\ node = "ok" /\ ~missed /\ inbox > 0) =>
    \/ tickles > 0 \/ drainTasks > 0
    \/ drain \in {"fetch", "message"} \/ (Draining /\ again)

(* A link whose watchdog lives and that dies, whichever way, is given up and   *)
(* connected again, unless the node finds its voice first.                     *)
WatchedLinkIsNoticed ==
  (main = "serving" /\ node # "ok" /\ watch \in {"asleep", "asking"}) ~> (main # "serving" \/ node = "ok")

(* What USB_Radio_Restart.md and the comment above LINK_CHECK_S say: a lost     *)
(* link is noticed in one of three ways, a node that answers nothing among      *)
(* them.  start() kills the watchdog it creates.                               *)
DeadLinkIsNoticed ==
  (main = "serving" /\ node # "ok") ~> (main # "serving" \/ node = "ok")
=============================================================================
