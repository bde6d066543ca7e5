----------------------------- MODULE AppAnswers -----------------------------
(***************************************************************************)
(* The bot's answers to the `>` requests of apps (AppResponder and           *)
(* PartsCache of meshcore_weather/protocol/broadcaster.py, with their side    *)
(* of main.py): copies of a request, the gap between two requests of one      *)
(* phone, the budget, and the windows in which what has just been on the air   *)
(* for everyone is not sent again.                                            *)
(*                                                                          *)
(* An item is a packet of a multi-packet answer (`>part` asks for some of       *)
(* them again) or one radar tile of one picture (`>radar`), and has a window of  *)
(* its own.  A sweep (`>wmap`) goes by its ground, the states it names or the    *)
(* country, at one of two levels: warnings and watches, or `all`, advisories     *)
(* too.  The other requests ("text") have no window.  A window is looked up when *)
(* a request is handled and started when its batch is over.  In between the      *)
(* answer waits until the request's own copies have died down, for the batches   *)
(* before it, and for the node to take each packet.                              *)
(*                                                                          *)
(* Left out: the schedule's own batches, which only make an answer wait, and     *)
(* the ten minutes and eight groups the cache keeps.                            *)
(***************************************************************************)
EXTENDS Integers, Sequences, FiniteSets, SequencesExt

CONSTANTS
  Phones,
  Requests,      \* the requests DmRequests has on record
  PhoneOf,
  KindOf,        \* "text", "part", "sweep" or "radar"
  ItemsOf,       \* the items each asks for: packets, tiles
  States,        \* the state codes
  Country,       \* the ground of a national sweep, a window of its own: _last_sweep
  StatesOf,      \* the states a sweep names, none for the country
  Advisories,    \* the sweeps of `>wmap all`
  MaxSweep,      \* MAX_SWEEP_PACKETS
  Window,        \* kind -> how long an item that was sent is not sent again
  SenderGap,     \* app_sender_gap_s
  CopyGap,       \* APP_COPY_GAP_S
  Budget,        \* app_packets_per_hour
  Tasks,         \* bound: one for each datagram that arrives
  MaxTime        \* bound: the clock; well inside an hour

Windowed == {"part", "sweep", "radar"}
Items == UNION {ItemsOf[a] : a \in Requests}
Ground == States \union {Country}

Never == 0 - 100    \* longer ago than any window
NoTask == 0
NoRequest == "none"

\* Not available, the 6-byte answer: no item.
NA == 0

ASSUME AnswerConstants ==
  /\ PhoneOf \in [Requests -> Phones] /\ KindOf \in [Requests -> Windowed \union {"text"}]
  /\ ItemsOf \in [Requests -> (SUBSET (Nat \ {NA})) \ {{}}]
  /\ \A a \in Requests : IsFiniteSet(ItemsOf[a])
  /\ States \subseteq Nat /\ Country \in Nat \ States /\ MaxSweep \in Nat
  /\ StatesOf \in [Requests -> SUBSET States] /\ Advisories \subseteq {a \in Requests : KindOf[a] = "sweep"}
  /\ Window \in [Windowed -> 1 .. 0 - Never]
  /\ Tasks \subseteq Nat \ {NoTask} /\ {SenderGap, CopyGap, Budget, MaxTime} \subseteq Nat

VARIABLES
  now,
  ready,         \* the product backlog is in
  last,          \* _last_by_sender
  spent,         \* the length of _sent
  kept,          \* the packets PartsCache holds
  stamp,         \* when each window began: PartsCache's `sent`, _last_sweep_state, _last_radar
  level,         \* and whether the sweep that began it had the advisories
  req,           \* DmRequest: state and app_done_at
  task,          \* the handler of each datagram; `after` is history, the tasks it follows
  lock,          \* the task that holds _tx_lock
  aired          \* history: what went on the air, when, and the task that sent it

vars == <<now, ready, last, spent, kept, stamp, level, req, task, lock, aired>>

NewTask == [pc |-> "new", ask |-> NoRequest, at |-> 0, msgs |-> <<>>, next |-> 1, took |-> 0,
            counts |-> FALSE, left |-> "app", after |-> {}]

Init ==
  /\ now = 0 /\ ready \in BOOLEAN
  /\ last = [p \in Phones |-> Never] /\ spent = 0 /\ kept = {}
  /\ stamp = [k \in Windowed |-> [i \in Items \union Ground |-> Never]]
  /\ level = [g \in Ground |-> FALSE]
  /\ req = [a \in Requests |-> [state |-> "building", done |-> Never]]
  /\ task = [n \in Tasks |-> NewTask]
  /\ lock = NoTask /\ aired = {}
-----------------------------------------------------------------------------
(* What an answer holds. *)

Fresh(kind, i) == now - stamp[kind][i] < Window[kind]

\* What a sweep is about, and what it covers for everyone: a national sweep
\* covers every state, and only a national sweep covers the country.
Asked(a) == IF StatesOf[a] = {} THEN {Country} ELSE StatesOf[a]
Swept(a) == IF StatesOf[a] = {} THEN Ground ELSE StatesOf[a]

\* _sweep_is_cooling: all of the ground was covered, at this level or a higher
\* one.  What the window holds is the last sweep's level.
Covers(a, g) == Fresh("sweep", g) /\ (a \in Advisories => level[g])
Cooling(a) == \A g \in Asked(a) : Covers(a, g)

\* A sweep must fit in the budget; a national one is measured before it is built.
TooLong(a) ==
  spent + (IF StatesOf[a] = {} THEN MaxSweep ELSE Cardinality(ItemsOf[a])) > Budget

\* _radar_answer, _answer and PartsCache.lookup: the items an answer carries.
\* A sweep is sent whole or not at all.
ToSend(a) ==
  LET open == {i \in ItemsOf[a] : ~Fresh(KindOf[a], i)} IN
  CASE KindOf[a] = "text"  -> ItemsOf[a]
    [] KindOf[a] = "part"  -> open \intersect kept
    [] KindOf[a] = "radar" -> open
    [] KindOf[a] = "sweep" -> IF Cooling(a) \/ TooLong(a) THEN {} ELSE ItemsOf[a]

\* `>part` for packets the floor holds back, and no others: silence.
AlreadyResent(a) ==
  KindOf[a] = "part" /\ ToSend(a) = {} /\ ItemsOf[a] \intersect kept # {}

Ascending(s) == \A i, j \in DOMAIN s : i < j => s[i] < s[j]
InOrder(items) == CHOOSE s \in [1 .. Cardinality(items) -> items] : Ascending(s)

Answer(a) == IF ToSend(a) = {} THEN <<NA>> ELSE InOrder(ToSend(a))
-----------------------------------------------------------------------------
(* A request arrives. *)

Handled(a) == [NewTask EXCEPT !.ask = a, !.at = now, !.after = {m \in Tasks : task[m].pc = "done"}]

\* The answer is built and waits for its turn on the air.
Queue(n, a, msgs, counts, left) ==
  /\ task' = [task EXCEPT ![n] = [Handled(a) EXCEPT !.pc = "waiting", !.msgs = msgs,
                                  !.counts = counts, !.left = left]]
  /\ req' = [req EXCEPT ![a] = [state |-> "app", done |-> Never]]

\* "rate limited", "hourly budget spent", "already resent": nothing is sent and
\* the next copy is answered afresh.
Silent(n, a) ==
  /\ task' = [task EXCEPT ![n].pc = "done"]
  /\ req' = [req EXCEPT ![a] = [state |-> "app_unanswered", done |-> Never]]

\* handle_request up to its first await.  A radar tile is cut in a thread.
Handle(n, a) ==
  \/ /\ now - last[PhoneOf[a]] < SenderGap
     /\ Silent(n, a) /\ UNCHANGED last
  \/ /\ now - last[PhoneOf[a]] >= SenderGap
     /\ last' = [last EXCEPT ![PhoneOf[a]] = now]
     /\ \/ ~ready /\ Queue(n, a, <<NA>>, FALSE, "not_ready")
        \/ ready /\ spent >= Budget /\ Silent(n, a)              \* radar, or told busy before
        \/ ready /\ spent >= Budget /\ KindOf[a] # "radar" /\ Queue(n, a, <<NA>>, FALSE, "app")
        \/ ready /\ spent < Budget /\ AlreadyResent(a) /\ Silent(n, a)
        \/ /\ ready /\ spent < Budget /\ ~AlreadyResent(a) /\ KindOf[a] # "radar"
           /\ Queue(n, a, Answer(a), TRUE, "app")
        \/ /\ ready /\ spent < Budget /\ KindOf[a] = "radar"
           /\ task' = [task EXCEPT ![n] = [Handled(a) EXCEPT !.pc = "cutting"]]
           /\ req' = [req EXCEPT ![a] = [state |-> "app", done |-> Never]]

\* mutation: a copy is answered while the answer is still going out.
AnswersUnlessSent(a) ==
  \/ req[a].state \in {"building", "app_unanswered", "not_ready"}
  \/ req[a].state = "app" /\ now - req[a].done >= CopyGap

\* _copy_action: the first datagram of a request, or a copy that is answered.
Answers(a) ==
  \/ req[a].state \in {"building", "app_unanswered", "not_ready"}
  \/ req[a].state = "app" /\ req[a].done # Never /\ now - req[a].done >= CopyGap

Arrive(n, a) ==
  /\ task[n].pc = "new" /\ \A m \in Tasks : m < n => task[m].pc # "new"
  /\ \/ Answers(a) /\ Handle(n, a)
     \/ ~Answers(a) /\ task' = [task EXCEPT ![n].pc = "done"] /\ UNCHANGED <<last, req>>
  /\ UNCHANGED <<now, ready, spent, kept, stamp, level, lock, aired>>
-----------------------------------------------------------------------------
(* The answer goes out. *)

\* _radar_answer is done, in its thread, and the task goes on.
Cut(n) ==
  /\ task[n].pc = "cutting"
  /\ task' = [task EXCEPT ![n].pc = "waiting", ![n].msgs = Answer(task[n].ask), ![n].counts = TRUE]
  /\ UNCHANGED <<now, ready, last, spent, kept, stamp, level, req, lock, aired>>

\* transmit: its time has come and the batch before is over.
Begin(n) ==
  /\ task[n].pc = "waiting" /\ lock = NoTask
  /\ task' = [task EXCEPT ![n].pc = "sending"]
  /\ lock' = n
  /\ UNCHANGED <<now, ready, last, spent, kept, stamp, level, req, aired>>

More(n) == task[n].next <= Len(task[n].msgs)

\* The node takes the next packet, or refuses it; the batch goes on either way.
\* A packet of a multi-packet answer is remembered the first time it goes out.
Send(n, taken) ==
  LET item == task[n].msgs[task[n].next] IN
  /\ task[n].pc = "sending" /\ More(n)
  /\ task' = [task EXCEPT ![n].next = @ + 1, ![n].took = @ + IF taken THEN 1 ELSE 0]
  /\ aired' = IF taken THEN aired \union {[item |-> item, at |-> now, task |-> n]} ELSE aired
  /\ kept' = IF taken /\ item # NA /\ KindOf[task[n].ask] \in {"text", "sweep"}
             THEN kept \union {item} ELSE kept
  /\ UNCHANGED <<now, ready, last, spent, stamp, level, req, lock>>

\* What the answer to a request covers for everyone: the items it asks for, or
\* all the ground of a sweep.
CoveredBy(a) == IF KindOf[a] = "sweep" THEN Swept(a) ELSE ItemsOf[a]

Stamp(kind, items, at) == [stamp EXCEPT ![kind] =
                             [i \in Items \union Ground |-> IF i \in items THEN at ELSE stamp[kind][i]]]

\* mutation: a batch the node refused outright starts its windows.
StartedRegardless(n) ==
  LET t == task[n]
      kind == KindOf[t.ask] IN
  IF t.msgs = <<NA>> \/ kind = "text" THEN stamp ELSE Stamp(kind, CoveredBy(t.ask), now)

\* The windows a batch starts: those of every packet asked for, of every
\* ground the sweep covers, and of the first tiles, as many as were taken.
Started(n) ==
  LET t == task[n]
      kind == KindOf[t.ask] IN
  IF t.took = 0 \/ t.msgs = <<NA>> \/ kind = "text" THEN stamp ELSE
  CASE kind = "part"  -> Stamp(kind, ItemsOf[t.ask] \intersect kept, now)
    [] kind = "sweep" -> Stamp(kind, Swept(t.ask), now)
    [] kind = "radar" -> Stamp(kind, ToSet(SubSeq(t.msgs, 1, t.took)), t.at)

\* _stamp_sweep: a sweep leaves its own level on all of its ground, over a
\* higher one too.
Levels(n) ==
  LET t == task[n]
      swept == IF t.took = 0 \/ t.msgs = <<NA>> \/ KindOf[t.ask] # "sweep" THEN {} ELSE Swept(t.ask)
  IN [g \in Ground |-> IF g \in swept THEN t.ask \in Advisories ELSE level[g]]

\* The batch is over: handle_request and _handle_app_request to their ends.
Finish(n) ==
  LET t == task[n] IN
  /\ t.pc = "sending" /\ ~More(n)
  /\ task' = [task EXCEPT ![n] = [NewTask EXCEPT !.pc = "done", !.ask = t.ask, !.left = t.left,
                                                !.after = t.after]]
  /\ lock' = NoTask
  /\ spent' = IF t.counts THEN spent + t.took ELSE spent
  /\ stamp' = IF t.counts THEN Started(n) ELSE stamp
  /\ level' = IF t.counts THEN Levels(n) ELSE level
  /\ req' = [req EXCEPT ![t.ask] =
               [state |-> t.left, done |-> IF t.left = "app" THEN now ELSE Never]]
  /\ UNCHANGED <<now, ready, last, kept, aired>>

BacklogIn ==
  /\ ~ready /\ ready' = TRUE
  /\ UNCHANGED <<now, last, spent, kept, stamp, level, req, task, lock, aired>>

\* A tick is longer than a batch, which is a few packets a second or two apart.
Tick ==
  /\ now < MaxTime /\ now' = now + 1
  /\ lock = NoTask
  /\ UNCHANGED <<ready, last, spent, kept, stamp, level, req, task, lock, aired>>

Work(n) == Cut(n) \/ Begin(n) \/ (\E taken \in BOOLEAN : Send(n, taken)) \/ Finish(n)

Next ==
  \/ \E n \in Tasks : Work(n) \/ \E a \in Requests : Arrive(n, a)
  \/ BacklogIn \/ Tick

Spec == Init /\ [][Next]_vars
-----------------------------------------------------------------------------
(* Properties. *)

TypeOK ==
  /\ now \in 0 .. MaxTime /\ ready \in BOOLEAN /\ spent \in Nat
  /\ last \in [Phones -> Nat \union {Never}] /\ kept \subseteq Items
  /\ stamp \in [Windowed -> [Items \union Ground -> Nat \union {Never}]]
  /\ level \in [Ground -> BOOLEAN]
  /\ req \in [Requests -> [state : {"building", "app", "app_unanswered", "not_ready"},
                           done : Nat \union {Never}]]
  /\ \A n \in Tasks :
       /\ task[n].pc \in {"new", "cutting", "waiting", "sending", "done"}
       /\ task[n].pc \in {"waiting", "sending"} => task[n].msgs # <<>>
       /\ task[n].took < task[n].next /\ (lock = n) = (task[n].pc = "sending")
  /\ lock \in Tasks \union {NoTask}

UnderWay(n) == task[n].pc \in {"cutting", "waiting", "sending"}

\* A request has at most one answer under way, and is not answered again within
\* the gap after one that went out, however many copies arrive (main.py:766).
AnsweredOnce ==
  /\ \A n, m \in Tasks : n # m /\ UnderWay(n) /\ UnderWay(m) => task[n].ask # task[m].ask
  /\ \A x, y \in aired :
       /\ x.task < y.task /\ task[x.task].ask = task[y.task].ask
       /\ task[x.task].left = "app"
       => y.at - x.at >= CopyGap

\* The request a packet on the air answers, its kind, and what its batch covers
\* for everyone: the packet itself, or all the ground of a sweep.
AskOf(y) == task[y.task].ask
KindOn(y) == KindOf[AskOf(y)]
Covered(y) == IF KindOn(y) = "sweep" THEN Swept(AskOf(y)) ELSE {y.item}

\* Packet x covered an item, or ground, as fully as request a asks for it.
CoveredFor(a, item, x) ==
  /\ x.item # NA /\ KindOn(x) = KindOf[a] /\ item \in Covered(x)
  /\ a \in Advisories => AskOf(x) \in Advisories

\* A sweep without the advisories covered the ground no earlier than x did.
Overwritten(g, x, before) ==
  \E z \in aired :
    /\ z.task \in before /\ z.at >= x.at /\ z.item # NA
    /\ KindOn(z) = "sweep" /\ g \in Covered(z) /\ AskOf(z) \notin Advisories

\* No batch that was over when y was asked for covered the item within its
\* window, for as much as y has, unless a sweep of less overwrote that.
WasOpen(item, y) ==
  \A x \in aired :
    /\ x.task \in task[y.task].after /\ CoveredFor(AskOf(y), item, x)
    => \/ y.at - x.at >= Window[KindOn(y)]
       \/ AskOf(y) \in Advisories /\ Overwritten(item, x, task[y.task].after)

\* The windows say what went out.  Phones that ask for the same packets, or the
\* same ground, one after the other share it: a packet is on the air twice within
\* its window, or a sweep all of whose ground was just covered at its level is on
\* the air, only for requests that were under way together (broadcaster.py:338,
\* 447).  A sweep with the advisories may also go out again because one without
\* them left its own level on the same ground in between (436-445).
\* And a batch the node refused outright starts no window: one that runs began with
\* a request that covers the item, of which something was taken (broadcaster.py:334).
WindowsFollowAir ==
  /\ \A y \in aired : y.item # NA =>
       /\ KindOn(y) = "part" => WasOpen(y.item, y)
       /\ KindOn(y) = "sweep" => \E g \in Asked(AskOf(y)) : WasOpen(g, y)
  /\ \A kind \in Windowed, i \in Items \union Ground : Fresh(kind, i) =>
       \E x \in aired : /\ KindOn(x) = kind /\ i \in CoveredBy(AskOf(x))
                        /\ now - x.at < Window[kind]
=============================================================================
