------------------------------ MODULE DmOutbox ------------------------------
(***************************************************************************)
(* The bot's direct messages (meshcore_weather/meshcore/delivery.py): the   *)
(* queue of replies to each contact, the tries of one reply, the codes the   *)
(* delivery tracker listens for, and the mesh and the phones between them.   *)
(*                                                                          *)
(* The bot runs on one event loop, so an action is what runs between two     *)
(* awaits; the awaits of a contact's worker are the values of its `pc`.      *)
(* Timers (the pause before a reply, the wait for an ACK, the 60 s a failed  *)
(* reply still listens) may end at any time: nothing here depends on how     *)
(* long they are.                                                           *)
(***************************************************************************)
EXTENDS Integers, Sequences, FiniteSets

CONSTANTS
  Contacts,
  Replies,      \* DmReply objects
  KeyOf,        \* the contact each is for
  Bodies,       \* what a reply can say
  QueueMax,     \* DM_QUEUE_MAX
  MeasureOnly,  \* settings.retransmit_max == 0
  EarlyMax,     \* the length of _early_acks
  MaxSends      \* bound: transmissions; the node refuses any further one

\* The text of a reply that is still to be chosen.
NoBody == <<>>

ASSUME OutboxConstants ==
  /\ KeyOf \in [Replies -> Contacts] /\ NoBody \notin Bodies
  /\ QueueMax \in Nat \ {0} /\ MeasureOnly \in BOOLEAN /\ EarlyMax \in Nat \ {0} /\ MaxSends \in Nat

VARIABLES
  lastTs,     \* _last_ts: the newest timestamp given to a reply
  rep,        \* the replies
  queue,      \* _queues: contact -> replies, the one being delivered first
  worker,     \* _workers: contact -> the await it is at, the attempts left
  expected,   \* _dm_acks: <<code, reply>>
  early,      \* _early_acks: the newest ACKs that matched nothing
  got,        \* the tries the phone of their contact receives: <<reply, code>>
  acks,       \* the ACKs on their way back
  sends,      \* transmissions made
  due         \* history: the tries of a reply whose ACK still counts

outboxVars == <<lastTs, rep, queue, worker, expected, early, got, acks, sends, due>>

\* What the node hashes into the code an ACK carries: not the recipient.
Codes == [ts : Nat, attempt : 0 .. 3, body : Bodies]

NoRow == [ok |-> FALSE, tries |-> 0, late |-> FALSE]

NewReply == [state |-> "new", body |-> NoBody, ts |-> 0, used |-> {}, tries |-> 0,
             acks |-> {}, open |-> FALSE, hold |-> FALSE, late |-> FALSE, row |-> NoRow]

Idle == [pc |-> "idle", left |-> <<>>]

OutboxInit ==
  /\ lastTs = 0
  /\ rep = [r \in Replies |-> NewReply]
  /\ queue = [c \in Contacts |-> <<>>]
  /\ worker = [c \in Contacts |-> Idle]
  /\ expected = {} /\ early = {} /\ got = {} /\ acks = {} /\ sends = 0
  /\ due = [r \in Replies |-> {}]
-----------------------------------------------------------------------------
(* Records and codes. *)

\* _record: the reply's row in the outcomes file.
Recorded(rec) ==
  [rec EXCEPT !.row = [ok |-> rec.state = "confirmed", tries |-> rec.tries,
                       late |-> rec.state = "confirmed" /\ rec.late]]

\* _acked: an ACK of any try confirms; one after the last wait is late.
Acked(rec) ==
  Recorded([rec EXCEPT !.state = "confirmed", !.late = ~rec.open, !.hold = FALSE])

\* mutation: the end of a delivery that failed is not written to the row.
EndedUnrecorded(rec) ==
  LET shut == [rec EXCEPT !.open = FALSE] IN
  IF rec.state = "confirmed" THEN shut
  ELSE [shut EXCEPT !.state = "failed", !.hold = rec.tries > 0]

\* mutation: a delivery that ran out of tries fails, whatever came in meanwhile.
EndedRegardless(rec) ==
  LET shut == [rec EXCEPT !.open = FALSE, !.state = "failed"] IN
  IF rec.tries = 0 THEN shut ELSE Recorded([shut EXCEPT !.hold = TRUE])

\* The end of _deliver, and _run's handling of an exception in it.
Ended(rec) ==
  LET shut == [rec EXCEPT !.open = FALSE] IN
  IF rec.state = "confirmed" THEN shut
  ELSE IF rec.tries = 0 THEN [shut EXCEPT !.state = "failed"]
  ELSE Recorded([shut EXCEPT !.state = "failed", !.hold = TRUE])

\* _forget: forget_dm_ack of each of the reply's codes, when they are its own.
Forget(pairs, r) == {p \in pairs : p[2] # r}

\* mutation: only the newest try of a reply is listened for.
ExpectNewest(pairs, code, r) == {p \in pairs : p[1] # code /\ p[2] # r} \union {<<code, r>>}

\* expect_dm_ack: one owner per code.
Expect(pairs, code, r) == {p \in pairs : p[1] # code} \union {<<code, r>>}

Current(c) == Head(queue[c])

Attempt(c) == Head(worker[c].left)

CodeOf(r, attempt) == [ts |-> rep[r].ts, attempt |-> attempt, body |-> rep[r].body]

\* The tries that go by flood: the last with a stored route, and the one of
\* another delivery.
ByFlood(attempt) == attempt \in {2, 3}

\* _plan: delivered again, a reply is tried once more under its timestamp.
Again(rec) == rec.used # {} /\ 3 \notin rec.used

Plan(rec, routed) ==
  IF Again(rec) THEN <<3>>
  ELSE IF MeasureOnly THEN <<0>>
  ELSE IF routed THEN <<0, 1, 2>> ELSE <<0, 1>>

\* _plan: one clock for every contact, since a code names no recipient.  Taken
\* within one second, when the wall clock does not advance it: timestamps are
\* compared for equality only.
FreshTs == lastTs + 1

NewMessage(rec) == ~Again(rec) /\ (rec.ts = 0 \/ rec.used # {})

\* The route is reset before a flood, if the contact has one.
StartTry(routed, left) ==
  [pc |-> IF ByFlood(Head(left)) /\ routed THEN "reset" ELSE "handing", left |-> left]
-----------------------------------------------------------------------------
(* The outbox. *)

\* A reply, or another delivery of one, that is not taken.
TurnedAway(rec) == [rec EXCEPT !.state = IF rec.tries > 0 THEN "failed" ELSE "dropped"]

\* submit: a new reply, or another delivery of one that failed.
Submitted(r, rec) ==
  IF Len(queue[KeyOf[r]]) >= QueueMax
  THEN /\ rep' = [rep EXCEPT ![r] = TurnedAway(rec)]
       /\ UNCHANGED queue
  ELSE /\ rep' = [rep EXCEPT ![r] = [rec EXCEPT !.state = "queued"]]
       /\ queue' = [queue EXCEPT ![KeyOf[r]] = Append(queue[KeyOf[r]], r)]

MaySubmit(r) == rep[r].state \in {"new", "failed", "dropped"}

\* note_copy: the row of a reply, when it has one, counts a copy of its request.
Noted(rec) == IF rec.row = NoRow THEN rec ELSE Recorded(rec)

Submit(r) ==
  /\ MaySubmit(r)
  /\ Submitted(r, rep[r]) \/ Submitted(r, Noted(rep[r]))
  /\ UNCHANGED <<lastTs, worker, expected, early, got, acks, sends, due>>

\* A copy that gets nothing, and one whose delivery the hourly budget refuses.
NoteCopy(r) ==
  /\ \/ rep' = [rep EXCEPT ![r] = Noted(rep[r])]
     \/ MaySubmit(r) /\ rep' = [rep EXCEPT ![r] = TurnedAway(Noted(rep[r]))]
  /\ UNCHANGED <<lastTs, queue, worker, expected, early, got, acks, sends, due>>

\* _run after _deliver: the next job is the head of the queue.
Finish(c, rec) ==
  /\ rep' = [rep EXCEPT ![Current(c)] = Ended(rec)]
  /\ expected' = IF rec.state = "confirmed" THEN Forget(expected, Current(c)) ELSE expected
  /\ queue' = [queue EXCEPT ![c] = Tail(@)]
  /\ worker' = [worker EXCEPT ![c] = Idle]

\* _deliver after its pause, a late ACK having come in meanwhile.
Skip(c) ==
  /\ worker[c].pc = "idle" /\ queue[c] # <<>>
  /\ rep[Current(c)].state = "confirmed"
  /\ Finish(c, rep[Current(c)])
  /\ UNCHANGED <<lastTs, early, got, acks, sends, due>>

\* _deliver up to its first try.  The text, when it is still to be chosen, is
\* chosen here.
Deliver(c, routed, body) ==
  /\ worker[c].pc = "idle" /\ queue[c] # <<>>
  /\ LET r == Current(c)
         rec == rep[r]
         ts == IF NewMessage(rec) THEN FreshTs ELSE rec.ts IN
     /\ rec.state # "confirmed"
     /\ rep' = [rep EXCEPT ![r] =
          [rec EXCEPT !.state = "sending", !.open = TRUE, !.hold = FALSE, !.ts = ts,
                      !.body = IF rec.body = NoBody THEN body ELSE rec.body,
                      !.used = IF NewMessage(rec) THEN {} ELSE rec.used]]
     /\ lastTs' = IF NewMessage(rec) THEN FreshTs ELSE lastTs
     /\ worker' = [worker EXCEPT ![c] = StartTry(routed, Plan(rec, routed))]
  /\ UNCHANGED <<queue, expected, early, got, acks, sends, due>>

\* dm_reset_path has returned; nothing is looked at before the transmission.
PathReset(c) ==
  /\ worker[c].pc = "reset"
  /\ worker' = [worker EXCEPT ![c].pc = "handing"]
  /\ UNCHANGED <<lastTs, rep, queue, expected, early, got, acks, sends, due>>

\* dm_transmit: it is the bot's turn on the air and the node sends the try.  It
\* reaches the phone, which acknowledges it, or is lost; how long the mesh
\* takes either way is how long the ACK takes.
Transmit(c, reaches) ==
  /\ worker[c].pc = "handing" /\ sends < MaxSends
  /\ worker' = [worker EXCEPT ![c].pc = "aired"]
  /\ sends' = sends + 1
  /\ LET code == CodeOf(Current(c), Attempt(c)) IN
     /\ got' = IF reaches THEN got \union {<<Current(c), code>>} ELSE got
     /\ acks' = IF reaches THEN acks \union {code} ELSE acks
  /\ UNCHANGED <<lastTs, rep, queue, expected, early, due>>

\* dm_transmit returns None, or raises: the node refused the try, or sent it
\* and its answer was lost.
Refused(c) ==
  /\ worker[c].pc \in {"handing", "aired"}
  /\ Finish(c, rep[Current(c)])
  /\ UNCHANGED <<lastTs, early, got, acks, sends, due>>

\* dm_transmit returns.  A confirmation by an earlier try ends the delivery;
\* an ACK that overtook this return is found among the early ones, where one of
\* more than 30 s ago (the same try, sent before under a lost answer) is passed
\* over.
HandedOver(c) ==
  /\ worker[c].pc = "aired"
  /\ LET r == Current(c)
         code == CodeOf(r, Attempt(c))
         sent == [rep[r] EXCEPT !.tries = rep[r].tries + 1,
                                !.used = rep[r].used \union {Attempt(c)},
                                !.acks = rep[r].acks \union {code}] IN
     \/ /\ sent.state = "confirmed"
        /\ Finish(c, Recorded(sent))
        /\ UNCHANGED <<early, due>>
     \/ /\ sent.state # "confirmed" /\ code \in early
        /\ early' = early \ {code}
        /\ Finish(c, Acked(sent))
        /\ due' = [due EXCEPT ![r] = @ \union {code}]
     \/ /\ sent.state # "confirmed"
        /\ rep' = [rep EXCEPT ![r] = sent]
        /\ expected' = Expect(expected, code, r)
        /\ worker' = [worker EXCEPT ![c].pc = "window"]
        /\ due' = [due EXCEPT ![r] = @ \union {code}]
        /\ UNCHANGED <<queue, early>>
  /\ UNCHANGED <<lastTs, got, acks, sends>>

\* _wait_confirmed returns: the ACK came, or the window is over.
WindowEnds(c) ==
  /\ worker[c].pc = "window"
  /\ \/ /\ rep[Current(c)].state = "confirmed" \/ Len(worker[c].left) = 1
        /\ Finish(c, rep[Current(c)])
     \/ /\ rep[Current(c)].state # "confirmed" /\ Len(worker[c].left) > 1
        /\ worker' = [worker EXCEPT ![c] = [pc |-> "jitter", left |-> Tail(@.left)]]
        /\ UNCHANGED <<rep, queue, expected>>
  /\ UNCHANGED <<lastTs, early, got, acks, sends, due>>

\* The pause between two tries is over; it is the last look at the state.
JitterEnds(c, routed) ==
  /\ worker[c].pc = "jitter"
  /\ \/ /\ rep[Current(c)].state = "confirmed"
        /\ Finish(c, rep[Current(c)])
     \/ /\ rep[Current(c)].state # "confirmed"
        /\ worker' = [worker EXCEPT ![c] = StartTry(routed, @.left)]
        /\ UNCHANGED <<rep, queue, expected>>
  /\ UNCHANGED <<lastTs, early, got, acks, sends, due>>

\* expire(): 60 s after the last try, unless the reply is out again.
HoldExpires(r) ==
  /\ rep[r].hold
  /\ rep' = [rep EXCEPT ![r].hold = FALSE]
  /\ expected' = Forget(expected, r)
  /\ due' = [due EXCEPT ![r] = {}]
  /\ UNCHANGED <<lastTs, queue, worker, early, got, acks, sends>>
-----------------------------------------------------------------------------
(* The ACKs. *)

\* DeliveryTracker.on_ack.
OnAck(code) ==
  /\ code \in acks
  /\ acks' = acks \ {code}
  /\ LET owners == {r \in Replies : <<code, r>> \in expected} IN
     \/ \E r \in owners :
          /\ rep[r].state # "confirmed"
          /\ rep' = [rep EXCEPT ![r] = Acked(@)]
          /\ expected' = Forget(expected, r)
          /\ UNCHANGED early
     \/ /\ owners = {}
        /\ IF Cardinality(early) < EarlyMax THEN early' = early \union {code}
           ELSE \E old \in early : early' = (early \ {old}) \union {code}
        /\ UNCHANGED <<rep, expected>>
  /\ UNCHANGED <<lastTs, queue, worker, got, sends, due>>

\* The steps of one contact's worker.
WorkerStep(c, routed, reaches, body) ==
  \/ Skip(c) \/ Deliver(c, routed, body) \/ PathReset(c) \/ Transmit(c, reaches)
  \/ Refused(c) \/ HandedOver(c) \/ WindowEnds(c) \/ JitterEnds(c, routed)

\* The mesh and the timers.
Surroundings ==
  \/ \E r \in Replies : HoldExpires(r)
  \/ \E code \in acks : OnAck(code)

OutboxNext ==
  \/ \E r \in Replies : Submit(r) \/ NoteCopy(r)
  \/ \E c \in Contacts, routed, reaches \in BOOLEAN, body \in Bodies :
       WorkerStep(c, routed, reaches, body)
  \/ Surroundings

OutboxSpec == OutboxInit /\ [][OutboxNext]_outboxVars
-----------------------------------------------------------------------------
(* Properties. *)

OutboxTypeOK ==
  /\ lastTs \in Nat
  /\ rep \in [Replies ->
       [state : {"new", "queued", "sending", "confirmed", "failed", "dropped"},
        body : Bodies \union {NoBody}, ts : Nat, used : SUBSET (0 .. 3), tries : Nat,
        acks : SUBSET Codes, open : BOOLEAN, hold : BOOLEAN, late : BOOLEAN,
        row : [ok : BOOLEAN, tries : Nat, late : BOOLEAN]]]
  /\ queue \in [Contacts -> Seq(Replies)]
  /\ worker \in [Contacts -> [pc : {"idle", "reset", "handing", "aired", "window", "jitter"},
                              left : Seq(0 .. 3)]]
  /\ expected \subseteq Codes \X Replies /\ early \subseteq Codes
  /\ got \subseteq Replies \X Codes /\ acks \subseteq Codes /\ sends \in Nat
  /\ due \in [Replies -> SUBSET Codes]

\* The bot listens for exactly the tries whose ACK still counts: of a reply not
\* confirmed, every try since it last stopped listening, whatever became of
\* the delivery it belonged to; of any other, none (delivery.py:1061).
ListensForEveryTry ==
  expected = UNION {{<<code, r>> : code \in due[r]} :
                      r \in {q \in Replies : rep[q].state # "confirmed"}}

\* Between two deliveries a reply's row in the outcomes file says what became
\* of it: confirmed or not, and after how many tries (delivery.py:1111).
RowTellsTruth ==
  \A r \in Replies :
    LET delivering == rep[r].open \/ rep[r].tries = 0 IN
    delivering \/ (rep[r].row.ok = (rep[r].state = "confirmed") /\ rep[r].row.tries = rep[r].tries)

\* The abstract outbox: what it tells of a reply.
Told(state) ==
  CASE state \in {"new", "failed", "dropped"} -> "idle"
    [] state \in {"queued", "sending"} -> "open"
    [] OTHER -> state

Promise == INSTANCE DmPromise WITH told <- [r \in Replies |-> Told(rep[r].state)],
                                   reached <- {p[1] : p \in got}

\* The outbox keeps its promise: only a reply its contact's phone has is
\* confirmed, by an ACK of any of its tries and of no other reply's, and once
\* confirmed it stays so.
KeepsDmPromise == Promise!Spec
=============================================================================
