------------------------ MODULE DmConversationProofs ------------------------
(***************************************************************************)
(* Proofs about the bot's direct messages, for any contacts, replies, texts,  *)
(* queue length, requests, pages and copies.                                *)
(*                                                                          *)
(* First DmOutbox: it keeps its promise (DmPromise), listens for every try     *)
(* whose ACK still counts, and its rows tell the truth.  The argument: a       *)
(* timestamp is given to one reply only, so a code that comes back (it was     *)
(* received by some phone: CodesComeBack) names one reply (OneOwner); a reply  *)
(* is in one queue, once, while it is open (QueuesOK), and the worker's tries  *)
(* are those of the head (WorkersOK).                                        *)
(*                                                                          *)
(* Then DmConversation: each of its steps is a step of the outbox, so that     *)
(* what holds of the outbox holds of the conversation, no reply is ever queued *)
(* twice, and no page is skipped.  Only _answer_dm_now submits a reply that is *)
(* still new, and only a copy one that failed; a request that is being         *)
(* answered has a new reply, since a new reply is in no queue (QueuesOK) and   *)
(* nothing is listened for on its behalf (NewIsBare).                        *)
(***************************************************************************)
EXTENDS DmConversation, TLAPS

Open == {"queued", "sending", "confirmed"}

States == {"new", "queued", "sending", "confirmed", "failed", "dropped"}

Records ==
  [state : States, body : Bodies \union {NoBody}, ts : Nat, used : SUBSET (0 .. 3), tries : Nat,
   acks : SUBSET Codes, open : BOOLEAN, hold : BOOLEAN, late : BOOLEAN,
   row : [ok : BOOLEAN, tries : Nat, late : BOOLEAN]]

\* A queue holds each of its replies once, and only replies to its contact that
\* are waiting, being tried or confirmed meanwhile.
QueuesOK ==
  \A c \in Contacts : \A i \in 1 .. Len(queue[c]) :
    /\ KeyOf[queue[c][i]] = c
    /\ rep[queue[c][i]].state \in Open
    /\ \A j \in 1 .. Len(queue[c]) : queue[c][i] = queue[c][j] => i = j

\* A worker that is at work has a reply to deliver, with a text and a
\* timestamp, and tries left.
WorkersOK ==
  \A c \in Contacts : worker[c].pc # "idle" =>
    /\ queue[c] # <<>> /\ worker[c].left # <<>>
    /\ rep[Current(c)].ts # 0 /\ rep[Current(c)].body \in Bodies

StampsOK ==
  \A r \in Replies : rep[r].ts <= lastTs /\ (rep[r].used # {} => rep[r].ts # 0)

\* A timestamp belongs to one reply, in its record, on the phones and in the
\* table of codes.
OneOwner ==
  /\ \A r, q \in Replies : rep[r].ts = rep[q].ts /\ rep[r].ts # 0 => r = q
  /\ \A p \in got : /\ p[2].ts # 0 /\ p[2].ts <= lastTs
                    /\ \A q \in Replies : rep[q].ts = p[2].ts => q = p[1]
  /\ \A e \in expected : /\ e[1].ts # 0 /\ e[1].ts <= lastTs
                         /\ \A q \in Replies : rep[q].ts = e[1].ts => q = e[2]
  /\ \A p \in got, e \in expected : p[2].ts = e[1].ts => p[1] = e[2]

\* Only what a phone received is acknowledged.
CodesComeBack == \A a \in acks \union early : \E r \in Replies : <<r, a>> \in got

Types ==
  /\ lastTs \in Nat /\ rep \in [Replies -> Records]
  /\ queue \in [Contacts -> Seq(Replies)]
  /\ worker \in [Contacts -> [pc : {"idle", "reset", "handing", "aired", "window", "jitter"},
                              left : Seq(0 .. 3)]]
  /\ expected \subseteq Codes \X Replies /\ early \subseteq Codes
  /\ got \subseteq Replies \X Codes /\ acks \subseteq Codes /\ sends \in Nat
  /\ due \in [Replies -> SUBSET Codes]

IInv ==
  /\ Types /\ QueuesOK /\ WorkersOK /\ StampsOK /\ OneOwner /\ CodesComeBack
  /\ ListensForEveryTry
-----------------------------------------------------------------------------
(* Operators. *)

LEMMA TypesIsTypeOK == Types <=> OutboxTypeOK
BY DEF Types, OutboxTypeOK, Records, States

LEMMA RecordedType == ASSUME NEW rec \in Records PROVE
  /\ Recorded(rec) \in Records
  /\ Recorded(rec).state = rec.state /\ Recorded(rec).ts = rec.ts
  /\ Recorded(rec).used = rec.used /\ Recorded(rec).body = rec.body
BY DEF Recorded, Records, States

LEMMA AckedType == ASSUME NEW rec \in Records PROVE
  /\ Acked(rec) \in Records
  /\ Acked(rec).state = "confirmed" /\ Acked(rec).ts = rec.ts
  /\ Acked(rec).used = rec.used /\ Acked(rec).body = rec.body
<1> DEFINE x == [rec EXCEPT !.state = "confirmed", !.late = ~rec.open, !.hold = FALSE]
<1>1. x \in Records /\ x.state = "confirmed" /\ x.ts = rec.ts /\ x.used = rec.used /\ x.body = rec.body
  <2>1. rec.open \in BOOLEAN BY DEF Records
  <2>2. PICK b \in BOOLEAN : b = ~rec.open BY <2>1
  <2>3. x = [rec EXCEPT !.state = "confirmed", !.late = b, !.hold = FALSE] BY <2>2
  <2> QED BY <2>3 DEF Records, States
<1>2. Acked(rec) = Recorded(x) BY DEF Acked
<1> HIDE DEF x
<1> QED BY <1>1, <1>2, RecordedType

LEMMA EndedType == ASSUME NEW rec \in Records PROVE
  /\ Ended(rec) \in Records
  /\ Ended(rec).state = IF rec.state = "confirmed" THEN "confirmed" ELSE "failed"
  /\ Ended(rec).ts = rec.ts /\ Ended(rec).used = rec.used /\ Ended(rec).body = rec.body
<1> DEFINE shut == [rec EXCEPT !.open = FALSE]
           x == [shut EXCEPT !.state = "failed", !.hold = TRUE]
<1>1. shut \in Records /\ shut.state = rec.state /\ shut.ts = rec.ts /\ shut.used = rec.used
      /\ shut.body = rec.body
  BY DEF Records, States
<1>2. x \in Records /\ x.state = "failed" /\ x.ts = rec.ts /\ x.used = rec.used /\ x.body = rec.body
  BY <1>1 DEF Records, States
<1>3. [shut EXCEPT !.state = "failed"] \in Records BY <1>1 DEF Records, States
<1>4. Ended(rec) = IF rec.state = "confirmed" THEN shut
                   ELSE IF rec.tries = 0 THEN [shut EXCEPT !.state = "failed"]
                   ELSE Recorded(x)
  BY DEF Ended
<1>5. CASE rec.state = "confirmed" BY <1>1, <1>4, <1>5
<1>6. CASE rec.state # "confirmed" /\ rec.tries = 0 
  BY <1>1, <1>3, <1>4, <1>6 DEF Records
<1>7. CASE rec.state # "confirmed" /\ rec.tries # 0
  <2> HIDE DEF x
  <2> QED BY <1>2, <1>4, <1>7, RecordedType
<1> QED BY <1>5, <1>6, <1>7

LEMMA PlanType ==
  ASSUME NEW rec, NEW routed
  PROVE  Plan(rec, routed) \in Seq(0 .. 3) /\ Plan(rec, routed) # <<>>
<1>1. <<3>> \in Seq(0 .. 3) /\ <<3>> # <<>> OBVIOUS
<1>2. <<0>> \in Seq(0 .. 3) /\ <<0>> # <<>> OBVIOUS
<1>3. <<0, 1>> \in Seq(0 .. 3) /\ <<0, 1>> # <<>> OBVIOUS
<1>4. <<0, 1, 2>> \in Seq(0 .. 3) /\ <<0, 1, 2>> # <<>> OBVIOUS
<1> QED BY <1>1, <1>2, <1>3, <1>4 DEF Plan
-----------------------------------------------------------------------------
(* The end of a delivery. *)

LEMMA HeadFacts ==
  ASSUME Types, NEW c \in Contacts, queue[c] # <<>>
  PROVE  /\ Current(c) \in Replies /\ Current(c) = queue[c][1] /\ 1 \in 1 .. Len(queue[c])
         /\ Tail(queue[c]) \in Seq(Replies) /\ Len(Tail(queue[c])) = Len(queue[c]) - 1
         /\ \A i \in 1 .. Len(Tail(queue[c])) : Tail(queue[c])[i] = queue[c][i + 1]
BY DEF Types, Current

\* What Finish leaves behind, for the record the delivery ended with.
LEMMA FinishKeeps ==
  ASSUME IInv, NEW c \in Contacts, queue[c] # <<>>,
         NEW rec \in Records, rec.ts = rep[Current(c)].ts, rec.used # {} => rec.ts # 0,
         rep[Current(c)].state = "confirmed" => rec.state = "confirmed",
         Finish(c, rec), lastTs' = lastTs, got' = got,
         due' \in [Replies -> SUBSET Codes],
         \A q \in Replies : due'[q] = due[q] \/ (q = Current(c) /\ rec.state = "confirmed")
  PROVE  /\ rep' \in [Replies -> Records] /\ queue' \in [Contacts -> Seq(Replies)]
         /\ worker' \in [Contacts -> [pc : {"idle", "reset", "handing", "aired", "window", "jitter"},
                                      left : Seq(0 .. 3)]]
         /\ expected' \subseteq Codes \X Replies
         /\ QueuesOK' /\ WorkersOK' /\ StampsOK' /\ OneOwner' /\ ListensForEveryTry'
<1> DEFINE r == Current(c)
<1> USE DEF IInv
<1>1. /\ r \in Replies /\ r = queue[c][1] /\ 1 \in 1 .. Len(queue[c])
      /\ Tail(queue[c]) \in Seq(Replies) /\ Len(Tail(queue[c])) = Len(queue[c]) - 1
      /\ \A i \in 1 .. Len(Tail(queue[c])) : Tail(queue[c])[i] = queue[c][i + 1]
  BY HeadFacts
<1>2. /\ Ended(rec) \in Records
      /\ Ended(rec).state = IF rec.state = "confirmed" THEN "confirmed" ELSE "failed"
      /\ Ended(rec).ts = rec.ts /\ Ended(rec).used = rec.used /\ Ended(rec).body = rec.body
  BY EndedType
<1>3. rep' = [rep EXCEPT ![r] = Ended(rec)] BY DEF Finish
<1>4. queue' = [queue EXCEPT ![c] = Tail(queue[c])] BY DEF Finish
<1>5. worker' = [worker EXCEPT ![c] = Idle] BY DEF Finish
<1>6. expected' = IF rec.state = "confirmed" THEN {p \in expected : p[2] # r} ELSE expected
  BY DEF Finish, Forget
<1>7. rep' \in [Replies -> Records] BY <1>1, <1>2, <1>3 DEF Types
<1>8. queue' \in [Contacts -> Seq(Replies)] BY <1>1, <1>4 DEF Types
<1>9. /\ \A q \in Replies : q # r => rep'[q] = rep[q]
      /\ rep'[r] = Ended(rec)
      /\ \A q \in Replies : rep'[q].ts = rep[q].ts /\ (rep'[q].used # {} => rep'[q].ts # 0)
  BY <1>1, <1>2, <1>3 DEF Types, StampsOK
<1>10. worker'[c] = Idle /\ \A d \in Contacts : d # c => worker'[d] = worker[d] /\ queue'[d] = queue[d]
  BY <1>4, <1>5 DEF Types
<1>11. QueuesOK'
  <2> SUFFICES ASSUME NEW d \in Contacts, NEW i \in 1 .. Len(queue'[d])
               PROVE  /\ KeyOf[queue'[d][i]] = d
                      /\ rep'[queue'[d][i]].state \in Open
                      /\ \A j \in 1 .. Len(queue'[d]) : queue'[d][i] = queue'[d][j] => i = j
    BY DEF QueuesOK
  <2>1. CASE d # c
    <3>1. queue'[d][i] \in Replies /\ queue'[d] = queue[d] BY <1>8, <1>10, <2>1 DEF Types
    <3>2. queue'[d][i] # r BY <1>1, <2>1, <3>1 DEF QueuesOK
    <3> QED BY <1>9, <3>1, <3>2 DEF QueuesOK
  <2>2. CASE d = c
    <3>1. queue'[c] = Tail(queue[c]) BY <1>4 DEF Types
    <3>2. i + 1 \in 1 .. Len(queue[c]) /\ queue'[c][i] = queue[c][i + 1]
      BY <1>1, <2>2, <3>1
    <3>3. queue[c][i + 1] \in Replies BY <3>2 DEF Types
    <3>4. queue[c][i + 1] # r BY <1>1, <3>2 DEF QueuesOK
    <3>5. rep'[queue[c][i + 1]] = rep[queue[c][i + 1]] BY <1>9, <3>3, <3>4
    <3>6. KeyOf[queue'[d][i]] = d /\ rep'[queue'[d][i]].state \in Open
      BY <2>2, <3>2, <3>5 DEF QueuesOK
    <3>7. ASSUME NEW j \in 1 .. Len(queue'[d]), queue'[d][i] = queue'[d][j] PROVE i = j
      <4>1. j + 1 \in 1 .. Len(queue[c]) /\ queue'[c][j] = queue[c][j + 1]
        BY <1>1, <2>2, <3>1
      <4>2. i + 1 = j + 1 BY <2>2, <3>2, <3>7, <4>1 DEF QueuesOK
      <4> QED BY <4>2, <3>7, <1>1, <3>1, <2>2
    <3> QED BY <3>6, <3>7
  <2> QED BY <2>1, <2>2
<1>12. WorkersOK'
  <2> SUFFICES ASSUME NEW d \in Contacts, worker'[d].pc # "idle"
               PROVE  /\ queue'[d] # <<>> /\ worker'[d].left # <<>>
                      /\ rep'[Current(d)'].ts # 0 /\ rep'[Current(d)'].body \in Bodies
    BY DEF WorkersOK
  <2>1. d # c BY <1>10 DEF Idle
  <2>2. worker'[d] = worker[d] /\ queue'[d] = queue[d] /\ worker[d].pc # "idle" BY <1>10, <2>1
  <2>3. Current(d)' = Current(d) BY <2>2 DEF Current
  <2>4. queue[d] # <<>> /\ worker[d].left # <<>> /\ rep[Current(d)].ts # 0 /\ rep[Current(d)].body \in Bodies
    BY <2>2 DEF WorkersOK
  <2>5. Current(d) \in Replies /\ Current(d) = queue[d][1] /\ 1 \in 1 .. Len(queue[d]) BY <2>4, HeadFacts
  <2>6. Current(d) # r BY <1>1, <2>1, <2>5 DEF QueuesOK
  <2> QED BY <1>9, <2>2, <2>3, <2>4, <2>5, <2>6
<1>13. StampsOK' BY <1>9 DEF StampsOK
<1>14. expected' \subseteq expected BY <1>6
<1>15. OneOwner' BY <1>9, <1>14 DEF OneOwner
<1>16. ListensForEveryTry'
  <2>1. rec.state # "confirmed" => rep[r].state # "confirmed" OBVIOUS
  <2>2. ASSUME rec.state # "confirmed" PROVE ListensForEveryTry'
    <3>1. \A q \in Replies : rep'[q].state # "confirmed" <=> rep[q].state # "confirmed"
      BY <1>2, <1>9, <2>1, <2>2
    <3>2. \A q \in Replies : due'[q] = due[q] BY <2>2
    <3>3. expected' = expected BY <1>6, <2>2
    <3> QED BY <3>1, <3>2, <3>3 DEF ListensForEveryTry
  <2>3. ASSUME rec.state = "confirmed" PROVE ListensForEveryTry'
    <3>1. \A q \in Replies : rep'[q].state # "confirmed" <=> q # r /\ rep[q].state # "confirmed"
      BY <1>2, <1>9, <2>3
    <3>2. \A q \in Replies : q # r => due'[q] = due[q] OBVIOUS
    <3>3. expected' = {p \in expected : p[2] # r} BY <1>6, <2>3
    <3> QED BY <3>1, <3>2, <3>3 DEF ListensForEveryTry
  <2> QED BY <2>2, <2>3
<1>17. worker' \in [Contacts -> [pc : {"idle", "reset", "handing", "aired", "window", "jitter"},
                                 left : Seq(0 .. 3)]]
  BY <1>5 DEF Types, Idle
<1>18. expected' \subseteq Codes \X Replies BY <1>14 DEF Types
<1> QED BY <1>7, <1>8, <1>11, <1>12, <1>13, <1>15, <1>16, <1>17, <1>18
-----------------------------------------------------------------------------
(* What the conjuncts of the invariant depend on. *)

LEMMA NotedType == ASSUME NEW rec \in Records PROVE
  /\ Noted(rec) \in Records
  /\ Noted(rec).state = rec.state /\ Noted(rec).ts = rec.ts
  /\ Noted(rec).used = rec.used /\ Noted(rec).body = rec.body
BY RecordedType DEF Noted

LEMMA TurnedAwayType == ASSUME NEW rec \in Records PROVE
  /\ TurnedAway(rec) \in Records
  /\ TurnedAway(rec).state \in {"failed", "dropped"} /\ TurnedAway(rec).ts = rec.ts
  /\ TurnedAway(rec).used = rec.used /\ TurnedAway(rec).body = rec.body
BY DEF TurnedAway, Records, States

LEMMA QueuesKept ==
  ASSUME Types, QueuesOK, queue' = queue,
         \A q \in Replies : rep[q].state \in Open => rep'[q].state \in Open
  PROVE  QueuesOK'
<1> SUFFICES ASSUME NEW c \in Contacts, NEW i \in 1 .. Len(queue[c])
             PROVE  rep'[queue[c][i]].state \in Open
  BY DEF QueuesOK
<1>1. queue[c][i] \in Replies BY DEF Types
<1> QED BY <1>1 DEF QueuesOK

LEMMA WorkersKept ==
  ASSUME Types, WorkersOK, queue' = queue,
         \A c \in Contacts : worker'[c].pc # "idle" => worker[c].pc # "idle" /\ worker'[c].left # <<>>,
         \A q \in Replies : rep'[q].ts = rep[q].ts /\ rep'[q].body = rep[q].body
  PROVE  WorkersOK'
<1> SUFFICES ASSUME NEW c \in Contacts, worker'[c].pc # "idle"
             PROVE  /\ queue'[c] # <<>> /\ worker'[c].left # <<>>
                    /\ rep'[Current(c)'].ts # 0 /\ rep'[Current(c)'].body \in Bodies
  BY DEF WorkersOK
<1>1. queue[c] # <<>> /\ rep[Current(c)].ts # 0 /\ rep[Current(c)].body \in Bodies
  BY DEF WorkersOK
<1>2. Current(c)' = Current(c) BY DEF Current
<1>3. Current(c) \in Replies BY <1>1, HeadFacts
<1> QED BY <1>1, <1>2, <1>3

LEMMA OwnerKept ==
  ASSUME OneOwner, lastTs' = lastTs, got' = got, expected' \subseteq expected,
         \A q \in Replies : rep'[q].ts = rep[q].ts
  PROVE  OneOwner'
BY DEF OneOwner

\* A step of one reply's record that touches neither its queue nor its codes.
LEMMA RecordStep ==
  ASSUME IInv, NEW r \in Replies, NEW rec \in Records, rep' = [rep EXCEPT ![r] = rec],
         rec.ts = rep[r].ts, rec.used = rep[r].used, rec.body = rep[r].body,
         rep[r].state \in Open => rec.state \in Open,
         rec.state = "confirmed" <=> rep[r].state = "confirmed",
         UNCHANGED <<lastTs, queue, worker, expected, early, got, acks, sends, due>>
  PROVE  IInv'
<1> USE DEF IInv
<1>1. /\ rep' \in [Replies -> Records]
      /\ \A q \in Replies : q # r => rep'[q] = rep[q]
      /\ rep'[r] = rec
  BY DEF Types
<1>2. \A q \in Replies : /\ rep'[q].ts = rep[q].ts /\ rep'[q].body = rep[q].body
                         /\ rep'[q].used = rep[q].used
                         /\ rep[q].state \in Open => rep'[q].state \in Open
                         /\ rep'[q].state = "confirmed" <=> rep[q].state = "confirmed"
  BY <1>1
<1>3. Types' BY <1>1 DEF Types
<1>4. QueuesOK' BY <1>2, QueuesKept
<1>5. WorkersOK'
  <2>1. \A c \in Contacts : worker'[c].pc # "idle" => worker[c].pc # "idle" /\ worker'[c].left # <<>>
    BY DEF WorkersOK
  <2> QED BY <1>2, <2>1, WorkersKept
<1>6. StampsOK' BY <1>2 DEF StampsOK
<1>7. OneOwner' BY <1>2, OwnerKept
<1>8. CodesComeBack' BY DEF CodesComeBack
<1>9. ListensForEveryTry' BY <1>2 DEF ListensForEveryTry
<1> QED BY <1>3, <1>4, <1>5, <1>6, <1>7, <1>8, <1>9
-----------------------------------------------------------------------------
(* The actions. *)

LEMMA SubmittedKeeps ==
  ASSUME IInv, NEW r \in Replies, MaySubmit(r), NEW rec \in Records,
         rec.state = rep[r].state, rec.ts = rep[r].ts, rec.used = rep[r].used,
         rec.body = rep[r].body, OutboxConstants, Submitted(r, rec),
         UNCHANGED <<lastTs, worker, expected, early, got, acks, sends, due>>
  PROVE  IInv'
<1> DEFINE c == KeyOf[r]
<1>0. c \in Contacts BY DEF OutboxConstants
<1>1. rep[r].state \notin Open BY DEF MaySubmit, Open
<1>2. CASE UNCHANGED queue /\ rep' = [rep EXCEPT ![r] = TurnedAway(rec)]
  <2>1. /\ TurnedAway(rec) \in Records
        /\ TurnedAway(rec).state \in {"failed", "dropped"} /\ TurnedAway(rec).ts = rec.ts
        /\ TurnedAway(rec).used = rec.used /\ TurnedAway(rec).body = rec.body
    BY TurnedAwayType
  <2>2. TurnedAway(rec).state # "confirmed" /\ rep[r].state # "confirmed" BY <1>1, <2>1 DEF Open
  <2> QED BY <1>1, <1>2, <2>1, <2>2, RecordStep
<1>3. CASE /\ rep' = [rep EXCEPT ![r] = [rec EXCEPT !.state = "queued"]]
           /\ queue' = [queue EXCEPT ![c] = Append(queue[c], r)]
  <2> DEFINE x == [rec EXCEPT !.state = "queued"]
  <2> USE DEF IInv
  <2>1. x \in Records /\ x.state = "queued" /\ x.ts = rec.ts /\ x.used = rec.used /\ x.body = rec.body
    BY DEF Records, States
  <2> HIDE DEF x
  <2>2. /\ rep' \in [Replies -> Records]
        /\ \A q \in Replies : q # r => rep'[q] = rep[q]
        /\ rep'[r] = x
    BY <1>3, <2>1 DEF Types, x
  <2>3. \A q \in Replies : /\ rep'[q].ts = rep[q].ts /\ rep'[q].body = rep[q].body
                           /\ rep'[q].used = rep[q].used
                           /\ rep[q].state \in Open => rep'[q].state \in Open
                           /\ rep'[q].state = "confirmed" <=> rep[q].state = "confirmed"
    BY <1>1, <2>1, <2>2 DEF Open
  <2>4. /\ queue' \in [Contacts -> Seq(Replies)]
        /\ \A d \in Contacts : d # c => queue'[d] = queue[d]
        /\ queue'[c] = Append(queue[c], r) /\ queue[c] \in Seq(Replies)
    BY <1>0, <1>3 DEF Types
  <2>5. /\ Len(queue'[c]) = Len(queue[c]) + 1 /\ Len(queue[c]) \in Nat
        /\ queue'[c][Len(queue[c]) + 1] = r
        /\ \A i \in 1 .. Len(queue[c]) : queue'[c][i] = queue[c][i]
    BY <2>4
  <2>6. \A d \in Contacts : \A i \in 1 .. Len(queue[d]) : queue[d][i] \in Replies /\ queue[d][i] # r
    <3> TAKE d \in Contacts
    <3> TAKE i \in 1 .. Len(queue[d])
    <3>1. queue[d][i] \in Replies BY DEF Types
    <3>2. rep[queue[d][i]].state \in Open BY DEF QueuesOK
    <3> QED BY <1>1, <3>1, <3>2
  <2>7. QueuesOK'
    <3> SUFFICES ASSUME NEW d \in Contacts, NEW i \in 1 .. Len(queue'[d])
                 PROVE  /\ KeyOf[queue'[d][i]] = d
                        /\ rep'[queue'[d][i]].state \in Open
                        /\ \A j \in 1 .. Len(queue'[d]) : queue'[d][i] = queue'[d][j] => i = j
      BY DEF QueuesOK
    <3>1. CASE d # c
      <4>1. queue'[d] = queue[d] BY <2>4, <3>1
      <4> QED BY <2>3, <2>6, <4>1 DEF QueuesOK
    <3>2. CASE d = c /\ i = Len(queue[c]) + 1
      <4>1. queue'[d][i] = r BY <2>5, <3>2
      <4>2. rep'[r].state \in Open BY <2>1, <2>2 DEF Open
      <4>3. ASSUME NEW j \in 1 .. Len(queue'[d]), queue'[d][i] = queue'[d][j] PROVE i = j
        <5>1. j \notin 1 .. Len(queue[c]) BY <2>5, <2>6, <3>2, <4>1, <4>3, <1>0
        <5> QED BY <2>5, <3>2, <5>1
      <4> QED BY <3>2, <4>1, <4>2, <4>3
    <3>3. CASE d = c /\ i # Len(queue[c]) + 1
      <4>1. i \in 1 .. Len(queue[c]) BY <2>5, <3>3
      <4>2. queue'[d][i] = queue[c][i] /\ queue[c][i] \in Replies /\ queue[c][i] # r
        BY <1>0, <2>5, <2>6, <3>3, <4>1
      <4>3. KeyOf[queue[c][i]] = c /\ rep'[queue[c][i]].state \in Open
        BY <1>0, <2>3, <4>1, <4>2 DEF QueuesOK
      <4>4. ASSUME NEW j \in 1 .. Len(queue'[d]), queue'[d][i] = queue'[d][j] PROVE i = j
        <5>1. j # Len(queue[c]) + 1 BY <2>5, <3>3, <4>2, <4>4
        <5>2. j \in 1 .. Len(queue[c]) BY <2>5, <3>3, <5>1
        <5>3. queue[c][i] = queue[c][j] BY <2>5, <3>3, <4>2, <4>4, <5>2
        <5> QED BY <1>0, <4>1, <5>2, <5>3 DEF QueuesOK
      <4> QED BY <3>3, <4>2, <4>3, <4>4
    <3> QED BY <3>1, <3>2, <3>3
  <2>8. WorkersOK'
    <3> SUFFICES ASSUME NEW d \in Contacts, worker[d].pc # "idle"
                 PROVE  /\ queue'[d] # <<>> /\ worker[d].left # <<>>
                        /\ rep'[Current(d)'].ts # 0 /\ rep'[Current(d)'].body \in Bodies
      BY DEF WorkersOK
    <3>1. /\ queue[d] # <<>> /\ worker[d].left # <<>>
          /\ rep[Current(d)].ts # 0 /\ rep[Current(d)].body \in Bodies
      BY DEF WorkersOK
    <3>2. Current(d) \in Replies /\ Current(d) = queue[d][1] /\ 1 \in 1 .. Len(queue[d])
      BY <3>1, HeadFacts
    <3>3. queue'[d] # <<>> /\ Current(d)' = Current(d)
      <4>1. CASE d # c BY <2>4, <3>1, <4>1 DEF Current
      <4>2. CASE d = c
        <5>1. queue'[c] \in Seq(Replies) /\ Len(queue'[c]) # 0 BY <1>0, <2>4, <2>5
        <5>2. queue'[c] # <<>> /\ Head(queue'[c]) = queue'[c][1] BY <5>1
        <5> QED BY <2>5, <3>2, <4>2, <5>2 DEF Current
      <4> QED BY <4>1, <4>2
    <3> QED BY <2>3, <3>1, <3>2, <3>3
  <2>9. Types' BY <2>2, <2>4 DEF Types
  <2>10. StampsOK' BY <2>3 DEF StampsOK
  <2>11. OneOwner' BY <2>3, OwnerKept
  <2>12. CodesComeBack' BY DEF CodesComeBack
  <2>13. ListensForEveryTry' BY <2>3 DEF ListensForEveryTry
  <2> QED BY <2>7, <2>8, <2>9, <2>10, <2>11, <2>12, <2>13
<1> QED BY <1>2, <1>3 DEF Submitted

LEMMA SubmitKeeps ==
  ASSUME IInv, OutboxConstants, NEW r \in Replies, Submit(r) PROVE IInv'
<1>1. rep[r] \in Records BY DEF IInv, Types
<1>2. /\ Noted(rep[r]) \in Records /\ Noted(rep[r]).state = rep[r].state
      /\ Noted(rep[r]).ts = rep[r].ts /\ Noted(rep[r]).used = rep[r].used
      /\ Noted(rep[r]).body = rep[r].body
  BY <1>1, NotedType
<1>3. CASE Submitted(r, rep[r]) BY <1>1, <1>3, SubmittedKeeps DEF Submit
<1>4. CASE Submitted(r, Noted(rep[r])) BY <1>2, <1>4, SubmittedKeeps DEF Submit
<1> QED BY <1>3, <1>4 DEF Submit

LEMMA NoteCopyKeeps ==
  ASSUME IInv, NEW r \in Replies, NoteCopy(r) PROVE IInv'
<1>1. rep[r] \in Records BY DEF IInv, Types
<1>2. /\ Noted(rep[r]) \in Records /\ Noted(rep[r]).state = rep[r].state
      /\ Noted(rep[r]).ts = rep[r].ts /\ Noted(rep[r]).used = rep[r].used
      /\ Noted(rep[r]).body = rep[r].body
  BY <1>1, NotedType
<1>3. CASE rep' = [rep EXCEPT ![r] = Noted(rep[r])]
  BY <1>2, <1>3, RecordStep DEF NoteCopy
<1>4. CASE MaySubmit(r) /\ rep' = [rep EXCEPT ![r] = TurnedAway(Noted(rep[r]))]
  <2> DEFINE x == TurnedAway(Noted(rep[r]))
  <2>1. /\ x \in Records /\ x.state \in {"failed", "dropped"} /\ x.ts = rep[r].ts
        /\ x.used = rep[r].used /\ x.body = rep[r].body
    BY <1>2, TurnedAwayType
  <2>2. rep[r].state \notin Open /\ rep[r].state # "confirmed" BY <1>4 DEF MaySubmit, Open
  <2>3. x.state # "confirmed" BY <2>1
  <2>4. rep' = [rep EXCEPT ![r] = x] BY <1>4
  <2> HIDE DEF x
  <2> QED BY <2>1, <2>2, <2>3, <2>4, RecordStep DEF NoteCopy
<1> QED BY <1>3, <1>4 DEF NoteCopy

\* What a worker's step finds: the reply it delivers.
LEMMA WorkerFacts ==
  ASSUME IInv, NEW c \in Contacts, queue[c] # <<>>
  PROVE  /\ Current(c) \in Replies /\ rep[Current(c)] \in Records
         /\ rep[Current(c)].used # {} => rep[Current(c)].ts # 0
         /\ rep[Current(c)].state \in Open
<1>1. /\ Current(c) \in Replies /\ Current(c) = queue[c][1] /\ 1 \in 1 .. Len(queue[c])
  BY HeadFacts DEF IInv
<1>2. rep[Current(c)].state \in Open BY <1>1 DEF IInv, QueuesOK
<1> QED BY <1>1, <1>2 DEF IInv, Types, StampsOK

\* A delivery that ends with the record as it is.
LEMMA PlainFinishKeeps ==
  ASSUME IInv, NEW c \in Contacts, queue[c] # <<>>, Finish(c, rep[Current(c)]),
         UNCHANGED <<lastTs, early, got, acks, sends, due>>
  PROVE  IInv'
<1>1. /\ Current(c) \in Replies /\ rep[Current(c)] \in Records
      /\ rep[Current(c)].used # {} => rep[Current(c)].ts # 0
  BY WorkerFacts
<1>2. due' \in [Replies -> SUBSET Codes] BY DEF IInv, Types
<1>3. /\ rep' \in [Replies -> Records] /\ queue' \in [Contacts -> Seq(Replies)]
      /\ worker' \in [Contacts -> [pc : {"idle", "reset", "handing", "aired", "window", "jitter"},
                                   left : Seq(0 .. 3)]]
      /\ expected' \subseteq Codes \X Replies
      /\ QueuesOK' /\ WorkersOK' /\ StampsOK' /\ OneOwner' /\ ListensForEveryTry'
  BY <1>1, <1>2, FinishKeeps
<1>4. Types' BY <1>3 DEF IInv, Types
<1>5. CodesComeBack' BY DEF IInv, CodesComeBack
<1> QED BY <1>3, <1>4, <1>5 DEF IInv

\* A step that only moves a worker that is at work on.
LEMMA WorkerMoves ==
  ASSUME IInv, NEW c \in Contacts, worker[c].pc # "idle",
         NEW w \in [pc : {"reset", "handing", "aired", "window", "jitter"}, left : Seq(0 .. 3)],
         w.left # <<>>, worker' = [worker EXCEPT ![c] = w],
         UNCHANGED <<lastTs, rep, queue, expected, early, got, acks, sends, due>>
  PROVE  IInv'
<1> USE DEF IInv
<1>1. Types' BY DEF Types
<1>2. QueuesOK' BY QueuesKept
<1>3. WorkersOK'
  <2>1. \A d \in Contacts : worker'[d].pc # "idle" => worker[d].pc # "idle" /\ worker'[d].left # <<>>
    BY DEF WorkersOK, Types
  <2> QED BY <2>1, WorkersKept
<1>4. StampsOK' BY DEF StampsOK
<1>5. OneOwner' BY OwnerKept
<1>6. CodesComeBack' BY DEF CodesComeBack
<1>7. ListensForEveryTry' BY DEF ListensForEveryTry
<1> QED BY <1>1, <1>2, <1>3, <1>4, <1>5, <1>6, <1>7

LEMMA StartTryType ==
  ASSUME NEW routed, NEW left \in Seq(0 .. 3)
  PROVE  /\ StartTry(routed, left) \in
              [pc : {"reset", "handing", "aired", "window", "jitter"}, left : Seq(0 .. 3)]
         /\ StartTry(routed, left).left = left
BY DEF StartTry

LEMMA SkipKeeps == ASSUME IInv, NEW c \in Contacts, Skip(c) PROVE IInv'
BY PlainFinishKeeps DEF Skip

LEMMA RefusedKeeps == ASSUME IInv, NEW c \in Contacts, Refused(c) PROVE IInv'
<1>1. queue[c] # <<>> BY DEF Refused, IInv, WorkersOK
<1> QED BY <1>1, PlainFinishKeeps DEF Refused

LEMMA PathResetKeeps == ASSUME IInv, NEW c \in Contacts, PathReset(c) PROVE IInv'
<1> DEFINE w == [worker[c] EXCEPT !.pc = "handing"]
<1>1. worker[c].left # <<>> /\ worker[c].pc # "idle" BY DEF PathReset, IInv, WorkersOK
<1>2. w \in [pc : {"reset", "handing", "aired", "window", "jitter"}, left : Seq(0 .. 3)]
      /\ w.left = worker[c].left
  BY DEF IInv, Types
<1>3. worker' = [worker EXCEPT ![c] = w] BY DEF PathReset
<1> HIDE DEF w
<1> QED BY <1>1, <1>2, <1>3, WorkerMoves DEF PathReset

LEMMA LongTail ==
  ASSUME NEW S, NEW l \in Seq(S), Len(l) > 1
  PROVE  Tail(l) \in Seq(S) /\ Tail(l) # <<>>
<1>1. PICK n \in Nat : n = Len(l) OBVIOUS
<1>2. n - 1 # 0
  <2>1. n > 1 BY <1>1
  <2> QED BY <2>1
<1>3. l # <<>> BY <1>1
<1>4. Tail(l) \in Seq(S) /\ Len(Tail(l)) = n - 1 BY <1>1, <1>3
<1>5. Len(<<>>) = 0 OBVIOUS
<1> QED BY <1>2, <1>4, <1>5

LEMMA WindowEndsKeeps == ASSUME IInv, NEW c \in Contacts, WindowEnds(c) PROVE IInv'
<1>1. queue[c] # <<>> /\ worker[c].pc # "idle" BY DEF WindowEnds, IInv, WorkersOK
<1>2. CASE Finish(c, rep[Current(c)])
  BY <1>1, <1>2, PlainFinishKeeps DEF WindowEnds
<1>3. CASE /\ Len(worker[c].left) > 1
           /\ worker' = [worker EXCEPT ![c] = [pc |-> "jitter", left |-> Tail(worker[c].left)]]
           /\ UNCHANGED <<rep, queue, expected>>
  <2> DEFINE w == [pc |-> "jitter", left |-> Tail(worker[c].left)]
  <2>1. worker[c].left \in Seq(0 .. 3) BY DEF IInv, Types
  <2>2. Tail(worker[c].left) \in Seq(0 .. 3) /\ Tail(worker[c].left) # <<>>
    BY <1>3, <2>1, LongTail
  <2>3. w \in [pc : {"reset", "handing", "aired", "window", "jitter"}, left : Seq(0 .. 3)]
        /\ w.left # <<>>
    BY <2>2
  <2>4. worker' = [worker EXCEPT ![c] = w] BY <1>3
  <2> HIDE DEF w
  <2> QED BY <1>1, <1>3, <2>3, <2>4, WorkerMoves DEF WindowEnds
<1> QED BY <1>2, <1>3 DEF WindowEnds

LEMMA JitterEndsKeeps ==
  ASSUME IInv, NEW c \in Contacts, NEW routed \in BOOLEAN, JitterEnds(c, routed) PROVE IInv'
<1>1. queue[c] # <<>> /\ worker[c].pc # "idle" /\ worker[c].left # <<>>
  BY DEF JitterEnds, IInv, WorkersOK
<1>2. CASE Finish(c, rep[Current(c)])
  BY <1>1, <1>2, PlainFinishKeeps DEF JitterEnds
<1>3. CASE /\ worker' = [worker EXCEPT ![c] = StartTry(routed, worker[c].left)]
           /\ UNCHANGED <<rep, queue, expected>>
  <2>1. worker[c].left \in Seq(0 .. 3) BY DEF IInv, Types
  <2>2. /\ StartTry(routed, worker[c].left) \in
             [pc : {"reset", "handing", "aired", "window", "jitter"}, left : Seq(0 .. 3)]
        /\ StartTry(routed, worker[c].left).left # <<>>
    BY <1>1, <2>1, StartTryType
  <2> QED BY <1>1, <1>3, <2>2, WorkerMoves DEF JitterEnds
<1> QED BY <1>2, <1>3 DEF JitterEnds

\* The code of the try a worker makes belongs to its reply.
LEMMA CodeFacts ==
  ASSUME IInv, NEW c \in Contacts, worker[c].pc # "idle"
  PROVE  LET code == CodeOf(Current(c), Attempt(c)) IN
         /\ code \in Codes /\ code.ts = rep[Current(c)].ts /\ code.ts # 0 /\ code.ts <= lastTs
         /\ Attempt(c) \in 0 .. 3
<1>1. /\ queue[c] # <<>> /\ worker[c].left # <<>>
      /\ rep[Current(c)].ts # 0 /\ rep[Current(c)].body \in Bodies
  BY DEF IInv, WorkersOK
<1>2. Current(c) \in Replies /\ rep[Current(c)] \in Records BY <1>1, WorkerFacts
<1>3. worker[c].left \in Seq(0 .. 3) BY DEF IInv, Types
<1>4. Attempt(c) \in 0 .. 3 BY <1>1, <1>3 DEF Attempt
<1>5. rep[Current(c)].ts <= lastTs BY <1>2 DEF IInv, StampsOK
<1>6. rep[Current(c)].ts \in Nat BY <1>2 DEF Records
<1> QED BY <1>1, <1>4, <1>5, <1>6 DEF CodeOf, Codes

LEMMA TransmitKeeps ==
  ASSUME IInv, NEW c \in Contacts, NEW reaches \in BOOLEAN, Transmit(c, reaches) PROVE IInv'
<1> DEFINE r == Current(c)
           code == CodeOf(r, Attempt(c))
           w == [worker[c] EXCEPT !.pc = "aired"]
<1> USE DEF IInv
<1>1. /\ queue[c] # <<>> /\ worker[c].left # <<>> /\ worker[c].pc # "idle"
  BY DEF WorkersOK, Transmit
<1>2. r \in Replies BY <1>1, WorkerFacts
<1>3. code \in Codes /\ code.ts = rep[r].ts /\ code.ts # 0 /\ code.ts <= lastTs
  BY <1>1, CodeFacts
<1>4. w \in [pc : {"reset", "handing", "aired", "window", "jitter"}, left : Seq(0 .. 3)]
      /\ w.left = worker[c].left
  BY DEF Types
<1>5. worker' = [worker EXCEPT ![c] = w] /\ sends' = sends + 1 BY DEF Transmit
<1>6. /\ got' = IF reaches THEN got \union {<<r, code>>} ELSE got
      /\ acks' = IF reaches THEN acks \union {code} ELSE acks
      /\ UNCHANGED <<lastTs, rep, queue, expected, early, due>>
  BY DEF Transmit
<1> HIDE DEF code, w, r
<1>7. Types' BY <1>2, <1>3, <1>4, <1>5, <1>6 DEF Types
<1>8. QueuesOK' BY <1>6, QueuesKept
<1>9. WorkersOK'
  <2>1. \A d \in Contacts : worker'[d].pc # "idle" => worker[d].pc # "idle" /\ worker'[d].left # <<>>
    BY <1>1, <1>4, <1>5 DEF WorkersOK, Types
  <2> QED BY <1>6, <2>1, WorkersKept
<1>10. StampsOK' BY <1>6 DEF StampsOK
<1>11. OneOwner'
  <2>1. \A q \in Replies : rep[q].ts = code.ts => q = r BY <1>2, <1>3 DEF OneOwner
  <2>2. ASSUME NEW e \in expected, code.ts = e[1].ts PROVE r = e[2]
    <3>1. \A q \in Replies : rep[q].ts = e[1].ts => q = e[2] BY DEF OneOwner
    <3> QED BY <1>2, <1>3, <2>2, <3>1
  <2>3. \A p \in got' : p \in got \/ p = <<r, code>> BY <1>6
  <2>4. \A p \in got' : /\ p[2].ts # 0 /\ p[2].ts <= lastTs
                        /\ \A q \in Replies : rep[q].ts = p[2].ts => q = p[1]
    BY <1>3, <2>1, <2>3 DEF OneOwner
  <2>5. \A p \in got', e \in expected : p[2].ts = e[1].ts => p[1] = e[2]
    BY <2>2, <2>3 DEF OneOwner
  <2> QED BY <1>6, <2>4, <2>5 DEF OneOwner
<1>12. CodesComeBack'
  <2> SUFFICES ASSUME NEW a \in acks' \union early' PROVE \E q \in Replies : <<q, a>> \in got'
    BY DEF CodesComeBack
  <2>1. CASE a \in acks \union early BY <1>6, <2>1 DEF CodesComeBack
  <2>2. CASE a \notin acks \union early BY <1>2, <1>6, <2>2
  <2> QED BY <2>1, <2>2
<1>13. ListensForEveryTry' BY <1>6 DEF ListensForEveryTry
<1> QED BY <1>7, <1>8, <1>9, <1>10, <1>11, <1>12, <1>13

\* The timestamp and the record a delivery starts with.
LEMMA DeliverKeeps ==
  ASSUME IInv, NEW c \in Contacts, NEW routed \in BOOLEAN, NEW body \in Bodies,
         Deliver(c, routed, body)
  PROVE  IInv'
<1> DEFINE r == Current(c)
           rec == rep[r]
           ts == IF NewMessage(rec) THEN FreshTs ELSE rec.ts
           x == [rec EXCEPT !.state = "sending", !.open = TRUE, !.hold = FALSE, !.ts = ts,
                            !.body = IF rec.body = NoBody THEN body ELSE rec.body,
                            !.used = IF NewMessage(rec) THEN {} ELSE rec.used]
           w == StartTry(routed, Plan(rec, routed))
<1> USE DEF IInv
<1>1. queue[c] # <<>> /\ rec.state # "confirmed" BY DEF Deliver
<1>2. /\ r \in Replies /\ rec \in Records /\ rec.state \in Open
      /\ rec.used # {} => rec.ts # 0
  BY <1>1, WorkerFacts
<1>3. /\ rep' = [rep EXCEPT ![r] = x]
      /\ worker' = [worker EXCEPT ![c] = w]
      /\ lastTs' = IF NewMessage(rec) THEN FreshTs ELSE lastTs
      /\ UNCHANGED <<queue, expected, early, got, acks, sends, due>>
  BY DEF Deliver
<1>4. /\ lastTs \in Nat /\ rec.ts \in Nat /\ rec.ts <= lastTs /\ lastTs' \in Nat /\ lastTs <= lastTs'
      /\ ts \in Nat /\ ts # 0 /\ ts <= lastTs'
      /\ NewMessage(rec) => ts > lastTs
      /\ ~NewMessage(rec) => ts = rec.ts
  BY <1>2, <1>3 DEF Types, Records, StampsOK, FreshTs, NewMessage, Again
<1> HIDE DEF ts
<1>5. x \in Records /\ x.state = "sending" /\ x.ts = ts /\ x.body \in Bodies
  <2>1. (IF rec.body = NoBody THEN body ELSE rec.body) \in Bodies BY <1>2 DEF Records
  <2>2. (IF NewMessage(rec) THEN {} ELSE rec.used) \in SUBSET (0 .. 3) BY <1>2 DEF Records
  <2> QED BY <1>2, <1>4, <2>1, <2>2 DEF Records, States
<1>6. w \in [pc : {"reset", "handing", "aired", "window", "jitter"}, left : Seq(0 .. 3)]
      /\ w.left # <<>>
  BY PlanType, StartTryType
<1> HIDE DEF x, w
<1>7. /\ rep' \in [Replies -> Records] /\ rep'[r] = x
      /\ \A q \in Replies : q # r => rep'[q] = rep[q]
  BY <1>2, <1>3, <1>5 DEF Types
<1>8. worker'[c] = w /\ \A d \in Contacts : d # c => worker'[d] = worker[d]
  BY <1>3 DEF Types
<1>9. \A q \in Replies : /\ rep[q].state \in Open => rep'[q].state \in Open
                         /\ rep'[q].state = "confirmed" <=> rep[q].state = "confirmed"
  BY <1>1, <1>2, <1>5, <1>7 DEF Open
<1>10. Types' BY <1>3, <1>4, <1>6, <1>7 DEF Types
<1>11. QueuesOK' BY <1>3, <1>9, QueuesKept
<1>12. WorkersOK'
  <2> SUFFICES ASSUME NEW d \in Contacts, worker'[d].pc # "idle"
               PROVE  /\ queue[d] # <<>> /\ worker'[d].left # <<>>
                      /\ rep'[Current(d)].ts # 0 /\ rep'[Current(d)].body \in Bodies
    BY <1>3 DEF WorkersOK, Current
  <2>1. CASE d = c BY <1>1, <1>4, <1>5, <1>6, <1>7, <1>8, <2>1
  <2>2. CASE d # c
    <3>1. worker[d].pc # "idle" /\ worker'[d] = worker[d] BY <1>8, <2>2
    <3>2. /\ queue[d] # <<>> /\ worker[d].left # <<>>
          /\ rep[Current(d)].ts # 0 /\ rep[Current(d)].body \in Bodies
      BY <3>1 DEF WorkersOK
    <3>3. Current(d) \in Replies /\ Current(d) = queue[d][1] /\ 1 \in 1 .. Len(queue[d])
      BY <3>2, HeadFacts
    <3>4. r = queue[c][1] /\ 1 \in 1 .. Len(queue[c]) BY <1>1, HeadFacts
    <3>5. Current(d) # r BY <2>2, <3>3, <3>4 DEF QueuesOK
    <3> QED BY <1>7, <3>1, <3>2, <3>3, <3>5
  <2> QED BY <2>1, <2>2
<1>13. StampsOK'
  <2> SUFFICES ASSUME NEW q \in Replies
               PROVE  rep'[q].ts <= lastTs' /\ (rep'[q].used # {} => rep'[q].ts # 0)
    BY DEF StampsOK
  <2>1. CASE q = r BY <1>4, <1>5, <1>7, <2>1
  <2>2. CASE q # r
    <3>1. rep[q].ts \in Nat /\ rep[q].ts <= lastTs /\ rep'[q] = rep[q]
      BY <1>7, <2>2 DEF Types, Records, StampsOK
    <3> QED BY <1>4, <3>1 DEF StampsOK
  <2> QED BY <2>1, <2>2
<1>14. OneOwner'
  <2>1. \A q \in Replies : rep[q].ts \in Nat /\ rep[q].ts <= lastTs BY DEF Types, Records, StampsOK
  <2>2. \A p \in got : p[2].ts \in Nat BY DEF Types, Codes
  <2>3. \A e \in expected : e[1].ts \in Nat BY DEF Types, Codes
  <2>4. CASE NewMessage(rec)
    <3>1. \A q \in Replies : q # r => rep'[q].ts = rep[q].ts /\ rep[q].ts # ts
      BY <1>4, <1>7, <2>1, <2>4
    <3>2. \A p \in got : p[2].ts # ts /\ p[2].ts <= lastTs'
      BY <1>4, <2>2, <2>4 DEF OneOwner
    <3>3. \A e \in expected : e[1].ts # ts /\ e[1].ts <= lastTs'
      BY <1>4, <2>3, <2>4 DEF OneOwner
    <3>4. rep'[r].ts = ts BY <1>5, <1>7
    <3>5. \A q, p \in Replies : rep'[q].ts = rep'[p].ts /\ rep'[q].ts # 0 => q = p
      BY <3>1, <3>4 DEF OneOwner
    <3>6. \A p \in got : \A q \in Replies : rep'[q].ts = p[2].ts => q = p[1]
      BY <3>1, <3>2, <3>4 DEF OneOwner
    <3>7. \A e \in expected : \A q \in Replies : rep'[q].ts = e[1].ts => q = e[2]
      BY <3>1, <3>3, <3>4 DEF OneOwner
    <3> QED BY <1>3, <3>2, <3>3, <3>5, <3>6, <3>7 DEF OneOwner
  <2>5. CASE ~NewMessage(rec)
    <3>1. \A q \in Replies : rep'[q].ts = rep[q].ts BY <1>4, <1>5, <1>7, <2>5
    <3>2. lastTs' = lastTs BY <1>3, <2>5
    <3> QED BY <1>3, <3>1, <3>2, OwnerKept
  <2> QED BY <2>4, <2>5
<1>15. CodesComeBack' BY <1>3 DEF CodesComeBack
<1>16. ListensForEveryTry' BY <1>3, <1>9 DEF ListensForEveryTry
<1> QED BY <1>10, <1>11, <1>12, <1>13, <1>14, <1>15, <1>16

LEMMA HandedOverKeeps == ASSUME IInv, NEW c \in Contacts, HandedOver(c) PROVE IInv'
<1> DEFINE r == Current(c)
           code == CodeOf(r, Attempt(c))
           sent == [rep[r] EXCEPT !.tries = rep[r].tries + 1,
                                  !.used = rep[r].used \union {Attempt(c)},
                                  !.acks = rep[r].acks \union {code}]
<1> USE DEF IInv
<1>1. worker[c].pc = "aired" /\ queue[c] # <<>> /\ worker[c].left # <<>>
  BY DEF HandedOver, WorkersOK
<1>2. r \in Replies /\ rep[r] \in Records /\ rep[r].state \in Open BY <1>1, WorkerFacts
<1>3. /\ code \in Codes /\ code.ts = rep[r].ts /\ code.ts # 0 /\ code.ts <= lastTs
      /\ Attempt(c) \in 0 .. 3
  BY <1>1, CodeFacts
<1> HIDE DEF code
<1>4. sent \in Records /\ sent.state = rep[r].state /\ sent.ts = rep[r].ts /\ sent.body = rep[r].body
  <2>1. /\ rep[r].tries \in Nat /\ rep[r].used \in SUBSET (0 .. 3)
        /\ rep[r].acks \in SUBSET Codes
    BY <1>2 DEF Records
  <2>2. PICK n \in Nat : n = rep[r].tries + 1 BY <2>1
  <2>3. PICK u \in SUBSET (0 .. 3) : u = rep[r].used \union {Attempt(c)} BY <1>3, <2>1
  <2>4. PICK k \in SUBSET Codes : k = rep[r].acks \union {code} BY <1>3, <2>1
  <2>5. sent = [rep[r] EXCEPT !.tries = n, !.used = u, !.acks = k] BY <2>2, <2>3, <2>4
  <2> QED BY <1>2, <2>5 DEF Records
<1>5. UNCHANGED <<lastTs, got, acks, sends>> BY DEF HandedOver
<1>6. due \in [Replies -> SUBSET Codes] BY DEF Types
<1> HIDE DEF sent
<1>7. CASE sent.state = "confirmed" /\ Finish(c, Recorded(sent)) /\ UNCHANGED <<early, due>>
  <2>1. /\ Recorded(sent) \in Records /\ Recorded(sent).state = "confirmed"
        /\ Recorded(sent).ts = rep[r].ts
    BY <1>4, <1>7, RecordedType
  <2>2. Recorded(sent).used # {} => Recorded(sent).ts # 0 BY <1>3, <2>1
  <2>3. /\ rep' \in [Replies -> Records] /\ queue' \in [Contacts -> Seq(Replies)]
        /\ worker' \in [Contacts -> [pc : {"idle", "reset", "handing", "aired", "window", "jitter"},
                                     left : Seq(0 .. 3)]]
        /\ expected' \subseteq Codes \X Replies
        /\ QueuesOK' /\ WorkersOK' /\ StampsOK' /\ OneOwner' /\ ListensForEveryTry'
    BY <1>1, <1>5, <1>6, <1>7, <2>1, <2>2, FinishKeeps
  <2>4. Types' BY <1>5, <1>7, <2>3 DEF Types
  <2>5. CodesComeBack' BY <1>5, <1>7 DEF CodesComeBack
  <2> QED BY <2>3, <2>4, <2>5
<1>8. CASE /\ early' = early \ {code} /\ Finish(c, Acked(sent))
           /\ due' = [due EXCEPT ![r] = due[r] \union {code}]
  <2>1. /\ Acked(sent) \in Records /\ Acked(sent).state = "confirmed"
        /\ Acked(sent).ts = rep[r].ts
    BY <1>4, AckedType
  <2>2. Acked(sent).used # {} => Acked(sent).ts # 0 BY <1>3, <2>1
  <2>3. due' \in [Replies -> SUBSET Codes] /\ \A q \in Replies : due'[q] = due[q] \/ q = r
    BY <1>2, <1>3, <1>6, <1>8
  <2>4. /\ rep' \in [Replies -> Records] /\ queue' \in [Contacts -> Seq(Replies)]
        /\ worker' \in [Contacts -> [pc : {"idle", "reset", "handing", "aired", "window", "jitter"},
                                     left : Seq(0 .. 3)]]
        /\ expected' \subseteq Codes \X Replies
        /\ QueuesOK' /\ WorkersOK' /\ StampsOK' /\ OneOwner' /\ ListensForEveryTry'
    BY <1>1, <1>5, <1>8, <2>1, <2>2, <2>3, FinishKeeps
  <2>5. Types' BY <1>5, <1>8, <2>3, <2>4 DEF Types
  <2>6. CodesComeBack' BY <1>5, <1>8 DEF CodesComeBack
  <2> QED BY <2>4, <2>5, <2>6
<1>9. CASE /\ sent.state # "confirmed"
           /\ rep' = [rep EXCEPT ![r] = sent]
           /\ expected' = Expect(expected, code, r)
           /\ worker' = [worker EXCEPT ![c].pc = "window"]
           /\ due' = [due EXCEPT ![r] = due[r] \union {code}]
           /\ UNCHANGED <<queue, early>>
  <2>1. /\ rep' \in [Replies -> Records] /\ rep'[r] = sent
        /\ \A q \in Replies : q # r => rep'[q] = rep[q]
    BY <1>2, <1>4, <1>9 DEF Types
  <2>2. \A q \in Replies : /\ rep'[q].ts = rep[q].ts /\ rep'[q].body = rep[q].body
                           /\ rep'[q].state = rep[q].state
    BY <1>4, <2>1
  <2>3. expected' = {p \in expected : p[1] # code} \union {<<code, r>>} BY <1>9 DEF Expect
  <2>4. worker' \in [Contacts -> [pc : {"idle", "reset", "handing", "aired", "window", "jitter"},
                                  left : Seq(0 .. 3)]]
        /\ \A d \in Contacts : worker'[d].left = worker[d].left
                               /\ (worker'[d].pc # "idle" => worker[d].pc # "idle")
    BY <1>1, <1>9 DEF Types
  <2>5. due' \in [Replies -> SUBSET Codes] /\ due'[r] = due[r] \union {code}
        /\ \A q \in Replies : q # r => due'[q] = due[q]
    BY <1>2, <1>3, <1>6, <1>9
  <2>6. Types' BY <1>2, <1>3, <1>5, <1>9, <2>1, <2>3, <2>4, <2>5 DEF Types
  <2>7. QueuesOK' BY <1>9, <2>2, QueuesKept
  <2>8. WorkersOK'
    <3>1. \A d \in Contacts : worker'[d].pc # "idle" => worker[d].pc # "idle" /\ worker'[d].left # <<>>
      BY <2>4 DEF WorkersOK
    <3> QED BY <1>9, <2>2, <3>1, WorkersKept
  <2>9. StampsOK'
    <3>1. \A q \in Replies : q # r => rep'[q].used = rep[q].used BY <2>1
    <3> QED BY <1>2, <1>3, <1>5, <2>2, <3>1 DEF StampsOK
  <2>10. OneOwner'
    <3>1. \A e \in expected' : e \in expected \/ e = <<code, r>> BY <2>3
    <3>2. \A q \in Replies : rep[q].ts = code.ts => q = r BY <1>2, <1>3 DEF OneOwner
    <3>3. \A p \in got : p[2].ts = code.ts => p[1] = r BY <1>2, <1>3 DEF OneOwner
    <3>4. \A e \in expected' : /\ e[1].ts # 0 /\ e[1].ts <= lastTs
                               /\ \A q \in Replies : rep[q].ts = e[1].ts => q = e[2]
      BY <1>3, <3>1, <3>2 DEF OneOwner
    <3>5. \A p \in got, e \in expected' : p[2].ts = e[1].ts => p[1] = e[2]
      BY <3>1, <3>3 DEF OneOwner
    <3>6. \A q, p \in Replies : rep'[q].ts = rep'[p].ts /\ rep'[q].ts # 0 => q = p
      BY <2>2 DEF OneOwner
    <3>7. \A p \in got : /\ p[2].ts # 0 /\ p[2].ts <= lastTs
                         /\ \A q \in Replies : rep'[q].ts = p[2].ts => q = p[1]
      BY <2>2 DEF OneOwner
    <3>8. \A e \in expected' : \A q \in Replies : rep'[q].ts = e[1].ts => q = e[2]
      BY <2>2, <3>4
    <3> QED BY <1>5, <3>4, <3>5, <3>6, <3>7, <3>8 DEF OneOwner
  <2>11. CodesComeBack' BY <1>5, <1>9 DEF CodesComeBack
  <2>12. ListensForEveryTry'
    <3> DEFINE pairs(d, q) == {<<k, q>> : k \in d[q]}
    <3>1. \A e \in expected : e[1] = code => e = <<code, r>>
      <4>1. \A e \in expected : e[1] = code => e[2] = r BY <1>2, <1>3 DEF OneOwner
      <4>2. \A e \in expected : e = <<e[1], e[2]>> BY DEF Types
      <4> QED BY <4>1, <4>2
    <3>2. expected' = expected \union {<<code, r>>} BY <2>3, <3>1
    <3>3. rep[r].state # "confirmed" BY <1>4, <1>9
    <3>4. \A q \in Replies : rep'[q].state # "confirmed" <=> rep[q].state # "confirmed" BY <2>2
    <3>5. \A e : e \in expected <=> \E q \in Replies : rep[q].state # "confirmed"
                                       /\ \E k \in due[q] : e = <<k, q>>
      BY DEF ListensForEveryTry
    <3>6. \A e : e \in expected' <=> \E q \in Replies : rep'[q].state # "confirmed"
                                       /\ \E k \in due'[q] : e = <<k, q>>
      <4> TAKE e
      <4>1. CASE e = <<code, r>>
        <5>1. e \in expected' BY <3>2, <4>1
        <5>2. code \in due'[r] BY <2>5
        <5> QED BY <1>2, <3>3, <3>4, <4>1, <5>1, <5>2
      <4>2. CASE e # <<code, r>>
        <5>1. e \in expected' <=> e \in expected BY <3>2, <4>2
        <5>2. \A q \in Replies : (\E k \in due'[q] : e = <<k, q>>) <=> (\E k \in due[q] : e = <<k, q>>)
          BY <2>5, <4>2
        <5> QED BY <3>4, <3>5, <5>1, <5>2
      <4> QED BY <4>1, <4>2
    <3> QED BY <3>6 DEF ListensForEveryTry
  <2> QED BY <2>6, <2>7, <2>8, <2>9, <2>10, <2>11, <2>12
<1>10. QED
  <2>1. \/ /\ sent.state = "confirmed" /\ Finish(c, Recorded(sent)) /\ UNCHANGED <<early, due>>
        \/ /\ early' = early \ {code} /\ Finish(c, Acked(sent))
           /\ due' = [due EXCEPT ![r] = due[r] \union {code}]
        \/ /\ sent.state # "confirmed"
           /\ rep' = [rep EXCEPT ![r] = sent]
           /\ expected' = Expect(expected, code, r)
           /\ worker' = [worker EXCEPT ![c].pc = "window"]
           /\ due' = [due EXCEPT ![r] = due[r] \union {code}]
           /\ UNCHANGED <<queue, early>>
    BY DEF HandedOver, sent, code
  <2> QED BY <1>7, <1>8, <1>9, <2>1

LEMMA HoldExpiresKeeps == ASSUME IInv, NEW r \in Replies, HoldExpires(r) PROVE IInv'
<1> DEFINE x == [rep[r] EXCEPT !.hold = FALSE]
<1> USE DEF IInv
<1>1. rep[r] \in Records BY DEF Types
<1>2. /\ x \in Records /\ x.state = rep[r].state /\ x.ts = rep[r].ts
      /\ x.used = rep[r].used /\ x.body = rep[r].body
  BY <1>1 DEF Records
<1>3. rep' = [rep EXCEPT ![r] = x] BY DEF HoldExpires
<1> HIDE DEF x
<1>4. /\ expected' = {p \in expected : p[2] # r}
      /\ due' = [due EXCEPT ![r] = {}]
      /\ UNCHANGED <<lastTs, queue, worker, early, got, acks, sends>>
  BY DEF HoldExpires, Forget
<1>5. rep' \in [Replies -> Records] BY <1>2, <1>3 DEF Types
<1>6. \A q \in Replies : /\ rep'[q].ts = rep[q].ts /\ rep'[q].body = rep[q].body
                         /\ rep'[q].used = rep[q].used /\ rep'[q].state = rep[q].state
  BY <1>2, <1>3 DEF Types
<1>7. Types' BY <1>4, <1>5 DEF Types
<1>8. QueuesOK' BY <1>4, <1>6, QueuesKept
<1>9. WorkersOK'
  <2>1. \A d \in Contacts : worker'[d].pc # "idle" => worker[d].pc # "idle" /\ worker'[d].left # <<>>
    BY <1>4 DEF WorkersOK
  <2> QED BY <1>4, <1>6, <2>1, WorkersKept
<1>10. StampsOK' BY <1>4, <1>6 DEF StampsOK
<1>11. OneOwner' BY <1>4, <1>6, OwnerKept
<1>12. CodesComeBack' BY <1>4 DEF CodesComeBack
<1>13. ListensForEveryTry'
  <2>1. due'[r] = {} /\ \A q \in Replies : q # r => due'[q] = due[q] BY <1>4 DEF Types
  <2> QED BY <1>4, <1>6, <2>1 DEF ListensForEveryTry
<1> QED BY <1>7, <1>8, <1>9, <1>10, <1>11, <1>12, <1>13

LEMMA OnAckKeeps == ASSUME IInv, NEW code \in acks, OnAck(code) PROVE IInv'
<1> USE DEF IInv
<1>1. acks' = acks \ {code} /\ UNCHANGED <<lastTs, queue, worker, got, sends, due>> BY DEF OnAck
<1>2. code \in Codes BY DEF Types
<1>3. ASSUME NEW r \in Replies, rep[r].state # "confirmed",
             rep' = [rep EXCEPT ![r] = Acked(rep[r])], expected' = Forget(expected, r),
             UNCHANGED early
      PROVE  IInv'
  <2> DEFINE x == Acked(rep[r])
  <2>1. rep[r] \in Records BY DEF Types
  <2>2. /\ x \in Records /\ x.state = "confirmed" /\ x.ts = rep[r].ts
        /\ x.used = rep[r].used /\ x.body = rep[r].body
    BY <2>1, AckedType
  <2>3. rep' = [rep EXCEPT ![r] = x] BY <1>3
  <2> HIDE DEF x
  <2>4. expected' = {p \in expected : p[2] # r} BY <1>3 DEF Forget
  <2>5. rep' \in [Replies -> Records] BY <2>2, <2>3 DEF Types
  <2>6. /\ \A q \in Replies : /\ rep'[q].ts = rep[q].ts /\ rep'[q].body = rep[q].body
                              /\ rep'[q].used = rep[q].used
                              /\ rep[q].state \in Open => rep'[q].state \in Open
                              /\ rep'[q].state # "confirmed" <=> q # r /\ rep[q].state # "confirmed"
    BY <2>2, <2>3 DEF Types, Open
  <2>7. Types' BY <1>1, <1>3, <2>4, <2>5 DEF Types
  <2>8. QueuesOK' BY <1>1, <2>6, QueuesKept
  <2>9. WorkersOK'
    <3>1. \A d \in Contacts : worker'[d].pc # "idle" => worker[d].pc # "idle" /\ worker'[d].left # <<>>
      BY <1>1 DEF WorkersOK
    <3> QED BY <1>1, <2>6, <3>1, WorkersKept
  <2>10. StampsOK' BY <1>1, <2>6 DEF StampsOK
  <2>11. OneOwner' BY <1>1, <2>4, <2>6, OwnerKept
  <2>12. CodesComeBack' BY <1>1, <1>3 DEF CodesComeBack
  <2>13. ListensForEveryTry' BY <1>1, <2>4, <2>6 DEF ListensForEveryTry
  <2> QED BY <2>7, <2>8, <2>9, <2>10, <2>11, <2>12, <2>13
<1>4. ASSUME early' \subseteq early \union {code}, UNCHANGED <<rep, expected>> PROVE IInv'
  <2>1. Types' BY <1>1, <1>2, <1>4 DEF Types
  <2>2. QueuesOK' BY <1>1, <1>4, QueuesKept
  <2>3. WorkersOK'
    <3>1. \A d \in Contacts : worker'[d].pc # "idle" => worker[d].pc # "idle" /\ worker'[d].left # <<>>
      BY <1>1 DEF WorkersOK
    <3> QED BY <1>1, <1>4, <3>1, WorkersKept
  <2>4. StampsOK' BY <1>1, <1>4 DEF StampsOK
  <2>5. OneOwner' BY <1>1, <1>4, OwnerKept
  <2>6. CodesComeBack' BY <1>1, <1>4 DEF CodesComeBack
  <2>7. ListensForEveryTry' BY <1>1, <1>4 DEF ListensForEveryTry
  <2> QED BY <2>1, <2>2, <2>3, <2>4, <2>5, <2>6, <2>7
<1>5. \/ \E r \in Replies :
           /\ rep[r].state # "confirmed"
           /\ rep' = [rep EXCEPT ![r] = Acked(rep[r])]
           /\ expected' = Forget(expected, r)
           /\ UNCHANGED early
      \/ early' \subseteq early \union {code} /\ UNCHANGED <<rep, expected>>
  BY DEF OnAck
<1> QED BY <1>3, <1>4, <1>5
-----------------------------------------------------------------------------
(* The inductive invariant. *)

LEMMA InitIInv == ASSUME OutboxConstants, OutboxInit PROVE IInv
<1> USE DEF OutboxInit
<1>1. NewReply \in Records
  BY DEF NewReply, Records, States, NoRow
<1>2. Idle \in [pc : {"idle", "reset", "handing", "aired", "window", "jitter"}, left : Seq(0 .. 3)]
      /\ Idle.pc = "idle"
  BY DEF Idle
<1>3. \A c \in Contacts : queue[c] = <<>> /\ Len(queue[c]) = 0 /\ worker[c] = Idle OBVIOUS
<1>4. \A r \in Replies : rep[r] = NewReply /\ due[r] = {} OBVIOUS
<1>5. NewReply.ts = 0 /\ NewReply.used = {} BY DEF NewReply
<1>6. queue \in [Contacts -> Seq(Replies)]
  <2>1. <<>> \in Seq(Replies) OBVIOUS
  <2> QED BY <2>1
<1>7. Types BY <1>1, <1>2, <1>6 DEF Types
<1>8. QueuesOK BY <1>3 DEF QueuesOK
<1>9. WorkersOK BY <1>2, <1>3 DEF WorkersOK
<1>10. StampsOK BY <1>4, <1>5 DEF StampsOK
<1>11. OneOwner BY <1>4, <1>5 DEF OneOwner
<1>12. CodesComeBack BY DEF CodesComeBack
<1>13. ListensForEveryTry BY <1>4 DEF ListensForEveryTry
<1> QED BY <1>7, <1>8, <1>9, <1>10, <1>11, <1>12, <1>13 DEF IInv

LEMMA NextIInv == ASSUME OutboxConstants, IInv, [OutboxNext]_outboxVars PROVE IInv'
<1>1. ASSUME NEW r \in Replies, Submit(r) PROVE IInv' BY <1>1, SubmitKeeps
<1>2. ASSUME NEW r \in Replies, NoteCopy(r) PROVE IInv' BY <1>2, NoteCopyKeeps
<1>3. ASSUME NEW c \in Contacts, NEW routed \in BOOLEAN, NEW reaches \in BOOLEAN,
             NEW body \in Bodies, WorkerStep(c, routed, reaches, body)
      PROVE  IInv'
  <2>1. CASE Skip(c) BY <2>1, SkipKeeps
  <2>2. CASE Deliver(c, routed, body) BY <2>2, DeliverKeeps
  <2>3. CASE PathReset(c) BY <2>3, PathResetKeeps
  <2>4. CASE Transmit(c, reaches) BY <2>4, TransmitKeeps
  <2>5. CASE Refused(c) BY <2>5, RefusedKeeps
  <2>6. CASE HandedOver(c) BY <2>6, HandedOverKeeps
  <2>7. CASE WindowEnds(c) BY <2>7, WindowEndsKeeps
  <2>8. CASE JitterEnds(c, routed) BY <2>8, JitterEndsKeeps
  <2> QED BY <1>3, <2>1, <2>2, <2>3, <2>4, <2>5, <2>6, <2>7, <2>8 DEF WorkerStep
<1>4. ASSUME NEW r \in Replies, HoldExpires(r) PROVE IInv' BY <1>4, HoldExpiresKeeps
<1>5. ASSUME NEW code \in acks, OnAck(code) PROVE IInv' BY <1>5, OnAckKeeps
<1>6. CASE UNCHANGED outboxVars
  <2> USE <1>6 DEF outboxVars, IInv
  <2>1. Types' BY DEF Types
  <2>2. QueuesOK' BY QueuesKept
  <2>3. WorkersOK' BY DEF WorkersOK, Current
  <2>4. StampsOK' BY DEF StampsOK
  <2>5. OneOwner' BY DEF OneOwner
  <2>6. CodesComeBack' BY DEF CodesComeBack
  <2>7. ListensForEveryTry' BY DEF ListensForEveryTry
  <2> QED BY <2>1, <2>2, <2>3, <2>4, <2>5, <2>6, <2>7
<1> QED BY <1>1, <1>2, <1>3, <1>4, <1>5, <1>6 DEF OutboxNext, Surroundings

LEMMA IInvAlways == OutboxSpec => []IInv
<1>1. OutboxInit => IInv BY OutboxConstants, InitIInv
<1>2. IInv /\ [OutboxNext]_outboxVars => IInv' BY OutboxConstants, NextIInv
<1> QED BY <1>1, <1>2, PTL DEF OutboxSpec

\* Types: whatever the contacts, the replies and the limits, the outbox's state
\* stays of its type.
THEOREM OutboxTypeCorrect == OutboxSpec => []OutboxTypeOK
<1>1. IInv => OutboxTypeOK BY TypesIsTypeOK DEF IInv
<1> QED BY <1>1, IInvAlways, PTL

\* The bot listens for exactly the tries whose ACK still counts, whatever became
\* of the delivery they belonged to.
THEOREM ListensAlways == OutboxSpec => []ListensForEveryTry
<1>1. IInv => ListensForEveryTry BY DEF IInv
<1> QED BY <1>1, IInvAlways, PTL
-----------------------------------------------------------------------------
(* The outbox implements DmPromise. *)

Tell == [r \in Replies |-> Told(rep[r].state)]

Reached == {p[1] : p \in got}

LEMMA ToldOf ==
  /\ Told("new") = "idle" /\ Told("failed") = "idle" /\ Told("dropped") = "idle"
  /\ Told("queued") = "open" /\ Told("sending") = "open" /\ Told("confirmed") = "confirmed"
BY DEF Told

\* A step that writes one record tells at most one new thing.
LEMMA TellOne ==
  ASSUME Types, NEW r \in Replies, NEW x, rep' = [rep EXCEPT ![r] = x]
  PROVE  Tell' = [Tell EXCEPT ![r] = Told(x.state)]
BY DEF Tell, Types

LEMMA TellSame ==
  ASSUME Types, NEW r \in Replies, NEW x, rep' = [rep EXCEPT ![r] = x],
         Told(x.state) = Told(rep[r].state)
  PROVE  Tell' = Tell
<1>1. \A q \in Replies : Told(rep'[q].state) = Told(rep[q].state) BY DEF Types
<1> QED BY <1>1 DEF Tell

\* A code that came back, of a try listened for or just made, was received for
\* the reply it belongs to.
LEMMA CodeReached ==
  ASSUME IInv, NEW code \in acks \union early, NEW r \in Replies,
         <<code, r>> \in expected \/ rep[r].ts = code.ts
  PROVE  r \in Reached
<1>1. PICK q \in Replies : <<q, code>> \in got BY DEF IInv, CodesComeBack
<1>2. q = r BY <1>1 DEF IInv, OneOwner
<1> QED BY <1>1, <1>2 DEF Reached

LEMMA FinishImplements ==
  ASSUME IInv, NEW c \in Contacts, queue[c] # <<>>, NEW rec \in Records, Finish(c, rec),
         UNCHANGED got,
         \/ rec.state = rep[Current(c)].state
         \/ rec.state = "confirmed" /\ Current(c) \in Reached
  PROVE  [Promise!Next]_<<Tell, Reached>>
<1> DEFINE r == Current(c)
<1>1. r \in Replies /\ rep[r] \in Records /\ rep[r].state \in Open BY WorkerFacts
<1>2. Ended(rec).state = IF rec.state = "confirmed" THEN "confirmed" ELSE "failed" BY EndedType
<1>3. rep' = [rep EXCEPT ![r] = Ended(rec)] BY DEF Finish
<1>4. Tell' = [Tell EXCEPT ![r] = Told(Ended(rec).state)] BY <1>1, <1>3, TellOne DEF IInv
<1>5. Reached' = Reached BY DEF Reached
<1>6. Tell[r] = Told(rep[r].state) BY <1>1 DEF Tell
<1>7. CASE rec.state = "confirmed" /\ rep[r].state = "confirmed"
  <2>1. Told(Ended(rec).state) = Told(rep[r].state) BY <1>2, <1>7
  <2>2. Tell' = Tell BY <1>1, <1>3, <2>1, TellSame DEF IInv
  <2> QED BY <1>5, <2>2
<1>8. CASE rec.state = "confirmed" /\ rep[r].state # "confirmed"
  <2>1. Tell[r] # "confirmed" BY <1>1, <1>6, <1>8, ToldOf DEF Open
  <2>2. Tell' = [Tell EXCEPT ![r] = "confirmed"] BY <1>2, <1>4, <1>8, ToldOf
  <2>3. r \in Reached BY <1>8
  <2>4. Promise!Confirm(r) BY <1>5, <2>1, <2>2, <2>3 DEF Promise!Confirm, Tell, Reached
  <2> QED BY <1>1, <2>4 DEF Promise!Next
<1>9. CASE rec.state # "confirmed"
  <2>1. Tell[r] = "open" BY <1>1, <1>6, <1>9, ToldOf DEF Open
  <2>2. Tell' = [Tell EXCEPT ![r] = "idle"] BY <1>2, <1>4, <1>9, ToldOf
  <2>3. Promise!GiveUp(r) BY <1>5, <2>1, <2>2 DEF Promise!GiveUp, Tell, Reached
  <2> QED BY <1>1, <2>3 DEF Promise!Next
<1> QED BY <1>7, <1>8, <1>9

LEMMA SubmitImplements ==
  ASSUME IInv, NEW r \in Replies, MaySubmit(r), NEW rec \in Records,
         rec.state = rep[r].state, Submitted(r, rec), UNCHANGED got
  PROVE  [Promise!Next]_<<Tell, Reached>>
<1>1. rep[r] \in Records BY DEF IInv, Types
<1>2. Told(rep[r].state) = "idle" BY ToldOf DEF MaySubmit
<1>3. Reached' = Reached BY DEF Reached
<1>4. CASE rep' = [rep EXCEPT ![r] = TurnedAway(rec)]
  <2>1. Told(TurnedAway(rec).state) = "idle" BY TurnedAwayType, ToldOf
  <2>2. Tell' = Tell BY <1>2, <1>4, <2>1, TellSame DEF IInv
  <2> QED BY <1>3, <2>2
<1>5. CASE rep' = [rep EXCEPT ![r] = [rec EXCEPT !.state = "queued"]]
  <2> DEFINE x == [rec EXCEPT !.state = "queued"]
  <2>1. x.state = "queued" /\ rep' = [rep EXCEPT ![r] = x] BY <1>5 DEF Records
  <2> HIDE DEF x
  <2>2. Tell' = [Tell EXCEPT ![r] = "open"]
    <3>1. Tell' = [Tell EXCEPT ![r] = Told(x.state)] BY <2>1, TellOne DEF IInv
    <3> QED BY <2>1, <3>1, ToldOf
  <2>3. Tell[r] = "idle" BY <1>2 DEF Tell
  <2>4. Promise!Take(r) BY <1>3, <2>2, <2>3 DEF Promise!Take, Tell, Reached
  <2> QED BY <2>4 DEF Promise!Next
<1> QED BY <1>4, <1>5 DEF Submitted

LEMMA WorkerImplements ==
  ASSUME IInv, NEW c \in Contacts, NEW routed \in BOOLEAN, NEW reaches \in BOOLEAN,
         NEW body \in Bodies, WorkerStep(c, routed, reaches, body)
  PROVE  [Promise!Next]_<<Tell, Reached>>
<1>1. worker[c].pc # "idle" => queue[c] # <<>> BY DEF IInv, WorkersOK
<1>2. queue[c] # <<>> => Current(c) \in Replies /\ rep[Current(c)] \in Records
                         /\ rep[Current(c)].state \in Open
  BY WorkerFacts
<1>3. CASE UNCHANGED <<rep, got>> BY <1>3 DEF Tell, Reached
<1>4. CASE Skip(c) BY <1>2, <1>4, FinishImplements DEF Skip
<1>5. CASE Refused(c) BY <1>1, <1>2, <1>5, FinishImplements DEF Refused
<1>6. CASE WindowEnds(c)
  <2>1. CASE Finish(c, rep[Current(c)])
    BY <1>1, <1>2, <1>6, <2>1, FinishImplements DEF WindowEnds
  <2> QED BY <1>3, <1>6, <2>1 DEF WindowEnds
<1>7. CASE JitterEnds(c, routed)
  <2>1. CASE Finish(c, rep[Current(c)])
    BY <1>1, <1>2, <1>7, <2>1, FinishImplements DEF JitterEnds
  <2> QED BY <1>3, <1>7, <2>1 DEF JitterEnds
<1>8. CASE Deliver(c, routed, body)
  <2> DEFINE r == Current(c)
  <2>1. /\ r \in Replies /\ rep[r] \in Records /\ rep[r].state \in Open
        /\ rep[r].state # "confirmed"
    BY <1>2, <1>8 DEF Deliver
  <2>2. rep'[r].state = "sending" /\ \A q \in Replies : q # r => rep'[q] = rep[q]
    BY <1>8, <2>1 DEF Deliver, IInv, Types, Records
  <2>3. Told(rep'[r].state) = Told(rep[r].state) BY <2>1, <2>2, ToldOf DEF Open
  <2>4. Tell' = Tell BY <2>1, <2>2, <2>3 DEF Tell
  <2> QED BY <1>8, <2>4 DEF Deliver, Reached
<1>9. CASE Transmit(c, reaches)
  <2>1. Tell' = Tell BY <1>9 DEF Transmit, Tell
  <2>2. CASE reaches
    <3>1. Current(c) \in Replies BY <1>1, <1>2, <1>9 DEF Transmit
    <3>2. PICK r \in Replies : r = Current(c) BY <3>1
    <3>3. PICK p : p = <<r, CodeOf(r, Attempt(c))>> OBVIOUS
    <3>4. got' = got \union {p} BY <1>9, <2>2, <3>2, <3>3 DEF Transmit
    <3>5. p[1] = r BY <3>3
    <3>6. Reached' = Reached \union {r} BY <3>4, <3>5 DEF Reached
    <3>7. Promise!Reach(r) BY <2>1, <3>6 DEF Promise!Reach, Tell, Reached
    <3> QED BY <3>7 DEF Promise!Next
  <2>3. CASE ~reaches
    <3>1. Reached' = Reached BY <1>9, <2>3 DEF Transmit, Reached
    <3> QED BY <2>1, <3>1
  <2> QED BY <2>2, <2>3
<1>10. CASE HandedOver(c)
  <2> DEFINE r == Current(c)
             code == CodeOf(r, Attempt(c))
             sent == [rep[r] EXCEPT !.tries = rep[r].tries + 1,
                                    !.used = rep[r].used \union {Attempt(c)},
                                    !.acks = rep[r].acks \union {code}]
  <2>1. /\ queue[c] # <<>> /\ worker[c].pc # "idle" /\ UNCHANGED got
    BY <1>1, <1>10 DEF HandedOver
  <2>2. r \in Replies /\ rep[r] \in Records BY <1>2, <2>1
  <2>3. code \in Codes /\ code.ts = rep[r].ts /\ Attempt(c) \in 0 .. 3 BY <2>1, CodeFacts
  <2> HIDE DEF code
  <2>4. sent \in Records /\ sent.state = rep[r].state
    <3>1. /\ rep[r].tries \in Nat /\ rep[r].used \in SUBSET (0 .. 3)
          /\ rep[r].acks \in SUBSET Codes
      BY <2>2 DEF Records
    <3>2. PICK n \in Nat : n = rep[r].tries + 1 BY <3>1
    <3>3. PICK u \in SUBSET (0 .. 3) : u = rep[r].used \union {Attempt(c)} BY <2>3, <3>1
    <3>4. PICK k \in SUBSET Codes : k = rep[r].acks \union {code} BY <2>3, <3>1
    <3>5. sent = [rep[r] EXCEPT !.tries = n, !.used = u, !.acks = k] BY <3>2, <3>3, <3>4
    <3> QED BY <2>2, <3>5 DEF Records
  <2> HIDE DEF sent
  <2>5. CASE sent.state = "confirmed" /\ Finish(c, Recorded(sent))
    <3>1. Recorded(sent) \in Records /\ Recorded(sent).state = rep[r].state
      BY <2>4, RecordedType
    <3> QED BY <2>1, <2>5, <3>1, FinishImplements
  <2>6. CASE code \in early /\ Finish(c, Acked(sent))
    <3>1. Acked(sent) \in Records /\ Acked(sent).state = "confirmed" BY <2>4, AckedType
    <3>2. r \in Reached BY <2>2, <2>3, <2>6, CodeReached
    <3> QED BY <2>1, <2>6, <3>1, <3>2, FinishImplements
  <2>7. CASE rep' = [rep EXCEPT ![r] = sent]
    <3>1. Tell' = Tell BY <2>2, <2>4, <2>7, TellSame DEF IInv
    <3> QED BY <2>1, <3>1 DEF Reached
  <2>8. \/ sent.state = "confirmed" /\ Finish(c, Recorded(sent))
        \/ code \in early /\ Finish(c, Acked(sent))
        \/ rep' = [rep EXCEPT ![r] = sent]
    BY <1>10 DEF HandedOver, sent, code
  <2> QED BY <2>5, <2>6, <2>7, <2>8
<1> QED BY <1>3, <1>4, <1>5, <1>6, <1>7, <1>8, <1>9, <1>10 DEF WorkerStep, PathReset

LEMMA AckImplements ==
  ASSUME IInv, NEW code \in acks, OnAck(code) PROVE [Promise!Next]_<<Tell, Reached>>
<1>1. Reached' = Reached BY DEF OnAck, Reached
<1>2. CASE UNCHANGED rep BY <1>1, <1>2 DEF Tell
<1>3. ASSUME NEW r \in Replies, <<code, r>> \in expected, rep[r].state # "confirmed",
             rep' = [rep EXCEPT ![r] = Acked(rep[r])]
      PROVE  [Promise!Next]_<<Tell, Reached>>
  <2>1. rep[r] \in Records BY DEF IInv, Types
  <2>2. Acked(rep[r]).state = "confirmed" BY <2>1, AckedType
  <2>3. Tell' = [Tell EXCEPT ![r] = "confirmed"]
    <3>1. Tell' = [Tell EXCEPT ![r] = Told(Acked(rep[r]).state)] BY <1>3, TellOne DEF IInv
    <3> QED BY <2>2, <3>1, ToldOf
  <2>4. Tell[r] # "confirmed" BY <1>3, <2>1, ToldOf DEF Tell, Records, States
  <2>5. r \in Reached BY <1>3, CodeReached
  <2>6. Promise!Confirm(r) BY <1>1, <2>3, <2>4, <2>5 DEF Promise!Confirm, Tell, Reached
  <2> QED BY <2>6 DEF Promise!Next
<1> QED BY <1>2, <1>3 DEF OnAck

LEMMA NextImplements ==
  ASSUME IInv, [OutboxNext]_outboxVars PROVE [Promise!Next]_<<Tell, Reached>>
<1>1. ASSUME NEW r \in Replies, Submit(r) PROVE [Promise!Next]_<<Tell, Reached>>
  <2>1. rep[r] \in Records BY DEF IInv, Types
  <2>2. Noted(rep[r]) \in Records /\ Noted(rep[r]).state = rep[r].state BY <2>1, NotedType
  <2> QED BY <1>1, <2>1, <2>2, SubmitImplements DEF Submit
<1>2. ASSUME NEW r \in Replies, NoteCopy(r) PROVE [Promise!Next]_<<Tell, Reached>>
  <2>1. rep[r] \in Records BY DEF IInv, Types
  <2>2. Noted(rep[r]) \in Records /\ Noted(rep[r]).state = rep[r].state BY <2>1, NotedType
  <2>3. CASE rep' = [rep EXCEPT ![r] = Noted(rep[r])]
    <3>1. Tell' = Tell BY <2>2, <2>3, TellSame DEF IInv
    <3> QED BY <1>2, <3>1 DEF NoteCopy, Reached
  <2>4. CASE MaySubmit(r) /\ rep' = [rep EXCEPT ![r] = TurnedAway(Noted(rep[r]))]
    <3>1. Told(TurnedAway(Noted(rep[r])).state) = "idle" BY <2>2, TurnedAwayType, ToldOf
    <3>2. Told(rep[r].state) = "idle" BY <2>4, ToldOf DEF MaySubmit
    <3>3. Tell' = Tell BY <2>4, <3>1, <3>2, TellSame DEF IInv
    <3> QED BY <1>2, <3>3 DEF NoteCopy, Reached
  <2> QED BY <1>2, <2>3, <2>4 DEF NoteCopy
<1>3. ASSUME NEW r \in Replies, HoldExpires(r) PROVE [Promise!Next]_<<Tell, Reached>>
  <2>1. rep[r] \in Records BY DEF IInv, Types
  <2>2. \A q \in Replies : rep'[q].state = rep[q].state
    BY <1>3, <2>1 DEF HoldExpires, IInv, Types, Records
  <2>3. Tell' = Tell BY <2>2 DEF Tell
  <2> QED BY <1>3, <2>3 DEF HoldExpires, Reached
<1>4. CASE UNCHANGED outboxVars BY <1>4 DEF outboxVars, Tell, Reached
<1> QED BY <1>1, <1>2, <1>3, <1>4, WorkerImplements, AckImplements DEF OutboxNext, Surroundings

\* The outbox keeps its promise, for any number of contacts and replies, any
\* queue length and any mesh: a reply is confirmed only when its contact's phone
\* has it, and stays so.
THEOREM PromiseKept == OutboxSpec => KeepsDmPromise
<1>1. OutboxInit => Promise!Init
  <2> SUFFICES ASSUME OutboxInit PROVE Promise!Init OBVIOUS
  <2>1. \A r \in Replies : Told(rep[r].state) = "idle"
    BY ToldOf DEF OutboxInit, NewReply
  <2>2. {p[1] : p \in got} = {} BY DEF OutboxInit
  <2> QED BY <2>1, <2>2 DEF Promise!Init
<1>2. IInv /\ [OutboxNext]_outboxVars => [Promise!Next]_<<Tell, Reached>> BY NextImplements
<1>3. <<Tell, Reached>> = <<[r \in Replies |-> Told(rep[r].state)], {p[1] : p \in got}>>
  BY DEF Tell, Reached
<1> QED BY <1>1, <1>2, <1>3, IInvAlways, PTL DEF OutboxSpec, KeepsDmPromise, Promise!Spec, Tell, Reached
-----------------------------------------------------------------------------
(* The rows of the outcomes file. *)

\* What a row says, once its reply is confirmed or its delivery is over.
RowRight(rec) ==
  rec.state = "confirmed" \/ ~(rec.open \/ rec.tries = 0)
    => rec.row.ok = (rec.state = "confirmed") /\ rec.row.tries = rec.tries

\* A worker that is at work has its reply open, so that a try made while it is
\* at work need not be in the row yet.
BusyOpen == \A c \in Contacts : worker[c].pc # "idle" => rep[Current(c)].open = TRUE

RowsInv == BusyOpen /\ \A r \in Replies : RowRight(rep[r])

LEMMA RecordedRight ==
  ASSUME NEW rec \in Records PROVE RowRight(Recorded(rec)) /\ Recorded(rec).open = rec.open
<1>1. /\ Recorded(rec).row.ok = (rec.state = "confirmed") /\ Recorded(rec).row.tries = rec.tries
      /\ Recorded(rec).state = rec.state /\ Recorded(rec).tries = rec.tries
      /\ Recorded(rec).open = rec.open
  <2>1. PICK b \in BOOLEAN : b = (rec.state = "confirmed") OBVIOUS
  <2>2. rec.late \in BOOLEAN BY DEF Records
  <2>3. PICK d \in BOOLEAN : d = (rec.state = "confirmed" /\ rec.late) BY <2>2
  <2>4. Recorded(rec) = [rec EXCEPT !.row = [ok |-> b, tries |-> rec.tries, late |-> d]]
    BY <2>1, <2>3 DEF Recorded
  <2> QED BY <2>1, <2>4 DEF Records
<1> QED BY <1>1 DEF RowRight

LEMMA AckedRight ==
  ASSUME NEW rec \in Records PROVE RowRight(Acked(rec)) /\ Acked(rec).open = rec.open
<1>1. PICK b \in BOOLEAN : b = ~rec.open BY DEF Records
<1> DEFINE x == [rec EXCEPT !.state = "confirmed", !.late = b, !.hold = FALSE]
<1>2. x \in Records /\ x.open = rec.open BY DEF Records, States
<1>3. Acked(rec) = Recorded(x) BY <1>1 DEF Acked
<1> HIDE DEF x
<1> QED BY <1>2, <1>3, RecordedRight

LEMMA NotedRight ==
  ASSUME NEW rec \in Records, RowRight(rec)
  PROVE  RowRight(Noted(rec)) /\ Noted(rec).open = rec.open
BY RecordedRight DEF Noted

LEMMA TurnedAwayRight ==
  ASSUME NEW rec \in Records, RowRight(rec), rec.state # "confirmed"
  PROVE  RowRight(TurnedAway(rec)) /\ TurnedAway(rec).open = rec.open
<1>1. PICK gone \in {"failed", "dropped"} : gone = IF rec.tries > 0 THEN "failed" ELSE "dropped"
  OBVIOUS
<1> DEFINE x == [rec EXCEPT !.state = gone]
<1>2. x.state # "confirmed" /\ x.open = rec.open /\ x.tries = rec.tries /\ x.row = rec.row
  BY DEF Records
<1>3. TurnedAway(rec) = x BY <1>1 DEF TurnedAway
<1> HIDE DEF x
<1>4. RowRight(x) BY <1>2 DEF RowRight
<1> QED BY <1>2, <1>3, <1>4

LEMMA EndedRight ==
  ASSUME NEW rec \in Records, rec.state = "confirmed" => RowRight(rec)
  PROVE  RowRight(Ended(rec))
<1> DEFINE shut == [rec EXCEPT !.open = FALSE]
           gone == [shut EXCEPT !.state = "failed"]
           held == [shut EXCEPT !.state = "failed", !.hold = TRUE]
<1>1. /\ shut \in Records /\ shut.state = rec.state /\ shut.tries = rec.tries
      /\ shut.row = rec.row
  BY DEF Records, States
<1>2. gone \in Records /\ gone.state # "confirmed" /\ gone.tries = rec.tries
  BY <1>1 DEF Records, States
<1>3. held \in Records BY <1>1 DEF Records, States
<1>4. Ended(rec) = IF rec.state = "confirmed" THEN shut
                   ELSE IF rec.tries = 0 THEN gone ELSE Recorded(held)
  BY DEF Ended
<1> HIDE DEF shut, gone, held
<1>5. CASE rec.state = "confirmed" BY <1>1, <1>4, <1>5 DEF RowRight
<1>6. CASE rec.state # "confirmed" /\ rec.tries = 0 BY <1>2, <1>4, <1>6 DEF RowRight
<1>7. CASE rec.state # "confirmed" /\ rec.tries # 0 BY <1>3, <1>4, <1>7, RecordedRight
<1> QED BY <1>5, <1>6, <1>7

LEMMA QueuedRight ==
  ASSUME NEW rec \in Records, RowRight(rec), rec.state # "confirmed"
  PROVE  RowRight([rec EXCEPT !.state = "queued"]) /\ [rec EXCEPT !.state = "queued"].open = rec.open
<1> DEFINE x == [rec EXCEPT !.state = "queued"]
<1>1. x.state = "queued" /\ x.open = rec.open /\ x.tries = rec.tries /\ x.row = rec.row
  BY DEF Records
<1> HIDE DEF x
<1>2. RowRight(x) BY <1>1 DEF RowRight
<1> QED BY <1>1, <1>2 DEF x

\* A worker at work has a head of its own, which appending to a queue leaves
\* where it is.
LEMMA BusyHead ==
  ASSUME IInv, NEW c \in Contacts, worker[c].pc # "idle"
  PROVE  /\ queue[c] # <<>> /\ Current(c) \in Replies
         /\ \A d \in Contacts : d # c /\ queue[d] # <<>> => Current(d) # Current(c)
<1>1. queue[c] # <<>> BY DEF IInv, WorkersOK
<1>2. Current(c) \in Replies /\ Current(c) = queue[c][1] /\ 1 \in 1 .. Len(queue[c])
  BY <1>1, HeadFacts DEF IInv
<1>3. \A d \in Contacts : queue[d] # <<>> => Current(d) = queue[d][1] /\ 1 \in 1 .. Len(queue[d])
  BY HeadFacts DEF IInv
<1>4. \A d \in Contacts : queue[d] # <<>> => KeyOf[Current(d)] = d
  BY <1>3 DEF IInv, QueuesOK
<1> QED BY <1>1, <1>2, <1>4

\* A step of records only, which keeps open what is open.
LEMMA RowsKept ==
  ASSUME IInv, RowsInv, UNCHANGED <<queue, worker>>, NEW r \in Replies, NEW rec,
         rep' = [rep EXCEPT ![r] = rec], RowRight(rec), rec.open = rep[r].open
  PROVE  RowsInv'
<1>1. /\ rep'[r] = rec /\ \A q \in Replies : q # r => rep'[q] = rep[q] BY DEF IInv, Types
<1>2. ASSUME NEW q \in Replies PROVE RowRight(rep'[q]) BY <1>1 DEF RowsInv
<1>3. ASSUME NEW c \in Contacts, worker[c].pc # "idle" PROVE rep'[Current(c)].open = TRUE
  <2>1. Current(c) \in Replies BY <1>3, BusyHead
  <2> QED BY <1>1, <1>3, <2>1 DEF RowsInv, BusyOpen
<1>4. BusyOpen' BY <1>3 DEF BusyOpen, Current
<1> QED BY <1>2, <1>4 DEF RowsInv

LEMMA SubmittedRows ==
  ASSUME IInv, RowsInv, OutboxConstants, NEW r \in Replies, MaySubmit(r), NEW rec \in Records,
         rec.state = rep[r].state, rec.open = rep[r].open, RowRight(rec), Submitted(r, rec),
         UNCHANGED worker
  PROVE  RowsInv'
<1>1. rec.state # "confirmed" BY DEF MaySubmit
<1>2. CASE UNCHANGED queue /\ rep' = [rep EXCEPT ![r] = TurnedAway(rec)]
  <2>1. RowRight(TurnedAway(rec)) /\ TurnedAway(rec).open = rec.open BY <1>1, TurnedAwayRight
  <2> QED BY <1>2, <2>1, RowsKept
<1>3. CASE /\ rep' = [rep EXCEPT ![r] = [rec EXCEPT !.state = "queued"]]
           /\ queue' = [queue EXCEPT ![KeyOf[r]] = Append(queue[KeyOf[r]], r)]
  <2> DEFINE x == [rec EXCEPT !.state = "queued"]
  <2>1. RowRight(x) /\ x.open = rep[r].open BY <1>1, QueuedRight
  <2>2. rep'[r] = x /\ \A q \in Replies : q # r => rep'[q] = rep[q] BY <1>3 DEF IInv, Types
  <2> HIDE DEF x
  <2>3. ASSUME NEW q \in Replies PROVE RowRight(rep'[q]) BY <2>1, <2>2 DEF RowsInv
  <2>4. ASSUME NEW c \in Contacts, worker[c].pc # "idle" PROVE rep'[Current(c)'].open = TRUE
    <3>1. queue[c] # <<>> /\ Current(c) \in Replies BY <2>4, BusyHead
    <3>2. Current(c)' = Current(c)
      <4>1. queue[c] \in Seq(Replies) BY DEF IInv, Types
      <4>2. queue'[c] = queue[c] \/ queue'[c] = Append(queue[c], r) BY <1>3 DEF IInv, Types
      <4>3. Head(Append(queue[c], r)) = Head(queue[c]) BY <3>1, <4>1
      <4> QED BY <4>2, <4>3 DEF Current
    <3> QED BY <2>1, <2>2, <2>4, <3>1, <3>2 DEF RowsInv, BusyOpen
  <2>5. BusyOpen' BY <2>4 DEF BusyOpen
  <2> QED BY <2>3, <2>5 DEF RowsInv
<1> QED BY <1>2, <1>3 DEF Submitted

LEMMA FinishRows ==
  ASSUME IInv, RowsInv, NEW c \in Contacts, queue[c] # <<>>, NEW rec \in Records,
         rec.state = "confirmed" => RowRight(rec), Finish(c, rec)
  PROVE  RowsInv'
<1>1. Current(c) \in Replies BY WorkerFacts
<1>2. rep' = [rep EXCEPT ![Current(c)] = Ended(rec)] BY DEF Finish
<1>3. rep'[Current(c)] = Ended(rec) /\ \A q \in Replies : q # Current(c) => rep'[q] = rep[q]
  BY <1>1, <1>2 DEF IInv, Types
<1>4. RowRight(Ended(rec)) BY EndedRight
<1>5. ASSUME NEW q \in Replies PROVE RowRight(rep'[q]) BY <1>3, <1>4 DEF RowsInv
<1>6. worker'[c] = Idle /\ \A d \in Contacts : d # c => worker'[d] = worker[d] /\ queue'[d] = queue[d]
  BY DEF Finish, IInv, Types
<1>7. ASSUME NEW d \in Contacts, worker'[d].pc # "idle" PROVE rep'[Current(d)'].open = TRUE
  <2>1. d # c BY <1>6, <1>7 DEF Idle
  <2>2. worker[d].pc # "idle" /\ Current(d)' = Current(d) BY <1>6, <1>7, <2>1 DEF Current
  <2>3. Current(d) \in Replies /\ Current(d) # Current(c) BY <2>1, <2>2, BusyHead
  <2> QED BY <1>3, <2>2, <2>3 DEF RowsInv, BusyOpen
<1>8. BusyOpen' BY <1>7 DEF BusyOpen
<1> QED BY <1>5, <1>8 DEF RowsInv

\* A worker that moves on leaves records and queues alone.
LEMMA MoveRows ==
  ASSUME RowsInv, UNCHANGED <<rep, queue>>,
         \A c \in Contacts : worker'[c].pc # "idle" => worker[c].pc # "idle"
  PROVE  RowsInv'
<1>1. BusyOpen' BY DEF RowsInv, BusyOpen, Current
<1> QED BY <1>1 DEF RowsInv

\* What dm_transmit's return does, with its try and its record named.
LEMMA HandedOverCases ==
  ASSUME IInv, NEW c \in Contacts, HandedOver(c)
  PROVE  \E code, sent :
           /\ sent \in Records /\ sent.state = rep[Current(c)].state
           /\ sent.open = rep[Current(c)].open /\ sent.body = rep[Current(c)].body
           /\ code = CodeOf(Current(c), Attempt(c))
           /\ Current(c) \in Replies /\ queue[c] # <<>> /\ worker[c].pc # "idle"
           /\ \/ sent.state = "confirmed" /\ Finish(c, Recorded(sent))
              \/ code \in early /\ Finish(c, Acked(sent))
              \/ /\ sent.state # "confirmed" /\ rep' = [rep EXCEPT ![Current(c)] = sent]
                 /\ worker' = [worker EXCEPT ![c].pc = "window"] /\ UNCHANGED queue
<1> DEFINE r == Current(c)
<1>1. worker[c].pc # "idle" /\ queue[c] # <<>> BY DEF HandedOver, IInv, WorkersOK
<1>2. r \in Replies /\ rep[r] \in Records BY <1>1, WorkerFacts
<1>3. PICK code \in Codes : code = CodeOf(r, Attempt(c)) BY <1>1, CodeFacts
<1>4. Attempt(c) \in 0 .. 3 BY <1>1, CodeFacts
<1>5. /\ rep[r].tries \in Nat /\ rep[r].used \in SUBSET (0 .. 3) /\ rep[r].acks \in SUBSET Codes
  BY <1>2 DEF Records
<1>6. PICK n \in Nat : n = rep[r].tries + 1 BY <1>5
<1>7. PICK u \in SUBSET (0 .. 3) : u = rep[r].used \union {Attempt(c)} BY <1>4, <1>5
<1>8. PICK k \in SUBSET Codes : k = rep[r].acks \union {code} BY <1>3, <1>5
<1> DEFINE sent == [rep[r] EXCEPT !.tries = n, !.used = u, !.acks = k]
<1>9. sent \in Records /\ sent.state = rep[r].state /\ sent.open = rep[r].open
      /\ sent.body = rep[r].body
  BY <1>2 DEF Records
<1>10. \/ sent.state = "confirmed" /\ Finish(c, Recorded(sent))
       \/ code \in early /\ Finish(c, Acked(sent))
       \/ /\ sent.state # "confirmed" /\ rep' = [rep EXCEPT ![r] = sent]
          /\ worker' = [worker EXCEPT ![c].pc = "window"] /\ UNCHANGED queue
  BY <1>3, <1>6, <1>7, <1>8 DEF HandedOver
<1> HIDE DEF sent
<1> QED BY <1>1, <1>2, <1>3, <1>9, <1>10

LEMMA WorkerRows ==
  ASSUME IInv, RowsInv, NEW c \in Contacts, NEW routed \in BOOLEAN, NEW reaches \in BOOLEAN,
         NEW body \in Bodies, WorkerStep(c, routed, reaches, body)
  PROVE  RowsInv'
<1>1. worker[c].pc # "idle" => queue[c] # <<>> BY DEF IInv, WorkersOK
<1>2. queue[c] # <<>> => /\ Current(c) \in Replies /\ rep[Current(c)] \in Records
                         /\ RowRight(rep[Current(c)])
  BY WorkerFacts DEF RowsInv
<1>3. CASE UNCHANGED <<rep, queue>> /\ worker[c].pc # "idle"
           /\ \E w : worker' = [worker EXCEPT ![c] = w]
  <2>1. \A d \in Contacts : worker'[d].pc # "idle" => worker[d].pc # "idle"
    BY <1>3 DEF IInv, Types
  <2> QED BY <1>3, <2>1, MoveRows
<1>4. CASE queue[c] # <<>> /\ Finish(c, rep[Current(c)]) BY <1>2, <1>4, FinishRows
<1>5. CASE Skip(c) BY <1>4, <1>5 DEF Skip
<1>6. CASE Refused(c) BY <1>1, <1>4, <1>6 DEF Refused
<1>7. CASE PathReset(c) BY <1>3, <1>7 DEF PathReset
<1>8. CASE Transmit(c, reaches) BY <1>3, <1>8 DEF Transmit
<1>9. CASE WindowEnds(c) BY <1>1, <1>3, <1>4, <1>9 DEF WindowEnds
<1>10. CASE JitterEnds(c, routed) BY <1>1, <1>3, <1>4, <1>10 DEF JitterEnds
<1>11. CASE Deliver(c, routed, body)
  <2>1. /\ queue[c] # <<>> /\ Current(c) \in Replies /\ rep[Current(c)] \in Records
        /\ UNCHANGED queue /\ \E w : worker' = [worker EXCEPT ![c] = w]
    BY <1>2, <1>11 DEF Deliver
  <2>2. /\ rep'[Current(c)].open = TRUE /\ rep'[Current(c)].state = "sending"
        /\ \A q \in Replies : q # Current(c) => rep'[q] = rep[q]
    BY <1>11, <2>1 DEF Deliver, IInv, Types, Records
  <2>3. \A q \in Replies : RowRight(rep'[q]) BY <2>2 DEF RowsInv, RowRight
  <2>4. ASSUME NEW d \in Contacts, worker'[d].pc # "idle" PROVE rep'[Current(d)].open = TRUE
    <3>1. CASE d = c BY <2>2, <3>1
    <3>2. CASE d # c
      <4>1. worker[d].pc # "idle" BY <2>1, <2>4, <3>2 DEF IInv, Types
      <4>2. Current(d) \in Replies /\ Current(d) # Current(c) BY <2>1, <3>2, <4>1, BusyHead
      <4> QED BY <2>2, <4>1, <4>2 DEF RowsInv, BusyOpen
    <3> QED BY <3>1, <3>2
  <2>5. BusyOpen' BY <2>1, <2>4 DEF BusyOpen, Current
  <2> QED BY <2>3, <2>5 DEF RowsInv
<1>12. CASE HandedOver(c)
  <2> DEFINE r == Current(c)
  <2>1. PICK code, sent :
          /\ sent \in Records /\ sent.state = rep[r].state /\ sent.open = rep[r].open
          /\ r \in Replies /\ queue[c] # <<>> /\ worker[c].pc # "idle"
          /\ \/ sent.state = "confirmed" /\ Finish(c, Recorded(sent))
             \/ code \in early /\ Finish(c, Acked(sent))
             \/ /\ sent.state # "confirmed" /\ rep' = [rep EXCEPT ![r] = sent]
                /\ worker' = [worker EXCEPT ![c].pc = "window"] /\ UNCHANGED queue
    BY <1>12, HandedOverCases
  <2>2. CASE Finish(c, Recorded(sent))
    <3>1. Recorded(sent) \in Records /\ RowRight(Recorded(sent))
      BY <2>1, RecordedType, RecordedRight
    <3> QED BY <2>1, <2>2, <3>1, FinishRows
  <2>3. CASE Finish(c, Acked(sent))
    <3>1. Acked(sent) \in Records /\ RowRight(Acked(sent)) BY <2>1, AckedType, AckedRight
    <3> QED BY <2>1, <2>3, <3>1, FinishRows
  <2>4. CASE /\ sent.state # "confirmed" /\ rep' = [rep EXCEPT ![r] = sent]
             /\ worker' = [worker EXCEPT ![c].pc = "window"] /\ UNCHANGED queue
    <3>1. sent.open = TRUE BY <2>1 DEF RowsInv, BusyOpen
    <3>2. RowRight(sent) BY <2>4, <3>1 DEF RowRight
    <3>3. rep'[r] = sent /\ \A q \in Replies : q # r => rep'[q] = rep[q]
      BY <2>1, <2>4 DEF IInv, Types
    <3>4. \A q \in Replies : RowRight(rep'[q]) BY <3>2, <3>3 DEF RowsInv
    <3>5. ASSUME NEW d \in Contacts, worker'[d].pc # "idle" PROVE rep'[Current(d)].open = TRUE
      <4>1. worker[d].pc # "idle" BY <2>1, <2>4, <3>5 DEF IInv, Types
      <4>2. Current(d) \in Replies BY <4>1, BusyHead
      <4> QED BY <3>1, <3>3, <4>1, <4>2 DEF RowsInv, BusyOpen
    <3>6. BusyOpen' BY <2>4, <3>5 DEF BusyOpen, Current
    <3> QED BY <3>4, <3>6 DEF RowsInv
  <2> QED BY <2>1, <2>2, <2>3, <2>4
<1> QED BY <1>5, <1>6, <1>7, <1>8, <1>9, <1>10, <1>11, <1>12 DEF WorkerStep

LEMMA NextRows ==
  ASSUME OutboxConstants, IInv, RowsInv, [OutboxNext]_outboxVars PROVE RowsInv'
<1>1. ASSUME NEW r \in Replies, Submit(r) \/ NoteCopy(r) PROVE RowsInv'
  <2>1. rep[r] \in Records /\ RowRight(rep[r]) BY DEF IInv, Types, RowsInv
  <2>2. /\ Noted(rep[r]) \in Records /\ Noted(rep[r]).state = rep[r].state
        /\ Noted(rep[r]).open = rep[r].open /\ RowRight(Noted(rep[r]))
    BY <2>1, NotedType, NotedRight
  <2>3. CASE Submit(r) BY <2>1, <2>2, <2>3, SubmittedRows DEF Submit
  <2>4. CASE NoteCopy(r)
    <3>1. CASE rep' = [rep EXCEPT ![r] = Noted(rep[r])] BY <2>2, <2>4, <3>1, RowsKept DEF NoteCopy
    <3>2. CASE MaySubmit(r) /\ rep' = [rep EXCEPT ![r] = TurnedAway(Noted(rep[r]))]
      <4>1. Noted(rep[r]).state # "confirmed" BY <2>2, <3>2 DEF MaySubmit
      <4>2. /\ RowRight(TurnedAway(Noted(rep[r])))
            /\ TurnedAway(Noted(rep[r])).open = rep[r].open
        BY <2>2, <4>1, TurnedAwayRight
      <4> QED BY <2>4, <3>2, <4>2, RowsKept DEF NoteCopy
    <3> QED BY <2>4, <3>1, <3>2 DEF NoteCopy
  <2> QED BY <1>1, <2>3, <2>4
<1>2. ASSUME NEW c \in Contacts, NEW routed \in BOOLEAN, NEW reaches \in BOOLEAN,
             NEW body \in Bodies, WorkerStep(c, routed, reaches, body)
      PROVE  RowsInv'
  BY <1>2, WorkerRows
<1>3. ASSUME NEW r \in Replies, HoldExpires(r) PROVE RowsInv'
  <2> DEFINE x == [rep[r] EXCEPT !.hold = FALSE]
  <2>1. rep[r] \in Records /\ RowRight(rep[r]) BY DEF IInv, Types, RowsInv
  <2>2. x.state = rep[r].state /\ x.open = rep[r].open /\ x.tries = rep[r].tries /\ x.row = rep[r].row
    BY <2>1 DEF Records
  <2>3. rep' = [rep EXCEPT ![r] = x] BY <1>3 DEF HoldExpires
  <2> HIDE DEF x
  <2>4. RowRight(x) BY <2>1, <2>2 DEF RowRight
  <2> QED BY <1>3, <2>2, <2>3, <2>4, RowsKept DEF HoldExpires
<1>4. ASSUME NEW code \in acks, OnAck(code) PROVE RowsInv'
  <2>1. UNCHANGED <<queue, worker>> BY <1>4 DEF OnAck
  <2>2. CASE UNCHANGED rep BY <2>1, <2>2, MoveRows
  <2>3. ASSUME NEW r \in Replies, rep' = [rep EXCEPT ![r] = Acked(rep[r])] PROVE RowsInv'
    <3>1. rep[r] \in Records BY DEF IInv, Types
    <3>2. RowRight(Acked(rep[r])) /\ Acked(rep[r]).open = rep[r].open BY <3>1, AckedRight
    <3> QED BY <2>1, <2>3, <3>2, RowsKept
  <2> QED BY <1>4, <2>2, <2>3 DEF OnAck
<1>5. CASE UNCHANGED outboxVars BY <1>5, MoveRows DEF outboxVars
<1> QED BY <1>1, <1>2, <1>3, <1>4, <1>5 DEF OutboxNext, Surroundings

\* Between two deliveries the row of every reply says what became of it and
\* after how many tries, however its ACKs, copies and failures fell.
THEOREM RowsAreTrue == OutboxSpec => []RowTellsTruth
<1>1. OutboxInit => RowsInv
  <2> SUFFICES ASSUME OutboxInit PROVE RowsInv OBVIOUS
  <2>1. \A r \in Replies : rep[r] = NewReply BY DEF OutboxInit
  <2>2. NewReply.state = "new" /\ NewReply.tries = 0 BY DEF NewReply
  <2>3. RowRight(NewReply) BY <2>2 DEF RowRight
  <2>4. BusyOpen BY DEF OutboxInit, Idle, BusyOpen
  <2> QED BY <2>1, <2>3, <2>4 DEF RowsInv
<1>2. IInv /\ RowsInv /\ [OutboxNext]_outboxVars => RowsInv' BY OutboxConstants, NextRows
<1>3. IInv /\ RowsInv => RowTellsTruth BY DEF IInv, Types, Records, RowsInv, RowRight, RowTellsTruth
<1> QED BY <1>1, <1>2, <1>3, IInvAlways, PTL DEF OutboxSpec
-----------------------------------------------------------------------------
(* What a step does to the phones and to the texts of replies. *)

\* A text is chosen once.
TextsKept == \A r \in Replies : rep[r].body \in Bodies => rep'[r].body = rep[r].body

\* What reaches a phone is a try of a reply with a text.
PhonesGrow == got \subseteq got' /\ \A p \in got' \ got : rep[p[1]].body \in Bodies

LEMMA TextKept ==
  ASSUME IInv, NEW r \in Replies, NEW rec, rep' = [rep EXCEPT ![r] = rec],
         rec.body = rep[r].body
  PROVE  TextsKept
BY DEF IInv, Types, TextsKept

LEMMA SubmittedTexts ==
  ASSUME IInv, NEW r \in Replies, NEW rec \in Records, rec.body = rep[r].body, Submitted(r, rec)
  PROVE  TextsKept
<1>1. TurnedAway(rec).body = rep[r].body BY TurnedAwayType
<1>2. [rec EXCEPT !.state = "queued"].body = rep[r].body BY DEF Records
<1>3. CASE rep' = [rep EXCEPT ![r] = TurnedAway(rec)] BY <1>1, <1>3, TextKept
<1>4. CASE rep' = [rep EXCEPT ![r] = [rec EXCEPT !.state = "queued"]] BY <1>2, <1>4, TextKept
<1> QED BY <1>3, <1>4 DEF Submitted

LEMMA FinishTexts ==
  ASSUME IInv, NEW c \in Contacts, queue[c] # <<>>, NEW rec \in Records,
         rec.body = rep[Current(c)].body, Finish(c, rec)
  PROVE  TextsKept
<1>1. Current(c) \in Replies BY WorkerFacts
<1>2. Ended(rec).body = rep[Current(c)].body BY EndedType
<1>3. rep' = [rep EXCEPT ![Current(c)] = Ended(rec)] BY DEF Finish
<1> QED BY <1>1, <1>2, <1>3, TextKept

LEMMA WorkerTexts ==
  ASSUME IInv, NEW c \in Contacts, NEW routed \in BOOLEAN, NEW reaches \in BOOLEAN,
         NEW body \in Bodies, WorkerStep(c, routed, reaches, body)
  PROVE  TextsKept /\ PhonesGrow
<1>1. worker[c].pc # "idle" => queue[c] # <<>> BY DEF IInv, WorkersOK
<1>2. queue[c] # <<>> => Current(c) \in Replies /\ rep[Current(c)] \in Records BY WorkerFacts
<1>3. CASE UNCHANGED <<rep, got>> BY <1>3 DEF TextsKept, PhonesGrow
<1>4. CASE queue[c] # <<>> /\ Finish(c, rep[Current(c)]) /\ UNCHANGED got
  BY <1>2, <1>4, FinishTexts DEF PhonesGrow
<1>5. CASE Skip(c) BY <1>4, <1>5 DEF Skip
<1>6. CASE Refused(c) BY <1>1, <1>4, <1>6 DEF Refused
<1>7. CASE PathReset(c) BY <1>3, <1>7 DEF PathReset
<1>8. CASE Transmit(c, reaches)
  <2>1. rep[Current(c)].body \in Bodies BY <1>8 DEF Transmit, IInv, WorkersOK
  <2>2. UNCHANGED rep BY <1>8 DEF Transmit
  <2>3. PICK p : p = <<Current(c), CodeOf(Current(c), Attempt(c))>> OBVIOUS
  <2>4. got' = got \/ got' = got \union {p} BY <1>8, <2>3 DEF Transmit
  <2>5. p[1] = Current(c) BY <2>3
  <2> QED BY <2>1, <2>2, <2>4, <2>5 DEF TextsKept, PhonesGrow
<1>9. CASE WindowEnds(c) BY <1>1, <1>3, <1>4, <1>9 DEF WindowEnds
<1>10. CASE JitterEnds(c, routed) BY <1>1, <1>3, <1>4, <1>10 DEF JitterEnds
<1>11. CASE Deliver(c, routed, body)
  <2>1. UNCHANGED got /\ queue[c] # <<>> BY <1>11 DEF Deliver
  <2>2. Current(c) \in Replies /\ rep[Current(c)] \in Records BY <1>2, <2>1
  <2>3. /\ rep'[Current(c)].body = IF rep[Current(c)].body = NoBody THEN body ELSE rep[Current(c)].body
        /\ \A q \in Replies : q # Current(c) => rep'[q] = rep[q]
    BY <1>11, <2>2 DEF Deliver, IInv, Types, Records
  <2>4. NoBody \notin Bodies BY OutboxConstants
  <2>5. TextsKept BY <2>3, <2>4 DEF TextsKept
  <2> QED BY <2>1, <2>5 DEF PhonesGrow
<1>12. CASE HandedOver(c)
  <2> DEFINE r == Current(c)
  <2>1. UNCHANGED got BY <1>12 DEF HandedOver
  <2>2. PICK code, sent :
          /\ sent \in Records /\ sent.body = rep[r].body /\ r \in Replies /\ queue[c] # <<>>
          /\ \/ Finish(c, Recorded(sent)) \/ Finish(c, Acked(sent)) \/ rep' = [rep EXCEPT ![r] = sent]
    BY <1>12, HandedOverCases
  <2>3. CASE Finish(c, Recorded(sent))
    <3>1. Recorded(sent) \in Records /\ Recorded(sent).body = rep[r].body BY <2>2, RecordedType
    <3> QED BY <2>1, <2>2, <2>3, <3>1, FinishTexts DEF PhonesGrow
  <2>4. CASE Finish(c, Acked(sent))
    <3>1. Acked(sent) \in Records /\ Acked(sent).body = rep[r].body BY <2>2, AckedType
    <3> QED BY <2>1, <2>2, <2>4, <3>1, FinishTexts DEF PhonesGrow
  <2>5. CASE rep' = [rep EXCEPT ![r] = sent] BY <2>1, <2>2, <2>5, TextKept DEF PhonesGrow
  <2> QED BY <2>2, <2>3, <2>4, <2>5
<1> QED BY <1>5, <1>6, <1>7, <1>8, <1>9, <1>10, <1>11, <1>12 DEF WorkerStep

LEMMA NextTexts ==
  ASSUME IInv, [OutboxNext]_outboxVars PROVE TextsKept /\ PhonesGrow
<1>1. ASSUME NEW r \in Replies, Submit(r) \/ NoteCopy(r) PROVE TextsKept /\ PhonesGrow
  <2>1. rep[r] \in Records BY DEF IInv, Types
  <2>2. Noted(rep[r]) \in Records /\ Noted(rep[r]).body = rep[r].body BY <2>1, NotedType
  <2>3. TurnedAway(Noted(rep[r])).body = rep[r].body BY <2>2, TurnedAwayType
  <2>4. UNCHANGED got BY <1>1 DEF Submit, NoteCopy
  <2>5. CASE Submit(r) BY <2>1, <2>2, <2>4, <2>5, SubmittedTexts DEF Submit, PhonesGrow
  <2>6. CASE NoteCopy(r) BY <2>2, <2>3, <2>4, <2>6, TextKept DEF NoteCopy, PhonesGrow
  <2> QED BY <1>1, <2>5, <2>6
<1>2. ASSUME NEW c \in Contacts, NEW routed \in BOOLEAN, NEW reaches \in BOOLEAN,
             NEW body \in Bodies, WorkerStep(c, routed, reaches, body)
      PROVE  TextsKept /\ PhonesGrow
  BY <1>2, WorkerTexts
<1>3. ASSUME NEW r \in Replies, HoldExpires(r) PROVE TextsKept /\ PhonesGrow
  <2>1. rep[r] \in Records BY DEF IInv, Types
  <2>2. [rep[r] EXCEPT !.hold = FALSE].body = rep[r].body BY <2>1 DEF Records
  <2> QED BY <1>3, <2>2, TextKept DEF HoldExpires, PhonesGrow
<1>4. ASSUME NEW code \in acks, OnAck(code) PROVE TextsKept /\ PhonesGrow
  <2>1. UNCHANGED got BY <1>4 DEF OnAck
  <2>2. ASSUME NEW r \in Replies, rep' = [rep EXCEPT ![r] = Acked(rep[r])] PROVE TextsKept
    <3>1. rep[r] \in Records BY DEF IInv, Types
    <3>2. Acked(rep[r]).body = rep[r].body BY <3>1, AckedType
    <3> QED BY <2>2, <3>2, TextKept
  <2>3. ASSUME UNCHANGED rep PROVE TextsKept BY <2>3 DEF TextsKept
  <2>4. TextsKept BY <1>4, <2>2, <2>3 DEF OnAck
  <2> QED BY <2>1, <2>4 DEF PhonesGrow
<1>5. CASE UNCHANGED outboxVars BY <1>5 DEF outboxVars, TextsKept, PhonesGrow
<1> QED BY <1>1, <1>2, <1>3, <1>4, <1>5 DEF OutboxNext, Surroundings

\* What a phone has, has a text, and what is confirmed, its phone has.
PhonesInv ==
  /\ \A p \in got : rep[p[1]].body \in Bodies
  /\ \A r \in Replies : rep[r].state = "confirmed" => r \in Reached

LEMMA NextPhones ==
  ASSUME IInv, PhonesInv, [OutboxNext]_outboxVars, IInv' PROVE PhonesInv'
<1>1. TextsKept /\ PhonesGrow BY NextTexts
<1>2. [Promise!Next]_<<Tell, Reached>> BY NextImplements
<1>3. \A p \in got' : rep'[p[1]].body \in Bodies
  <2>1. \A p \in got' : p[1] \in Replies BY DEF IInv, Types
  <2>2. \A p \in got' : rep[p[1]].body \in Bodies BY <1>1 DEF PhonesInv, PhonesGrow
  <2> QED BY <1>1, <2>1, <2>2 DEF TextsKept
<1>4. \A r \in Replies : Tell[r] = "confirmed" <=> rep[r].state = "confirmed"
  <2> TAKE r \in Replies
  <2>1. rep[r].state \in States BY DEF IInv, Types, Records
  <2> QED BY <2>1, ToldOf DEF Tell, States
<1>5. \A r \in Replies : Tell'[r] = "confirmed" <=> rep'[r].state = "confirmed"
  <2> TAKE r \in Replies
  <2>1. rep'[r].state \in States BY DEF IInv, Types, Records
  <2> QED BY <2>1, ToldOf DEF Tell, States
<1>6. \A r \in Replies : Tell[r] = "confirmed" => r \in Reached BY <1>4 DEF PhonesInv
<1>7. Reached \subseteq Reached' BY <1>1 DEF Reached, PhonesGrow
<1>8. Tell \in [Replies -> {Told(rep[r].state) : r \in Replies}] BY DEF Tell
<1>9. \A r \in Replies : Tell'[r] = "confirmed" => r \in Reached'
  <2>1. CASE Tell' = Tell BY <1>6, <1>7, <2>1
  <2>2. ASSUME NEW r \in Replies, Promise!Take(r) \/ Promise!GiveUp(r)
        PROVE  \A q \in Replies : Tell'[q] = "confirmed" => q \in Reached'
    <3>1. \E x \in {"open", "idle"} : Tell' = [Tell EXCEPT ![r] = x]
      BY <2>2 DEF Promise!Take, Promise!GiveUp, Tell, Reached
    <3> QED BY <1>6, <1>7, <1>8, <3>1
  <2>3. ASSUME NEW r \in Replies, Promise!Confirm(r)
        PROVE  \A q \in Replies : Tell'[q] = "confirmed" => q \in Reached'
    <3>1. Tell' = [Tell EXCEPT ![r] = "confirmed"] /\ r \in Reached
      BY <2>3 DEF Promise!Confirm, Tell, Reached
    <3> QED BY <1>6, <1>7, <1>8, <3>1
  <2>4. ASSUME NEW r \in Replies, Promise!Reach(r)
        PROVE  \A q \in Replies : Tell'[q] = "confirmed" => q \in Reached'
    <3>1. Tell' = Tell BY <2>4 DEF Promise!Reach, Tell, Reached
    <3> QED BY <1>6, <1>7, <3>1
  <2> QED BY <1>2, <2>1, <2>2, <2>3, <2>4 DEF Promise!Next
<1> QED BY <1>3, <1>5, <1>9 DEF PhonesInv

LEMMA InitPhones == ASSUME OutboxInit PROVE PhonesInv
<1>1. \A r \in Replies : rep[r].state = "new" BY DEF OutboxInit, NewReply
<1>2. got = {} BY DEF OutboxInit
<1> QED BY <1>1, <1>2 DEF PhonesInv
-----------------------------------------------------------------------------
(* The conversation. *)

\* A reply that was never submitted has no try that counts.
NewIsBare == \A r \in Replies : rep[r].state = "new" => due[r] = {}

\* A reply is submitted once its request is answered.
RepliedFirst == \A r \in Replies : rep[r].state # "new" => req[r].state = "replied"

Ages == {"fresh", "kept", "old"}

Requests ==
  [state : {"none", "building", "limited", "replied"}, text : Texts, stamps : SUBSET Nat, age : Ages]

Sessions == [opener : Replies \union {0}, last : Replies \union {0}]

\* What is paged through is the reply of a command that was answered.
SessionsOK ==
  \A c \in Contacts : session[c].opener # 0 =>
    /\ req[session[c].opener].text \in Commands
    /\ rep[session[c].opener].state # "new"

CInv ==
  /\ IInv /\ NewIsBare /\ RepliedFirst /\ SessionsOK
  /\ req \in [Replies -> Requests] /\ session \in [Contacts -> Sessions]
-----------------------------------------------------------------------------
(* Steps of the outbox that submit nothing leave new replies new. *)

\* What a step does to the replies that are new.
NewUntouched ==
  /\ \A r \in Replies : rep'[r].state = "new" <=> rep[r].state = "new"
  /\ \A r \in Replies : rep[r].state = "new" => due'[r] = {}

LEMMA FinishLeavesNew ==
  ASSUME IInv, NewIsBare, NEW c \in Contacts, queue[c] # <<>>, NEW rec \in Records,
         Finish(c, rec), \A r \in Replies : due'[r] = due[r] \/ r = Current(c)
  PROVE  NewUntouched
<1>1. Current(c) \in Replies /\ rep[Current(c)].state # "new" BY WorkerFacts DEF Open
<1>2. rep' = [rep EXCEPT ![Current(c)] = Ended(rec)] BY DEF Finish
<1>3. Ended(rec).state # "new" BY EndedType
<1>4. \A r \in Replies : r # Current(c) => rep'[r] = rep[r] BY <1>2 DEF IInv, Types
<1>5. rep'[Current(c)] = Ended(rec) BY <1>1, <1>2 DEF IInv, Types
<1> QED BY <1>1, <1>3, <1>4, <1>5 DEF NewUntouched, NewIsBare

LEMMA WorkerLeavesNew ==
  ASSUME IInv, NewIsBare, NEW c \in Contacts, NEW routed \in BOOLEAN, NEW reaches \in BOOLEAN,
         NEW body \in Bodies, WorkerStep(c, routed, reaches, body)
  PROVE  NewUntouched
<1>1. worker[c].pc # "idle" => queue[c] # <<>> BY DEF IInv, WorkersOK
<1>2. queue[c] # <<>> => Current(c) \in Replies /\ rep[Current(c)] \in Records
                         /\ rep[Current(c)].state # "new"
  BY WorkerFacts DEF Open
<1>3. CASE UNCHANGED <<rep, due>> BY <1>3 DEF NewUntouched, NewIsBare
<1>4. CASE Finish(c, rep[Current(c)]) /\ queue[c] # <<>> /\ UNCHANGED due
  BY <1>2, <1>4, FinishLeavesNew
<1>5. CASE Skip(c) BY <1>4, <1>5 DEF Skip
<1>6. CASE Refused(c) BY <1>1, <1>4, <1>6 DEF Refused
<1>7. CASE WindowEnds(c) BY <1>1, <1>3, <1>4, <1>7 DEF WindowEnds
<1>8. CASE JitterEnds(c, routed) BY <1>1, <1>3, <1>4, <1>8 DEF JitterEnds
<1>9. CASE Deliver(c, routed, body)
  <2>1. Current(c) \in Replies /\ rep[Current(c)] \in Records /\ rep[Current(c)].state # "new"
    BY <1>2, <1>9 DEF Deliver
  <2>2. rep'[Current(c)].state = "sending"
        /\ \A q \in Replies : q # Current(c) => rep'[q] = rep[q]
    BY <1>9, <2>1 DEF Deliver, IInv, Types, Records
  <2>3. UNCHANGED due BY <1>9 DEF Deliver
  <2> QED BY <2>1, <2>2, <2>3 DEF NewUntouched, NewIsBare
<1>10. CASE HandedOver(c)
  <2> DEFINE r == Current(c)
             code == CodeOf(r, Attempt(c))
             sent == [rep[r] EXCEPT !.tries = rep[r].tries + 1,
                                    !.used = rep[r].used \union {Attempt(c)},
                                    !.acks = rep[r].acks \union {code}]
  <2>1. queue[c] # <<>> /\ worker[c].pc # "idle" BY <1>1, <1>10 DEF HandedOver
  <2>2. r \in Replies /\ rep[r] \in Records /\ rep[r].state # "new" BY <1>2, <2>1
  <2>3. code \in Codes /\ Attempt(c) \in 0 .. 3 BY <2>1, CodeFacts
  <2> HIDE DEF code
  <2>4. sent \in Records /\ sent.state = rep[r].state
    <3>1. /\ rep[r].tries \in Nat /\ rep[r].used \in SUBSET (0 .. 3)
          /\ rep[r].acks \in SUBSET Codes
      BY <2>2 DEF Records
    <3>2. PICK n \in Nat : n = rep[r].tries + 1 BY <3>1
    <3>3. PICK u \in SUBSET (0 .. 3) : u = rep[r].used \union {Attempt(c)} BY <2>3, <3>1
    <3>4. PICK k \in SUBSET Codes : k = rep[r].acks \union {code} BY <2>3, <3>1
    <3>5. sent = [rep[r] EXCEPT !.tries = n, !.used = u, !.acks = k] BY <3>2, <3>3, <3>4
    <3> QED BY <2>2, <3>5 DEF Records
  <2> HIDE DEF sent
  <2>5. \A q \in Replies : due'[q] = due[q] \/ q = r BY <1>10 DEF HandedOver, IInv, Types
  <2>6. CASE Finish(c, Recorded(sent))
    <3>1. Recorded(sent) \in Records BY <2>4, RecordedType
    <3> QED BY <2>1, <2>5, <2>6, <3>1, FinishLeavesNew
  <2>7. CASE Finish(c, Acked(sent))
    <3>1. Acked(sent) \in Records BY <2>4, AckedType
    <3> QED BY <2>1, <2>5, <2>7, <3>1, FinishLeavesNew
  <2>8. CASE rep' = [rep EXCEPT ![r] = sent]
    <3>1. \A q \in Replies : rep'[q].state = rep[q].state BY <2>2, <2>4, <2>8 DEF IInv, Types
    <3> QED BY <2>2, <2>5, <3>1 DEF NewUntouched, NewIsBare
  <2>9. \/ Finish(c, Recorded(sent)) \/ Finish(c, Acked(sent)) \/ rep' = [rep EXCEPT ![r] = sent]
    BY <1>10 DEF HandedOver, sent, code
  <2> QED BY <2>6, <2>7, <2>8, <2>9
<1> QED BY <1>3, <1>5, <1>6, <1>7, <1>8, <1>9, <1>10 DEF WorkerStep, PathReset, Transmit

LEMMA SurroundingsLeaveNew ==
  ASSUME IInv, NewIsBare, Surroundings PROVE NewUntouched
<1>1. ASSUME NEW r \in Replies, HoldExpires(r) PROVE NewUntouched
  <2>1. rep[r] \in Records BY DEF IInv, Types
  <2>2. \A q \in Replies : rep'[q].state = rep[q].state
    BY <1>1, <2>1 DEF HoldExpires, IInv, Types, Records
  <2>3. \A q \in Replies : due'[q] = due[q] \/ due'[q] = {}
    BY <1>1 DEF HoldExpires, IInv, Types
  <2> QED BY <2>2, <2>3 DEF NewUntouched, NewIsBare
<1>2. ASSUME NEW code \in acks, OnAck(code) PROVE NewUntouched
  <2>1. UNCHANGED due BY <1>2 DEF OnAck
  <2>2. CASE UNCHANGED rep BY <2>1, <2>2 DEF NewUntouched, NewIsBare
  <2>3. ASSUME NEW r \in Replies, <<code, r>> \in expected, rep' = [rep EXCEPT ![r] = Acked(rep[r])]
        PROVE  NewUntouched
    <3>1. PICK q \in Replies : <<code, r>> \in {<<k, q>> : k \in due[q]}
      BY <2>3 DEF IInv, ListensForEveryTry
    <3>2. q = r /\ due[r] # {} BY <3>1
    <3>3. rep[r].state # "new" BY <3>2 DEF NewIsBare
    <3>4. rep[r] \in Records BY DEF IInv, Types
    <3>5. Acked(rep[r]).state = "confirmed" BY <3>4, AckedType
    <3>6. \A p \in Replies : rep'[p].state = "new" <=> rep[p].state = "new"
      BY <2>3, <3>3, <3>5 DEF IInv, Types
    <3> QED BY <2>1, <3>6 DEF NewUntouched, NewIsBare
  <2> QED BY <1>2, <2>2, <2>3 DEF OnAck
<1> QED BY <1>1, <1>2 DEF Surroundings
-----------------------------------------------------------------------------
(* The steps of the conversation. *)

\* What a step does to requests that are on record as answered.
RequestsKept ==
  /\ req' \in [Replies -> Requests]
  /\ \A r \in Replies : req[r].state = "replied" =>
       req'[r].state = "replied" /\ req'[r].text = req[r].text

\* New replies may be submitted by a step that answers their request.
LEMMA Together ==
  ASSUME CInv, IInv', RequestsKept, UNCHANGED session,
         \A r \in Replies : \/ /\ rep'[r].state = "new" <=> rep[r].state = "new"
                               /\ rep[r].state = "new" => due'[r] = {}
                            \/ /\ rep'[r].state # "new" /\ req'[r].state = "replied"
  PROVE  CInv'
<1>1. NewIsBare' BY DEF CInv, NewIsBare
<1>2. RepliedFirst' BY DEF CInv, RepliedFirst, RequestsKept
<1>3. SessionsOK'
  <2> SUFFICES ASSUME NEW c \in Contacts, session[c].opener # 0
               PROVE  /\ req'[session[c].opener].text \in Commands
                      /\ rep'[session[c].opener].state # "new"
    BY DEF SessionsOK
  <2>1. PICK of \in Replies : of = session[c].opener BY DEF CInv, Sessions
  <2>2. req[of].text \in Commands /\ rep[of].state # "new" BY <2>1 DEF CInv, SessionsOK
  <2>3. req[of].state = "replied" BY <2>2 DEF CInv, RepliedFirst
  <2>4. req'[of].text \in Commands BY <2>2, <2>3 DEF RequestsKept
  <2> QED BY <2>1, <2>2, <2>4
<1> QED BY <1>1, <1>2, <1>3 DEF CInv, RequestsKept

LEMMA AgedType ==
  ASSUME CInv, NEW age \in Ageings
  PROVE  /\ Aged(age) \in [Replies -> Requests]
         /\ \A r \in Replies : /\ Aged(age)[r].state = req[r].state
                               /\ Aged(age)[r].text = req[r].text
BY DEF CInv, Aged, Ageings, Requests, Ages

\* A copy: nothing, a submission of a reply that failed, or a note of the copy.
LEMMA CopySteps ==
  ASSUME CInv, NEW age \in Ageings, NEW r \in Replies, NEW stamp \in Nat,
         CopyHandled(r, Aged(age), stamp),
         UNCHANGED <<lastTs, worker, expected, early, got, acks, sends, due, session>>
  PROVE  [OutboxNext]_outboxVars /\ CInv'
<1> DEFINE on == Aged(age)
           heard == [on[r] EXCEPT !.stamps = on[r].stamps \union {stamp}]
           answering == [heard EXCEPT !.state = "building"]
<1>1. /\ on \in [Replies -> Requests]
      /\ \A q \in Replies : on[q].state = req[q].state /\ on[q].text = req[q].text
  BY AgedType
<1> HIDE DEF on
<1>2. heard \in Requests /\ heard.state = req[r].state /\ heard.text = req[r].text
  <2>1. PICK u \in SUBSET Nat : u = on[r].stamps \union {stamp} BY <1>1 DEF Requests
  <2>2. heard = [on[r] EXCEPT !.stamps = u] BY <2>1
  <2> QED BY <1>1, <2>2 DEF Requests
<1> HIDE DEF heard
<1>3. answering \in Requests /\ answering.text = req[r].text BY <1>2 DEF Requests
<1> HIDE DEF answering
<1>4. rep[r] \in Records BY DEF CInv, IInv, Types
<1>5. Noted(rep[r]) \in Records /\ Noted(rep[r]).state = rep[r].state BY <1>4, NotedType
<1>6. \A q \in Replies : rep[q].state = "new" => due[q] = {} BY DEF CInv, NewIsBare
<1>7. ASSUME [OutboxNext]_outboxVars PROVE IInv' BY <1>7, OutboxConstants, NextIInv DEF CInv
<1>8. CASE req[r].state = "limited" /\ req' = [on EXCEPT ![r] = answering] /\ UNCHANGED <<rep, queue>>
  <2>1. UNCHANGED outboxVars BY <1>8 DEF outboxVars
  <2>2. RequestsKept BY <1>1, <1>3, <1>8 DEF RequestsKept
  <2>3. CInv' BY <1>6, <1>7, <1>8, <2>1, <2>2, Together
  <2> QED BY <2>1, <2>3
<1>9. CASE req' = [on EXCEPT ![r] = heard]
  <2>1. RequestsKept BY <1>1, <1>2, <1>9 DEF RequestsKept
  <2>2. \A q \in Replies : req'[q].state = req[q].state BY <1>1, <1>2, <1>9
  <2>3. CASE /\ req[r].state = "replied" /\ rep[r].state \in {"failed", "dropped"}
             /\ Submitted(r, Noted(rep[r]))
    <3>1. Submit(r) BY <2>3 DEF Submit, MaySubmit
    <3>2. [OutboxNext]_outboxVars BY <3>1 DEF OutboxNext
    <3>3. /\ \A q \in Replies : q # r => rep'[q] = rep[q]
          /\ rep'[r].state # "new"
      <4>1. CASE rep' = [rep EXCEPT ![r] = TurnedAway(Noted(rep[r]))]
        <5>1. TurnedAway(Noted(rep[r])).state # "new" BY <1>5, TurnedAwayType
        <5> QED BY <4>1, <5>1 DEF CInv, IInv, Types
      <4>2. CASE rep' = [rep EXCEPT ![r] = [Noted(rep[r]) EXCEPT !.state = "queued"]]
        <5>1. [Noted(rep[r]) EXCEPT !.state = "queued"].state = "queued" BY <1>5 DEF Records
        <5> QED BY <4>2, <5>1 DEF CInv, IInv, Types
      <4> QED BY <2>3, <4>1, <4>2 DEF Submitted
    <3>4. CInv' BY <1>6, <1>7, <2>1, <2>2, <2>3, <3>2, <3>3, Together
    <3> QED BY <3>2, <3>4
  <2>4. CASE /\ req[r].state = "replied" /\ rep[r].state \in {"failed", "dropped"}
             /\ rep' = [rep EXCEPT ![r] = TurnedAway(Noted(rep[r]))] /\ UNCHANGED queue
    <3>1. NoteCopy(r) BY <2>4 DEF NoteCopy, MaySubmit
    <3>2. [OutboxNext]_outboxVars BY <3>1 DEF OutboxNext
    <3>3. TurnedAway(Noted(rep[r])).state # "new" BY <1>5, TurnedAwayType
    <3>4. \A q \in Replies : rep'[q].state = "new" <=> rep[q].state = "new"
      BY <2>4, <3>3 DEF CInv, IInv, Types
    <3>5. CInv' BY <1>6, <1>7, <2>1, <3>2, <3>4, Together
    <3> QED BY <3>2, <3>5
  <2>5. CASE rep' = [rep EXCEPT ![r] = Noted(rep[r])] /\ UNCHANGED queue
    <3>1. NoteCopy(r) BY <2>5 DEF NoteCopy
    <3>2. [OutboxNext]_outboxVars BY <3>1 DEF OutboxNext
    <3>3. \A q \in Replies : rep'[q].state = rep[q].state BY <1>5, <2>5 DEF CInv, IInv, Types
    <3>4. CInv' BY <1>6, <1>7, <2>1, <3>2, <3>3, Together
    <3> QED BY <3>2, <3>4
  <2> QED BY <1>8, <1>9, <2>3, <2>4, <2>5 DEF CopyHandled, heard, on, answering
<1> QED BY <1>8, <1>9 DEF CopyHandled, heard, on, answering

LEMMA CopiedIsReply ==
  ASSUME NEW c, NEW on, NEW text, NEW stamp PROVE Copied(c, on, text, stamp) \subseteq Replies
BY DEF Copied, SameStamp, SameText, MoreCopyOf, Newest, Known

LEMMA ArrivalSteps ==
  ASSUME CInv, NEW c \in Contacts, NEW text \in Texts, NEW stamp \in Nat, DmArrives(c, text, stamp)
  PROVE  [OutboxNext]_outboxVars /\ CInv'
<1>1. UNCHANGED <<lastTs, worker, expected, early, got, acks, sends, due, session>>
  BY DEF DmArrives
<1>2. PICK age \in Ageings :
        \/ \E r \in Copied(c, Aged(age), text, stamp) : CopyHandled(r, Aged(age), stamp)
        \/ Opened(c, Aged(age), text, stamp)
  BY DEF DmArrives
<1>3. CASE \E r \in Copied(c, Aged(age), text, stamp) : CopyHandled(r, Aged(age), stamp)
  BY <1>1, <1>3, CopiedIsReply, CopySteps
<1>4. CASE Opened(c, Aged(age), text, stamp)
  <2> DEFINE new == [state |-> "building", text |-> text, stamps |-> {stamp}, age |-> "fresh"]
  <2>1. PICK r \in Unused(c) : /\ req' = [Aged(age) EXCEPT ![r] = new]
                               /\ UNCHANGED <<rep, queue>>
    BY <1>4 DEF Opened
  <2>2. r \in Replies /\ req[r].state = "none" BY DEF Unused
  <2>3. new \in Requests BY DEF Requests, Ages
  <2> HIDE DEF new
  <2>4. UNCHANGED outboxVars BY <1>1, <2>1 DEF outboxVars
  <2>5. IInv' BY <2>4, OutboxConstants, NextIInv DEF CInv
  <2>6. RequestsKept BY <2>1, <2>2, <2>3, AgedType DEF RequestsKept
  <2>7. CInv' BY <1>1, <2>1, <2>5, <2>6, Together DEF CInv, NewIsBare
  <2> QED BY <2>4, <2>7
<1> QED BY <1>2, <1>3, <1>4

LEMMA AnswerSteps ==
  ASSUME CInv, NEW r \in Replies, Answer(r) PROVE [OutboxNext]_outboxVars /\ CInv'
<1>1. /\ req[r].state = "building" /\ req[r] \in Requests
      /\ UNCHANGED <<lastTs, worker, expected, early, got, acks, sends, due, session>>
  BY DEF Answer, CInv
<1>2. rep[r].state = "new" /\ rep[r] \in Records BY <1>1 DEF CInv, RepliedFirst, IInv, Types
<1>3. ASSUME [OutboxNext]_outboxVars PROVE IInv' BY <1>3, OutboxConstants, NextIInv DEF CInv
<1>4. ASSUME NEW x \in {"limited", "replied"}, req' = [req EXCEPT ![r].state = x]
      PROVE  RequestsKept /\ req'[r].state = x
  <2> DEFINE y == [req[r] EXCEPT !.state = x]
  <2>1. y \in Requests /\ y.state = x BY <1>1 DEF Requests
  <2>2. req' = [req EXCEPT ![r] = y] BY <1>4
  <2> HIDE DEF y
  <2> QED BY <1>1, <2>1, <2>2 DEF RequestsKept, CInv
<1>5. CASE req' = [req EXCEPT ![r].state = "limited"] /\ UNCHANGED <<rep, queue>>
  <2>1. UNCHANGED outboxVars BY <1>1, <1>5 DEF outboxVars
  <2>2. CInv' BY <1>1, <1>3, <1>4, <1>5, <2>1, Together DEF CInv, NewIsBare
  <2> QED BY <2>1, <2>2
<1>6. CASE req' = [req EXCEPT ![r].state = "replied"] /\ Submitted(r, rep[r])
  <2>1. Submit(r) BY <1>1, <1>2, <1>6 DEF Submit, MaySubmit
  <2>2. [OutboxNext]_outboxVars BY <2>1 DEF OutboxNext
  <2>3. /\ \A q \in Replies : q # r => rep'[q] = rep[q]
        /\ rep'[r].state # "new"
    <3>1. CASE rep' = [rep EXCEPT ![r] = TurnedAway(rep[r])]
      <4>1. TurnedAway(rep[r]).state # "new" BY <1>2, TurnedAwayType
      <4> QED BY <3>1, <4>1 DEF CInv, IInv, Types
    <3>2. CASE rep' = [rep EXCEPT ![r] = [rep[r] EXCEPT !.state = "queued"]]
      <4>1. [rep[r] EXCEPT !.state = "queued"].state = "queued" BY <1>2 DEF Records
      <4> QED BY <3>2, <4>1 DEF CInv, IInv, Types
    <3> QED BY <1>6, <3>1, <3>2 DEF Submitted
  <2>4. CInv' BY <1>1, <1>3, <1>4, <1>6, <2>2, <2>3, Together DEF CInv, NewIsBare
  <2> QED BY <2>2, <2>4
<1> QED BY <1>5, <1>6 DEF Answer

\* A step of a worker that leaves requests and sessions alone.
LEMMA QuietSteps ==
  ASSUME CInv, NewUntouched, OutboxNext, UNCHANGED <<req, session>>
  PROVE  CInv'
<1>1. IInv' BY OutboxConstants, NextIInv DEF CInv
<1>2. RequestsKept BY DEF RequestsKept, CInv
<1> QED BY <1>1, <1>2, Together DEF NewUntouched

LEMMA TextsAreBodies ==
  /\ Note \in Bodies /\ 0 \in 0 .. Pages - 1
  /\ \A text \in Commands, idx \in 0 .. Pages - 1 : PageText(text, idx) \in Bodies
<1>1. Pages \in Nat \ {0} BY ConversationConstants
<1>2. 0 \in 0 .. Pages - 1 BY <1>1
<1> QED BY <1>2, BodiesAreAll DEF AllBodies

LEMMA DeliverySteps ==
  ASSUME CInv, NEW c \in Contacts, NEW routed \in BOOLEAN, DeliverReply(c, routed)
  PROVE  [OutboxNext]_outboxVars /\ CInv'
<1> DEFINE r == Current(c)
           of == session[c].opener
<1>1. queue[c] # <<>> /\ UNCHANGED req BY DEF DeliverReply
<1>2. r \in Replies /\ rep[r] \in Records /\ rep[r].state # "new"
  BY <1>1, WorkerFacts DEF CInv, Open
<1>3. req[r] \in Requests /\ session[c] \in Sessions BY <1>2 DEF CInv
<1>4. ASSUME NEW body \in Bodies, Deliver(c, routed, body), UNCHANGED session
      PROVE  [OutboxNext]_outboxVars /\ CInv'
  <2>1. WorkerStep(c, routed, TRUE, body) BY <1>4 DEF WorkerStep
  <2>2. OutboxNext BY <2>1 DEF OutboxNext
  <2>3. NewUntouched BY <2>1, WorkerLeavesNew DEF CInv
  <2> QED BY <1>1, <1>4, <2>2, <2>3, QuietSteps
<1>5. ASSUME NEW body \in Bodies, Deliver(c, routed, body), NEW s \in Sessions,
             session' = [session EXCEPT ![c] = s],
             s.opener # 0 => req[s.opener].text \in Commands /\ rep[s.opener].state # "new"
      PROVE  [OutboxNext]_outboxVars /\ CInv'
  <2>1. WorkerStep(c, routed, TRUE, body) BY <1>5 DEF WorkerStep
  <2>2. OutboxNext BY <2>1 DEF OutboxNext
  <2>3. NewUntouched BY <2>1, WorkerLeavesNew DEF CInv
  <2>4. IInv' BY <2>2, OutboxConstants, NextIInv DEF CInv
  <2>5. NewIsBare' /\ RepliedFirst' BY <1>1, <2>3 DEF NewUntouched, NewIsBare, CInv, RepliedFirst
  <2>6. session' \in [Contacts -> Sessions] BY <1>5 DEF CInv
  <2>7. SessionsOK'
    <3> SUFFICES ASSUME NEW d \in Contacts, session'[d].opener # 0
                 PROVE  /\ req[session'[d].opener].text \in Commands
                        /\ rep'[session'[d].opener].state # "new"
      BY <1>1 DEF SessionsOK
    <3>1. session'[d].opener \in Replies BY <2>6 DEF Sessions
    <3>2. /\ req[session'[d].opener].text \in Commands
          /\ rep[session'[d].opener].state # "new"
      BY <1>5 DEF CInv, SessionsOK
    <3> QED BY <2>3, <3>1, <3>2 DEF NewUntouched
  <2> QED BY <1>1, <2>2, <2>4, <2>5, <2>6, <2>7 DEF CInv
<1>6. CASE /\ rep[r].body # NoBody /\ Deliver(c, routed, rep[r].body) /\ UNCHANGED session
  <2>1. rep[r].body \in Bodies BY <1>2, <1>6 DEF Records
  <2> QED BY <1>4, <1>6, <2>1
<1>7. CASE /\ req[r].text # More /\ Deliver(c, routed, PageText(req[r].text, 0))
           /\ session' = [session EXCEPT ![c] = [opener |-> r, last |-> r]]
  <2>1. req[r].text \in Commands BY <1>3, <1>7 DEF Requests, Texts
  <2>2. [opener |-> r, last |-> r] \in Sessions /\ [opener |-> r, last |-> r].opener = r
    BY <1>2 DEF Sessions
  <2>3. PageText(req[r].text, 0) \in Bodies BY <2>1, TextsAreBodies
  <2> QED BY <1>2, <1>5, <1>7, <2>1, <2>2, <2>3
<1>8. ASSUME NEW i \in FirstUnconfirmed(of), of # 0, Deliver(c, routed, PageText(req[of].text, i)),
             session' = [session EXCEPT ![c].last = r]
      PROVE  [OutboxNext]_outboxVars /\ CInv'
  <2> DEFINE s == [session[c] EXCEPT !.last = r]
  <2>1. req[of].text \in Commands /\ rep[of].state # "new" BY <1>8 DEF CInv, SessionsOK
  <2>2. s \in Sessions /\ s.opener = of BY <1>2, <1>3 DEF Sessions
  <2>3. i \in 0 .. Pages - 1 BY DEF FirstUnconfirmed
  <2>4. PageText(req[of].text, i) \in Bodies BY <2>1, <2>3, TextsAreBodies
  <2>5. session' = [session EXCEPT ![c] = s] BY <1>8
  <2> HIDE DEF s
  <2> QED BY <1>5, <1>8, <2>1, <2>2, <2>4, <2>5
<1>9. CASE Deliver(c, routed, Note) /\ UNCHANGED session
  BY <1>4, <1>9, TextsAreBodies
<1>10. \/ rep[r].body # NoBody /\ Deliver(c, routed, rep[r].body) /\ UNCHANGED session
       \/ /\ req[r].text # More /\ Deliver(c, routed, PageText(req[r].text, 0))
          /\ session' = [session EXCEPT ![c] = [opener |-> r, last |-> r]]
       \/ \E i \in FirstUnconfirmed(of) :
            /\ of # 0 /\ Deliver(c, routed, PageText(req[of].text, i))
            /\ session' = [session EXCEPT ![c].last = r]
       \/ Deliver(c, routed, Note) /\ UNCHANGED session
  BY DEF DeliverReply
<1> QED BY <1>6, <1>7, <1>8, <1>9, <1>10

LEMMA WorkSteps ==
  ASSUME CInv, NEW c \in Contacts, Work(c) PROVE [OutboxNext]_outboxVars /\ CInv'
<1>1. CASE WorkerGoesOn(c)
  <2>1. PICK routed \in BOOLEAN, reaches \in BOOLEAN : WorkerStep(c, routed, reaches, Note)
    BY <1>1 DEF WorkerGoesOn, WorkerStep
  <2>2. Note \in Bodies BY TextsAreBodies
  <2>3. OutboxNext BY <2>1, <2>2 DEF OutboxNext
  <2>4. NewUntouched BY <2>1, <2>2, WorkerLeavesNew DEF CInv
  <2>5. UNCHANGED <<req, session>> BY <1>1 DEF WorkerGoesOn
  <2> QED BY <2>3, <2>4, <2>5, QuietSteps
<1>2. CASE \E routed \in BOOLEAN : DeliverReply(c, routed) BY <1>2, DeliverySteps
<1> QED BY <1>1, <1>2 DEF Work

LEMMA ConversationSteps ==
  ASSUME CInv, [Next]_vars PROVE [OutboxNext]_outboxVars /\ CInv'
<1>1. ASSUME NEW c \in Contacts, NEW text \in Texts, NEW stamp \in 1 .. MaxDms,
             DmArrives(c, text, stamp)
      PROVE  [OutboxNext]_outboxVars /\ CInv'
  <2>1. stamp \in Nat BY ConversationConstants
  <2> QED BY <1>1, <2>1, ArrivalSteps
<1>2. ASSUME NEW r \in Replies, Answer(r) PROVE [OutboxNext]_outboxVars /\ CInv'
  BY <1>2, AnswerSteps
<1>3. ASSUME NEW c \in Contacts, Work(c) PROVE [OutboxNext]_outboxVars /\ CInv'
  BY <1>3, WorkSteps
<1>4. CASE Surroundings /\ UNCHANGED <<req, session, page, asked, dms>>
  <2>1. OutboxNext BY <1>4 DEF OutboxNext
  <2>2. NewUntouched BY <1>4, SurroundingsLeaveNew DEF CInv
  <2> QED BY <1>4, <2>1, <2>2, QuietSteps
<1>5. CASE UNCHANGED vars
  <2>1. UNCHANGED outboxVars /\ UNCHANGED <<rep, due, req, session>>
    BY <1>5 DEF vars, outboxVars
  <2>2. IInv' BY <2>1, OutboxConstants, NextIInv DEF CInv
  <2>3. RequestsKept BY <2>1 DEF RequestsKept, CInv
  <2>4. CInv' BY <2>1, <2>2, <2>3, Together DEF CInv, NewIsBare
  <2> QED BY <2>1, <2>4
<1> QED BY <1>1, <1>2, <1>3, <1>4, <1>5 DEF Next

LEMMA InitCInv == ASSUME Init PROVE CInv
<1>1. IInv BY OutboxConstants, InitIInv DEF Init
<1>2. \A r \in Replies : rep[r].state = "new" /\ due[r] = {} BY DEF Init, OutboxInit, NewReply
<1>3. NoRequest \in Requests BY DEF NoRequest, Requests, Ages, Texts
<1>4. NoSession \in Sessions /\ NoSession.opener = 0 BY DEF NoSession, Sessions
<1>5. req \in [Replies -> Requests] /\ session \in [Contacts -> Sessions] BY <1>3, <1>4 DEF Init
<1>6. SessionsOK BY <1>4 DEF Init, SessionsOK
<1> QED BY <1>1, <1>2, <1>5, <1>6 DEF CInv, NewIsBare, RepliedFirst

LEMMA CInvAlways == Spec => []CInv
<1>1. Init => CInv BY InitCInv
<1>2. CInv /\ [Next]_vars => CInv' BY ConversationSteps
<1> QED BY <1>1, <1>2, PTL DEF Spec

\* Whatever people send and resend, the bot's direct messages behave as its
\* outbox: every step of main.py and of DmRequests is one of the outbox's.
THEOREM ConversationIsOutbox == Spec => OutboxSpec
<1>1. Init => OutboxInit BY DEF Init
<1>2. CInv /\ [Next]_vars => [OutboxNext]_outboxVars BY ConversationSteps
<1> QED BY <1>1, <1>2, CInvAlways, PTL DEF Spec, OutboxSpec

\* The promise kept to the people who ask: a reply is confirmed only when its
\* person's phone has it, whatever copies came in.
THEOREM ConversationKeepsPromise == Spec => KeepsDmPromise
BY ConversationIsOutbox, PromiseKept

\* However many copies of a request come in, its reply is never in the queue
\* twice.
THEOREM NeverQueuedTwice == Spec => []QueuedOnce
<1>1. CInv => QueuedOnce
  <2> SUFFICES ASSUME CInv, NEW c \in Contacts, NEW i \in DOMAIN queue[c], NEW j \in DOMAIN queue[c],
                      queue[c][i] = queue[c][j]
               PROVE  i = j
    BY DEF QueuedOnce
  <2>1. queue[c] \in Seq(Replies) BY DEF CInv, IInv, Types
  <2>2. i \in 1 .. Len(queue[c]) /\ j \in 1 .. Len(queue[c]) BY <2>1
  <2> QED BY <2>2 DEF CInv, IInv, QueuesOK
<1> QED BY <1>1, CInvAlways, PTL
-----------------------------------------------------------------------------
(* Paging. *)

PageRecords == [of : Replies \union {0}, idx : 0 .. Pages - 1]

PInv == CInv /\ PhonesInv /\ page \in [Replies -> PageRecords] /\ PagesInOrder

\* A page that goes out is the first one not confirmed: every page before it was
\* confirmed, in a reply that a phone has.
LEMMA PagesBefore ==
  ASSUME PInv, NEW of, NEW i \in FirstUnconfirmed(of), NEW j \in 0 .. i - 1
  PROVE  \E p \in got : page[p[1]] = [of |-> of, idx |-> j]
<1>1. /\ i \in 0 .. Pages - 1
      /\ \A k \in 0 .. Pages - 1 \ ConfirmedPages(of) : i <= k
  BY DEF FirstUnconfirmed
<1>2. Pages \in Nat BY ConversationConstants
<1>3. j \in 0 .. Pages - 1 /\ ~(i <= j) BY <1>1, <1>2
<1>4. j \in ConfirmedPages(of) BY <1>1, <1>3
<1>5. PICK q \in Replies : page[q].of = of /\ rep[q].state = "confirmed" /\ page[q].idx = j
  BY <1>4 DEF ConfirmedPages
<1>6. q \in Reached BY <1>5 DEF PInv, PhonesInv
<1>7. PICK p \in got : p[1] = q BY <1>6 DEF Reached
<1>8. page[q] = [of |-> page[q].of, idx |-> page[q].idx] BY DEF PInv, PageRecords
<1> QED BY <1>5, <1>7, <1>8

\* A reply that is given its text and its page now is on no phone yet.
LEMMA TurnPage ==
  ASSUME PInv, NEW r \in Replies, rep[r].body = NoBody, UNCHANGED got,
         NEW of \in Replies, NEW i \in 0 .. Pages - 1,
         page' = [page EXCEPT ![r] = [of |-> of, idx |-> i]],
         \A j \in 0 .. i - 1 : \E p \in got : page[p[1]] = [of |-> of, idx |-> j]
  PROVE  page' \in [Replies -> PageRecords] /\ PagesInOrder'
<1> DEFINE new == [of |-> of, idx |-> i]
<1>1. new \in PageRecords /\ new.of = of /\ new.idx = i BY DEF PageRecords
<1> HIDE DEF new
<1>2. page' = [page EXCEPT ![r] = new] BY DEF new
<1>3. page' \in [Replies -> PageRecords] /\ page'[r] = new
      /\ \A q \in Replies : q # r => page'[q] = page[q]
  BY <1>1, <1>2 DEF PInv
<1>4. \A p \in got : p[1] \in Replies /\ p[1] # r
  <2>1. NoBody \notin Bodies BY OutboxConstants
  <2>2. \A p \in got : p[1] \in Replies BY DEF PInv, CInv, IInv, Types
  <2> QED BY <2>1, <2>2 DEF PInv, PhonesInv
<1>5. \A p \in got : page'[p[1]] = page[p[1]] BY <1>3, <1>4
<1>6. ASSUME NEW q \in Replies, NEW j \in 0 .. page'[q].idx - 1
      PROVE  \E p \in got : page'[p[1]] = [of |-> page'[q].of, idx |-> j]
  <2>1. CASE q = r BY <1>1, <1>3, <1>5, <1>6, <2>1
  <2>2. CASE q # r
    <3>1. page'[q] = page[q] BY <1>3, <2>2
    <3>2. PICK p \in got : page[p[1]] = [of |-> page[q].of, idx |-> j]
      BY <1>6, <3>1 DEF PInv, PagesInOrder
    <3> QED BY <1>5, <3>1, <3>2
  <2> QED BY <2>1, <2>2
<1>7. PagesInOrder' BY <1>6 DEF PagesInOrder
<1> QED BY <1>3, <1>7

LEMMA PagesStep == ASSUME PInv, [Next]_vars PROVE PInv'
<1>1. [OutboxNext]_outboxVars /\ CInv' BY ConversationSteps DEF PInv
<1>2. IInv /\ IInv' BY <1>1 DEF PInv, CInv
<1>3. PhonesInv' BY <1>1, <1>2, NextPhones DEF PInv
<1>4. got \subseteq got' BY <1>1, <1>2, NextTexts DEF PhonesGrow
<1>5. ASSUME UNCHANGED page PROVE page' \in [Replies -> PageRecords] /\ PagesInOrder'
  BY <1>4, <1>5 DEF PInv, PagesInOrder
<1>6. ASSUME NEW c \in Contacts, NEW routed \in BOOLEAN, DeliverReply(c, routed)
      PROVE  page' \in [Replies -> PageRecords] /\ PagesInOrder'
  <2> DEFINE r == Current(c)
             of == session[c].opener
  <2>1. r \in Replies /\ UNCHANGED got BY <1>2, <1>6, WorkerFacts DEF DeliverReply, Deliver
  <2>2. CASE UNCHANGED page BY <1>5, <2>2
  <2>3. CASE rep[r].body = NoBody /\ page' = [page EXCEPT ![r] = [of |-> r, idx |-> 0]]
    <3>1. 0 \in 0 .. Pages - 1 BY TextsAreBodies
    <3>2. \A j \in 0 .. 0 - 1 : \E p \in got : page[p[1]] = [of |-> r, idx |-> j] OBVIOUS
    <3> QED BY ZenonT(40), <2>1, <2>3, <3>1, <3>2, TurnPage
  <2>4. ASSUME NEW i \in FirstUnconfirmed(of), rep[r].body = NoBody, of # 0,
               page' = [page EXCEPT ![r] = [of |-> of, idx |-> i]]
        PROVE  page' \in [Replies -> PageRecords] /\ PagesInOrder'
    <3>1. of \in Replies BY <2>4 DEF PInv, CInv, Sessions
    <3>2. i \in 0 .. Pages - 1 BY DEF FirstUnconfirmed
    <3>3. \A j \in 0 .. i - 1 : \E p \in got : page[p[1]] = [of |-> of, idx |-> j] BY PagesBefore
    <3> QED BY ZenonT(40), <2>1, <2>4, <3>1, <3>2, <3>3, TurnPage
  <2> QED BY <1>6, <2>2, <2>3, <2>4 DEF DeliverReply
<1>7. page' \in [Replies -> PageRecords] /\ PagesInOrder'
  BY <1>5, <1>6 DEF Next, DmArrives, Answer, Work, WorkerGoesOn, vars
<1> QED BY <1>1, <1>3, <1>7 DEF PInv

\* `more` never skips a page: when a page goes out, the person's phone has every
\* page before it, whichever ACKs were lost, late or of earlier pages.
THEOREM NoPageSkipped == Spec => []PagesInOrder
<1>1. Init => PInv
  <2> SUFFICES ASSUME Init PROVE PInv OBVIOUS
  <2>1. CInv BY InitCInv
  <2>2. PhonesInv BY InitPhones DEF Init
  <2>3. NoPage \in PageRecords /\ NoPage.idx = 0 BY TextsAreBodies DEF NoPage, PageRecords
  <2>4. page \in [Replies -> PageRecords] /\ \A r \in Replies : page[r].idx = 0
    BY <2>3 DEF Init
  <2>5. PagesInOrder BY <2>4 DEF PagesInOrder
  <2> QED BY <2>1, <2>2, <2>4, <2>5 DEF PInv
<1>2. PInv /\ [Next]_vars => PInv' BY PagesStep
<1>3. PInv => PagesInOrder BY DEF PInv
<1> QED BY <1>1, <1>2, <1>3, PTL DEF Spec
=============================================================================
