-------------------------- MODULE AppAnswersProofs --------------------------
(***************************************************************************)
(* Proofs about the bot's answers to apps, for any phones and requests, any   *)
(* gaps and windows and any number of datagrams: types, one answer at a time  *)
(* for a request and its copies, and windows that follow what went out.      *)
(***************************************************************************)
EXTENDS AppAnswers, FiniteSetTheorems, SequenceTheorems, WellFoundedInduction, TLAPS

USE AnswerConstants

-----------------------------------------------------------------------------
(* Types, and what each stage of a handler has *)

Entries == Items \union {NA}
Places == Items \union Ground
Stages == {"new", "cutting", "waiting", "sending", "done"}

TaskType == [pc : Stages, ask : Requests \union {NoRequest}, at : Nat, msgs : Seq(Entries),
             next : Nat \ {0}, took : Nat, counts : BOOLEAN, left : {"app", "not_ready"},
             after : SUBSET Tasks]

\* An answer is "not available" or items asked for; only the latter counts.
MessagesOK(t) ==
  \/ t.msgs = <<NA>>
  \/ t.msgs \in Seq(ItemsOf[t.ask]) \ {<<>>} /\ t.counts /\ t.left = "app"

\* What a handler has at each stage.
StageOK(t) ==
  /\ t.pc \in {"cutting", "waiting", "sending"} => t.ask \in Requests /\ t.at <= now
  /\ t.pc = "cutting" => KindOf[t.ask] = "radar" /\ t.left = "app"
  /\ t.pc \in {"waiting", "sending"} => MessagesOK(t)
  /\ t.pc \in {"cutting", "waiting"} => t.next = 1 /\ t.took = 0
  /\ t.pc = "sending" => t.took < t.next /\ t.next <= Len(t.msgs) + 1
  /\ t.pc = "new" => t = NewTask
  /\ t.pc = "done" => t.took < t.next

Requested == [state : {"building", "app", "app_unanswered", "not_ready"},
              done : (0 .. now) \union {Never}]

Types ==
  /\ now \in 0 .. MaxTime /\ ready \in BOOLEAN /\ spent \in Nat
  /\ last \in [Phones -> Nat \union {Never}] /\ kept \subseteq Items
  /\ stamp \in [Windowed -> [Places -> (0 .. now) \union {Never}]]
  /\ level \in [Ground -> BOOLEAN]
  /\ req \in [Requests -> Requested]
  /\ task \in [Tasks -> TaskType]
  /\ lock \in Tasks \union {NoTask}
  /\ aired \subseteq [item : Entries, at : 0 .. now, task : Tasks]

Staged ==
  \A n \in Tasks : StageOK(task[n]) /\ ((lock = n) = (task[n].pc = "sending"))

-----------------------------------------------------------------------------
(* One answer at a time *)

\* Datagrams arrive in their order.
InTurn == \A n, m \in Tasks : m < n /\ task[m].pc = "new" => task[n].pc = "new"

\* What went on the air was sent by a handler, now if it is not done.
SentBy(x) ==
  LET t == task[x.task] IN
  /\ t.pc \in {"sending", "done"} /\ t.ask \in Requests
  /\ t.pc = "sending" => x.at = now /\ t.took > 0
  /\ x.item # NA => x.item \in ItemsOf[t.ask] /\ t.left = "app"
  /\ x.item # NA /\ t.pc = "sending" => t.counts /\ t.msgs # <<NA>>
  /\ x.item = NA /\ t.pc = "sending" => t.msgs = <<NA>>

\* While a request is answered no copy of it is, and the gap after an answer of
\* its was over before.
OneAnswer(n) ==
  UnderWay(n) =>
    /\ req[task[n].ask] = [state |-> "app", done |-> Never]
    /\ \A m \in Tasks : m # n /\ UnderWay(m) => task[m].ask # task[n].ask
    /\ \A x \in aired : x.task # n /\ task[x.task].ask = task[n].ask =>
         x.task < n /\ (task[x.task].left = "app" => now - x.at >= CopyGap)

\* What went out is on record until the gap is over.
OnRecord(x) ==
  task[x.task].pc = "done" /\ task[x.task].left = "app" =>
    LET r == req[task[x.task].ask] IN
    \/ r.state = "app" /\ r.done # Never /\ x.at <= r.done
    \/ now - x.at >= CopyGap

Spaced ==
  \A x, y \in aired :
    x.task < y.task /\ task[x.task].ask = task[y.task].ask /\ task[x.task].left = "app"
    => y.at - x.at >= CopyGap

AnswerInv ==
  /\ Types /\ Staged /\ InTurn /\ Spaced
  /\ \A x \in aired : SentBy(x) /\ OnRecord(x)
  /\ \A n \in Tasks : OneAnswer(n)

-----------------------------------------------------------------------------
(* The windows *)

\* A handler follows handlers that are done.
Follows == \A n \in Tasks : \A m \in task[n].after : task[m].pc = "done"

\* A packet that can be asked for again is kept.
IsKept(x) == x.item # NA /\ KindOn(x) = "part" => x.item \in kept

Done == {m \in Tasks : task[m].pc = "done"}

\* What was covered by a batch that is over has a window as late, with the
\* advisories it had unless a batch without them came over it.
Stamped(x) ==
  x.item # NA /\ task[x.task].pc = "done" /\ KindOn(x) \in {"part", "sweep"} =>
    \A i \in Covered(x) :
      /\ stamp[KindOn(x)][i] >= x.at
      /\ AskOf(x) \in Advisories => level[i] \/ Overwritten(i, x, Done)

\* Nothing that was over when task n came covered the item within its window,
\* for as much as n asks, unless it was overwritten.
Open(item, n) ==
  \A x \in aired :
    /\ x.task \in task[n].after /\ CoveredFor(task[n].ask, item, x) /\ KindOn(x) \in {"part", "sweep"}
    => \/ now - x.at >= Window[KindOn(x)]
       \/ task[n].ask \in Advisories /\ Overwritten(item, x, task[n].after)

\* What waits to be sent again was open when it was asked for.
WaitsOpen(n) ==
  task[n].pc \in {"waiting", "sending"} /\ task[n].msgs # <<NA>> =>
    /\ KindOf[task[n].ask] = "part" =>
         \A i \in 1 .. Len(task[n].msgs) : task[n].msgs[i] \in kept /\ Open(task[n].msgs[i], n)
    /\ KindOf[task[n].ask] = "sweep" => \E g \in Asked(task[n].ask) : Open(g, n)

\* A window began with something that went out.
Began ==
  \A kind \in Windowed, i \in Places : stamp[kind][i] # Never =>
    \E x \in aired : /\ KindOn(x) = kind /\ i \in CoveredBy(AskOf(x))
                     /\ stamp[kind][i] <= x.at

\* A handler that had something taken has it on the air.
TookSome ==
  \A n \in Tasks : task[n].pc = "sending" /\ task[n].took > 0 => \E x \in aired : x.task = n

SentOpen(y) ==
  y.item # NA =>
    /\ KindOn(y) = "part" => WasOpen(y.item, y)
    /\ KindOn(y) = "sweep" => \E g \in Asked(AskOf(y)) : WasOpen(g, y)

WindowInv ==
  /\ AnswerInv /\ Follows /\ Began /\ TookSome
  /\ \A x \in aired : IsKept(x) /\ Stamped(x) /\ SentOpen(x)
  /\ \A n \in Tasks : WaitsOpen(n)
-----------------------------------------------------------------------------
(* The packets of an answer, in their order *)

\* A set of numbers has a least one.
LEMMA Least == ASSUME NEW S, S \subseteq Nat, S # {} PROVE \E m \in S : \A x \in S : m <= x
<1>. DEFINE R == OpToRel(<, Nat)
<1>1. IsWellFoundedOn(R, Nat)
  BY NatLessThanWellFounded
<1>2. \A x, y \in Nat : x < y => <<x, y>> \in R
  BY DEF OpToRel
<1>. HIDE DEF R
<1>3. PICK m \in S : \A x \in S : <<x, m>> \notin R
  BY <1>1, WFMin
<1>4. \A x \in S : ~(x < m)
  BY <1>2, <1>3
<1>. QED  BY <1>4

\* The items of an answer have an order: else there are a least number of items
\* that have none; without the first of them they have one, which it can be put
\* in front of.
LEMMA InOrderType ==
  ASSUME NEW S \in SUBSET Nat, IsFiniteSet(S)
  PROVE  InOrder(S) \in [1 .. Cardinality(S) -> S]
<1>. DEFINE Ordered(A) == \E s \in [1 .. Cardinality(A) -> A] : Ascending(s)
            Sizes == {n \in Nat : \E A \in SUBSET Nat : IsFiniteSet(A) /\ Cardinality(A) = n /\ ~Ordered(A)}
<1>1. Sizes = {}
  <2>. SUFFICES ASSUME Sizes # {} PROVE FALSE
    OBVIOUS
  <2>1. PICK n \in Sizes : \A k \in Sizes : n <= k
    BY Least
  <2>2. PICK A \in SUBSET Nat : IsFiniteSet(A) /\ Cardinality(A) = n /\ ~Ordered(A)
    OBVIOUS
  <2>3. A # {}
    <3>. SUFFICES ASSUME A = {} PROVE Ordered(A)
      BY <2>2
    <3>1. Cardinality(A) = 0
      BY FS_EmptySet
    <3>2. <<>> \in [1 .. Cardinality(A) -> A] /\ Ascending(<<>>)
      BY <3>1 DEF Ascending
    <3>. QED  BY <3>2
  <2>4. PICK m \in A : \A x \in A : m <= x
    BY <2>3, Least
  <2>. DEFINE B == A \ {m}
  <2>5. IsFiniteSet(B) /\ Cardinality(B) = n - 1 /\ n - 1 \in Nat
    <3>1. IsFiniteSet(A) /\ Cardinality(A) = n /\ m \in A
      BY <2>2
    <3>2. IsFiniteSet(B) /\ Cardinality(B) = n - 1
      BY <3>1, FS_RemoveElement
    <3>3. Cardinality(B) \in Nat
      BY <3>2, FS_CardinalityType
    <3>. QED  BY <3>2, <3>3
  <2>6. Ordered(B)
    <3>1. n - 1 \notin Sizes
      BY <2>1, <2>5
    <3>2. B \in SUBSET Nat
      OBVIOUS
    <3>. QED  BY <3>1, <3>2, <2>5
  <2>7. PICK t \in [1 .. Cardinality(B) -> B] : Ascending(t)
    BY <2>6
  <2>. DEFINE s == [i \in 1 .. n |-> IF i = 1 THEN m ELSE t[i - 1]]
  <2>8. t \in [1 .. (n - 1) -> B]
    BY <2>5, <2>7
  <2>. HIDE DEF Ordered
  <2>9. s \in [1 .. n -> A]
    BY <2>8, <2>5
  <2>10. Ascending(s)
    <3>. SUFFICES ASSUME NEW i \in 1 .. n, NEW j \in 1 .. n, i < j PROVE s[i] < s[j]
      BY DEF Ascending
    <3>1. t[j - 1] \in B /\ s[j] = t[j - 1]
      BY <2>8, <2>5
    <3>2. CASE i = 1
      <4>1. s[i] = m /\ m \in Nat /\ t[j - 1] \in Nat
        BY <3>1, <3>2
      <4>2. m <= t[j - 1] /\ m # t[j - 1]
        BY <3>1, <2>4
      <4>. QED  BY <3>1, <4>1, <4>2
    <3>3. CASE i # 1
      <4>1. i - 1 \in DOMAIN t /\ j - 1 \in DOMAIN t /\ i - 1 < j - 1 /\ s[i] = t[i - 1]
        BY <3>3, <2>8, <2>5
      <4>. QED  BY <4>1, <3>1, <2>7 DEF Ascending
    <3>. QED  BY <3>2, <3>3
  <2>. QED  BY <2>2, <2>9, <2>10 DEF Ordered
<1>2. Cardinality(S) \in Nat
  BY FS_CardinalityType
<1>3. \E s \in [1 .. Cardinality(S) -> S] : Ascending(s)
  BY <1>1, <1>2
<1>. QED  BY <1>3 DEF InOrder

\* An answer is "not available" or some of what was asked for.
LEMMA AnswerHolds ==
  ASSUME NEW a \in Requests
  PROVE  \/ Answer(a) = <<NA>>
         \/ /\ Answer(a) \in Seq(ItemsOf[a]) \ {<<>>}
            /\ \A i \in 1 .. Len(Answer(a)) : Answer(a)[i] \in ToSend(a)
            /\ ToSend(a) # {}
<1>. SUFFICES ASSUME ToSend(a) # {} PROVE /\ Answer(a) \in Seq(ItemsOf[a]) \ {<<>>}
                                          /\ \A i \in 1 .. Len(Answer(a)) : Answer(a)[i] \in ToSend(a)
  BY DEF Answer
<1>1. ToSend(a) \subseteq ItemsOf[a]
  <2>1. KindOf[a] \in {"text", "part", "sweep", "radar"}
    BY DEF Windowed
  <2>. QED  BY <2>1 DEF ToSend
<1>2. IsFiniteSet(ItemsOf[a]) /\ ItemsOf[a] \subseteq Nat
  OBVIOUS
<1>3. IsFiniteSet(ToSend(a)) /\ ToSend(a) \in SUBSET Nat
  BY <1>1, <1>2, FS_Subset
<1>4. Cardinality(ToSend(a)) \in Nat /\ Cardinality(ToSend(a)) # 0
  BY <1>3, FS_CardinalityType, FS_EmptySet
<1>5. Answer(a) \in [1 .. Cardinality(ToSend(a)) -> ToSend(a)]
  BY <1>3, InOrderType DEF Answer
<1>6. Answer(a) \in Seq(ToSend(a)) /\ Len(Answer(a)) = Cardinality(ToSend(a))
  BY SMTT(30), <1>4, <1>5
<1>. QED  BY <1>1, <1>4, <1>5, <1>6
-----------------------------------------------------------------------------
(* A datagram arrives *)

\* What becomes of a datagram's handler and of the request on record: it is
\* over at once, or there is an answer under way.
Dropped(a, o, r) ==
  /\ o = [NewTask EXCEPT !.pc = "done"]
  /\ r = req[a] \/ (Answers(a) /\ r = [state |-> "app_unanswered", done |-> Never])

Taken(a, o, r) ==
  /\ Answers(a) /\ r = [state |-> "app", done |-> Never]
  /\ o.ask = a /\ o.at = now /\ o.after = {m \in Tasks : task[m].pc = "done"}
  /\ o.next = 1 /\ o.took = 0
  /\ \/ o.pc = "cutting" /\ KindOf[a] = "radar" /\ o.left = "app"
     \/ o.pc = "waiting" /\ o.msgs = <<NA>>
     \/ /\ o.pc = "waiting" /\ o.counts /\ o.left = "app" /\ o.msgs \in Seq(ItemsOf[a]) \ {<<>>}
        /\ \A i \in 1 .. Len(o.msgs) : o.msgs[i] \in ToSend(a)
        /\ ToSend(a) # {}

\* Items of a request are items.
LEMMA ItemsOfRequest == ASSUME NEW a \in Requests PROVE ItemsOf[a] \subseteq Items
BY DEF Items

LEMMA NewTaskType == NewTask \in TaskType
<1>1. <<>> \in Seq(Entries)
  OBVIOUS
<1>. QED  BY <1>1 DEF NewTask, TaskType, Stages

LEMMA OfLarger == ASSUME NEW S, NEW T, S \subseteq T, NEW s \in Seq(S) PROVE s \in Seq(T)
OBVIOUS

LEMMA Arrival ==
  ASSUME Types, Staged, NEW n \in Tasks, NEW a \in Requests, Arrive(n, a)
  PROVE  /\ task[n].pc = "new"
         /\ \A m \in Tasks : m < n => task[m].pc # "new"
         /\ UNCHANGED <<now, ready, spent, kept, stamp, level, lock, aired>>
         /\ last' \in [Phones -> Nat \union {Never}]
         /\ \E o \in TaskType, r \in Requested :
              /\ task' = [task EXCEPT ![n] = o] /\ req' = [req EXCEPT ![a] = r]
              /\ Dropped(a, o, r) \/ Taken(a, o, r)
<1>. DEFINE Outcome(o, r) == /\ task' = [task EXCEPT ![n] = o] /\ req' = [req EXCEPT ![a] = r]
                             /\ Dropped(a, o, r) \/ Taken(a, o, r)
            Unanswered == [state |-> "app_unanswered", done |-> Never]
            Answering == [state |-> "app", done |-> Never]
            Over == [NewTask EXCEPT !.pc = "done"]
<1>1. task[n].pc = "new" /\ UNCHANGED <<now, ready, spent, kept, stamp, level, lock, aired>>
  BY DEF Arrive
<1>2. \A m \in Tasks : m < n => task[m].pc # "new"
  BY DEF Arrive
<1>3. task[n] = NewTask /\ now \in Nat /\ req[a] \in Requested /\ req \in [Requests -> Requested]
  BY <1>1 DEF Types, Staged, StageOK
<1>4. Over \in TaskType /\ Unanswered \in Requested /\ Answering \in Requested
  <2>1. NewTask \in TaskType
    BY <1>3 DEF Types
  <2>2. Over \in TaskType
    BY <2>1 DEF TaskType, Stages
  <2>3. Unanswered \in Requested /\ Answering \in Requested
    BY DEF Requested
  <2>. QED  BY <2>2, <2>3
<1>5. Handled(a) \in TaskType
  <2>1. NewTask \in TaskType
    BY <1>3 DEF Types
  <2>. QED  BY <1>3, <2>1 DEF Handled, TaskType
<1>6. last' \in [Phones -> Nat \union {Never}]
  <2>1. last' = last \/ last' = [last EXCEPT ![PhoneOf[a]] = now]
    BY DEF Arrive, Handle
  <2>. QED  BY <1>3, <2>1 DEF Types
<1>. SUFFICES \E o \in TaskType, r \in Requested : Outcome(o, r)
  BY <1>1, <1>2, <1>6
<1>7. CASE ~Answers(a)
  <2>1. task' = [task EXCEPT ![n] = Over] /\ req' = [req EXCEPT ![a] = req[a]]
    BY <1>3, <1>7 DEF Arrive
  <2>. QED  BY <1>3, <1>4, <2>1 DEF Dropped
<1>8. CASE Answers(a) /\ Silent(n, a)
  <2>1. Outcome(Over, Unanswered)
    BY <1>3, <1>8 DEF Silent, Dropped
  <2>. QED  BY <1>4, <2>1
<1>9. ASSUME Answers(a), NEW msgs \in Seq(Entries), NEW counts \in BOOLEAN,
             NEW left \in {"app", "not_ready"}, Queue(n, a, msgs, counts, left),
             \/ msgs = <<NA>>
             \/ /\ counts /\ left = "app" /\ msgs \in Seq(ItemsOf[a]) \ {<<>>}
                /\ \A i \in 1 .. Len(msgs) : msgs[i] \in ToSend(a)
                /\ ToSend(a) # {}
      PROVE  \E o \in TaskType, r \in Requested : Outcome(o, r)
  <2>. DEFINE o == [Handled(a) EXCEPT !.pc = "waiting", !.msgs = msgs, !.counts = counts, !.left = left]
  <2>1. o \in TaskType
    BY <1>5 DEF TaskType, Stages
  <2>2. /\ o.pc = "waiting" /\ o.msgs = msgs /\ o.counts = counts /\ o.left = left
        /\ o.ask = a /\ o.at = now /\ o.after = {m \in Tasks : task[m].pc = "done"}
        /\ o.next = 1 /\ o.took = 0
    BY DEF Handled, NewTask
  <2>3. task' = [task EXCEPT ![n] = o] /\ req' = [req EXCEPT ![a] = Answering]
    BY <1>9 DEF Queue
  <2>. HIDE DEF o
  <2>4. Taken(a, o, Answering)
    BY <1>9, <2>2 DEF Taken
  <2>. QED  BY <1>4, <2>1, <2>3, <2>4
<1>10. ASSUME Answers(a), Queue(n, a, <<NA>>, FALSE, "not_ready") \/ Queue(n, a, <<NA>>, FALSE, "app")
       PROVE  \E o \in TaskType, r \in Requested : Outcome(o, r)
  <2>1. <<NA>> \in Seq(Entries)
    BY DEF Entries
  <2>. QED  BY <1>9, <1>10, <2>1
<1>11. ASSUME Answers(a), Queue(n, a, Answer(a), TRUE, "app")
       PROVE  \E o \in TaskType, r \in Requested : Outcome(o, r)
  <2>1. Answer(a) \in Seq(Entries)
    <3>1. ItemsOf[a] \subseteq Entries
      BY ItemsOfRequest DEF Entries
    <3>2. <<NA>> \in Seq(Entries)
      BY DEF Entries
    <3>3. CASE Answer(a) = <<NA>>
      BY <3>2, <3>3
    <3>4. CASE Answer(a) \in Seq(ItemsOf[a])
      BY <3>1, <3>4, OfLarger
    <3>. QED  BY <3>3, <3>4, AnswerHolds
  <2>. QED  BY <1>9, <1>11, <2>1, AnswerHolds
<1>12. ASSUME Answers(a), KindOf[a] = "radar", task' = [task EXCEPT ![n] = [Handled(a) EXCEPT !.pc = "cutting"]],
              req' = [req EXCEPT ![a] = Answering]
       PROVE  \E o \in TaskType, r \in Requested : Outcome(o, r)
  <2>. DEFINE o == [Handled(a) EXCEPT !.pc = "cutting"]
  <2>1. o \in TaskType
    BY <1>5 DEF TaskType, Stages
  <2>2. /\ o.pc = "cutting" /\ o.left = "app" /\ o.ask = a /\ o.at = now
        /\ o.after = {m \in Tasks : task[m].pc = "done"} /\ o.next = 1 /\ o.took = 0
    BY DEF Handled, NewTask
  <2>3. task' = [task EXCEPT ![n] = o] /\ req' = [req EXCEPT ![a] = Answering]
    BY <1>12
  <2>. HIDE DEF o
  <2>4. Taken(a, o, Answering)
    BY <1>12, <2>2 DEF Taken
  <2>. QED  BY <1>4, <2>1, <2>3, <2>4
<1>13. CASE Answers(a) /\ ~Silent(n, a)
  <2>. HIDE DEF Outcome
  <2>1. Handle(n, a)
    BY <1>13 DEF Arrive
  <2>2. \/ Queue(n, a, <<NA>>, FALSE, "not_ready") \/ Queue(n, a, <<NA>>, FALSE, "app")
        \/ Queue(n, a, Answer(a), TRUE, "app")
        \/ /\ KindOf[a] = "radar" /\ task' = [task EXCEPT ![n] = [Handled(a) EXCEPT !.pc = "cutting"]]
           /\ req' = [req EXCEPT ![a] = Answering]
    BY <1>13, <2>1 DEF Handle
  <2>. QED  BY <1>13, <2>2, <1>10, <1>11, <1>12
<1>. QED  BY <1>7, <1>8, <1>13

\* A datagram's handler starts, or is over at once: a copy is only answered when
\* no answer is under way and the gap after the last one is over.
LEMMA ArriveAnswers ==
  ASSUME AnswerInv, NEW n \in Tasks, NEW a \in Requests, Arrive(n, a)
  PROVE  AnswerInv'
<1>0. Types /\ Staged
  BY DEF AnswerInv
<1>1. /\ task[n].pc = "new"
      /\ \A m \in Tasks : m < n => task[m].pc # "new"
      /\ UNCHANGED <<now, ready, spent, kept, stamp, level, lock, aired>>
      /\ last' \in [Phones -> Nat \union {Never}]
  BY <1>0, Arrival
<1>2. PICK o \in TaskType, r \in Requested :
         /\ task' = [task EXCEPT ![n] = o] /\ req' = [req EXCEPT ![a] = r]
         /\ Dropped(a, o, r) \/ Taken(a, o, r)
  BY <1>0, Arrival
<1>3. /\ task \in [Tasks -> TaskType] /\ req \in [Requests -> Requested] /\ now \in Nat
      /\ aired \subseteq [item : Entries, at : 0 .. now, task : Tasks]
  BY <1>0 DEF Types
<1>4. task'[n] = o /\ \A m \in Tasks : m # n => task'[m] = task[m]
  BY <1>2, <1>3
<1>5. o.pc \in {"done", "cutting", "waiting"}
  <2>1. CASE o = [NewTask EXCEPT !.pc = "done"]
    BY <2>1 DEF NewTask
  <2>2. CASE Taken(a, o, r)
    BY <2>2 DEF Taken
  <2>. QED  BY <1>2, <2>1, <2>2 DEF Dropped
<1>6. \A x \in aired : x.task \in Tasks /\ x.task # n /\ task'[x.task] = task[x.task]
  BY <1>1, <1>3, <1>4 DEF AnswerInv, SentBy
<1>7. Types'
  <2>1. task' \in [Tasks -> TaskType] /\ req' \in [Requests -> Requested]
    BY <1>2, <1>3
  <2>. QED  BY <1>0, <1>1, <2>1 DEF Types, Requested
<1>8. Staged'
  <2>1. StageOK(o)'
    <3>1. CASE o = [NewTask EXCEPT !.pc = "done"]
      BY <3>1 DEF NewTask, StageOK
    <3>2. CASE Taken(a, o, r)
      BY <1>1, <1>3, <3>2 DEF Taken, StageOK, MessagesOK
    <3>. QED  BY <1>2, <3>1, <3>2 DEF Dropped
  <2>2. lock # n
    BY <1>0, <1>1 DEF Staged
  <2>3. ASSUME NEW m \in Tasks, m # n PROVE StageOK(task[m])'
    <3>1. StageOK(task[m]) /\ task'[m] = task[m]
      BY <1>0, <1>4, <2>3 DEF Staged
    <3>. QED  BY <1>1, <3>1 DEF StageOK, MessagesOK
  <2>. QED  BY <1>0, <1>1, <1>4, <1>5, <2>1, <2>2, <2>3 DEF Staged
<1>9. InTurn'
  <2>. SUFFICES ASSUME NEW k \in Tasks, NEW m \in Tasks, m < k, task'[m].pc = "new"
                PROVE  task'[k].pc = "new"
    BY DEF InTurn
  <2>1. m # n /\ task[m].pc = "new"
    BY <1>4, <1>5
  <2>2. task[k].pc = "new"
    BY <2>1 DEF AnswerInv, InTurn
  <2>3. k # n
    BY <1>1, <2>1
  <2>. QED  BY <1>4, <2>2, <2>3
<1>10. Spaced'
  BY <1>1, <1>6 DEF AnswerInv, Spaced
<1>11. \A x \in aired' : SentBy(x)'
  BY <1>1, <1>6 DEF AnswerInv, SentBy
<1>12. ASSUME Answers(a), NEW x \in aired, task[x.task].ask = a, task[x.task].pc = "done",
              task[x.task].left = "app"
       PROVE  now - x.at >= CopyGap
  <2>1. OnRecord(x) /\ x.at \in Nat
    BY <1>3, <1>12 DEF AnswerInv
  <2>2. CASE now - x.at >= CopyGap
    BY <2>2
  <2>3. CASE req[a].state = "app" /\ req[a].done # Never /\ x.at <= req[a].done
    <3>1. now - req[a].done >= CopyGap
      BY <1>12, <2>3 DEF Answers
    <3>2. req[a].done \in Nat
      BY <1>3, <2>3 DEF Requested
    <3>. QED  BY <1>3, <2>1, <2>3, <3>1, <3>2
  <2>. QED  BY <1>12, <2>1, <2>2, <2>3 DEF OnRecord
<1>13. ASSUME NEW x \in aired PROVE OnRecord(x)'
  <2>. SUFFICES ASSUME task[x.task].pc = "done", task[x.task].left = "app"
                PROVE  \/ LET q == req'[task[x.task].ask]
                          IN q.state = "app" /\ q.done # Never /\ x.at <= q.done
                       \/ now - x.at >= CopyGap
    BY <1>1, <1>6 DEF OnRecord
  <2>1. task[x.task].ask \in Requests /\ OnRecord(x)
    BY DEF AnswerInv, SentBy
  <2>2. CASE req'[task[x.task].ask] = req[task[x.task].ask]
    BY <2>1, <2>2 DEF OnRecord
  <2>3. CASE task[x.task].ask = a /\ Answers(a)
    BY <1>12, <2>3
  <2>4. r = req[a] \/ Answers(a)
    BY <1>2 DEF Dropped, Taken
  <2>. QED  BY <1>2, <1>3, <2>1, <2>2, <2>3, <2>4
<1>14. ASSUME NEW m \in Tasks PROVE OneAnswer(m)'
  <2>. SUFFICES ASSUME UnderWay(m)'
                PROVE  /\ req'[task'[m].ask] = [state |-> "app", done |-> Never]
                       /\ \A k \in Tasks : k # m /\ UnderWay(k)' => task'[k].ask # task'[m].ask
                       /\ \A x \in aired : x.task # m /\ task[x.task].ask = task'[m].ask =>
                            x.task < m /\ (task[x.task].left = "app" => now - x.at >= CopyGap)
    BY <1>1, <1>6 DEF OneAnswer
  <2>1. \A k \in Tasks : k # n => (UnderWay(k)' <=> UnderWay(k))
    BY <1>4 DEF UnderWay
  <2>2. UnderWay(n)' => Taken(a, o, r)
    BY <1>2, <1>4 DEF UnderWay, Dropped, NewTask
  <2>3. Answers(a) => req[a] # [state |-> "app", done |-> Never]
    BY DEF Answers
  <2>4. \A k \in Tasks : k # n /\ UnderWay(k) => task[k].ask \in Requests
                                                /\ req[task[k].ask] = [state |-> "app", done |-> Never]
    BY <1>0 DEF AnswerInv, OneAnswer, Staged, StageOK, UnderWay
  <2>5. CASE m = n
    <3>1. Answers(a) /\ o.ask = a /\ r = [state |-> "app", done |-> Never]
      BY <2>2, <2>5 DEF Taken
    <3>2. req'[a] = r
      BY <1>2, <1>3
    <3>3. \A k \in Tasks : k # n /\ UnderWay(k) => task[k].ask # a
      BY <2>3, <2>4, <3>1
    <3>4. ASSUME NEW x \in aired, x.task # n, task[x.task].ask = a
          PROVE  x.task < n /\ (task[x.task].left = "app" => now - x.at >= CopyGap)
      <4>1. task[x.task].pc \in {"sending", "done"} /\ x.task \in Tasks
        BY <1>6 DEF AnswerInv, SentBy
      <4>2. task[x.task].pc = "done"
        BY <3>3, <3>4, <4>1 DEF UnderWay
      <4>3. ~(n < x.task)
        BY <1>1, <4>1 DEF AnswerInv, InTurn
      <4>4. x.task \in Nat /\ n \in Nat
        BY <4>1
      <4>. QED  BY SMTT(30), <1>12, <3>1, <3>4, <4>2, <4>3, <4>4
    <3>. QED  BY <1>4, <2>1, <2>5, <3>1, <3>2, <3>3, <3>4
  <2>6. CASE m # n
    <3>1. UnderWay(m) /\ task'[m] = task[m] /\ OneAnswer(m)
      BY <1>4, <2>1, <2>6 DEF AnswerInv
    <3>2. r = req[a] \/ Answers(a)
      BY <1>2 DEF Dropped, Taken
    <3>3. task[m].ask \in Requests /\ (task[m].ask = a => ~Answers(a))
      BY <2>3, <2>4, <2>6, <3>1
    <3>4. req'[task[m].ask] = req[task[m].ask]
      BY <1>2, <1>3, <3>2, <3>3
    <3>5. UnderWay(n)' => task'[n].ask # task[m].ask
      BY <1>4, <2>2, <3>3 DEF Taken
    <3>. QED  BY <1>4, <2>1, <3>1, <3>4, <3>5 DEF OneAnswer
  <2>. QED  BY <2>5, <2>6
<1>. QED  BY <1>1, <1>7, <1>8, <1>9, <1>10, <1>11, <1>13, <1>14 DEF AnswerInv

\* While an answer goes on, and puts packets of its own on the air, there is no
\* other of the same request, and the ones before it are far enough.
LEMMA GoesOn ==
  ASSUME AnswerInv, NEW n \in Tasks, NEW o \in TaskType, task' = [task EXCEPT ![n] = o],
         UnderWay(n), o.pc \in {"cutting", "waiting", "sending"},
         o.ask = task[n].ask, o.left = task[n].left, UNCHANGED <<now, req>>,
         aired' \subseteq [item : Entries, at : 0 .. now, task : Tasks],
         \A y \in aired' : y \in aired \/ (y.task = n /\ y.at = now)
  PROVE  /\ InTurn' /\ Spaced' /\ \A x \in aired' : OnRecord(x)'
         /\ \A m \in Tasks : OneAnswer(m)'
<1>1. /\ task \in [Tasks -> TaskType] /\ now \in Nat
      /\ aired \subseteq [item : Entries, at : 0 .. now, task : Tasks]
  BY DEF AnswerInv, Types
<1>2. task'[n] = o /\ \A m \in Tasks : m # n => task'[m] = task[m]
  BY <1>1
<1>3. \A m \in Tasks : /\ task'[m].ask = task[m].ask /\ task'[m].left = task[m].left
                       /\ UnderWay(m)' <=> UnderWay(m)
                       /\ task'[m].pc = "new" <=> task[m].pc = "new"
                       /\ task'[m].pc = "done" <=> task[m].pc = "done"
  BY <1>2 DEF UnderWay
<1>4. \A x \in aired' : x.task \in Tasks /\ x.at \in Nat
  OBVIOUS
<1>5. InTurn'
  BY <1>3 DEF AnswerInv, InTurn
<1>6. Spaced'
  <2>. SUFFICES ASSUME NEW x \in aired', NEW y \in aired', x.task < y.task,
                       task[x.task].ask = task[y.task].ask, task[x.task].left = "app"
                PROVE  y.at - x.at >= CopyGap
    BY <1>3, <1>4 DEF Spaced
  <2>1. OneAnswer(n)
    BY DEF AnswerInv
  <2>2. x.task \in Nat /\ y.task \in Nat /\ n \in Nat
    BY <1>4
  <2>3. CASE x \in aired /\ y \in aired
    BY <2>3 DEF AnswerInv, Spaced
  <2>4. CASE x \in aired /\ y.task = n /\ y.at = now
    <3>1. x.task # n
      BY <2>2, <2>4
    <3>. QED  BY <2>1, <2>4, <3>1 DEF OneAnswer
  <2>5. CASE x.task = n /\ x.at = now /\ y \in aired
    <3>1. y.task # n
      BY <2>2, <2>5
    <3>2. y.task < n
      BY <2>1, <2>5, <3>1 DEF OneAnswer
    <3>. QED  BY <2>2, <2>5, <3>2
  <2>6. CASE x.task = n /\ y.task = n
    BY <2>2, <2>6
  <2>. QED  BY <2>3, <2>4, <2>5, <2>6
<1>7. \A x \in aired' : OnRecord(x)'
  <2>. SUFFICES ASSUME NEW x \in aired', task[x.task].pc = "done", task[x.task].left = "app"
                PROVE  \/ LET q == req[task[x.task].ask]
                          IN q.state = "app" /\ q.done # Never /\ x.at <= q.done
                       \/ now - x.at >= CopyGap
    BY <1>3, <1>4 DEF OnRecord
  <2>1. x \in aired
    BY DEF UnderWay
  <2>. QED  BY <2>1 DEF AnswerInv, OnRecord
<1>8. ASSUME NEW m \in Tasks PROVE OneAnswer(m)'
  <2>. SUFFICES ASSUME UnderWay(m)
                PROVE  /\ req[task[m].ask] = [state |-> "app", done |-> Never]
                       /\ \A k \in Tasks : k # m /\ UnderWay(k) => task[k].ask # task[m].ask
                       /\ \A x \in aired' : x.task # m /\ task[x.task].ask = task[m].ask =>
                            x.task < m /\ (task[x.task].left = "app" => now - x.at >= CopyGap)
    BY <1>3, <1>4 DEF OneAnswer
  <2>1. OneAnswer(m)
    BY DEF AnswerInv
  <2>2. \A x \in aired' : x.task # m /\ task[x.task].ask = task[m].ask => x \in aired
    BY <2>1 DEF OneAnswer
  <2>. QED  BY <2>1, <2>2 DEF OneAnswer
<1>. QED  BY <1>5, <1>6, <1>7, <1>8

\* The handler's own stage, the others as they were.
LEMMA OthersStay ==
  ASSUME Types, Staged, NEW n \in Tasks, NEW o \in TaskType, task' = [task EXCEPT ![n] = o],
         now' = now, StageOK(o),
         lock' = lock \/ (lock = NoTask /\ lock' = n) \/ (lock = n /\ lock' = NoTask),
         (lock' = n) = (o.pc = "sending")
  PROVE  Staged'
<1>1. task \in [Tasks -> TaskType] /\ n # NoTask
  BY DEF Types
<1>2. task'[n] = o /\ \A m \in Tasks : m # n => task'[m] = task[m]
  BY <1>1
<1>3. StageOK(o)'
  BY DEF StageOK, MessagesOK
<1>4. ASSUME NEW m \in Tasks, m # n PROVE StageOK(task[m])' /\ ((lock' = m) = (task'[m].pc = "sending"))
  <2>1. StageOK(task[m]) /\ task'[m] = task[m] /\ ((lock = m) = (task[m].pc = "sending")) /\ m # NoTask
    BY <1>2, <1>4 DEF Staged
  <2>2. StageOK(task[m])'
    BY <2>1 DEF StageOK, MessagesOK
  <2>3. (lock' = m) = (lock = m)
    BY <1>4, <2>1
  <2>. QED  BY <2>1, <2>2, <2>3
<1>. QED  BY <1>2, <1>3, <1>4 DEF Staged

\* The tiles are cut, and the answer waits.
LEMMA CutAnswers == ASSUME AnswerInv, NEW n \in Tasks, Cut(n) PROVE AnswerInv'
<1>0. Types /\ Staged /\ StageOK(task[n])
  BY DEF AnswerInv, Staged
<1>. DEFINE o == [task[n] EXCEPT !.pc = "waiting", !.msgs = Answer(task[n].ask), !.counts = TRUE]
<1>1. task[n] \in TaskType /\ task[n].pc = "cutting" /\ task[n].ask \in Requests
  BY <1>0 DEF Cut, Types, StageOK
<1>2. Answer(task[n].ask) = <<NA>> \/ Answer(task[n].ask) \in Seq(ItemsOf[task[n].ask]) \ {<<>>}
  BY <1>1, AnswerHolds
<1>3. Answer(task[n].ask) \in Seq(Entries)
  <2>1. ItemsOf[task[n].ask] \subseteq Entries
    BY <1>1, ItemsOfRequest DEF Entries
  <2>2. <<NA>> \in Seq(Entries)
    BY DEF Entries
  <2>3. CASE Answer(task[n].ask) \in Seq(ItemsOf[task[n].ask])
    BY <2>1, <2>3, OfLarger
  <2>. QED  BY <1>2, <2>2, <2>3
<1>4. o \in TaskType
  BY <1>1, <1>3 DEF TaskType, Stages
<1>5. task' = [task EXCEPT ![n] = o] /\ UNCHANGED <<now, ready, last, spent, kept, stamp, level, req, lock, aired>>
  BY DEF Cut
<1>6. /\ o.pc = "waiting" /\ o.ask = task[n].ask /\ o.left = task[n].left /\ o.at = task[n].at
      /\ o.next = task[n].next /\ o.took = task[n].took /\ o.counts /\ o.msgs = Answer(task[n].ask)
  BY <1>1 DEF TaskType
<1>7. aired \subseteq [item : Entries, at : 0 .. now, task : Tasks]
  BY <1>0 DEF Types
<1>. HIDE DEF o
<1>8. /\ InTurn' /\ Spaced' /\ \A x \in aired' : OnRecord(x)'
      /\ \A m \in Tasks : OneAnswer(m)'
  BY <1>1, <1>4, <1>5, <1>6, <1>7, GoesOn DEF UnderWay
<1>9. Staged'
  <2>1. StageOK(o)
    BY <1>0, <1>1, <1>2, <1>6 DEF StageOK, MessagesOK
  <2>2. lock # n
    BY <1>0, <1>1 DEF Staged
  <2>. QED  BY <1>0, <1>4, <1>5, <1>6, <2>1, <2>2, OthersStay
<1>10. Types'
  <2>1. task' \in [Tasks -> TaskType]
    BY <1>0, <1>4, <1>5 DEF Types
  <2>. QED  BY <1>0, <1>5, <2>1 DEF Types, Requested
<1>11. ASSUME NEW x \in aired PROVE SentBy(x)'
  <2>1. SentBy(x) /\ x.task \in Tasks
    BY <1>7 DEF AnswerInv
  <2>2. x.task # n
    BY <1>1, <2>1 DEF SentBy
  <2>3. task'[x.task] = task[x.task]
    BY <1>0, <1>5, <2>1, <2>2 DEF Types
  <2>. QED  BY <1>5, <2>1, <2>3 DEF SentBy
<1>. QED  BY <1>5, <1>8, <1>9, <1>10, <1>11 DEF AnswerInv

\* The batch before is over, and this one begins.
LEMMA BeginAnswers == ASSUME AnswerInv, NEW n \in Tasks, Begin(n) PROVE AnswerInv'
<1>0. Types /\ Staged /\ StageOK(task[n])
  BY DEF AnswerInv, Staged
<1>. DEFINE o == [task[n] EXCEPT !.pc = "sending"]
<1>1. task[n] \in TaskType /\ task[n].pc = "waiting" /\ lock = NoTask
  BY <1>0 DEF Begin, Types
<1>4. o \in TaskType
  BY <1>1 DEF TaskType, Stages
<1>5. task' = [task EXCEPT ![n] = o] /\ lock' = n /\ UNCHANGED <<now, ready, last, spent, kept, stamp, level, req, aired>>
  BY <1>1 DEF Begin
<1>6. /\ o.pc = "sending" /\ o.ask = task[n].ask /\ o.left = task[n].left /\ o.at = task[n].at
      /\ o.next = task[n].next /\ o.took = task[n].took /\ o.counts = task[n].counts /\ o.msgs = task[n].msgs
  BY <1>1 DEF TaskType
<1>7. aired \subseteq [item : Entries, at : 0 .. now, task : Tasks]
  BY <1>0 DEF Types
<1>. HIDE DEF o
<1>8. /\ InTurn' /\ Spaced' /\ \A x \in aired' : OnRecord(x)'
      /\ \A m \in Tasks : OneAnswer(m)'
  BY <1>1, <1>4, <1>5, <1>6, <1>7, GoesOn DEF UnderWay
<1>9. Staged'
  <2>1. StageOK(o)
    <3>1. MessagesOK(o) /\ Len(o.msgs) \in Nat
      BY <1>0, <1>1, <1>6 DEF StageOK, MessagesOK
    <3>. QED  BY <1>0, <1>1, <1>6, <3>1 DEF StageOK
  <2>. QED  BY <1>0, <1>1, <1>4, <1>5, <1>6, <2>1, OthersStay
<1>10. Types'
  <2>1. task' \in [Tasks -> TaskType]
    BY <1>0, <1>4, <1>5 DEF Types
  <2>. QED  BY <1>0, <1>5, <2>1 DEF Types, Requested
<1>11. ASSUME NEW x \in aired PROVE SentBy(x)'
  <2>1. SentBy(x) /\ x.task \in Tasks
    BY <1>7 DEF AnswerInv
  <2>2. x.task # n
    BY <1>1, <2>1 DEF SentBy
  <2>3. task'[x.task] = task[x.task]
    BY <1>0, <1>5, <2>1, <2>2 DEF Types
  <2>. QED  BY <1>5, <2>1, <2>3 DEF SentBy
<1>. QED  BY <1>5, <1>8, <1>9, <1>10, <1>11 DEF AnswerInv

\* "Not available" is no item.
LEMMA RealItems == ASSUME NEW a \in Requests PROVE ItemsOf[a] \subseteq Nat \ {NA}
OBVIOUS

\* What the handler that sends has left, and what goes out next.
LEMMA NextPacket ==
  ASSUME Types, NEW n \in Tasks, StageOK(task[n]), task[n].pc = "sending"
  PROVE  /\ task[n] \in TaskType /\ task[n].ask \in Requests /\ Len(task[n].msgs) \in Nat
         /\ More(n) => /\ task[n].next \in 1 .. Len(task[n].msgs)
                       /\ task[n].msgs[task[n].next] \in Entries
                       /\ task[n].msgs[task[n].next] # NA =>
                            /\ task[n].msgs[task[n].next] \in ItemsOf[task[n].ask]
                            /\ task[n].counts /\ task[n].left = "app" /\ task[n].msgs # <<NA>>
                       /\ task[n].msgs[task[n].next] = NA => task[n].msgs = <<NA>>
<1>. DEFINE t == task[n]
<1>1. t \in TaskType /\ t.ask \in Requests /\ t.next \in Nat \ {0} /\ t.msgs \in Seq(Entries)
  BY DEF Types, StageOK, TaskType
<1>2. Len(t.msgs) \in Nat /\ (More(n) => t.next \in 1 .. Len(t.msgs))
  BY <1>1 DEF More
<1>3. More(n) => t.msgs[t.next] \in Entries
  BY <1>1, <1>2
<1>4. CASE t.msgs = <<NA>>
  <2>1. More(n) => t.next = 1 /\ t.msgs[1] = NA
    BY <1>2, <1>4
  <2>. QED  BY <1>1, <1>2, <1>3, <1>4, <2>1
<1>5. CASE t.msgs \in Seq(ItemsOf[t.ask]) /\ t.counts /\ t.left = "app" /\ t.msgs # <<NA>>
  <2>1. More(n) => t.msgs[t.next] \in ItemsOf[t.ask]
    BY <1>1, <1>2, <1>5
  <2>2. ItemsOf[t.ask] \subseteq Nat \ {NA}
    BY <1>1, RealItems
  <2>3. More(n) => t.msgs[t.next] # NA
    BY <2>1, <2>2
  <2>. QED  BY <1>1, <1>2, <1>3, <1>5, <2>1, <2>3
<1>6. MessagesOK(t)
  BY DEF StageOK
<1>. QED  BY <1>4, <1>5, <1>6 DEF MessagesOK

\* A packet goes out, or is refused.
LEMMA SendAnswers == ASSUME AnswerInv, NEW n \in Tasks, NEW taken \in BOOLEAN, Send(n, taken) PROVE AnswerInv'
<1>0. Types /\ Staged /\ StageOK(task[n])
  BY DEF AnswerInv, Staged
<1>. DEFINE one == IF taken THEN 1 ELSE 0
            o == [task[n] EXCEPT !.next = @ + 1, !.took = @ + one]
            item == task[n].msgs[task[n].next]
            packet == [item |-> item, at |-> now, task |-> n]
<1>1. task[n].pc = "sending" /\ More(n)
  BY DEF Send
<1>2. /\ task[n] \in TaskType /\ task[n].ask \in Requests /\ Len(task[n].msgs) \in Nat
      /\ task[n].next \in 1 .. Len(task[n].msgs) /\ item \in Entries
      /\ item # NA => /\ item \in ItemsOf[task[n].ask] /\ task[n].counts /\ task[n].left = "app"
                      /\ task[n].msgs # <<NA>>
      /\ item = NA => task[n].msgs = <<NA>>
  BY <1>0, <1>1, NextPacket
<1>3. one \in {0, 1}
  OBVIOUS
<1>. HIDE DEF one, item
<1>4. o \in TaskType
  <2>1. task[n].next + 1 \in Nat \ {0} /\ task[n].took + one \in Nat
    BY SMTT(30), <1>2, <1>3 DEF TaskType
  <2>2. o = [task[n] EXCEPT !.next = task[n].next + 1, !.took = task[n].took + one]
    OBVIOUS
  <2>. QED  BY <1>2, <2>1, <2>2 DEF TaskType
<1>5. /\ task' = [task EXCEPT ![n] = o]
      /\ aired' = IF taken THEN aired \union {packet} ELSE aired
      /\ UNCHANGED <<now, ready, last, spent, stamp, level, req, lock>>
  BY DEF Send, one, item
<1>6. /\ o.pc = "sending" /\ o.ask = task[n].ask /\ o.left = task[n].left /\ o.at = task[n].at
      /\ o.next = task[n].next + 1 /\ o.took = task[n].took + one
      /\ o.counts = task[n].counts /\ o.msgs = task[n].msgs
  BY <1>1, <1>2 DEF TaskType
<1>7. aired \subseteq [item : Entries, at : 0 .. now, task : Tasks] /\ now \in Nat
  BY <1>0 DEF Types
<1>8. packet \in [item : Entries, at : 0 .. now, task : Tasks]
  BY <1>2, <1>7
<1>9. aired' \subseteq [item : Entries, at : 0 .. now, task : Tasks]
  BY <1>5, <1>7, <1>8
<1>. HIDE DEF o
<1>10. /\ InTurn' /\ Spaced' /\ \A x \in aired' : OnRecord(x)'
       /\ \A m \in Tasks : OneAnswer(m)'
  <2>1. \A y \in aired' : y \in aired \/ (y.task = n /\ y.at = now)
    BY <1>5
  <2>. QED  BY <1>1, <1>4, <1>5, <1>6, <1>9, <2>1, GoesOn DEF UnderWay
<1>11. Staged'
  <2>1. o.took < o.next /\ o.next <= Len(o.msgs) + 1
    BY SMTT(30), <1>0, <1>1, <1>2, <1>3, <1>6 DEF StageOK, TaskType
  <2>2. StageOK(o)
    BY <1>0, <1>1, <1>6, <2>1 DEF StageOK, MessagesOK
  <2>3. lock = n
    BY <1>0, <1>1 DEF Staged
  <2>. QED  BY <1>0, <1>4, <1>5, <1>6, <2>2, <2>3, OthersStay
<1>12. Types'
  <2>1. task' \in [Tasks -> TaskType]
    BY <1>0, <1>4, <1>5 DEF Types
  <2>2. kept' \subseteq Items
    <3>1. kept \subseteq Items
      BY <1>0 DEF Types
    <3>2. item # NA => item \in Items
      BY <1>2, ItemsOfRequest
    <3>3. kept' = kept \/ (kept' = kept \union {item} /\ item # NA)
      BY DEF Send, item
    <3>. QED  BY <3>1, <3>2, <3>3
  <2>. QED  BY <1>0, <1>5, <1>9, <2>1, <2>2 DEF Types, Requested
<1>13. ASSUME NEW x \in aired' PROVE SentBy(x)'
  <2>1. task'[n] = o /\ \A m \in Tasks : m # n => task'[m] = task[m]
    BY <1>0, <1>5 DEF Types
  <2>2. task[n].took \in Nat /\ o.took \in Nat
    BY <1>2, <1>4 DEF TaskType
  <2>3. CASE x \in aired
    <3>1. SentBy(x) /\ x.task \in Tasks
      BY <1>7, <2>3 DEF AnswerInv
    <3>2. CASE x.task # n
      BY <1>5, <2>1, <3>1, <3>2 DEF SentBy
    <3>3. CASE x.task = n
      <4>1. o.took > 0
        BY <1>1, <1>3, <1>6, <2>2, <3>1, <3>3 DEF SentBy
      <4>. QED  BY <1>1, <1>5, <1>6, <2>1, <3>1, <3>3, <4>1 DEF SentBy
    <3>. QED  BY <3>2, <3>3
  <2>4. CASE x = packet /\ taken
    <3>1. o.took > 0
      BY <1>6, <2>2, <2>4 DEF one
    <3>2. x.task = n /\ x.at = now /\ x.item = item
      BY <2>4
    <3>. QED  BY <1>2, <1>5, <1>6, <2>1, <3>1, <3>2 DEF SentBy
  <2>. QED  BY <1>5, <2>3, <2>4
<1>. QED  BY <1>10, <1>11, <1>12, <1>13 DEF AnswerInv

\* The batch is over: what is on record is now, and nothing before it was nearer.
LEMMA FinishAnswers == ASSUME AnswerInv, NEW n \in Tasks, Finish(n) PROVE AnswerInv'
<1>. DEFINE t == task[n]
            o == [NewTask EXCEPT !.pc = "done", !.ask = t.ask, !.left = t.left, !.after = t.after]
            r == [state |-> t.left, done |-> IF t.left = "app" THEN now ELSE Never]
<1>0. Types /\ Staged /\ StageOK(t) /\ OneAnswer(n)
  BY DEF AnswerInv, Staged
<1>1. t.pc = "sending" /\ lock = n
  BY <1>0 DEF Finish, Staged
<1>2. /\ t \in TaskType /\ t.ask \in Requests /\ Len(t.msgs) \in Nat /\ now \in Nat
      /\ aired \subseteq [item : Entries, at : 0 .. now, task : Tasks]
  BY <1>0, <1>1, NextPacket DEF Types
<1>3. /\ task' = [task EXCEPT ![n] = o] /\ req' = [req EXCEPT ![t.ask] = r] /\ lock' = NoTask
      /\ spent' = (IF t.counts THEN spent + t.took ELSE spent)
      /\ stamp' = (IF t.counts THEN Started(n) ELSE stamp)
      /\ level' = (IF t.counts THEN Levels(n) ELSE level)
      /\ UNCHANGED <<now, ready, last, kept, aired>>
  BY DEF Finish
<1>4. o.pc = "done" /\ o.ask = t.ask /\ o.left = t.left /\ o.took = 0 /\ o.next = 1
  BY DEF NewTask
<1>5. o \in TaskType
  <2>1. <<>> \in Seq(Entries) /\ t.left \in {"app", "not_ready"} /\ t.after \in SUBSET Tasks
    BY <1>2 DEF TaskType
  <2>2. [NewTask EXCEPT !.pc = "done"] \in TaskType
    BY NewTaskType DEF TaskType, Stages
  <2>. QED  BY <1>2, <2>1, <2>2 DEF TaskType
<1>6. r \in Requested
  BY <1>2 DEF TaskType, Requested
<1>. HIDE DEF o
<1>7. task'[n] = o /\ \A m \in Tasks : m # n => task'[m] = task[m]
  BY <1>0, <1>3 DEF Types
<1>8. \A m \in Tasks : task'[m].ask = task[m].ask /\ task'[m].left = task[m].left
  BY <1>4, <1>7
<1>9. Staged'
  <2>1. StageOK(o)
    BY <1>4 DEF StageOK
  <2>. QED  BY <1>0, <1>1, <1>3, <1>4, <1>5, <2>1, OthersStay
<1>10. stamp' \in [Windowed -> [Places -> (0 .. now) \union {Never}]]
  <2>1. stamp \in [Windowed -> [Places -> (0 .. now) \union {Never}]] /\ t.at \in 0 .. now
    BY <1>0, <1>1, <1>2 DEF Types, StageOK, TaskType
  <2>2. ASSUME NEW kind \in Windowed, NEW items, NEW at \in 0 .. now
        PROVE  Stamp(kind, items, at) \in [Windowed -> [Places -> (0 .. now) \union {Never}]]
    BY <2>1, <2>2 DEF Stamp, Places
  <2>3. {"part", "sweep", "radar"} \subseteq Windowed /\ now \in 0 .. now
    BY <1>2 DEF Windowed
  <2>4. KindOf[t.ask] \in {"text", "part", "sweep", "radar"}
    BY <1>2 DEF Windowed
  <2>5. Started(n) \in [Windowed -> [Places -> (0 .. now) \union {Never}]]
    BY <2>1, <2>2, <2>3, <2>4 DEF Started
  <2>. QED  BY <1>3, <2>1, <2>5
<1>11. Types'
  <2>0. level' \in [Ground -> BOOLEAN]
    <3>1. level \in [Ground -> BOOLEAN]
      BY <1>0 DEF Types
    <3>2. Levels(n) \in [Ground -> BOOLEAN]
      <4>. DEFINE swept == IF t.took = 0 \/ t.msgs = <<NA>> \/ KindOf[t.ask] # "sweep" THEN {} ELSE Swept(t.ask)
                  one(g) == IF g \in swept THEN t.ask \in Advisories ELSE level[g]
      <4>1. Levels(n) = [g \in Ground |-> one(g)]
        BY DEF Levels
      <4>2. \A g \in Ground : one(g) \in BOOLEAN
        <5>. SUFFICES ASSUME NEW g \in Ground PROVE one(g) \in BOOLEAN
          OBVIOUS
        <5>0. level[g] \in BOOLEAN
          BY <3>1
        <5>1. (t.ask \in Advisories) \in BOOLEAN
          OBVIOUS
        <5>. HIDE DEF swept
        <5>2. CASE g \in swept
          BY Zenon, <5>1, <5>2
        <5>3. CASE g \notin swept
          BY Zenon, <5>0, <5>3
        <5>. QED  BY <5>2, <5>3
      <4>. HIDE DEF one
      <4>. QED  BY <4>1, <4>2
    <3>. QED  BY <1>3, <3>1, <3>2
  <2>1. task' \in [Tasks -> TaskType] /\ req' \in [Requests -> Requested]
    BY <1>0, <1>3, <1>5, <1>6 DEF Types
  <2>2. spent' \in Nat
    BY <1>0, <1>2, <1>3 DEF Types, TaskType
  <2>. QED  BY <1>0, <1>3, <1>10, <2>0, <2>1, <2>2 DEF Types, Requested
<1>12. InTurn'
  BY <1>1, <1>4, <1>7 DEF AnswerInv, InTurn
<1>13. Spaced'
  BY <1>2, <1>3, <1>8 DEF AnswerInv, Spaced
<1>14. ASSUME NEW x \in aired PROVE SentBy(x)'
  <2>1. SentBy(x) /\ x.task \in Tasks
    BY <1>2 DEF AnswerInv
  <2>. QED  BY <1>3, <1>4, <1>7, <1>8, <2>1 DEF SentBy
<1>15. ASSUME NEW x \in aired PROVE OnRecord(x)'
  <2>. DEFINE a == task[x.task].ask
  <2>1. SentBy(x) /\ OnRecord(x) /\ x.task \in Tasks /\ x.at \in 0 .. now
    BY <1>2 DEF AnswerInv
  <2>. SUFFICES ASSUME task'[x.task].pc = "done", task[x.task].left = "app"
                PROVE  \/ req'[a].state = "app" /\ req'[a].done # Never /\ x.at <= req'[a].done
                       \/ now - x.at >= CopyGap
    BY <1>3, <1>8, <2>1 DEF OnRecord
  <2>2. a \in Requests
    BY <2>1 DEF SentBy
  <2>3. CASE x.task = n
    <3>1. x.at = now /\ req'[a] = [state |-> "app", done |-> now]
      BY <1>0, <1>1, <1>2, <1>3, <2>1, <2>3 DEF SentBy, Types
    <3>2. now # Never
      BY <1>2 DEF Never
    <3>. QED  BY <1>2, <3>1, <3>2
  <2>4. CASE x.task # n /\ a = t.ask
    <3>. QED  BY <1>0, <1>1, <2>4 DEF OneAnswer, UnderWay
  <2>5. CASE x.task # n /\ a # t.ask
    <3>1. task[x.task].pc = "done" /\ req'[a] = req[a]
      BY <1>0, <1>3, <1>7, <2>1, <2>2, <2>5 DEF Types
    <3>. QED  BY <2>1, <3>1 DEF OnRecord
  <2>. QED  BY <2>3, <2>4, <2>5
<1>16. ASSUME NEW m \in Tasks PROVE OneAnswer(m)'
  <2>1. \A k \in Tasks : UnderWay(k)' <=> (UnderWay(k) /\ k # n)
    BY <1>4, <1>7 DEF UnderWay
  <2>2. UnderWay(n) /\ OneAnswer(m)
    BY <1>1 DEF UnderWay, AnswerInv
  <2>3. UnderWay(m) /\ m # n => task[m].ask \in Requests /\ task[m].ask # t.ask
    BY <1>0, <2>2 DEF OneAnswer, Staged, StageOK, UnderWay
  <2>4. UnderWay(m) /\ m # n => req'[task[m].ask] = req[task[m].ask]
    BY <1>0, <1>3, <2>3 DEF Types
  <2>5. aired' = aired /\ now' = now /\ \A x \in aired : x.task \in Tasks
    BY <1>2, <1>3
  <2>. QED  BY <1>8, <2>1, <2>2, <2>4, <2>5 DEF OneAnswer
<1>. QED  BY <1>3, <1>9, <1>11, <1>12, <1>13, <1>14, <1>15, <1>16 DEF AnswerInv

\* Time passes between batches.
LEMMA TickAnswers == ASSUME AnswerInv, Tick PROVE AnswerInv'
<1>0. Types /\ Staged
  BY DEF AnswerInv
<1>1. now \in Nat /\ now' = now + 1 /\ now' \in 0 .. MaxTime /\ lock = NoTask
  BY <1>0 DEF Types, Tick
<1>2. UNCHANGED <<ready, last, spent, kept, stamp, level, req, task, lock, aired>>
  BY DEF Tick
<1>3. aired \subseteq [item : Entries, at : 0 .. now, task : Tasks]
  BY <1>0 DEF Types
<1>4. \A n \in Tasks : task[n].pc # "sending" /\ n # NoTask
  BY <1>0, <1>1 DEF Staged
<1>5. (0 .. now) \subseteq 0 .. now'
  BY <1>1
<1>6. Types'
  <2>1. Requested \subseteq Requested'
    BY <1>5 DEF Requested
  <2>2. stamp \in [Windowed -> [Places -> (0 .. now') \union {Never}]]
    BY <1>0, <1>5 DEF Types
  <2>3. aired \subseteq [item : Entries, at : 0 .. now', task : Tasks]
    BY <1>3, <1>5
  <2>4. req \in [Requests -> Requested']
    BY <1>0, <2>1 DEF Types
  <2>. QED  BY <1>0, <1>1, <1>2, <2>2, <2>3, <2>4 DEF Types
<1>7. ASSUME NEW n \in Tasks PROVE StageOK(task[n])' /\ (lock' = n) = (task'[n].pc = "sending")
  <2>1. StageOK(task[n]) /\ (lock = n) = (task[n].pc = "sending") /\ task[n].at \in Nat
    BY <1>0 DEF Staged, Types, TaskType
  <2>2. task[n].at <= now => task[n].at <= now'
    BY <1>1, <2>1
  <2>3. StageOK(task[n])'
    BY <1>2, <2>1, <2>2 DEF StageOK, MessagesOK
  <2>. QED  BY <1>2, <2>1, <2>3
<1>8. ASSUME NEW x \in aired, now - x.at >= CopyGap PROVE now' - x.at >= CopyGap
  BY <1>1, <1>3, <1>8
<1>9. ASSUME NEW x \in aired PROVE SentBy(x)' /\ OnRecord(x)'
  <2>1. SentBy(x) /\ OnRecord(x) /\ x.task \in Tasks
    BY <1>3 DEF AnswerInv
  <2>2. SentBy(x)'
    BY <1>2, <1>4, <2>1 DEF SentBy
  <2>3. OnRecord(x)'
    BY <1>2, <1>8, <2>1 DEF OnRecord
  <2>. QED  BY <2>2, <2>3
<1>10. ASSUME NEW n \in Tasks PROVE OneAnswer(n)'
  <2>1. OneAnswer(n) /\ aired' = aired
    BY <1>2 DEF AnswerInv
  <2>. QED  BY <1>2, <1>8, <2>1 DEF OneAnswer, UnderWay
<1>11. InTurn' /\ Spaced'
  BY <1>2 DEF AnswerInv, InTurn, Spaced
<1>. QED  BY <1>2, <1>6, <1>7, <1>9, <1>10, <1>11 DEF AnswerInv, Staged

\* The backlog of products is in, or nothing happens.
LEMMA RestAnswers ==
  ASSUME AnswerInv, ready' \in BOOLEAN, UNCHANGED <<now, last, spent, kept, stamp, level, req, task, lock, aired>>
  PROVE  AnswerInv'
<1>1. Types'
  BY DEF AnswerInv, Types, Requested
<1>2. Staged'
  <2>1. SUFFICES ASSUME NEW n \in Tasks
                 PROVE  StageOK(task[n])' /\ ((lock = n) = (task[n].pc = "sending"))'
    BY DEF Staged
  <2>2. StageOK(task[n]) /\ ((lock = n) = (task[n].pc = "sending"))
    BY DEF AnswerInv, Staged
  <2>3. StageOK(task[n])'
    BY <2>2 DEF StageOK, MessagesOK
  <2>. QED  BY <2>2, <2>3
<1>3. InTurn' /\ Spaced'
  BY DEF AnswerInv, InTurn, Spaced
<1>4. \A x \in aired' : SentBy(x)' /\ OnRecord(x)'
  BY DEF AnswerInv, SentBy, OnRecord
<1>5. \A n \in Tasks : OneAnswer(n)'
  BY DEF AnswerInv, OneAnswer, UnderWay
<1>. QED  BY <1>1, <1>2, <1>3, <1>4, <1>5 DEF AnswerInv

LEMMA NextAnswers == ASSUME AnswerInv, [Next]_vars PROVE AnswerInv'
<1>1. ASSUME NEW n \in Tasks, Work(n) PROVE AnswerInv'
  BY <1>1, CutAnswers, BeginAnswers, SendAnswers, FinishAnswers DEF Work
<1>2. ASSUME NEW n \in Tasks, NEW a \in Requests, Arrive(n, a) PROVE AnswerInv'
  BY <1>2, ArriveAnswers
<1>3. CASE BacklogIn
  BY <1>3, RestAnswers DEF BacklogIn
<1>4. CASE Tick
  BY <1>4, TickAnswers
<1>5. CASE UNCHANGED vars
  BY <1>5, RestAnswers DEF vars, AnswerInv, Types
<1>. QED  BY <1>1, <1>2, <1>3, <1>4, <1>5 DEF Next

LEMMA InitAnswers == ASSUME Init PROVE AnswerInv
<1>1. \A n \in Tasks : task[n] = NewTask
  BY DEF Init
<1>3. Types
  BY NewTaskType DEF Init, Types, Requested, Places
<1>4. Staged
  <2>1. NewTask.pc = "new"
    BY DEF NewTask
  <2>2. \A n \in Tasks : lock # n
    BY DEF Init
  <2>. QED  BY <1>1, <2>1, <2>2 DEF Staged, StageOK
<1>5. \A n \in Tasks : task[n].pc = "new" /\ ~UnderWay(n)
  BY <1>1 DEF NewTask, UnderWay
<1>6. aired = {}
  BY DEF Init
<1>. QED  BY <1>3, <1>4, <1>5, <1>6 DEF AnswerInv, InTurn, Spaced, OneAnswer

LEMMA AnswersKept == Spec => []AnswerInv
BY InitAnswers, NextAnswers, PTL DEF Spec

\* Every variable has its type, at every stage of a handler (TypeOK).
THEOREM AnswersAreTyped == Spec => []TypeOK
<1>1. AnswerInv => TypeOK
  <2>. SUFFICES ASSUME AnswerInv PROVE TypeOK
    OBVIOUS
  <2>0. Types /\ Staged
    BY DEF AnswerInv
  <2>1. stamp \in [Windowed -> [Items \union Ground -> Nat \union {Never}]]
    <3>1. stamp \in [Windowed -> [Places -> (0 .. now) \union {Never}]] /\ (0 .. now) \subseteq Nat
      BY <2>0 DEF Types
    <3>2. stamp \in [Windowed -> [Places -> Nat \union {Never}]]
      BY <3>1
    <3>. QED  BY <3>2 DEF Places
  <2>2. req \in [Requests -> [state : {"building", "app", "app_unanswered", "not_ready"},
                              done : Nat \union {Never}]]
    BY <2>0 DEF Types, Requested
  <2>3. ASSUME NEW n \in Tasks
        PROVE  /\ task[n].pc \in {"new", "cutting", "waiting", "sending", "done"}
               /\ task[n].pc \in {"waiting", "sending"} => task[n].msgs # <<>>
               /\ task[n].took < task[n].next /\ (lock = n) = (task[n].pc = "sending")
    <3>1. task[n] \in TaskType /\ StageOK(task[n]) /\ (lock = n) = (task[n].pc = "sending")
      BY <2>0 DEF Types, Staged
    <3>2. task[n].pc \in Stages
      BY <3>1 DEF TaskType
    <3>3. task[n].took < task[n].next
      BY <3>1, <3>2 DEF StageOK, Stages, NewTask
    <3>4. task[n].pc \in {"waiting", "sending"} => task[n].msgs # <<>>
      <4>1. <<NA>> # <<>>
        OBVIOUS
      <4>. QED  BY <3>1, <4>1 DEF StageOK, MessagesOK
    <3>. QED  BY <3>1, <3>2, <3>3, <3>4 DEF Stages
  <2>. QED  BY <2>0, <2>1, <2>2, <2>3 DEF Types, TypeOK
<1>. QED  BY <1>1, AnswersKept, PTL

\* A request has at most one answer under way, and is not answered again within
\* the gap after one that went out (AnsweredOnce).
THEOREM NoneIsAnsweredTwice == Spec => []AnsweredOnce
<1>1. AnswerInv => AnsweredOnce
  BY DEF AnswerInv, AnsweredOnce, OneAnswer, Spaced
<1>. QED  BY <1>1, AnswersKept, PTL

-----------------------------------------------------------------------------
(* The windows follow what went out *)

\* What a request covers for everyone, and asks about.
LEMMA Grounds ==
  ASSUME NEW a \in Requests
  PROVE  /\ Swept(a) \subseteq Ground /\ Asked(a) \subseteq Ground
         /\ CoveredBy(a) \subseteq Places /\ Ground \subseteq Places /\ Items \subseteq Places
         /\ a \in Advisories => KindOf[a] = "sweep"
<1>1. StatesOf[a] \subseteq States
  OBVIOUS
<1>2. Swept(a) \subseteq Ground /\ Asked(a) \subseteq Ground
  BY <1>1 DEF Swept, Asked, Ground
<1>3. Ground \subseteq Places /\ Items \subseteq Places
  BY DEF Places
<1>4. CoveredBy(a) \subseteq Places
  BY <1>2, <1>3, ItemsOfRequest DEF CoveredBy
<1>5. a \in Advisories => KindOf[a] = "sweep"
  OBVIOUS
<1>. QED  BY <1>2, <1>3, <1>4, <1>5

\* What came over a sweep stays over it.
LEMMA OverwrittenStays ==
  ASSUME NEW g, NEW x, NEW B, NEW C, Overwritten(g, x, B), B \subseteq C,
         \A z \in aired : z.task \in B => z \in aired' /\ task'[z.task].ask = task[z.task].ask
  PROVE  Overwritten(g, x, C)'
<1>1. PICK z \in aired : /\ z.task \in B /\ z.at >= x.at /\ z.item # NA
                         /\ KindOn(z) = "sweep" /\ g \in Covered(z) /\ AskOf(z) \notin Advisories
  BY DEF Overwritten
<1>2. z \in aired' /\ AskOf(z)' = AskOf(z) /\ z.task \in C
  BY <1>1 DEF AskOf
<1>3. KindOn(z)' = KindOn(z) /\ Covered(z)' = Covered(z)
  BY <1>2 DEF KindOn, Covered
<1>. QED  BY <1>1, <1>2, <1>3 DEF Overwritten

\* What was open stays so, while the handlers before it are those it follows.
LEMMA OpenStays ==
  ASSUME Types, NEW n \in Tasks, NEW item, Open(item, n), now' \in Nat, now <= now',
         task'[n].after = task[n].after, task'[n].ask = task[n].ask, aired \subseteq aired',
         \A y \in aired' : y.task \in task[n].after =>
           y \in aired /\ task'[y.task].ask = task[y.task].ask
  PROVE  Open(item, n)'
<1>. SUFFICES ASSUME NEW x \in aired', x.task \in task[n].after,
                     CoveredFor(task[n].ask, item, x)', KindOn(x)' \in {"part", "sweep"}
              PROVE  \/ now' - x.at >= Window[KindOn(x)']
                     \/ task[n].ask \in Advisories /\ Overwritten(item, x, task[n].after)'
  BY DEF Open, CoveredFor
<1>1. x \in aired /\ AskOf(x)' = AskOf(x)
  BY DEF AskOf
<1>2. KindOn(x)' = KindOn(x) /\ Covered(x)' = Covered(x)
  BY <1>1 DEF KindOn, Covered
<1>3. CoveredFor(task[n].ask, item, x)
  BY <1>1, <1>2 DEF CoveredFor
<1>4. CASE now - x.at >= Window[KindOn(x)]
  <2>1. now \in Nat /\ x.at \in Nat /\ Window[KindOn(x)] \in Int
    BY <1>1, <1>2 DEF Types, Windowed
  <2>. QED  BY <1>2, <1>4, <2>1
<1>5. CASE task[n].ask \in Advisories /\ Overwritten(item, x, task[n].after)
  <2>1. \A z \in aired : z.task \in task[n].after =>
          z \in aired' /\ task'[z.task].ask = task[z.task].ask
    OBVIOUS
  <2>. QED  BY <1>5, <2>1, OverwrittenStays
<1>. QED  BY <1>1, <1>2, <1>3, <1>4, <1>5 DEF Open

\* What waits is as it was, for a handler that a step leaves alone.
LEMMA WaitStays ==
  ASSUME Types, NEW n \in Tasks, WaitsOpen(n), now' \in Nat, now <= now', kept \subseteq kept',
         aired \subseteq aired',
         task'[n].pc \in {"waiting", "sending"} => task[n].pc \in {"waiting", "sending"},
         task'[n].msgs = task[n].msgs, task'[n].after = task[n].after, task'[n].ask = task[n].ask,
         \A y \in aired' : y.task \in task[n].after =>
           y \in aired /\ task'[y.task].ask = task[y.task].ask
  PROVE  WaitsOpen(n)'
<1>. SUFFICES ASSUME task'[n].pc \in {"waiting", "sending"}, task[n].msgs # <<NA>>
              PROVE  /\ KindOf[task[n].ask] = "part" => \A i \in 1 .. Len(task[n].msgs) :
                          task[n].msgs[i] \in kept' /\ Open(task[n].msgs[i], n)'
                     /\ KindOf[task[n].ask] = "sweep" => \E g \in Asked(task[n].ask) : Open(g, n)'
  BY DEF WaitsOpen
<1>1. \A item : Open(item, n) => Open(item, n)'
  BY OpenStays
<1>. QED  BY <1>1 DEF WaitsOpen

\* What was open when it went out was.
LEMMA SentStays ==
  ASSUME NEW y, SentOpen(y), task'[y.task].ask = task[y.task].ask, task'[y.task].after = task[y.task].after,
         aired \subseteq aired',
         \A x \in aired' : x.task \in task[y.task].after =>
           x \in aired /\ task'[x.task].ask = task[x.task].ask
  PROVE  SentOpen(y)'
<1>1. KindOn(y)' = KindOn(y) /\ AskOf(y)' = AskOf(y)
  BY DEF KindOn, AskOf
<1>2. ASSUME NEW item, WasOpen(item, y) PROVE WasOpen(item, y)'
  <2>. SUFFICES ASSUME NEW x \in aired', x.task \in task[y.task].after, CoveredFor(AskOf(y), item, x)'
                PROVE  \/ y.at - x.at >= Window[KindOn(y)]
                       \/ AskOf(y) \in Advisories /\ Overwritten(item, x, task[y.task].after)'
    BY <1>1 DEF WasOpen
  <2>1. x \in aired /\ AskOf(x)' = AskOf(x)
    BY DEF AskOf
  <2>2. KindOn(x)' = KindOn(x) /\ Covered(x)' = Covered(x)
    BY <2>1 DEF KindOn, Covered
  <2>3. CoveredFor(AskOf(y), item, x)
    BY <1>1, <2>1, <2>2 DEF CoveredFor
  <2>4. \A z \in aired : z.task \in task[y.task].after =>
          z \in aired' /\ task'[z.task].ask = task[z.task].ask
    OBVIOUS
  <2>. QED  BY <1>2, <2>1, <2>3, <2>4, OverwrittenStays DEF WasOpen
<1>. QED  BY <1>1, <1>2 DEF SentOpen

\* What may be sent is outside the window of all that is over, or something of
\* less came over that.
LEMMA NotFresh ==
  ASSUME Types, NEW x \in aired, Stamped(x), task[x.task].pc = "done",
         NEW a \in Requests, KindOf[a] \in {"part", "sweep"}, NEW i \in Places, CoveredFor(a, i, x),
         ~Fresh(KindOf[a], i) \/ (KindOf[a] = "sweep" /\ ~Covers(a, i))
  PROVE  now - x.at >= Window[KindOn(x)] \/ (a \in Advisories /\ Overwritten(i, x, Done))
<1>. DEFINE k == KindOn(x)
<1>1. k = KindOf[a] /\ x.item # NA /\ i \in Covered(x) /\ (a \in Advisories => AskOf(x) \in Advisories)
  BY DEF CoveredFor
<1>2. k \in {"part", "sweep"} /\ k \in Windowed
  BY <1>1 DEF Windowed
<1>3. /\ stamp[k][i] >= x.at
      /\ AskOf(x) \in Advisories => level[i] \/ Overwritten(i, x, Done)
  BY <1>1, <1>2 DEF Stamped
<1>. HIDE DEF k
<1>4. CASE ~Fresh(k, i)
  <2>1. now \in Nat /\ x.at \in Nat /\ Window[k] \in Int /\ stamp[k][i] \in Int
    BY <1>2 DEF Types, Never
  <2>2. ~(now - stamp[k][i] < Window[k])
    BY <1>4 DEF Fresh
  <2>3. now - x.at >= Window[k]
    BY <1>3, <2>1, <2>2
  <2>. QED  BY <2>3 DEF k
<1>5. CASE Fresh(k, i)
  <2>1. k = "sweep" /\ a \in Advisories /\ ~level[i]
    BY <1>1, <1>5 DEF Covers
  <2>. QED  BY <1>1, <1>3, <2>1
<1>. QED  BY <1>4, <1>5

\* A step of one handler leaves what the others wait for, and what went out, as
\* it was: nobody follows a handler that is not done.
LEMMA OthersWait ==
  ASSUME WindowInv, NEW n \in Tasks, NEW o \in TaskType, task' = [task EXCEPT ![n] = o],
         task[n].pc # "done", now' = now, kept \subseteq kept', aired \subseteq aired',
         \A y \in aired' : y \in aired \/ y.task = n,
         \/ o.ask = task[n].ask /\ o.after = task[n].after
         \/ task[n].pc = "new" /\ \A m \in o.after : task[m].pc = "done"
  PROVE  /\ Follows' /\ \A m \in Tasks : m # n => WaitsOpen(m)'
         /\ \A x \in aired : /\ IsKept(x)' /\ SentOpen(x)'
                             /\ task'[x.task].ask = task[x.task].ask /\ KindOn(x)' = KindOn(x)
         /\ \A m \in Tasks : task[m].pc = "done" => task'[m].pc = "done"
<1>0. Types
  BY DEF WindowInv, AnswerInv
<1>1. /\ task \in [Tasks -> TaskType] /\ now \in Nat
      /\ aired \subseteq [item : Entries, at : 0 .. now, task : Tasks]
  BY <1>0 DEF Types
<1>2. task'[n] = o /\ \A m \in Tasks : m # n => task'[m] = task[m]
  BY <1>1
<1>3. \A m \in Tasks : /\ task[m].after \subseteq Tasks /\ n \notin task[m].after
                       /\ \A k \in task[m].after : task[k].pc = "done"
  BY <1>1 DEF WindowInv, Follows, TaskType
<1>4. \A x \in aired : /\ x.task \in Tasks /\ task'[x.task].ask = task[x.task].ask
                       /\ task'[x.task].after = task[x.task].after
  BY <1>1, <1>2 DEF WindowInv, AnswerInv, SentBy
<1>5. \A m \in Tasks : \A y \in aired' : y.task \in task[m].after =>
        y \in aired /\ task'[y.task].ask = task[y.task].ask
  BY <1>3, <1>4
<1>6. Follows'
  <2>. SUFFICES ASSUME NEW m \in Tasks, NEW k \in task'[m].after PROVE task'[k].pc = "done"
    BY DEF Follows
  <2>0. o.after \subseteq Tasks
    BY DEF TaskType
  <2>1. task[k].pc = "done" /\ k \in Tasks /\ k # n
    <3>1. CASE m # n
      BY <1>2, <1>3, <3>1
    <3>2. CASE m = n /\ o.after = task[n].after
      BY <1>2, <1>3, <3>2
    <3>3. CASE m = n /\ \A j \in o.after : task[j].pc = "done"
      BY <1>2, <2>0, <3>3
    <3>. QED  BY <3>1, <3>2, <3>3
  <2>. QED  BY <1>2, <2>1
<1>7. ASSUME NEW m \in Tasks, m # n PROVE WaitsOpen(m)'
  <2>1. WaitsOpen(m) /\ task'[m] = task[m] /\ now' \in Nat /\ now <= now'
    BY <1>1, <1>2, <1>7 DEF WindowInv
  <2>. QED  BY <1>0, <1>5, <2>1, WaitStays
<1>8. ASSUME NEW x \in aired PROVE IsKept(x)' /\ SentOpen(x)' /\ KindOn(x)' = KindOn(x)
  <2>1. IsKept(x) /\ SentOpen(x)
    BY DEF WindowInv
  <2>2. SentOpen(x)'
    BY <1>4, <1>5, <2>1, SentStays
  <2>. QED  BY <1>4, <2>1, <2>2 DEF IsKept, KindOn, AskOf
<1>9. \A m \in Tasks : task[m].pc = "done" => task'[m].pc = "done"
  BY <1>2
<1>. QED  BY <1>4, <1>6, <1>7, <1>8, <1>9

\* What came over a sweep, of the batches that are over, stays over it.
LEMMA OverwrittenGrows ==
  ASSUME NEW g, NEW x, Overwritten(g, x, Done), aired \subseteq aired',
         \A z \in aired : task'[z.task].ask = task[z.task].ask,
         \A m \in Tasks : task[m].pc = "done" => task'[m].pc = "done"
  PROVE  Overwritten(g, x, Done)'
<1>1. PICK z \in aired : /\ z.task \in Done /\ z.at >= x.at /\ z.item # NA
                         /\ KindOn(z) = "sweep" /\ g \in Covered(z) /\ AskOf(z) \notin Advisories
  BY DEF Overwritten
<1>2. z \in aired' /\ AskOf(z)' = AskOf(z) /\ z.task \in Done'
  BY <1>1 DEF AskOf, Done
<1>3. KindOn(z)' = KindOn(z) /\ Covered(z)' = Covered(z)
  BY <1>2 DEF KindOn, Covered
<1>. QED  BY <1>1, <1>2, <1>3 DEF Overwritten

\* Windows that no step started or ended.
LEMMA WindowsStay ==
  ASSUME WindowInv, stamp' = stamp, level' = level, aired \subseteq aired',
         \A x \in aired : task'[x.task].ask = task[x.task].ask,
         \A m \in Tasks : task[m].pc = "done" => task'[m].pc = "done"
  PROVE  /\ Began'
         /\ \A x \in aired : (task'[x.task].pc = "done" => task[x.task].pc = "done") => Stamped(x)'
<1>1. \A x \in aired : AskOf(x)' = AskOf(x) /\ KindOn(x)' = KindOn(x) /\ Covered(x)' = Covered(x)
  BY DEF KindOn, AskOf, Covered
<1>2. Began'
  <2>. SUFFICES ASSUME NEW k \in Windowed, NEW i \in Places, stamp[k][i] # Never
                PROVE  \E x \in aired' : /\ KindOn(x)' = k /\ i \in CoveredBy(AskOf(x)')
                                         /\ stamp[k][i] <= x.at
    BY DEF Began, CoveredBy, Swept
  <2>1. PICK x \in aired : KindOn(x) = k /\ i \in CoveredBy(AskOf(x)) /\ stamp[k][i] <= x.at
    BY DEF WindowInv, Began
  <2>. QED  BY <1>1, <2>1
<1>3. ASSUME NEW x \in aired, task'[x.task].pc = "done" => task[x.task].pc = "done" PROVE Stamped(x)'
  <2>1. Stamped(x)
    BY DEF WindowInv
  <2>4. \A i : Overwritten(i, x, Done) => Overwritten(i, x, Done)'
    BY OverwrittenGrows
  <2>. QED  BY <1>1, <1>3, <2>1, <2>4 DEF Stamped
<1>. QED  BY <1>2, <1>3

\* A handler starts: what it is to send again is open.
LEMMA ArriveWindows ==
  ASSUME WindowInv, NEW n \in Tasks, NEW a \in Requests, Arrive(n, a)
  PROVE  WindowInv'
<1>0. AnswerInv /\ Types /\ Staged
  BY DEF WindowInv, AnswerInv
<1>1. /\ task[n].pc = "new"
      /\ UNCHANGED <<now, ready, spent, kept, stamp, level, lock, aired>>
  BY <1>0, Arrival
<1>2. PICK o \in TaskType, r \in Requested :
         /\ task' = [task EXCEPT ![n] = o] /\ req' = [req EXCEPT ![a] = r]
         /\ Dropped(a, o, r) \/ Taken(a, o, r)
  BY <1>0, Arrival
<1>3. /\ task \in [Tasks -> TaskType] /\ now \in Nat
      /\ aired \subseteq [item : Entries, at : 0 .. now, task : Tasks]
  BY <1>0 DEF Types
<1>4. task'[n] = o /\ \A m \in Tasks : m # n => task'[m] = task[m]
  BY <1>2, <1>3
<1>5. \A x \in aired : x.task \in Tasks /\ x.task # n /\ task'[x.task] = task[x.task]
  BY <1>0, <1>1, <1>3, <1>4 DEF AnswerInv, SentBy
<1>6. /\ o.after \subseteq {m \in Tasks : task[m].pc = "done"} /\ o.pc # "sending"
      /\ o.pc = "waiting" => Taken(a, o, r)
  <2>1. CASE o = [NewTask EXCEPT !.pc = "done"]
    BY <2>1 DEF NewTask
  <2>2. CASE Taken(a, o, r)
    BY <2>2 DEF Taken
  <2>. QED  BY <1>2, <2>1, <2>2 DEF Dropped
<1>7. /\ Follows' /\ \A m \in Tasks : m # n => WaitsOpen(m)'
      /\ \A x \in aired : /\ IsKept(x)' /\ SentOpen(x)' /\ KindOn(x)' = KindOn(x)
                          /\ task'[x.task].ask = task[x.task].ask
      /\ \A m \in Tasks : task[m].pc = "done" => task'[m].pc = "done"
  BY <1>1, <1>2, <1>6, OthersWait
<1>8. Began' /\ \A x \in aired : Stamped(x)'
  BY <1>1, <1>5, <1>7, WindowsStay
<1>9. TookSome'
  BY <1>1, <1>4, <1>6 DEF WindowInv, TookSome
<1>10. WaitsOpen(n)'
  <2>. SUFFICES ASSUME o.pc = "waiting", o.msgs # <<NA>>
                PROVE  /\ KindOf[o.ask] = "part" => \A i \in 1 .. Len(o.msgs) :
                            o.msgs[i] \in kept /\ Open(o.msgs[i], n)'
                       /\ KindOf[o.ask] = "sweep" => \E g \in Asked(o.ask) : Open(g, n)'
    BY <1>1, <1>4, <1>6 DEF WaitsOpen
  <2>1. /\ o.ask = a /\ o.after = Done /\ ToSend(a) # {}
        /\ \A i \in 1 .. Len(o.msgs) : o.msgs[i] \in ToSend(a)
    BY <1>6 DEF Taken, Done
  <2>2. ASSUME NEW i \in Places, KindOf[a] \in {"part", "sweep"},
               ~Fresh(KindOf[a], i) \/ (KindOf[a] = "sweep" /\ ~Covers(a, i))
        PROVE  Open(i, n)'
    <3>. SUFFICES ASSUME NEW x \in aired, x.task \in Done, CoveredFor(a, i, x)'
                  PROVE  \/ now - x.at >= Window[KindOn(x)']
                         \/ a \in Advisories /\ Overwritten(i, x, Done)'
      <4>1. task'[n].ask = a /\ task'[n].after = Done
        BY <1>4, <2>1
      <4>2. ASSUME NEW x \in aired, x.task \in Done, CoveredFor(a, i, x)', Overwritten(i, x, Done)'
            PROVE  Overwritten(i, x, task[n].after)'
        <5>1. Done \subseteq Done'
          BY <1>1, <1>2 DEF Done
        <5>2. \A z \in aired : z.task \in Done' => z.task \in Done
          BY <1>5 DEF Done
        <5>. QED  BY <1>1, <4>1, <4>2, <5>2 DEF Overwritten
      <4>. QED  BY <1>1, <4>1, <4>2 DEF Open
    <3>1. AskOf(x)' = AskOf(x) /\ KindOn(x)' = KindOn(x) /\ Covered(x)' = Covered(x)
      BY <1>5 DEF AskOf, KindOn, Covered
    <3>2. CoveredFor(a, i, x) /\ task[x.task].pc = "done" /\ Stamped(x)
      BY <3>1 DEF CoveredFor, Done, WindowInv
    <3>3. now - x.at >= Window[KindOn(x)] \/ (a \in Advisories /\ Overwritten(i, x, Done))
      BY <1>0, <2>2, <3>2, NotFresh
    <3>4. Overwritten(i, x, Done) => Overwritten(i, x, Done)'
      BY <1>1, <1>5, <1>7, OverwrittenGrows
    <3>. QED  BY <3>1, <3>3, <3>4
  <2>3. CASE KindOf[a] = "part"
    <3>1. \A i \in ToSend(a) : i \in Places /\ i \in kept /\ ~Fresh(KindOf[a], i)
      BY <2>3, ItemsOfRequest, Grounds DEF ToSend
    <3>. QED  BY <2>1, <2>2, <2>3, <3>1
  <2>4. CASE KindOf[a] = "sweep"
    <3>1. PICK g \in Asked(a) : ~Covers(a, g)
      BY <2>1, <2>4 DEF ToSend, Cooling
    <3>2. g \in Places
      BY Grounds
    <3>. QED  BY <2>1, <2>2, <2>4, <3>1, <3>2
  <2>. QED  BY <2>1, <2>3, <2>4
<1>11. AnswerInv'
  BY <1>0, ArriveAnswers
<1>. QED  BY <1>1, <1>7, <1>8, <1>9, <1>10, <1>11 DEF WindowInv

\* A radar answer is cut, or a batch begins: what waits is as it was.
LEMMA CutWindows == ASSUME WindowInv, NEW n \in Tasks, Cut(n) PROVE WindowInv'
<1>0. AnswerInv /\ Types /\ StageOK(task[n])
  BY DEF WindowInv, AnswerInv, Staged
<1>. DEFINE o == [task[n] EXCEPT !.pc = "waiting", !.msgs = Answer(task[n].ask), !.counts = TRUE]
<1>1. task[n] \in TaskType /\ task[n].pc = "cutting" /\ KindOf[task[n].ask] = "radar"
  BY <1>0 DEF Cut, Types, StageOK
<1>2. task' = [task EXCEPT ![n] = o] /\ UNCHANGED <<now, ready, last, spent, kept, stamp, level, req, lock, aired>>
  BY DEF Cut
<1>3. AnswerInv' /\ task \in [Tasks -> TaskType]
  BY <1>0, CutAnswers DEF Types
<1>4. o \in TaskType
  <2>1. task'[n] = o /\ task' \in [Tasks -> TaskType]
    BY <1>2, <1>3 DEF AnswerInv, Types
  <2>. QED  BY <2>1
<1>5. o.pc = "waiting" /\ o.ask = task[n].ask /\ o.after = task[n].after
  BY <1>1 DEF TaskType
<1>. HIDE DEF o
<1>6. task'[n] = o /\ \A m \in Tasks : m # n => task'[m] = task[m]
  BY <1>2, <1>3
<1>7. /\ Follows' /\ \A m \in Tasks : m # n => WaitsOpen(m)'
      /\ \A x \in aired : /\ IsKept(x)' /\ SentOpen(x)' /\ task'[x.task].ask = task[x.task].ask
      /\ \A m \in Tasks : task[m].pc = "done" => task'[m].pc = "done"
  BY <1>1, <1>2, <1>4, <1>5, OthersWait
<1>8. \A x \in aired : task'[x.task].pc = "done" => task[x.task].pc = "done"
  BY <1>0, <1>5, <1>6 DEF Types
<1>9. Began' /\ \A x \in aired : Stamped(x)'
  BY <1>2, <1>7, <1>8, WindowsStay
<1>10. TookSome'
  BY <1>2, <1>5, <1>6 DEF WindowInv, TookSome
<1>11. WaitsOpen(n)'
  BY <1>1, <1>5, <1>6 DEF WaitsOpen
<1>. QED  BY <1>2, <1>3, <1>7, <1>9, <1>10, <1>11 DEF WindowInv

LEMMA BeginWindows == ASSUME WindowInv, NEW n \in Tasks, Begin(n) PROVE WindowInv'
<1>0. AnswerInv /\ Types /\ StageOK(task[n])
  BY DEF WindowInv, AnswerInv, Staged
<1>. DEFINE o == [task[n] EXCEPT !.pc = "sending"]
<1>1. task[n] \in TaskType /\ task[n].pc = "waiting" /\ task[n].took = 0
  BY <1>0 DEF Begin, Types, StageOK
<1>2. task' = [task EXCEPT ![n] = o] /\ UNCHANGED <<now, ready, last, spent, kept, stamp, level, req, aired>>
  BY <1>1 DEF Begin
<1>3. AnswerInv' /\ task \in [Tasks -> TaskType] /\ now \in Nat
  BY <1>0, BeginAnswers DEF Types
<1>4. o \in TaskType
  BY <1>1 DEF TaskType, Stages
<1>5. /\ o.pc = "sending" /\ o.ask = task[n].ask /\ o.after = task[n].after /\ o.msgs = task[n].msgs
      /\ o.took = 0
  BY <1>1 DEF TaskType
<1>. HIDE DEF o
<1>6. task'[n] = o /\ \A m \in Tasks : m # n => task'[m] = task[m]
  BY <1>2, <1>3
<1>7. /\ Follows' /\ \A m \in Tasks : m # n => WaitsOpen(m)'
      /\ \A x \in aired : /\ IsKept(x)' /\ SentOpen(x)' /\ task'[x.task].ask = task[x.task].ask
      /\ \A m \in Tasks : task[m].pc = "done" => task'[m].pc = "done"
  BY <1>1, <1>2, <1>4, <1>5, OthersWait
<1>8. \A x \in aired : task'[x.task].pc = "done" => task[x.task].pc = "done"
  BY <1>0, <1>5, <1>6 DEF Types
<1>9. Began' /\ \A x \in aired : Stamped(x)'
  BY <1>2, <1>7, <1>8, WindowsStay
<1>10. TookSome'
  BY <1>2, <1>5, <1>6 DEF WindowInv, TookSome
<1>11. WaitsOpen(n)'
  <2>1. WaitsOpen(n) /\ now' \in Nat /\ now <= now'
    BY <1>2, <1>3 DEF WindowInv
  <2>2. \A y \in aired' : y.task \in task[n].after => y \in aired /\ task'[y.task].ask = task[y.task].ask
    BY <1>2, <1>7
  <2>. QED  BY <1>0, <1>1, <1>2, <1>5, <1>6, <2>1, <2>2, WaitStays
<1>. QED  BY <1>2, <1>3, <1>7, <1>9, <1>10, <1>11 DEF WindowInv

\* A packet goes out: it was open, and nothing it follows covered it since.
LEMMA SendWindows == ASSUME WindowInv, NEW n \in Tasks, NEW taken \in BOOLEAN, Send(n, taken) PROVE WindowInv'
<1>0. AnswerInv /\ Types /\ StageOK(task[n])
  BY DEF WindowInv, AnswerInv, Staged
<1>. DEFINE item == task[n].msgs[task[n].next]
            o == [task[n] EXCEPT !.next = @ + 1, !.took = @ + IF taken THEN 1 ELSE 0]
            packet == [item |-> item, at |-> now, task |-> n]
<1>1. task[n].pc = "sending" /\ More(n)
  BY DEF Send
<1>2. /\ task[n] \in TaskType /\ task[n].ask \in Requests
      /\ task[n].next \in 1 .. Len(task[n].msgs)
      /\ item # NA => item \in ItemsOf[task[n].ask] /\ task[n].msgs # <<NA>>
  BY <1>0, <1>1, NextPacket
<1>3. AnswerInv' /\ task \in [Tasks -> TaskType] /\ now \in Nat
  BY <1>0, SendAnswers DEF Types
<1>4. /\ task' = [task EXCEPT ![n] = o]
      /\ aired' = IF taken THEN aired \union {packet} ELSE aired
      /\ UNCHANGED <<now, ready, last, spent, stamp, level, req, lock>>
  BY DEF Send
<1>5. o \in TaskType
  <2>1. task'[n] = o /\ task' \in [Tasks -> TaskType]
    BY <1>3, <1>4 DEF AnswerInv, Types
  <2>. QED  BY <2>1
<1>6. /\ o.pc = "sending" /\ o.ask = task[n].ask /\ o.after = task[n].after /\ o.msgs = task[n].msgs
      /\ taken \/ o.took = task[n].took
  <2>1. task[n].took \in Nat
    BY <1>2 DEF TaskType
  <2>. QED  BY <1>1, <1>2, <2>1 DEF TaskType
<1>7. kept \subseteq kept'
  BY DEF Send
<1>. HIDE DEF o, item
<1>8. task'[n] = o /\ \A m \in Tasks : m # n => task'[m] = task[m]
  BY <1>3, <1>4
<1>9. packet.task = n /\ packet.item = item /\ packet.at = now
  OBVIOUS
<1>. HIDE DEF packet
<1>10. /\ aired \subseteq aired'
       /\ taken => \E y \in aired' : y.task = n
       /\ \A y \in aired' : y \in aired \/ (y.task = n /\ y.item = item /\ y.at = now)
  BY <1>4, <1>9
<1>11. /\ Follows' /\ \A m \in Tasks : m # n => WaitsOpen(m)'
       /\ \A x \in aired : /\ IsKept(x)' /\ SentOpen(x)' /\ task'[x.task].ask = task[x.task].ask
       /\ \A m \in Tasks : task[m].pc = "done" => task'[m].pc = "done"
  <2>1. \A y \in aired' : y \in aired \/ y.task = n
    BY <1>10
  <2>. QED  BY <1>1, <1>4, <1>5, <1>6, <1>7, <1>10, <2>1, OthersWait
<1>12. \A x \in aired : task'[x.task].pc = "done" => task[x.task].pc = "done"
  BY <1>0, <1>6, <1>8 DEF Types
<1>13. Began' /\ \A x \in aired : Stamped(x)'
  BY <1>4, <1>10, <1>11, <1>12, WindowsStay
<1>14. TookSome'
  <2>. SUFFICES ASSUME NEW m \in Tasks, task'[m].pc = "sending", task'[m].took > 0
                PROVE  \E x \in aired' : x.task = m
    BY DEF TookSome
  <2>1. CASE m = n /\ taken
    BY <1>10, <2>1
  <2>2. CASE m = n /\ o.took = task[n].took
    BY <1>1, <1>8, <1>10, <2>2 DEF WindowInv, TookSome
  <2>3. CASE m # n
    BY <1>8, <1>10, <2>3 DEF WindowInv, TookSome
  <2>. QED  BY <1>6, <2>1, <2>2, <2>3
<1>15. \A y \in aired' : y.task \in task[n].after => y \in aired /\ task'[y.task].ask = task[y.task].ask
  <2>1. n \notin task[n].after
    BY <1>1 DEF WindowInv, Follows
  <2>. QED  BY <1>10, <1>11, <2>1
<1>16. WaitsOpen(n)'
  <2>1. WaitsOpen(n) /\ now' \in Nat /\ now <= now'
    BY <1>3, <1>4 DEF WindowInv
  <2>. QED  BY <1>0, <1>1, <1>6, <1>7, <1>8, <1>10, <1>15, <2>1, WaitStays
<1>17. ASSUME NEW y \in aired', y \notin aired PROVE IsKept(y)' /\ Stamped(y)' /\ SentOpen(y)'
  <2>0. y.task = n /\ y.item = item /\ y.at = now
    BY <1>10, <1>17
  <2>1. KindOn(y)' = KindOf[task[n].ask] /\ task'[y.task] = o
    BY <1>6, <1>8, <2>0 DEF KindOn, AskOf
  <2>2. Stamped(y)'
    BY <1>6, <2>1 DEF Stamped
  <2>. SUFFICES ASSUME y.item # NA
                PROVE  /\ KindOf[task[n].ask] = "part" => y.item \in kept' /\ WasOpen(y.item, y)'
                       /\ KindOf[task[n].ask] = "sweep" =>
                            \E i \in Asked(task[n].ask) : WasOpen(i, y)'
    BY <1>6, <2>1, <2>2 DEF IsKept, SentOpen, AskOf
  <2>3. ASSUME NEW i, Open(i, n), KindOf[task[n].ask] \in {"part", "sweep"} PROVE WasOpen(i, y)'
    <3>1. Open(i, n)'
      BY <1>0, <1>3, <1>4, <1>6, <1>8, <1>10, <1>15, <2>3, OpenStays
    <3>2. task'[y.task] = task'[n] /\ AskOf(y)' = task[n].ask /\ y.at = now'
      BY <1>4, <1>6, <1>8, <2>0, <2>1 DEF AskOf
    <3>. SUFFICES ASSUME NEW x \in aired', x.task \in task'[y.task].after, CoveredFor(AskOf(y), i, x)'
                  PROVE  \/ y.at - x.at >= Window[KindOn(y)']
                         \/ AskOf(y)' \in Advisories /\ Overwritten(i, x, task[y.task].after)'
      BY DEF WasOpen
    <3>3. CoveredFor(task[n].ask, i, x)' /\ KindOn(x)' = KindOf[task[n].ask]
      BY <1>6, <1>8, <3>2 DEF CoveredFor
    <3>4. \/ now' - x.at >= Window[KindOn(x)']
          \/ task'[n].ask \in Advisories /\ Overwritten(i, x, task[n].after)'
      BY <2>3, <3>1, <3>2, <3>3 DEF Open
    <3>5. Overwritten(i, x, task[n].after)' => Overwritten(i, x, task[y.task].after)'
      BY <3>2 DEF Overwritten
    <3>. QED  BY <1>6, <1>8, <2>1, <3>2, <3>3, <3>4, <3>5
  <2>4. /\ KindOf[task[n].ask] = "part" => y.item \in kept /\ Open(y.item, n)
        /\ KindOf[task[n].ask] = "sweep" => \E i \in Asked(task[n].ask) : Open(i, n)
    <3>1. task[n].msgs # <<NA>> /\ WaitsOpen(n)
      BY <1>2, <2>0 DEF WindowInv
    <3>. QED  BY <1>1, <1>2, <2>0, <3>1 DEF WaitsOpen, item
  <2>5. CASE KindOf[task[n].ask] = "part"
    BY <1>7, <2>3, <2>4, <2>5
  <2>6. CASE KindOf[task[n].ask] = "sweep"
    BY <2>3, <2>4, <2>6
  <2>. QED  BY <2>5, <2>6
<1>18. \A x \in aired' : IsKept(x)' /\ Stamped(x)' /\ SentOpen(x)'
  BY <1>11, <1>13, <1>17
<1>. QED  BY <1>3, <1>11, <1>13, <1>14, <1>16, <1>18 DEF WindowInv

\* The first entries of a sequence are some of its entries.
LEMMA FirstOf ==
  ASSUME NEW S, NEW s, NEW k \in Nat, \A i \in 1 .. k : s[i] \in S
  PROVE  ToSet(SubSeq(s, 1, k)) \subseteq S
<1>1. ASSUME NEW q \in Seq(S) PROVE ToSet(q) \subseteq S
  BY DEF ToSet
<1>2. SubSeq(s, 1, k) \in Seq(S)
  BY SubSeqProperties
<1>. QED  BY <1>1, <1>2

\* The windows a batch starts: all that went out of it is covered as late, and
\* what runs begins with something that was taken.
LEMMA WindowsStarted ==
  ASSUME WindowInv, NEW n \in Tasks, Finish(n)
  PROVE  /\ \A k \in {"part", "sweep"}, i \in Places : stamp'[k][i] >= stamp[k][i]
         /\ \A x \in aired : x.task = n /\ x.item # NA /\ KindOn(x) \in {"part", "sweep"} =>
              \A i \in Covered(x) : /\ stamp'[KindOn(x)][i] >= x.at
                                    /\ AskOf(x) \in Advisories => level'[i]
         /\ \A k \in Windowed, i \in Places : stamp'[k][i] # stamp[k][i] =>
              \E x \in aired : /\ x.task = n /\ KindOn(x) = k /\ i \in CoveredBy(task[n].ask)
                               /\ stamp'[k][i] <= x.at
         /\ \A g \in Ground : level[g] /\ ~level'[g] =>
              \E z \in aired : /\ z.task = n /\ z.at = now /\ z.item # NA /\ KindOn(z) = "sweep"
                               /\ g \in Covered(z) /\ AskOf(z) \notin Advisories
<1>. DEFINE t == task[n]
            kind == KindOf[t.ask]
<1>0. AnswerInv /\ Types /\ Staged /\ StageOK(t)
  BY DEF WindowInv, AnswerInv, Staged
<1>1. t.pc = "sending" /\ t \in TaskType /\ t.ask \in Requests /\ Len(t.msgs) \in Nat /\ now \in Nat
  BY <1>0, NextPacket DEF Finish, Types
<1>2. stamp' = (IF t.counts THEN Started(n) ELSE stamp)
  BY DEF Finish
<1>3. /\ stamp \in [Windowed -> [Places -> (0 .. now) \union {Never}]]
      /\ aired \subseteq [item : Entries, at : 0 .. now, task : Tasks] /\ kept \subseteq Items
  BY <1>0 DEF Types
<1>4. \A x \in aired : x.task = n => /\ x.at = now /\ t.took > 0 /\ KindOn(x) = kind
                                     /\ x.item # NA => /\ t.counts /\ t.msgs # <<NA>>
                                                       /\ x.item \in ItemsOf[t.ask]
  BY <1>0, <1>1 DEF AnswerInv, SentBy, KindOn, AskOf
<1>5. kind \in {"text", "part", "sweep", "radar"} /\ {"part", "sweep", "radar"} = Windowed
  BY <1>1 DEF Windowed
<1>6. t.took > 0 => \E x \in aired : x.task = n
  BY <1>1 DEF WindowInv, TookSome
<1>7. t.took \in Nat /\ t.took <= Len(t.msgs) /\ t.at \in 0 .. now
  BY <1>0, <1>1 DEF StageOK, TaskType
<1>. DEFINE items == CASE kind = "part"  -> ItemsOf[t.ask] \intersect kept
                       [] kind = "sweep" -> Swept(t.ask)
                       [] kind = "radar" -> ToSet(SubSeq(t.msgs, 1, t.took))
            at == IF kind = "radar" THEN t.at ELSE now
            starts == t.counts /\ t.took # 0 /\ t.msgs # <<NA>> /\ kind # "text"
<1>8. stamp' = IF starts THEN Stamp(kind, items, at) ELSE stamp
  <2>1. CASE starts
    <3>1. kind = "part" => items = ItemsOf[t.ask] \intersect kept /\ at = now
      OBVIOUS
    <3>2. kind = "sweep" => items = Swept(t.ask) /\ at = now
      OBVIOUS
    <3>3. kind = "radar" => items = ToSet(SubSeq(t.msgs, 1, t.took)) /\ at = t.at
      OBVIOUS
    <3>. HIDE DEF items, at
    <3>4. kind = "part" => Started(n) = Stamp(kind, items, at)
      BY <2>1, <3>1 DEF Started
    <3>5. kind = "sweep" => Started(n) = Stamp(kind, items, at)
      BY <2>1, <3>2 DEF Started
    <3>6. kind = "radar" => Started(n) = Stamp(kind, items, at)
      BY <2>1, <3>3 DEF Started
    <3>. QED  BY <1>2, <1>5, <2>1, <3>4, <3>5, <3>6
  <2>2. CASE ~starts
    <3>1. t.counts => Started(n) = stamp
      BY <2>2 DEF Started
    <3>. QED  BY <1>2, <2>2, <3>1
  <2>. QED  BY <2>1, <2>2
<1>9. starts => items \subseteq CoveredBy(t.ask)
  <2>1. CASE kind = "radar" /\ starts
    <3>1. MessagesOK(t)
      BY <1>0, <1>1 DEF StageOK
    <3>2. t.msgs \in Seq(ItemsOf[t.ask])
      BY <2>1, <3>1 DEF MessagesOK
    <3>3. \A i \in 1 .. t.took : t.msgs[i] \in ItemsOf[t.ask]
      BY SMTT(30), <1>7, <3>2
    <3>4. ToSet(SubSeq(t.msgs, 1, t.took)) \subseteq ItemsOf[t.ask]
      <4>1. t.took \in Nat
        BY <1>7
      <4>2. \A S, q : (\A i \in 1 .. t.took : q[i] \in S) => ToSet(SubSeq(q, 1, t.took)) \subseteq S
        BY <4>1, FirstOf
      <4>. HIDE DEF t
      <4>. QED  BY Zenon, <3>3, <4>2
    <3>5. items = ToSet(SubSeq(t.msgs, 1, t.took)) /\ CoveredBy(t.ask) = ItemsOf[t.ask]
      BY <2>1 DEF CoveredBy
    <3>. QED  BY <3>4, <3>5
  <2>2. CASE kind # "radar" /\ starts
    BY <1>5, <2>2 DEF CoveredBy
  <2>. QED  BY <2>1, <2>2
<1>10. at \in 0 .. now
  BY <1>1, <1>7
<1>. HIDE DEF items, at
<1>11. starts => /\ \A k \in Windowed \ {kind} : stamp'[k] = stamp[k]
                 /\ \A i \in Places : stamp'[kind][i] = IF i \in items THEN at ELSE stamp[kind][i]
  BY <1>3, <1>5, <1>8 DEF Stamp, Places
<1>. HIDE DEF starts
<1>12. ASSUME NEW k \in {"part", "sweep"}, NEW i \in Places PROVE stamp'[k][i] >= stamp[k][i]
  <2>1. stamp[k][i] \in (0 .. now) \union {Never}
    BY <1>3, <1>5
  <2>2. stamp'[k][i] = stamp[k][i] \/ stamp'[k][i] = now
    BY <1>5, <1>8, <1>11 DEF at
  <2>. QED  BY <1>1, <2>1, <2>2 DEF Never
<1>13. ASSUME NEW x \in aired, x.task = n, x.item # NA, KindOn(x) \in {"part", "sweep"}
       PROVE  \A i \in Covered(x) : stamp'[KindOn(x)][i] >= x.at
  <2>1. starts /\ x.at = now /\ KindOn(x) = kind /\ x.item \in ItemsOf[t.ask]
    BY <1>1, <1>4, <1>5, <1>7, <1>13 DEF starts
  <2>2. Covered(x) \subseteq items
    <3>1. CASE kind = "part"
      <4>1. x.item \in kept
        BY <1>13, <2>1, <3>1 DEF WindowInv, IsKept
      <4>. QED  BY <2>1, <3>1, <4>1 DEF Covered, items
    <3>2. CASE kind = "sweep"
      BY <1>13, <2>1, <3>2 DEF Covered, items, KindOn, AskOf
    <3>. QED  BY <1>13, <2>1, <3>1, <3>2
  <2>3. items \subseteq Places
    BY <1>1, <1>9, <2>1, Grounds
  <2>4. at = now
    BY <1>13, <2>1 DEF at
  <2>. QED  BY <1>1, <1>11, <2>1, <2>2, <2>3, <2>4
<1>14. ASSUME NEW k \in Windowed, NEW i \in Places, stamp'[k][i] # stamp[k][i]
       PROVE  \E x \in aired : /\ x.task = n /\ KindOn(x) = k /\ i \in CoveredBy(t.ask)
                               /\ stamp'[k][i] <= x.at
  <2>1. starts /\ k = kind /\ i \in items /\ stamp'[k][i] = at
    BY <1>8, <1>11, <1>14
  <2>2. PICK x \in aired : x.task = n
    BY <1>6, <1>7, <2>1 DEF starts
  <2>3. x.at = now /\ KindOn(x) = kind
    BY <1>4, <2>2
  <2>. QED  BY <1>9, <1>10, <2>1, <2>2, <2>3
<1>. DEFINE swept == IF t.took = 0 \/ t.msgs = <<NA>> \/ kind # "sweep" THEN {} ELSE Swept(t.ask)
<1>15. level' = IF t.counts THEN [g \in Ground |-> IF g \in swept THEN t.ask \in Advisories ELSE level[g]]
                ELSE level
  BY DEF Finish, Levels
<1>16. ASSUME NEW x \in aired, x.task = n, x.item # NA, KindOn(x) \in {"part", "sweep"},
              AskOf(x) \in Advisories, NEW i \in Covered(x)
       PROVE  level'[i]
  <2>1. AskOf(x) = t.ask /\ t.counts /\ t.took > 0 /\ t.msgs # <<NA>> /\ KindOn(x) = kind
    BY <1>4, <1>16 DEF AskOf
  <2>2. kind = "sweep"
    BY <1>1, <1>16, <2>1, Grounds
  <2>3. i \in swept /\ i \in Ground
    BY <1>1, <1>7, <1>16, <2>1, <2>2, Grounds DEF Covered
  <2>. HIDE DEF swept
  <2>. QED  BY <1>15, <1>16, <2>1, <2>3
<1>17. ASSUME NEW g \in Ground, level[g], ~level'[g]
       PROVE  \E z \in aired : /\ z.task = n /\ z.at = now /\ z.item # NA /\ KindOn(z) = "sweep"
                               /\ g \in Covered(z) /\ AskOf(z) \notin Advisories
  <2>1. t.counts /\ g \in swept /\ t.ask \notin Advisories
    <3>. HIDE DEF swept
    <3>. QED  BY <1>15, <1>17
  <2>2. t.took # 0 /\ t.msgs # <<NA>> /\ kind = "sweep" /\ g \in Swept(t.ask)
    BY <2>1
  <2>3. PICK z \in aired : z.task = n
    BY <1>6, <1>7, <2>2
  <2>4. z.at = now /\ z.item # NA /\ KindOn(z) = kind /\ AskOf(z) = t.ask
    BY <1>0, <1>1, <1>4, <2>2, <2>3 DEF AnswerInv, SentBy, AskOf
  <2>. QED  BY <2>1, <2>2, <2>3, <2>4 DEF Covered
<1>. QED  BY <1>12, <1>13, <1>14, <1>16, <1>17

\* A batch is over: what went out of it is stamped, and its windows begin with it.
LEMMA FinishWindows == ASSUME WindowInv, NEW n \in Tasks, Finish(n) PROVE WindowInv'
<1>. DEFINE t == task[n]
            o == [NewTask EXCEPT !.pc = "done", !.ask = t.ask, !.left = t.left, !.after = t.after]
<1>0. AnswerInv /\ Types /\ StageOK(t)
  BY DEF WindowInv, AnswerInv, Staged
<1>1. /\ t.pc = "sending" /\ t \in TaskType /\ t.ask \in Requests /\ now \in Nat
      /\ aired \subseteq [item : Entries, at : 0 .. now, task : Tasks]
      /\ stamp \in [Windowed -> [Places -> (0 .. now) \union {Never}]]
  BY <1>0, NextPacket DEF Finish, Types
<1>2. task' = [task EXCEPT ![n] = o] /\ UNCHANGED <<now, kept, aired>>
  BY DEF Finish
<1>3. AnswerInv' /\ task \in [Tasks -> TaskType]
  BY <1>0, FinishAnswers DEF Types
<1>4. o \in TaskType
  <2>1. task'[n] = o /\ task' \in [Tasks -> TaskType]
    BY <1>2, <1>3 DEF AnswerInv, Types
  <2>. QED  BY <2>1
<1>5. o.pc = "done" /\ o.ask = t.ask /\ o.after = t.after
  BY DEF NewTask
<1>. HIDE DEF o
<1>6. task'[n] = o /\ \A m \in Tasks : m # n => task'[m] = task[m]
  BY <1>2, <1>3
<1>7. /\ Follows' /\ \A m \in Tasks : m # n => WaitsOpen(m)'
      /\ \A x \in aired : /\ IsKept(x)' /\ SentOpen(x)' /\ task'[x.task].ask = task[x.task].ask
                          /\ KindOn(x)' = KindOn(x)
      /\ \A m \in Tasks : task[m].pc = "done" => task'[m].pc = "done"
  BY <1>1, <1>2, <1>4, <1>5, OthersWait
<1>8. /\ \A k \in {"part", "sweep"}, i \in Places : stamp'[k][i] >= stamp[k][i]
      /\ \A x \in aired : x.task = n /\ x.item # NA /\ KindOn(x) \in {"part", "sweep"} =>
           \A i \in Covered(x) : /\ stamp'[KindOn(x)][i] >= x.at
                                 /\ AskOf(x) \in Advisories => level'[i]
      /\ \A k \in Windowed, i \in Places : stamp'[k][i] # stamp[k][i] =>
           \E x \in aired : /\ x.task = n /\ KindOn(x) = k /\ i \in CoveredBy(t.ask)
                            /\ stamp'[k][i] <= x.at
      /\ \A g \in Ground : level[g] /\ ~level'[g] =>
           \E z \in aired : /\ z.task = n /\ z.at = now /\ z.item # NA /\ KindOn(z) = "sweep"
                            /\ g \in Covered(z) /\ AskOf(z) \notin Advisories
  BY WindowsStarted
<1>9. ASSUME NEW x \in aired PROVE Stamped(x)'
  <2>. DEFINE k == KindOn(x)
  <2>1. Covered(x)' = Covered(x) /\ k' = k /\ AskOf(x)' = AskOf(x)
    BY <1>7 DEF Covered, AskOf
  <2>. SUFFICES ASSUME x.item # NA, task'[x.task].pc = "done", k \in {"part", "sweep"},
                       NEW i \in Covered(x)
                PROVE  /\ stamp'[k][i] >= x.at
                       /\ AskOf(x) \in Advisories => level'[i] \/ Overwritten(i, x, Done)'
    BY <2>1 DEF Stamped
  <2>2. CASE x.task = n
    BY <1>8, <2>2
  <2>3. CASE x.task # n
    <3>1. x.task \in Tasks /\ x.at \in 0 .. now /\ task'[x.task] = task[x.task]
      BY <1>1, <1>6, <2>3
    <3>2. Stamped(x) /\ SentBy(x)
      BY DEF WindowInv, AnswerInv
    <3>3. stamp[k][i] >= x.at /\ (AskOf(x) \in Advisories => level[i] \/ Overwritten(i, x, Done))
      BY <3>1, <3>2 DEF Stamped
    <3>4. i \in Places /\ (AskOf(x) \in Advisories => i \in Ground)
      BY <3>2, ItemsOfRequest, Grounds DEF SentBy, Covered, AskOf, KindOn
    <3>5. stamp[k][i] \in Int /\ stamp'[k][i] \in Int /\ stamp'[k][i] >= stamp[k][i]
      <4>1. k \in Windowed
        BY DEF Windowed
      <4>2. stamp' \in [Windowed -> [Places -> (0 .. now') \union {Never}]] /\ now' = now
        BY <1>2, <1>3 DEF AnswerInv, Types
      <4>3. stamp[k][i] \in (0 .. now) \union {Never} /\ stamp'[k][i] \in (0 .. now) \union {Never}
        BY <1>1, <3>4, <4>1, <4>2
      <4>. HIDE DEF k
      <4>. QED  BY <1>1, <1>8, <3>4, <4>3 DEF Never
    <3>6. x.at \in Int
      BY <1>1, <3>1
    <3>7. ASSUME AskOf(x) \in Advisories, ~level'[i] PROVE Overwritten(i, x, Done)'
      <4>1. CASE Overwritten(i, x, Done)
        BY <1>2, <1>7, <4>1, OverwrittenGrows
      <4>2. CASE level[i]
        <5>1. PICK z \in aired : /\ z.task = n /\ z.at = now /\ z.item # NA /\ KindOn(z) = "sweep"
                                 /\ i \in Covered(z) /\ AskOf(z) \notin Advisories
          BY <1>8, <3>4, <3>7, <4>2
        <5>2. z.task \in Done' /\ z.at >= x.at
          BY <1>1, <1>5, <1>6, <3>1, <5>1 DEF Done
        <5>3. AskOf(z)' = AskOf(z) /\ KindOn(z)' = KindOn(z) /\ Covered(z)' = Covered(z)
          BY <1>7 DEF AskOf, KindOn, Covered
        <5>. QED  BY <1>2, <5>1, <5>2, <5>3 DEF Overwritten
      <4>. QED  BY <3>3, <3>7, <4>1, <4>2
    <3>. HIDE DEF k
    <3>. QED  BY <3>3, <3>5, <3>6, <3>7
  <2>. QED  BY <2>2, <2>3
<1>10. Began'
  <2>. SUFFICES ASSUME NEW k \in Windowed, NEW i \in Places, stamp'[k][i] # Never
                PROVE  \E x \in aired' : /\ KindOn(x)' = k /\ i \in CoveredBy(AskOf(x)')
                                         /\ stamp'[k][i] <= x.at
    BY DEF Began, CoveredBy, Swept
  <2>0. \A x \in aired : AskOf(x)' = AskOf(x)
    BY <1>7 DEF AskOf
  <2>1. CASE stamp'[k][i] = stamp[k][i]
    <3>1. PICK x \in aired : KindOn(x) = k /\ i \in CoveredBy(AskOf(x)) /\ stamp[k][i] <= x.at
      BY <2>1 DEF WindowInv, Began
    <3>. QED  BY <1>2, <1>7, <2>0, <2>1, <3>1
  <2>2. CASE stamp'[k][i] # stamp[k][i]
    <3>1. PICK x \in aired : /\ x.task = n /\ KindOn(x) = k /\ i \in CoveredBy(t.ask)
                             /\ stamp'[k][i] <= x.at
      BY <1>8, <2>2
    <3>. QED  BY <1>2, <1>7, <2>0, <3>1 DEF AskOf
  <2>. QED  BY <2>1, <2>2
<1>11. TookSome'
  BY <1>2, <1>5, <1>6 DEF WindowInv, TookSome
<1>12. WaitsOpen(n)'
  BY <1>5, <1>6 DEF WaitsOpen
<1>. QED  BY <1>2, <1>3, <1>7, <1>9, <1>10, <1>11, <1>12 DEF WindowInv

\* Time passes, the backlog comes in, or nothing happens.
LEMMA RestWindows ==
  ASSUME WindowInv, AnswerInv', now' \in Nat, now <= now', UNCHANGED <<kept, stamp, level, task, aired>>
  PROVE  WindowInv'
<1>0. Types /\ Follows
  BY DEF WindowInv, AnswerInv
<1>1. /\ Follows' /\ Began' /\ TookSome'
      /\ \A x \in aired' : IsKept(x)' /\ Stamped(x)'
  <2>1. Done' = Done
    BY DEF Done
  <2>. QED  BY <2>1 DEF WindowInv, Follows, Began, TookSome, IsKept, Stamped, KindOn, AskOf, Covered, Overwritten
<1>2. ASSUME NEW y \in aired PROVE SentOpen(y)'
  BY SentStays DEF WindowInv
<1>3. ASSUME NEW n \in Tasks PROVE WaitsOpen(n)'
  <2>1. WaitsOpen(n) /\ kept \subseteq kept'
    BY DEF WindowInv
  <2>. QED  BY <1>0, <2>1, WaitStays
<1>. QED  BY <1>1, <1>2, <1>3 DEF WindowInv

LEMMA NextWindows == ASSUME WindowInv, [Next]_vars PROVE WindowInv'
<1>0. AnswerInv /\ AnswerInv' /\ now \in Nat
  BY NextAnswers DEF WindowInv, AnswerInv, Types
<1>1. ASSUME NEW n \in Tasks, Work(n) PROVE WindowInv'
  BY <1>1, CutWindows, BeginWindows, SendWindows, FinishWindows DEF Work
<1>2. ASSUME NEW n \in Tasks, NEW a \in Requests, Arrive(n, a) PROVE WindowInv'
  BY <1>2, ArriveWindows
<1>3. CASE BacklogIn
  BY <1>0, <1>3, RestWindows DEF BacklogIn
<1>4. CASE Tick
  <2>1. now' \in Nat /\ now <= now'
    BY <1>0, <1>4 DEF Tick
  <2>. QED  BY <1>0, <1>4, <2>1, RestWindows DEF Tick
<1>5. CASE UNCHANGED vars
  BY <1>0, <1>5, RestWindows DEF vars
<1>. QED  BY <1>1, <1>2, <1>3, <1>4, <1>5 DEF Next

LEMMA InitWindows == ASSUME Init PROVE WindowInv
<1>1. aired = {} /\ \A n \in Tasks : task[n] = NewTask
  BY DEF Init
<1>2. NewTask.after = {} /\ NewTask.pc = "new"
  BY DEF NewTask
<1>3. Follows /\ TookSome /\ \A n \in Tasks : WaitsOpen(n)
  BY <1>1, <1>2 DEF Follows, TookSome, WaitsOpen
<1>4. Began
  BY DEF Init, Began, Places
<1>. QED  BY <1>1, <1>3, <1>4, InitAnswers DEF WindowInv

LEMMA WindowsKept == Spec => []WindowInv
BY InitWindows, NextWindows, PTL DEF Spec

\* A packet goes out again within its window, or a sweep all of whose ground was
\* covered at its level does, only for requests that were under way together, or
\* after a sweep of less left its level there; and a window that runs began with
\* something that was taken (WindowsFollowAir).
THEOREM WindowsFollow == Spec => []WindowsFollowAir
<1>1. ASSUME WindowInv, NEW kind \in Windowed, NEW i \in Items \union Ground, Fresh(kind, i)
      PROVE  \E x \in aired : /\ KindOn(x) = kind /\ i \in CoveredBy(AskOf(x))
                              /\ now - x.at < Window[kind]
  <2>0. i \in Places
    BY DEF Places
  <2>1. /\ now \in Nat /\ Window[kind] \in 1 .. 0 - Never
        /\ stamp[kind][i] \in (0 .. now) \union {Never}
        /\ aired \subseteq [item : Entries, at : 0 .. now, task : Tasks]
    BY <1>1, <2>0 DEF WindowInv, AnswerInv, Types
  <2>2. now - stamp[kind][i] < Window[kind]
    BY <1>1 DEF Fresh
  <2>3. stamp[kind][i] # Never
    BY <2>1, <2>2 DEF Never
  <2>4. PICK x \in aired : /\ KindOn(x) = kind /\ i \in CoveredBy(AskOf(x))
                           /\ stamp[kind][i] <= x.at
    BY <1>1, <2>0, <2>3 DEF WindowInv, Began
  <2>5. x.at \in 0 .. now
    BY <2>1
  <2>6. now - x.at < Window[kind]
    BY <2>1, <2>2, <2>4, <2>5 DEF Never
  <2>. QED  BY <2>4, <2>6
<1>2. WindowInv => WindowsFollowAir
  BY <1>1 DEF WindowInv, SentOpen, WindowsFollowAir
<1>. QED  BY <1>2, WindowsKept, PTL
=============================================================================
