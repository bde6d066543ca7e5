---------------------------- MODULE WarningFeed ----------------------------
(***************************************************************************)
(* One bot and one phone: the packets a bot promises (BroadcastPromise) and  *)
(* a phone that hears some of them, late, out of order or again, and makes   *)
(* of them what WeatherStateReducer makes.  The bot restarts, but says nothing *)
(* before it has its products again, and its state file is not torn.         *)
(***************************************************************************)
EXTENDS BroadcastPromise

CONSTANTS
  AheadLimit, ReorderWindow, DuplicateWindow, DuplicateWindowReset,
  DigestMargin, CancelRetention, ReorderRecency,
  MaxDelay,        \* how late the mesh may deliver a packet
  MaxAir, MaxRestarts     \* bounds

Reducer == INSTANCE WeatherStateReducer

ASSUME FeedAssumption ==
  /\ AheadLimit \in 1 .. SeqModulus - 1 /\ ReorderWindow \in 0 .. SeqModulus - 1 - AheadLimit
  /\ DuplicateWindow \in Nat \ {0} /\ DuplicateWindowReset \in Nat /\ DigestMargin \in Nat
  /\ CancelRetention \in Nat /\ ReorderRecency \in Nat
  /\ MaxDelay \in Nat /\ MaxAir \in Nat \ {0} /\ MaxRestarts \in Nat /\ MaxVersion # 0

VARIABLES
  phone,           \* the phone's state of the bot
  sent,            \* the packets the mesh may still deliver, and when they went out
  heard,           \* history: the packets delivered
  restarts         \* counter of the bound

botVars == vars
feedVars == <<vars, phone, sent, heard, restarts>>

\* The phone has just heard its first packet of the bot, a warning.
First(w) == [seq |-> SeqModulus - 1, message |-> [type |-> "warning", id |-> w, version |-> 1]]
FeedInit ==
  \E w \in Warnings :
    /\ now = 0
    /\ active = [v \in Warnings |-> IF v = w THEN 1 ELSE 0] /\ over = [v \in Warnings |-> "no"]
    /\ issued = active /\ whole = TRUE /\ spoiled = {}
    /\ batch = [t \in Tasks |-> {}]
    /\ air = <<First(w)>> /\ nextSeq = 0 /\ torn = FALSE
    /\ phone = Reducer!Apply(Reducer!NewState, First(w), now)
    /\ sent = {[packet |-> 1, at |-> now]} /\ heard = {1}
    /\ restarts = 0

\* What the bot, which has all its products, and the weather do.
Bot(step) ==
  /\ step /\ whole'
  /\ Len(air') <= MaxAir
  /\ sent' = {p \in sent : now' - p.at <= MaxDelay}
              \cup (IF air' = air THEN {} ELSE {[packet |-> Len(air'), at |-> now]})
  /\ UNCHANGED <<phone, heard>>

BotRestarts(skip) ==
  /\ restarts < MaxRestarts /\ restarts' = restarts + 1
  /\ Bot(Restart(skip))

\* A packet reaches the phone, for the first time or again, or never does.
Deliver(i) ==
  /\ phone' = Reducer!Apply(phone, air[i], now)
  /\ heard' = heard \cup {i}
  /\ UNCHANGED <<botVars, sent, restarts>>

FeedNext ==
  \/ Bot(Tick) /\ UNCHANGED restarts
  \/ \E w \in Warnings : Bot(Issue(w)) /\ UNCHANGED restarts
  \/ \E w \in Warnings : Bot(End(w, "early")) /\ UNCHANGED restarts
  \/ \E t \in Tasks : Bot(BuildBatch(t)) /\ UNCHANGED restarts
  \/ \E t \in Tasks : \E m \in batch[t] : Bot(Send(t, m) \/ Drop(t, m)) /\ UNCHANGED restarts
  \/ \E skip \in 0 .. MaxBatch : BotRestarts(skip)
  \/ \E p \in sent : Deliver(p.packet)

FeedSpec == FeedInit /\ [][FeedNext]_feedVars

-----------------------------------------------------------------------------
(* Properties *)

OnAir == 1 .. Len(air)
WasHeard(i) == i \in heard
Says(i, type, w) == air[i].message.type = type /\ air[i].message.id = w
SaysOf(i, w) == Says(i, "warning", w) \/ Says(i, "cancel", w)

\* The bot's messages of a warning went out in the order they became true.
Order(i) == IF air[i].message.type = "cancel" THEN MaxVersion + 1 ELSE air[i].message.version
SentInOrder(w) ==
  \A i, j \in OnAir : i < j /\ SaysOf(i, w) /\ SaysOf(j, w) => Order(i) <= Order(j)

\* A message missed is a message known to be missed (spec 17.2): of a packet
\* lost between two that were heard, the phone says so until it has a digest
\* that went out after it.
LossIsKnown ==
  \A i \in OnAir :
    /\ ~WasHeard(i)
    /\ \E h, j \in OnAir : h < i /\ i < j /\ WasHeard(h) /\ WasHeard(j)
    => \/ phone.needsDigest
       \/ \E k \in OnAir : i < k /\ WasHeard(k) /\ air[k].message.type = "digest"

\* No ghosts: once the phone has heard anything after a cancel, and says that it
\* misses nothing, it does not show the warning, whether it heard the cancel or not.
NoGhost ==
  \A i \in OnAir, w \in Warnings :
    /\ Says(i, "cancel", w) /\ SentInOrder(w)
    /\ \E j \in OnAir : i <= j /\ WasHeard(j)
    /\ ~phone.needsDigest
    => ~Reducer!Holds(phone, w)

\* The phone never goes back (spec 17.3): what it shows of a warning is the newest
\* it has heard of it, and no late copy brings back one whose cancel it heard, in
\* the hour the cancel is remembered.
NeverOlder ==
  \A w \in Warnings : Reducer!Holds(phone, w) /\ SentInOrder(w) =>
    \A i \in OnAir : WasHeard(i) =>
      /\ ~Says(i, "cancel", w)
      /\ Says(i, "warning", w) => air[i].message.version <= phone.warnings[w].version
=============================================================================
