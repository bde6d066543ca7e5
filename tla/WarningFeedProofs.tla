------------------------- MODULE WarningFeedProofs -------------------------
(***************************************************************************)
(* Proofs about WarningFeed, for any warnings, windows and bounds.          *)
(*                                                                          *)
(* The argument: as long as the bot's numbers do not come round, a packet   *)
(* is the next one only if it went out right after the last one (Follows),  *)
(* and any other marks a gap now.  A gap that hides what came before a      *)
(* packet stays open until a digest that went out after it (Unclosed), for  *)
(* the digests before it, and those that still list what was cancelled      *)
(* before it, were built before the gap was marked.                         *)
(***************************************************************************)
EXTENDS WarningFeed, SequenceTheorems, TLAPS

\* The bot uses at most this many numbers after its first packet's.
Span == MaxAir - 1 + MaxRestarts * MaxBatch
\* The numbers do not come round: 254 of 256.
OneRound == Span <= SeqModulus - 2

LEMMA FeedConstants ==
  /\ SeqModulus \in Nat \ {0} /\ MaxBatch \in Nat /\ PartsPerAnswer \in Nat
  /\ MaxVersion \in Nat \ {0} /\ MaxTime \in Nat
  /\ AheadLimit \in Nat \ {0} /\ ReorderWindow \in Nat /\ ReorderWindow + AheadLimit < SeqModulus
  /\ DuplicateWindow \in Nat \ {0} /\ DuplicateWindowReset \in Nat /\ DigestMargin \in Nat
  /\ CancelRetention \in Nat /\ ReorderRecency \in Nat
  /\ MaxDelay \in Nat /\ MaxAir \in Nat \ {0} /\ MaxRestarts \in Nat
  /\ MaxRestarts * MaxBatch \in Nat /\ Span \in Nat
BY FeedAssumption, PromiseAssumption DEF Span

Messages ==
  [type : {"warning"}, id : Warnings, version : 1 .. MaxVersion]
  \cup [type : {"cancel"}, id : Warnings]
  \cup [type : {"digest"}, listed : SUBSET Warnings, built : Nat]
  \cup [type : {"part"}, index : Nat]
Packets == [seq : 0 .. SeqModulus - 1, message : Messages]
Helds == [version : Nat, receivedAt : Int, seq : Nat]
Phones ==
  [lastSeq : Int, recentMessages : Seq(Packets), lastHeardAt : Int,
   warnings : [Warnings -> Helds], recentCancels : [Warnings -> Int],
   digest : Int, missingFromDigest : SUBSET Warnings, needsDigest : BOOLEAN,
   gapDetectedAt : Int]

Types ==
  /\ now \in Nat
  /\ active \in [Warnings -> 0 .. MaxVersion]
  /\ over \in [Warnings -> {"no", "early", "ranOut"}]
  /\ batch \in [Tasks -> SUBSET Messages]
  /\ nextSeq \in 0 .. SeqModulus - 1
  /\ air \in Seq(Packets)
  /\ phone \in Phones
  /\ sent \subseteq [packet : Nat, at : Nat]
  /\ heard \subseteq Nat
  /\ restarts \in 0 .. MaxRestarts
  /\ whole

\* A packet's number on a line, where the first one's is -1.
Num(i) == IF i = 1 THEN -1 ELSE air[i].seq
Numbered ==
  /\ Len(air) \in 1 .. MaxAir /\ air[1].seq = SeqModulus - 1
  /\ nextSeq \in Len(air) - 1 .. Len(air) - 1 + restarts * MaxBatch
  /\ \A i \in OnAir : Num(i) < nextSeq
  /\ \A i, j \in OnAir : i < j => Num(i) < Num(j)

\* What the bot has built, sent or not.
Said == {air[i].message : i \in OnAir} \cup UNION {batch[t] : t \in Tasks}
SaidOK(m) ==
  /\ m.type = "digest" => m.built <= now
  /\ m.type = "cancel" => over[m.id] # "no"
BotOK ==
  /\ \A w \in Warnings : over[w] # "no" => active[w] = 0
  /\ \A m \in Said : SaidOK(m)
MeshOK == \A s \in sent : s.packet \in OnAir /\ s.at <= now /\ now - s.at <= MaxDelay

At(p) == phone.lastSeq = air[p].seq
PhoneOK ==
  /\ heard \subseteq OnAir /\ 1 \in heard
  /\ \E p \in heard : At(p)
  /\ \A i \in 1 .. Len(phone.recentMessages) : \E h \in heard : phone.recentMessages[i] = air[h]
  /\ phone.needsDigest => phone.gapDetectedAt # -1
  /\ \A w \in Warnings : phone.warnings[w].receivedAt <= now

BaseOK == Types /\ Numbered /\ BotOK /\ MeshOK /\ PhoneOK

-----------------------------------------------------------------------------
(* What the bot does *)

LEMMA MessageKinds ==
  ASSUME NEW m \in Messages
  PROVE  /\ m.type \in {"warning", "cancel", "digest", "part"}
         /\ m.type = "warning" => m \in [type : {"warning"}, id : Warnings, version : 1 .. MaxVersion]
         /\ m.type = "cancel" => m \in [type : {"cancel"}, id : Warnings]
         /\ m.type = "digest" => m \in [type : {"digest"}, listed : SUBSET Warnings, built : Nat]
BY DEF Messages

\* What the bot may build now is a message; a digest of now lists what is in force
\* now, and a cancel is of a warning that ended.
LEMMA BuiltNow ==
  ASSUME Types, NEW m \in Sayable(active) \cup PartMessages
  PROVE  /\ m \in Messages
         /\ m.type = "digest" => m.built = now /\ m.listed = Listed(active)
         /\ m.type = "cancel" => over[m.id] # "no"
<1> USE FeedConstants
<1>1. CASE \E w \in Listed(active) : m = WarningMessage(w, active)
  <2>1. PICK w \in Listed(active) : m = WarningMessage(w, active) BY <1>1
  <2>2. w \in Warnings /\ active[w] \in 1 .. MaxVersion BY <2>1 DEF Listed, Types
  <2> QED BY <2>1, <2>2 DEF WarningMessage, Messages
<1>2. CASE \E w \in Warnings : over[w] = "early" /\ m = CancelMessage(w)
  BY <1>2 DEF CancelMessage, Messages
<1>3. CASE m = DigestMessage(active)
  BY <1>3 DEF DigestMessage, Messages, Listed, Types
<1>4. CASE m \in PartMessages
  BY <1>4 DEF PartMessages, Messages
<1> QED BY <1>1, <1>2, <1>3, <1>4 DEF Sayable, Missing

\* What a step of the bot or the weather leaves of the rest.
Moves ==
  /\ phone' = phone /\ heard' = heard
  /\ now' \in {now, now + 1}
  /\ \A w \in Warnings : over[w] # "no" => over'[w] # "no"
  /\ \A w \in Warnings : over'[w] # "no" => active'[w] = 0
  /\ \/ air' = air
     \/ now' = now /\ \E m \in Said : air' = Append(air, [seq |-> nextSeq, message |-> m])
  /\ \A t \in Tasks : \A m \in batch'[t] : m \in Said \cup Sayable(active) \cup PartMessages
  /\ sent' \subseteq {p \in sent : now' - p.at <= MaxDelay}
                      \cup (IF air' = air THEN {} ELSE {[packet |-> Len(air'), at |-> now]})
  /\ restarts' \in 0 .. MaxRestarts
  /\ Len(air') <= MaxAir
\* The number is used by the packet, or a restart skips some.
Counts ==
  \/ air' = air /\ nextSeq' = nextSeq /\ restarts' = restarts
  \/ Len(air') = Len(air) + 1 /\ nextSeq' = (nextSeq + 1) % SeqModulus /\ restarts' = restarts
  \/ /\ air' = air /\ restarts' = restarts + 1 /\ restarts < MaxRestarts
     /\ \E skip \in 0 .. MaxBatch : nextSeq' = (nextSeq + skip) % SeqModulus
BotTypes ==
  /\ active' \in [Warnings -> 0 .. MaxVersion]
  /\ over' \in [Warnings -> {"no", "early", "ranOut"}]
  /\ batch' \in [Tasks -> SUBSET Messages]
  /\ whole'

BotNext ==
  \/ Bot(Tick) /\ UNCHANGED restarts
  \/ \E w \in Warnings : Bot(Issue(w)) /\ UNCHANGED restarts
  \/ \E w \in Warnings : Bot(End(w, "early")) /\ UNCHANGED restarts
  \/ \E t \in Tasks : Bot(BuildBatch(t)) /\ UNCHANGED restarts
  \/ \E t \in Tasks : \E m \in batch[t] : Bot(Send(t, m) \/ Drop(t, m)) /\ UNCHANGED restarts
  \/ \E skip \in 0 .. MaxBatch : BotRestarts(skip)

\* A step that sends nothing.
LEMMA QuietMoves ==
  ASSUME BaseOK, air' = air, phone' = phone, heard' = heard,
         Len(air') <= MaxAir,
         sent' = {p \in sent : now' - p.at <= MaxDelay}
                  \cup (IF air' = air THEN {} ELSE {[packet |-> Len(air'), at |-> now]}),
         now' \in {now, now + 1}, restarts' \in 0 .. MaxRestarts,
         \A w \in Warnings : over[w] # "no" => over'[w] # "no",
         \A w \in Warnings : over'[w] # "no" => active'[w] = 0,
         \A t \in Tasks : \A m \in batch'[t] : m \in batch[t] \cup Sayable(active) \cup PartMessages
  PROVE  Moves
<1>1. \A t \in Tasks : \A m \in batch[t] : m \in Said BY DEF Said
<1> QED BY <1>1 DEF Moves

LEMMA BotMoves ==
  ASSUME BaseOK, BotNext PROVE Moves /\ Counts /\ BotTypes
<1> USE FeedConstants
<1>t. Types /\ BotOK BY DEF BaseOK
<1>s. \A w \in Warnings : over[w] # "no" => active[w] = 0 BY <1>t DEF BotOK
<1>r. restarts \in 0 .. MaxRestarts BY <1>t DEF Types
<1>1. CASE Bot(Tick) /\ UNCHANGED restarts
  <2>1. Moves BY <1>1, <1>s, <1>r, QuietMoves DEF Bot, Tick
  <2> QED BY <2>1, <1>1, <1>t DEF Bot, Tick, Counts, BotTypes, Types
<1>2. CASE \E w \in Warnings : Bot(Issue(w)) /\ UNCHANGED restarts
  <2>1. PICK w \in Warnings : Bot(Issue(w)) /\ UNCHANGED restarts BY <1>2
  <2>2. active' \in [Warnings -> 0 .. MaxVersion]
    BY <2>1, <1>t DEF Bot, Issue, Types
  <2>3. \A v \in Warnings : over'[v] # "no" => active'[v] = 0
    BY <2>1, <1>t, <1>s DEF Bot, Issue, Types
  <2>4. Moves BY <2>1, <2>3, <1>r, QuietMoves DEF Bot, Issue
  <2> QED BY <2>1, <2>2, <2>4, <1>t DEF Bot, Issue, Counts, BotTypes, Types
<1>3. CASE \E w \in Warnings : Bot(End(w, "early")) /\ UNCHANGED restarts
  <2>1. PICK w \in Warnings : Bot(End(w, "early")) /\ UNCHANGED restarts BY <1>3
  <2>2. active' \in [Warnings -> 0 .. MaxVersion] /\ over' \in [Warnings -> {"no", "early", "ranOut"}]
    BY <2>1, <1>t DEF Bot, End, Types
  <2>3. /\ \A v \in Warnings : over'[v] # "no" => active'[v] = 0
        /\ \A v \in Warnings : over[v] # "no" => over'[v] # "no"
    BY <2>1, <1>t, <1>s DEF Bot, End, Types
  <2>4. Moves BY <2>1, <2>3, <1>r, QuietMoves DEF Bot, End
  <2> QED BY <2>1, <2>2, <2>4, <1>t DEF Bot, End, Counts, BotTypes, Types
<1>4. CASE \E t \in Tasks : Bot(BuildBatch(t)) /\ UNCHANGED restarts
  <2>1. PICK t \in Tasks : Bot(BuildBatch(t)) /\ UNCHANGED restarts BY <1>4
  <2>0. Stores = {active} BY <1>t DEF Types, Stores
  <2>2. PICK b \in Batches(active) : batch' = [batch EXCEPT ![t] = b]
    BY <2>0, <2>1 DEF Bot, BuildBatch
  <2>3. b \subseteq Sayable(active) \cup PartMessages BY <2>2 DEF Batches
  <2>4. b \in SUBSET Messages BY <2>3, <1>t, BuiltNow
  <2>5. batch' \in [Tasks -> SUBSET Messages] BY <2>2, <2>4, <1>t DEF Types
  <2>6. \A u \in Tasks : \A m \in batch'[u] : m \in batch[u] \cup Sayable(active) \cup PartMessages
    BY <2>2, <2>3, <1>t DEF Types
  <2>7. Moves BY <2>1, <2>6, <1>s, <1>r, QuietMoves DEF Bot, BuildBatch
  <2> QED BY <2>1, <2>5, <2>7, <1>t DEF Bot, BuildBatch, Counts, BotTypes, Types
<1>5. CASE \E t \in Tasks : \E m \in batch[t] : Bot(Send(t, m) \/ Drop(t, m)) /\ UNCHANGED restarts
  <2>0. PICK t \in Tasks : \E m \in batch[t] : Bot(Send(t, m) \/ Drop(t, m)) /\ UNCHANGED restarts
    BY <1>5
  <2>1. PICK m \in batch[t] : Bot(Send(t, m) \/ Drop(t, m)) /\ UNCHANGED restarts
    BY <2>0
  <2>2. batch' = [batch EXCEPT ![t] = batch[t] \ {m}] BY <2>1 DEF Bot, Send, Drop
  <2>3. batch' \in [Tasks -> SUBSET Messages] BY <2>2, <1>t DEF Types
  <2>4. \A u \in Tasks : \A n \in batch'[u] : n \in batch[u] BY <2>2, <1>t DEF Types
  <2>5. CASE Send(t, m)
    <3>1. m \in Said BY DEF Said
    <3>2. air' = Append(air, [seq |-> nextSeq, message |-> m]) BY <2>5 DEF Send, Packet
    <3>3. Len(air') = Len(air) + 1 BY <3>2, <1>t DEF Types
    <3>4. \A u \in Tasks : \A n \in batch'[u] : n \in Said BY <2>4 DEF Said
    <3>5. Moves BY <2>1, <2>5, <3>1, <3>2, <3>4, <1>s, <1>r DEF Bot, Send, Moves
    <3> QED BY <2>1, <2>3, <2>5, <3>3, <3>5, <1>t DEF Bot, Send, Counts, BotTypes, Types
  <2>6. CASE Drop(t, m)
    <3>1. Moves BY <2>1, <2>4, <2>6, <1>s, <1>r, QuietMoves DEF Bot, Drop
    <3> QED BY <2>1, <2>3, <2>6, <3>1, <1>t DEF Bot, Drop, Counts, BotTypes, Types
  <2> QED BY <2>1, <2>5, <2>6 DEF Bot
<1>6. CASE \E skip \in 0 .. MaxBatch : BotRestarts(skip)
  <2>1. PICK skip \in 0 .. MaxBatch : BotRestarts(skip) BY <1>6
  <2>2. batch' \in [Tasks -> SUBSET Messages] /\ \A u \in Tasks : batch'[u] = {}
    BY <2>1 DEF BotRestarts, Bot, Restart
  <2>3. restarts' \in 0 .. MaxRestarts BY <2>1, <1>r DEF BotRestarts
  <2>4. Moves BY <2>1, <2>2, <2>3, <1>s, QuietMoves DEF BotRestarts, Bot, Restart
  <2> QED BY <2>1, <2>2, <2>4, <1>t DEF BotRestarts, Bot, Restart, Skipped, Counts, BotTypes, Types
<1> QED BY <1>1, <1>2, <1>3, <1>4, <1>5, <1>6 DEF BotNext
LEMMA SaidType == ASSUME Types PROVE Said \subseteq Messages
<1>1. \A i \in OnAir : air[i] \in Packets BY DEF Types, OnAir
<1>2. \A i \in OnAir : air[i].message \in Messages BY <1>1 DEF Packets
<1> QED BY <1>2 DEF Said, Types

\* The air grows by at most one packet, which says what was built before, and
\* what is built is true now.
LEMMA AirGrows ==
  ASSUME BaseOK, Moves
  PROVE  /\ air' \in Seq(Packets)
         /\ Len(air') = Len(air) \/ (now' = now /\ Len(air') = Len(air) + 1)
         /\ (air' = air) <=> (Len(air') = Len(air))
         /\ \A i \in OnAir : air'[i] = air[i]
         /\ Len(air') = Len(air) + 1 =>
              air'[Len(air')].seq = nextSeq /\ air'[Len(air')].message \in Said
         /\ \A m \in Said' : m \in Said \cup Sayable(active) \cup PartMessages
<1>t. Types BY DEF BaseOK
<1>q. air \in Seq(Packets) /\ nextSeq \in 0 .. SeqModulus - 1 BY <1>t DEF Types
<1>b. \A m \in Said' : (\E i \in OnAir' : m = air'[i].message) \/ \E t \in Tasks : m \in batch'[t]
  BY DEF Said
<1>c. \A t \in Tasks : \A m \in batch'[t] : m \in Said \cup Sayable(active) \cup PartMessages BY DEF Moves
<1>1. CASE air' = air
  <2>1. \A i \in OnAir' : air'[i].message \in Said BY <1>1 DEF Said, OnAir
  <2> QED BY <1>1, <1>q, <1>b, <1>c, <2>1
<1>2. CASE air' # air
  <2>1. PICK m \in Said : air' = Append(air, [seq |-> nextSeq, message |-> m])
    BY <1>2 DEF Moves
  <2>2. m \in Messages BY <1>t, SaidType
  <2>3. [seq |-> nextSeq, message |-> m] \in Packets BY <2>2, <1>q DEF Packets
  <2>4. /\ air' \in Seq(Packets) /\ Len(air') = Len(air) + 1
        /\ \A i \in 1 .. Len(air) : air'[i] = air[i]
        /\ air'[Len(air) + 1] = [seq |-> nextSeq, message |-> m]
    BY <2>1, <2>3, <1>q, AppendProperties
  <2>5. \A i \in OnAir' : i \in OnAir \/ i = Len(air) + 1 BY <2>4, <1>q DEF OnAir
  <2>6. \A i \in OnAir' : air'[i].message \in Said BY <2>4, <2>5 DEF Said, OnAir
  <2>7. now' = now BY <1>2 DEF Moves
  <2>8. Len(air) \in Nat BY <1>q
  <2> QED BY <2>4, <2>6, <2>7, <2>8, <1>2, <1>b, <1>c DEF OnAir
<1> QED BY <1>1, <1>2

LEMMA Products ==
  ASSUME NEW a \in Nat, NEW b \in Nat, NEW n \in Nat
  PROVE  a * n \in Nat /\ (a <= b => a * n <= b * n)
OBVIOUS

\* While the numbers do not come round, the next one is counted without a wrap.
LEMMA NotRound ==
  ASSUME BaseOK, Moves, Counts, OneRound
  PROVE  /\ Len(air') = Len(air) + 1 => nextSeq' = nextSeq + 1
         /\ nextSeq' >= nextSeq
         /\ nextSeq' \in Len(air') - 1 .. Len(air') - 1 + restarts' * MaxBatch
         /\ nextSeq' \in 0 .. SeqModulus - 1
<1> USE FeedConstants
<1>t. /\ Types /\ Numbered /\ air' \in Seq(Packets) /\ Len(air') <= MaxAir BY AirGrows DEF BaseOK, Moves
<1>n. /\ nextSeq \in 0 .. SeqModulus - 1 /\ Len(air) \in Nat \ {0} /\ Len(air') \in Nat
      /\ restarts \in 0 .. MaxRestarts /\ restarts' \in 0 .. MaxRestarts
      /\ nextSeq \in Len(air) - 1 .. Len(air) - 1 + restarts * MaxBatch
  BY <1>t DEF Types, Numbered, Moves
<1>r. /\ restarts * MaxBatch \in Nat
      /\ restarts' * MaxBatch \in Nat /\ restarts' * MaxBatch <= MaxRestarts * MaxBatch
  <2>1. restarts \in Nat /\ restarts' \in Nat /\ restarts' <= MaxRestarts BY <1>n
  <2> QED BY <2>1, Products, FeedConstants
<1>s. MaxAir - 1 + MaxRestarts * MaxBatch <= SeqModulus - 2 BY DEF OneRound, Span
<1>m. \A k \in 0 .. SeqModulus - 1 : k % SeqModulus = k OBVIOUS
<1>1. CASE air' = air /\ nextSeq' = nextSeq /\ restarts' = restarts BY <1>1, <1>n
<1>2. CASE Len(air') = Len(air) + 1 /\ nextSeq' = (nextSeq + 1) % SeqModulus /\ restarts' = restarts
  <2>1. nextSeq + 1 \in 0 .. SeqModulus - 1 BY <1>2, <1>n, <1>r, <1>s, <1>t
  <2>2. nextSeq' = nextSeq + 1 BY <2>1, <1>m, <1>2
  <2> QED BY <2>1, <2>2, <1>2, <1>n, <1>r
<1>3. CASE /\ air' = air /\ restarts' = restarts + 1 /\ restarts < MaxRestarts
           /\ \E skip \in 0 .. MaxBatch : nextSeq' = (nextSeq + skip) % SeqModulus
  <2>1. PICK skip \in 0 .. MaxBatch : nextSeq' = (nextSeq + skip) % SeqModulus BY <1>3
  <2>2. restarts' * MaxBatch = restarts * MaxBatch + MaxBatch BY <1>3, <1>n
  <2>3. nextSeq + skip \in 0 .. SeqModulus - 1 BY <2>2, <1>3, <1>n, <1>r, <1>s, <1>t
  <2>4. nextSeq' = nextSeq + skip BY <2>1, <2>3, <1>m
  <2> QED BY <2>2, <2>3, <2>4, <1>3, <1>n, <1>r
<1> QED BY <1>1, <1>2, <1>3 DEF Counts

LEMMA NumbersMove ==
  ASSUME BaseOK, Moves, Counts, OneRound
  PROVE  Numbered'
<1> USE FeedConstants
<1>t. /\ Types /\ Numbered /\ air' \in Seq(Packets) /\ Len(air') <= MaxAir BY AirGrows DEF BaseOK, Moves
<1>n. Len(air) \in Nat \ {0} /\ Len(air') \in Nat /\ nextSeq \in Nat /\ nextSeq' \in Nat
  BY <1>t, NotRound DEF Types, Numbered
<1>g. /\ Len(air') \in {Len(air), Len(air) + 1}
      /\ \A i \in OnAir : air'[i] = air[i]
      /\ Len(air') = Len(air) + 1 => air'[Len(air')].seq = nextSeq
  BY AirGrows, <1>n
<1>1. \A i \in OnAir' : i \in OnAir \/ (i = Len(air') /\ Len(air') = Len(air) + 1)
  BY <1>g, <1>n DEF OnAir
<1>2. \A i \in OnAir : Num(i)' = Num(i) BY <1>g DEF Num
<1>3. Len(air') = Len(air) + 1 => \A k : k = Len(air') => Num(k)' = nextSeq BY <1>g, <1>n DEF Num
<1>4. \A i \in OnAir : Num(i) < nextSeq BY <1>t DEF Numbered
<1>5. \A i \in OnAir : Num(i) \in Int
  <2>1. \A i \in OnAir : air[i] \in Packets BY <1>t DEF Types, OnAir
  <2> QED BY <2>1 DEF Num, Packets
<1>6. \A i \in OnAir' : Num(i)' < nextSeq' BY <1>1, <1>2, <1>3, <1>4, <1>5, <1>n, NotRound
<1>7. ASSUME NEW i \in OnAir', NEW j \in OnAir', i < j PROVE Num(i)' < Num(j)'
  <2>1. i \in OnAir BY <1>7, <1>1, <1>g, <1>n DEF OnAir
  <2>2. CASE j \in OnAir BY <1>7, <1>2, <1>t, <2>1, <2>2 DEF Numbered
  <2>3. CASE j = Len(air') /\ Len(air') = Len(air) + 1 BY <2>1, <2>3, <1>2, <1>3, <1>4
  <2> QED BY <2>2, <2>3, <1>1
<1>8. 1 \in OnAir /\ air'[1].seq = SeqModulus - 1 BY <1>g, <1>n, <1>t DEF OnAir, Numbered
<1>9. Len(air') \in 1 .. MaxAir BY <1>g, <1>n, <1>t
<1> QED BY <1>6, <1>7, <1>8, <1>9, NotRound DEF Numbered

LEMMA BotKeepsBase ==
  ASSUME BaseOK, BotNext, OneRound PROVE BaseOK' /\ Moves
<1> USE FeedConstants
<1>m. Moves /\ Counts /\ BotTypes BY BotMoves
<1>t. Types /\ BotOK /\ MeshOK /\ PhoneOK /\ Numbered BY DEF BaseOK
<1>1. Types'
  <2>1. sent' \subseteq [packet : Nat, at : Nat]
    <3>1. air' \in Seq(Packets) BY <1>m, AirGrows
    <3>2. Len(air') \in Nat BY <3>1
    <3>3. [packet |-> Len(air'), at |-> now] \in [packet : Nat, at : Nat] BY <3>2, <1>t DEF Types
    <3> QED BY <3>3, <1>m, <1>t DEF Moves, Types
  <2>2. now' \in Nat BY <1>m, <1>t DEF Moves, Types
  <2>3. air' \in Seq(Packets) /\ nextSeq' \in 0 .. SeqModulus - 1 BY <1>m, AirGrows, NotRound
  <2> QED BY <2>1, <2>2, <2>3, <1>m, <1>t DEF Types, BotTypes, Moves
<1>2. Numbered' BY <1>m, NumbersMove
<1>3. BotOK'
  <2>1. \A w \in Warnings : over'[w] # "no" => active'[w] = 0 BY <1>m DEF Moves
  <2>2. ASSUME NEW m \in Said' PROVE SaidOK(m)'
    <3>1. m \in Said \cup Sayable(active) \cup PartMessages BY <1>m, AirGrows
    <3>2. m \in Messages /\ SaidOK(m)
      <4>1. CASE m \in Said BY <4>1, <1>t, SaidType DEF BotOK
      <4>2. CASE m \in Sayable(active) \cup PartMessages BY <4>2, <1>t, BuiltNow DEF SaidOK, Types
      <4> QED BY <3>1, <4>1, <4>2
    <3>3. m.type = "digest" => m.built \in Nat BY <3>2, MessageKinds
    <3>4. m.type = "cancel" => m.id \in Warnings BY <3>2, MessageKinds
    <3> QED BY <3>2, <3>3, <3>4, <1>m, <1>t DEF SaidOK, Moves, Types
  <2> QED BY <2>1, <2>2 DEF BotOK
<1>4. MeshOK'
  <2> SUFFICES ASSUME NEW s \in sent' PROVE s.packet \in OnAir' /\ s.at <= now' /\ now' - s.at <= MaxDelay
    BY DEF MeshOK
  <2>1. now \in Nat /\ now' \in {now, now + 1} BY <1>m, <1>t DEF Moves, Types
  <2>2. Len(air) \in Nat /\ Len(air') \in {Len(air), Len(air) + 1} BY <1>m, <1>t, AirGrows DEF Types
  <2>3. CASE s \in sent /\ now' - s.at <= MaxDelay
    <3>1. s.packet \in OnAir /\ s.at <= now /\ s.at \in Nat BY <2>3, <1>t DEF MeshOK, Types
    <3> QED BY <2>1, <2>2, <2>3, <3>1 DEF OnAir
  <2>4. CASE s = [packet |-> Len(air'), at |-> now] /\ air' # air
    <3>1. now' = now /\ Len(air') = Len(air) + 1 BY <2>4, <1>m, AirGrows
    <3> QED BY <2>1, <2>2, <2>4, <3>1 DEF OnAir
  <2> QED BY <2>3, <2>4, <1>m DEF Moves
<1>5. PhoneOK'
  <2>1. /\ phone' = phone /\ heard' = heard /\ \A i \in OnAir : air'[i] = air[i]
        /\ OnAir \subseteq OnAir'
    <3>1. Len(air) \in Nat /\ Len(air') \in {Len(air), Len(air) + 1} BY <1>m, <1>t, AirGrows DEF Types
    <3>2. OnAir \subseteq OnAir' BY <3>1 DEF OnAir
    <3>3. phone' = phone /\ heard' = heard BY <1>m DEF Moves
    <3> QED BY <3>2, <3>3, <1>m, AirGrows
  <2>2. heard \subseteq OnAir BY <1>t DEF PhoneOK
  <2>3. \E p \in heard' : At(p)' BY <2>1, <2>2, <1>t DEF PhoneOK, At
  <2>4. \A i \in 1 .. Len(phone'.recentMessages) : \E h \in heard' : phone'.recentMessages[i] = air'[h]
    BY <2>1, <2>2, <1>t DEF PhoneOK
  <2>5. \A w \in Warnings : phone'.warnings[w].receivedAt <= now'
    <3>1. \A w \in Warnings : phone.warnings[w].receivedAt \in Int BY <1>t DEF Types, Phones, Helds
    <3>2. now \in Nat /\ now' \in {now, now + 1} BY <1>m, <1>t DEF Moves, Types
    <3> QED BY <3>1, <3>2, <2>1, <1>t DEF PhoneOK
  <2> QED BY <2>1, <2>2, <2>3, <2>4, <2>5, <1>t DEF PhoneOK
<1> QED BY <1>m, <1>1, <1>2, <1>3, <1>4, <1>5 DEF BaseOK

-----------------------------------------------------------------------------
(* What the phone makes of one packet *)

LEMMA Wraps ==
  ASSUME NEW n \in Nat \ {0}, NEW k \in Int, NEW rest \in 0 .. n - 1, NEW turns \in Int,
         k = rest + turns * n
  PROVE  k % n = rest
OBVIOUS

Ahead(p, d) == Reducer!Forward(air[p].seq, air[d].seq)

\* How far ahead of one packet another is.
LEMMA SpreadIs ==
  ASSUME BaseOK, OneRound, NEW p \in OnAir, NEW d \in OnAir
  PROVE  /\ Num(p) \in Int /\ Num(d) \in Int
         /\ Num(d) - Num(p) <= Span /\ Num(p) - Num(d) <= Span
         /\ p < d => Num(p) < Num(d) /\ Ahead(p, d) = Num(d) - Num(p)
         /\ p = d => Ahead(p, d) = 0
         /\ d < p => Num(d) < Num(p) /\ Ahead(p, d) = SeqModulus - (Num(p) - Num(d))
<1> USE FeedConstants
<1>c. SeqModulus \in Nat \ {0} OBVIOUS
<1>t. Types /\ Numbered BY DEF BaseOK
<1>1. /\ air[p].seq \in 0 .. SeqModulus - 1 /\ air[d].seq \in 0 .. SeqModulus - 1
      /\ p \in Int /\ d \in Int
  <2>1. air[p] \in Packets /\ air[d] \in Packets BY <1>t DEF Types, OnAir
  <2> QED BY <2>1 DEF Packets, OnAir
<1>2. /\ Num(p) \in -1 .. nextSeq - 1 /\ Num(d) \in -1 .. nextSeq - 1
  <2>1. Num(p) < nextSeq /\ Num(d) < nextSeq BY <1>t DEF Numbered
  <2>2. Num(p) \in Int /\ Num(p) >= -1 /\ Num(d) \in Int /\ Num(d) >= -1 BY <1>1 DEF Num
  <2>3. nextSeq \in Nat BY <1>t DEF Types
  <2> QED BY <2>1, <2>2, <2>3
<1>3. nextSeq - 1 <= Span - 1
  <2>1. restarts \in Nat /\ restarts <= MaxRestarts BY <1>t DEF Types
  <2>2. restarts * MaxBatch \in Nat /\ restarts * MaxBatch <= MaxRestarts * MaxBatch BY <2>1, Products
  <2>3. nextSeq <= Len(air) - 1 + restarts * MaxBatch /\ Len(air) <= MaxAir /\ Len(air) \in Nat
    BY <1>t, <2>2 DEF Numbered
  <2> QED BY <2>2, <2>3, <1>t DEF Span, Types
<1>4. /\ air[p].seq = IF p = 1 THEN Num(p) + SeqModulus ELSE Num(p)
      /\ air[d].seq = IF d = 1 THEN Num(d) + SeqModulus ELSE Num(d)
  BY <1>1, <1>t DEF Num, Numbered
<1>5. /\ Num(d) - Num(p) <= Span /\ Num(p) - Num(d) <= Span
      /\ Num(d) - Num(p) <= SeqModulus - 2 /\ Num(p) - Num(d) <= SeqModulus - 2
  BY <1>2, <1>3, <1>t DEF OneRound, Types
<1>6. /\ p < d => Num(p) < Num(d)
      /\ d < p => Num(d) < Num(p)
  BY <1>t DEF Numbered
<1>7. PICK turns \in -1 .. 1 : air[d].seq - air[p].seq = (Num(d) - Num(p)) + turns * SeqModulus
  BY <1>4, <1>2, <1>t DEF Types
<1>8. p < d => Ahead(p, d) = Num(d) - Num(p)
  <2> HAVE p < d
  <2>1. Num(d) - Num(p) \in 0 .. SeqModulus - 1 BY <1>5, <1>6, <1>2, <1>t DEF Types
  <2>2. air[d].seq - air[p].seq \in Int /\ turns \in Int BY <1>1
  <2>3. (air[d].seq - air[p].seq) % SeqModulus = Num(d) - Num(p) BY <2>1, <2>2, <1>7, <1>c, Wraps
  <2> QED BY <2>3 DEF Ahead, Reducer!Forward
<1>9. p = d => Ahead(p, d) = 0
  <2> HAVE p = d
  <2>1. air[d].seq - air[p].seq = 0 BY <1>1
  <2>2. 0 % SeqModulus = 0 BY <1>c
  <2> QED BY <2>1, <2>2 DEF Ahead, Reducer!Forward
<1>10. d < p => Ahead(p, d) = SeqModulus - (Num(p) - Num(d))
  <2> HAVE d < p
  <2>1. SeqModulus - (Num(p) - Num(d)) \in 0 .. SeqModulus - 1 BY <1>5, <1>6, <1>2, <1>t DEF Types
  <2>2. air[d].seq - air[p].seq = SeqModulus - (Num(p) - Num(d)) + (turns - 1) * SeqModulus
    BY <1>7, <1>2, <1>t DEF Types
  <2>3. air[d].seq - air[p].seq \in Int /\ turns - 1 \in Int BY <1>1
  <2>4. (air[d].seq - air[p].seq) % SeqModulus = SeqModulus - (Num(p) - Num(d))
    BY <2>1, <2>2, <2>3, <1>c, Wraps
  <2> QED BY <2>4 DEF Ahead, Reducer!Forward
<1> QED BY <1>2, <1>5, <1>6, <1>8, <1>9, <1>10, <1>t DEF Types

\* A number tells its packet.
LEMMA NumbersDiffer ==
  ASSUME BaseOK, OneRound, NEW p \in OnAir, NEW d \in OnAir, air[p].seq = air[d].seq
  PROVE  p = d
<1>1. Ahead(p, d) = Ahead(p, p) BY DEF Ahead
<1>2. Ahead(p, d) = 0 BY <1>1, SpreadIs
<1>3. p \in Int /\ d \in Int BY DEF OnAir
<1>4. Span <= SeqModulus - 2 /\ Span \in Nat /\ SeqModulus \in Nat BY FeedConstants DEF OneRound
<1> QED BY <1>2, <1>3, <1>4, SpreadIs

PlaceOf(d) == Reducer!Place(phone, air[d].seq, now)
Gaps == {"ahead", "behind", "restart"}

\* Only the packet that went out right after the last one is the next one.
LEMMA PlaceIs ==
  ASSUME BaseOK, OneRound, NEW p \in heard, At(p), NEW d \in OnAir
  PROVE  /\ PlaceOf(d) \in Gaps \cup {"next"}
         /\ PlaceOf(d) = "next" => d = p + 1
         /\ PlaceOf(d) \notin Gaps <=> PlaceOf(d) = "next"
<1> USE FeedConstants
<1>t. Types /\ Numbered /\ PhoneOK BY DEF BaseOK
<1>1. p \in OnAir /\ p \in Nat /\ d \in Nat BY <1>t DEF PhoneOK, OnAir
<1>2. phone.lastSeq # -1 /\ phone.lastSeq = air[p].seq
  <2>1. air[p] \in Packets BY <1>1, <1>t DEF Types, OnAir
  <2> QED BY <2>1 DEF At, Packets
<1>3. PlaceOf(d) = IF Reducer!IsLongSilence(phone, now) /\ Ahead(p, d) # 1 THEN "ahead"
                   ELSE Reducer!Position(Ahead(p, d))
  BY <1>2 DEF PlaceOf, Reducer!Place, Reducer!Never, Ahead
<1>4. Ahead(p, d) \in Int /\ (Ahead(p, d) = 1 => d = p + 1)
  <2>1. Span <= SeqModulus - 2 BY DEF OneRound
  <2>2. Ahead(p, d) \in Int BY <1>1, SpreadIs
  <2>3. ASSUME Ahead(p, d) = 1 PROVE d = p + 1
    <3>1. p < d /\ Num(d) = Num(p) + 1 BY <1>1, <2>1, <2>3, SpreadIs
    <3>2. CASE d # p + 1
      <4>1. p + 1 \in OnAir /\ p + 1 < d BY <3>1, <3>2, <1>1 DEF OnAir
      <4>2. Num(p) < Num(p + 1) /\ Num(p + 1) < Num(d) BY <4>1, <3>1, <1>1, <1>t DEF Numbered
      <4>3. Num(p + 1) \in Int /\ Num(p) \in Int BY <4>1, <1>1, SpreadIs
      <4> QED BY <4>2, <4>3, <3>1
    <3> QED BY <3>2
  <2> QED BY <2>2, <2>3
<1>5. /\ Reducer!Position(Ahead(p, d)) \in Gaps \cup {"next"}
      /\ Reducer!Position(Ahead(p, d)) = "next" => Ahead(p, d) = 1
  BY <1>4 DEF Reducer!Position, Gaps
<1> QED BY <1>3, <1>4, <1>5 DEF Gaps

LEMMA LastOfIs ==
  ASSUME NEW S, NEW s \in Seq(S), NEW n \in Nat
  PROVE  /\ Reducer!LastOf(s, n) \in Seq(S)
         /\ \A i \in 1 .. Len(Reducer!LastOf(s, n)) :
              \E k \in 1 .. Len(s) : Reducer!LastOf(s, n)[i] = s[k]
<1> DEFINE from == Reducer!Later(1, Len(s) - n + 1)
<1>1. from \in Nat \ {0} /\ Len(s) \in Nat BY DEF Reducer!Later
<1>2. Reducer!LastOf(s, n) = SubSeq(s, from, Len(s)) BY DEF Reducer!LastOf
<1> HIDE DEF from
<1>3. \A i \in from .. Len(s) : s[i] \in S BY <1>1
<1>4. /\ SubSeq(s, from, Len(s)) \in Seq(S)
      /\ Len(SubSeq(s, from, Len(s))) = IF from <= Len(s) THEN Len(s) - from + 1 ELSE 0
      /\ \A i \in 1 .. Len(s) - from + 1 : SubSeq(s, from, Len(s))[i] = s[from + i - 1]
  BY <1>1, <1>3, SubSeqProperties
<1>5. ASSUME NEW i \in 1 .. Len(SubSeq(s, from, Len(s)))
      PROVE  \E k \in 1 .. Len(s) : SubSeq(s, from, Len(s))[i] = s[k]
  <2>1. i \in 1 .. Len(s) - from + 1 /\ from + i - 1 \in 1 .. Len(s) BY <1>1, <1>4
  <2> QED BY <2>1, <1>4
<1> QED BY <1>2, <1>4, <1>5

\* What a packet does to the phone before what it says is looked at.
Accepted(s, pk, at, a) ==
  LET place == Reducer!Place(s, pk.seq, at) IN
  /\ a \in Phones
  /\ a.lastSeq = IF place = "behind" THEN s.lastSeq ELSE pk.seq
  /\ a.lastHeardAt = Reducer!Later(s.lastHeardAt, at)
  /\ a.warnings = s.warnings
  /\ \A w \in Warnings : a.recentCancels[w] =
       IF at - s.recentCancels[w] < CancelRetention THEN s.recentCancels[w] ELSE -1
  /\ place \in Gaps =>
       (a.needsDigest /\ a.gapDetectedAt = Reducer!Later(s.gapDetectedAt, at))
  /\ place \notin Gaps =>
       (a.needsDigest = s.needsDigest /\ a.gapDetectedAt = s.gapDetectedAt)
  /\ \A i \in 1 .. Len(a.recentMessages) :
       \/ a.recentMessages[i] = pk
       \/ \E k \in 1 .. Len(s.recentMessages) : a.recentMessages[i] = s.recentMessages[k]
LEMMA AcceptIs ==
  ASSUME NEW s \in Phones, NEW pk \in Packets, NEW at \in Nat
  PROVE  Accepted(s, pk, at, Reducer!Accept(s, pk, at))
<1> USE FeedConstants
<1> DEFINE a == Reducer!Accept(s, pk, at)
           place == Reducer!Place(s, pk.seq, at)
           seen == IF place = "restart" THEN <<>> ELSE Reducer!Seen(s, at)
           recent == Reducer!LastOf(Append(seen, pk), DuplicateWindow)
           cancels == [w \in Warnings |-> IF at - s.recentCancels[w] < CancelRetention
                                          THEN s.recentCancels[w] ELSE -1]
           isGap == place \in Gaps
<1>1. /\ s.recentMessages \in Seq(Packets) /\ s.recentCancels \in [Warnings -> Int]
      /\ s.lastSeq \in Int /\ s.lastHeardAt \in Int /\ s.gapDetectedAt \in Int
      /\ s.needsDigest \in BOOLEAN /\ pk.seq \in Int
  BY DEF Phones, Packets
<1>2. seen \in {<<>>, s.recentMessages} BY DEF Reducer!Seen
<1>3. /\ Append(seen, pk) \in Seq(Packets)
      /\ \A k \in 1 .. Len(Append(seen, pk)) :
           \/ Append(seen, pk)[k] = pk
           \/ \E j \in 1 .. Len(s.recentMessages) : Append(seen, pk)[k] = s.recentMessages[j]
  <2> HIDE DEF seen
  <2>0. <<>> \in Seq(Packets) BY EmptySeq
  <2>1. seen \in Seq(Packets) BY <2>0, <1>1, <1>2, Zenon
  <2>2. /\ Append(seen, pk) \in Seq(Packets) /\ Len(Append(seen, pk)) = Len(seen) + 1
        /\ \A k \in 1 .. Len(seen) : Append(seen, pk)[k] = seen[k]
        /\ Append(seen, pk)[Len(seen) + 1] = pk
    BY <2>1, AppendProperties
  <2>3. Len(seen) \in Nat BY <2>1
  <2>4. ASSUME NEW k \in 1 .. Len(Append(seen, pk)), Append(seen, pk)[k] # pk
        PROVE  \E j \in 1 .. Len(s.recentMessages) : Append(seen, pk)[k] = s.recentMessages[j]
    <3>1. k \in 1 .. Len(seen) BY <2>2, <2>3, <2>4
    <3>2. seen = s.recentMessages BY <1>2, <3>1
    <3> QED BY <2>2, <3>1, <3>2
  <2> QED BY <2>2, <2>4
<1>4. /\ recent \in Seq(Packets)
      /\ \A i \in 1 .. Len(recent) :
           \/ recent[i] = pk
           \/ \E j \in 1 .. Len(s.recentMessages) : recent[i] = s.recentMessages[j]
  <2> DEFINE all == Append(seen, pk)
  <2>1. all \in Seq(Packets) BY <1>3
  <2>2. \A k \in 1 .. Len(all) :
          all[k] = pk \/ \E j \in 1 .. Len(s.recentMessages) : all[k] = s.recentMessages[j]
    BY <1>3
  <2> HIDE DEF all
  <2>3. /\ Reducer!LastOf(all, DuplicateWindow) \in Seq(Packets)
        /\ \A i \in 1 .. Len(Reducer!LastOf(all, DuplicateWindow)) :
             \E k \in 1 .. Len(all) : Reducer!LastOf(all, DuplicateWindow)[i] = all[k]
    BY <2>1, LastOfIs
  <2>4. \A i \in 1 .. Len(Reducer!LastOf(all, DuplicateWindow)) :
          \/ Reducer!LastOf(all, DuplicateWindow)[i] = pk
          \/ \E j \in 1 .. Len(s.recentMessages) :
               Reducer!LastOf(all, DuplicateWindow)[i] = s.recentMessages[j]
    BY <2>2, <2>3
  <2> QED BY <2>3, <2>4 DEF all
<1>5. cancels \in [Warnings -> Int] BY <1>1
<1>6. a = [s EXCEPT !.lastSeq = IF place = "behind" THEN s.lastSeq ELSE pk.seq,
                    !.recentMessages = recent,
                    !.lastHeardAt = Reducer!Later(s.lastHeardAt, at),
                    !.recentCancels = cancels,
                    !.needsDigest = s.needsDigest \/ isGap,
                    !.gapDetectedAt = IF isGap THEN Reducer!Later(s.gapDetectedAt, at)
                                      ELSE s.gapDetectedAt]
  BY DEF Reducer!Accept, Reducer!Never, Gaps
<1>7. /\ Reducer!Later(s.lastHeardAt, at) \in Int
      /\ (IF isGap THEN Reducer!Later(s.gapDetectedAt, at) ELSE s.gapDetectedAt) \in Int
      /\ (IF place = "behind" THEN s.lastSeq ELSE pk.seq) \in Int
  BY <1>1 DEF Reducer!Later
<1>8. (s.needsDigest \/ isGap) \in BOOLEAN OBVIOUS
<1> HIDE DEF a, recent, place, cancels, isGap
<1>10. a \in Phones BY <1>4, <1>5, <1>6, <1>7, <1>8 DEF Phones
<1>11. /\ a.lastSeq = IF place = "behind" THEN s.lastSeq ELSE pk.seq
       /\ a.lastHeardAt = Reducer!Later(s.lastHeardAt, at)
       /\ a.warnings = s.warnings
       /\ a.recentCancels = cancels
       /\ a.gapDetectedAt = IF isGap THEN Reducer!Later(s.gapDetectedAt, at) ELSE s.gapDetectedAt
       /\ a.recentMessages = recent
  BY <1>6 DEF Phones
<1>12. a.needsDigest = (s.needsDigest \/ isGap) BY <1>6 DEF Phones
<1>13. isGap => a.needsDigest BY <1>12
<1>14. ~isGap => a.needsDigest = s.needsDigest BY <1>1, <1>12
<1> QED BY <1>4, <1>10, <1>11, <1>13, <1>14 DEF a, place, isGap, cancels, Accepted

HeldIs(warning, seq, at) == [version |-> warning.version, receivedAt |-> at, seq |-> seq]

LEMMA ListFields ==
  ASSUME NEW s \in Phones, NEW n \in [Warnings -> Helds], NEW m \in SUBSET Warnings,
         NEW d \in Int, NEW b \in BOOLEAN, NEW g \in Int
  PROVE  [s EXCEPT !.warnings = n, !.missingFromDigest = m, !.digest = d, !.needsDigest = b,
                   !.gapDetectedAt = g] \in Phones
<1>1. [s EXCEPT !.warnings = n] \in Phones BY DEF Phones
<1>2. [s EXCEPT !.warnings = n, !.missingFromDigest = m] \in Phones BY <1>1 DEF Phones
<1>3. [s EXCEPT !.warnings = n, !.missingFromDigest = m, !.digest = d] \in Phones
  BY <1>2 DEF Phones
<1>4. [s EXCEPT !.warnings = n, !.missingFromDigest = m, !.digest = d, !.needsDigest = b] \in Phones
  BY <1>3 DEF Phones
<1> QED BY <1>4 DEF Phones

LEMMA CancelFields ==
  ASSUME NEW s \in Phones, NEW n \in [Warnings -> Helds], NEW c \in [Warnings -> Int],
         NEW m \in SUBSET Warnings
  PROVE  [s EXCEPT !.warnings = n, !.recentCancels = c, !.missingFromDigest = m] \in Phones
<1>1. [s EXCEPT !.warnings = n] \in Phones BY DEF Phones
<1>2. [s EXCEPT !.warnings = n, !.recentCancels = c] \in Phones BY <1>1 DEF Phones
<1> QED BY <1>2 DEF Phones

\* Whatever a packet says, the numbers, the packets kept and the time are what
\* accepting it makes of them, and a gap only closes by a list.
Applied(s, pk, at, a, r) ==
  LET m == pk.message IN
  /\ r \in Phones
  /\ r.lastSeq = a.lastSeq /\ r.recentMessages = a.recentMessages
  /\ r.lastHeardAt = a.lastHeardAt
  /\ \/ r.needsDigest = a.needsDigest /\ r.gapDetectedAt = a.gapDetectedAt
     \/ /\ m.type = "digest" /\ Reducer!ClosesGap(a, m)
        /\ ~r.needsDigest /\ r.gapDetectedAt = -1
        /\ \A w \in Reducer!EndedBy(a, m) : r.warnings[w] = Reducer!NotHeld
  /\ \A w \in Warnings :
       \/ r.warnings[w] = a.warnings[w]
       \/ r.warnings[w] = Reducer!NotHeld /\ m.type = "cancel" /\ m.id = w
       \/ r.warnings[w] = Reducer!NotHeld /\ m.type = "digest" /\ w \in Reducer!EndedBy(a, m)
       \/ r.warnings[w] = HeldIs(m, pk.seq, at) /\ m.type = "warning" /\ m.id = w
  /\ \A w \in Warnings :
       r.recentCancels[w] = IF m.type = "cancel" /\ m.id = w THEN at ELSE a.recentCancels[w]
  /\ m.type = "cancel" => r.warnings[m.id] = Reducer!NotHeld
  /\ m.type = "warning" =>
       IF Reducer!Place(s, pk.seq, at) = "behind" /\ Reducer!WouldRollBack(a, m.id, pk.seq, at)
       THEN r.warnings = a.warnings
       ELSE r.warnings[m.id] = HeldIs(m, pk.seq, at)
LEMMA ApplyIs ==
  ASSUME NEW s \in Phones, NEW pk \in Packets, NEW at \in Nat, ~Reducer!IsCopy(s, pk, at)
  PROVE  Applied(s, pk, at, Reducer!Accept(s, pk, at), Reducer!Apply(s, pk, at))
<1> USE FeedConstants
<1> DEFINE m == pk.message
           backs == /\ Reducer!Place(s, pk.seq, at) = "behind"
                    /\ Reducer!WouldRollBack(Reducer!Accept(s, pk, at), pk.message.id, pk.seq, at)
<1>1. PICK a : a = Reducer!Accept(s, pk, at) OBVIOUS
<1>2. PICK r : r = Reducer!Apply(s, pk, at) OBVIOUS
<1>3. a \in Phones BY <1>1, AcceptIs DEF Accepted
<1>4. m \in Messages /\ pk.seq \in Nat BY DEF Packets
<1>5. /\ m.type = "warning" => r = IF backs THEN a ELSE Reducer!StoreWarning(a, m, pk.seq, at)
      /\ m.type = "cancel" => r = Reducer!RemoveWarning(a, m, at)
      /\ m.type = "digest" => r = Reducer!ApplyDigest(a, m)
      /\ m.type \notin {"warning", "cancel", "digest"} => r = a
  BY <1>1, <1>2 DEF Reducer!Apply
<1>6. /\ a.warnings \in [Warnings -> Helds] /\ a.recentCancels \in [Warnings -> Int]
      /\ a.needsDigest \in BOOLEAN /\ a.missingFromDigest \in SUBSET Warnings
  BY <1>3 DEF Phones
<1>7. Reducer!NotHeld \in Helds BY DEF Reducer!NotHeld, Reducer!Never, Helds
<1>a. ASSUME r = a, m.type = "warning" => backs, m.type # "cancel" PROVE Applied(s, pk, at, a, r)
  <2>1. m.type = "warning" => /\ Reducer!Place(s, pk.seq, at) = "behind"
                              /\ Reducer!WouldRollBack(a, m.id, pk.seq, at)
    BY <1>1, <1>a
  <2> HIDE DEF backs
  <2> QED BY <2>1, <1>a, <1>3 DEF Applied
<1>b. ASSUME m.type = "warning", ~backs PROVE Applied(s, pk, at, a, r)
  <2>1. m.id \in Warnings /\ m.version \in Nat BY <1>b, <1>4, MessageKinds
  <2>2. HeldIs(m, pk.seq, at) \in Helds BY <2>1, <1>4 DEF HeldIs, Helds
  <2>3. r = [a EXCEPT !.warnings[m.id] = HeldIs(m, pk.seq, at),
                      !.missingFromDigest = a.missingFromDigest \ {m.id}]
    BY <1>5, <1>b DEF Reducer!StoreWarning, HeldIs
  <2>4. ~(/\ Reducer!Place(s, pk.seq, at) = "behind"
          /\ Reducer!WouldRollBack(a, m.id, pk.seq, at))
    BY <1>1, <1>b
  <2>5. r \in Phones BY <2>1, <2>2, <2>3, <1>3 DEF Phones
  <2>6. /\ r.lastSeq = a.lastSeq /\ r.recentMessages = a.recentMessages
        /\ r.lastHeardAt = a.lastHeardAt /\ r.gapDetectedAt = a.gapDetectedAt
        /\ r.recentCancels = a.recentCancels
        /\ r.warnings = [a.warnings EXCEPT ![m.id] = HeldIs(m, pk.seq, at)]
    BY <2>3, <1>3 DEF Phones
  <2>7. r.needsDigest = a.needsDigest BY <2>3, <1>3 DEF Phones
  <2> HIDE DEF backs
  <2> QED BY <2>1, <2>4, <2>5, <2>6, <2>7, <1>b, <1>6 DEF Applied
<1>c. ASSUME m.type = "cancel" PROVE Applied(s, pk, at, a, r)
  <2>1. m.id \in Warnings BY <1>c, <1>4, MessageKinds
  <2> DEFINE held == [a.warnings EXCEPT ![m.id] = Reducer!NotHeld]
             cancels == [a.recentCancels EXCEPT ![m.id] = at]
             missing == a.missingFromDigest \ {m.id}
  <2>2. /\ held \in [Warnings -> Helds] /\ cancels \in [Warnings -> Int]
        /\ missing \in SUBSET Warnings
    BY <2>1, <1>6, <1>7
  <2>3. r = [a EXCEPT !.warnings = held, !.recentCancels = cancels, !.missingFromDigest = missing]
    BY <1>5, <1>c, <1>3 DEF Reducer!RemoveWarning, Phones
  <2>5. r \in Phones
    <3> HIDE DEF held, cancels, missing
    <3> QED BY <2>2, <2>3, <1>3, CancelFields
  <2>6. /\ r.lastSeq = a.lastSeq /\ r.recentMessages = a.recentMessages
        /\ r.lastHeardAt = a.lastHeardAt /\ r.gapDetectedAt = a.gapDetectedAt
        /\ r.recentCancels = [a.recentCancels EXCEPT ![m.id] = at]
        /\ r.warnings = [a.warnings EXCEPT ![m.id] = Reducer!NotHeld]
    BY <2>3, <1>3 DEF Phones
  <2>7. r.needsDigest = a.needsDigest BY <2>3, <1>3 DEF Phones
  <2> HIDE DEF backs
  <2> QED BY <2>1, <2>5, <2>6, <2>7, <1>c, <1>6 DEF Applied
<1>d. ASSUME m.type = "digest", ~(m.built < a.digest) PROVE Applied(s, pk, at, a, r)
  <2> DEFINE ended == [w \in Warnings |-> IF w \in Reducer!EndedBy(a, m) THEN Reducer!NotHeld
                                          ELSE a.warnings[w]]
             missing == {w \in m.listed : ~Reducer!Holds(a, w)}
             closes == Reducer!ClosesGap(a, m)
             still == a.needsDigest /\ ~closes
             gap == IF closes THEN -1 ELSE a.gapDetectedAt
  <2>1. m.listed \subseteq Warnings /\ m.built \in Nat BY <1>d, <1>4, MessageKinds
  <2>2. ended \in [Warnings -> Helds] BY <1>6, <1>7
  <2>3. missing \in SUBSET Warnings /\ still \in BOOLEAN BY <2>1
  <2>4. gap \in Int BY <1>3 DEF Phones
  <2>5. r = [a EXCEPT !.warnings = ended, !.missingFromDigest = missing, !.digest = m.built,
                      !.needsDigest = still, !.gapDetectedAt = gap]
    BY <1>5, <1>d DEF Reducer!ApplyDigest, Reducer!Never
  <2>6. \A w \in Warnings : ended[w] = IF w \in Reducer!EndedBy(a, m) THEN Reducer!NotHeld
                                       ELSE a.warnings[w]
    OBVIOUS
  <2>7. Reducer!EndedBy(a, m) \subseteq Warnings BY DEF Reducer!EndedBy
  <2>8. closes => still = FALSE /\ gap = -1 OBVIOUS
  <2>9. ~closes => still = a.needsDigest /\ gap = a.gapDetectedAt BY <1>6
  <2> HIDE DEF ended, missing, still, gap, backs
  <2>10. r \in Phones
    <3>1. \A d \in Int : [a EXCEPT !.warnings = ended, !.missingFromDigest = missing, !.digest = d,
                                  !.needsDigest = still, !.gapDetectedAt = gap] \in Phones
      BY <2>2, <2>3, <2>4, <1>3, ListFields
    <3>2. m.built \in Int BY <2>1
    <3> QED BY <3>1, <3>2, <2>5
  <2>11. /\ r.lastSeq = a.lastSeq /\ r.recentMessages = a.recentMessages
         /\ r.lastHeardAt = a.lastHeardAt /\ r.gapDetectedAt = gap
         /\ r.recentCancels = a.recentCancels /\ r.warnings = ended
    BY <2>5, <1>3 DEF Phones
  <2>12. r.needsDigest = still BY <2>5, <1>3 DEF Phones
  <2>13. \/ r.needsDigest = a.needsDigest /\ r.gapDetectedAt = a.gapDetectedAt
         \/ /\ closes /\ ~r.needsDigest /\ r.gapDetectedAt = -1
            /\ \A w \in Reducer!EndedBy(a, m) : r.warnings[w] = Reducer!NotHeld
    BY <2>6, <2>7, <2>8, <2>9, <2>11, <2>12
  <2> QED BY <2>6, <2>10, <2>11, <2>13, <1>d DEF Applied
<1>e. m.type = "digest" /\ m.built < a.digest => r = a BY <1>5 DEF Reducer!ApplyDigest
<1>f. m.type \in {"warning", "cancel", "digest", "part"} BY <1>4, MessageKinds
<1>g. backs /\ m.type = "warning" => r = a BY <1>5
<1>h. m.type = "part" => r = a BY <1>5
<1>i. Applied(s, pk, at, a, r)
  <2> HIDE DEF backs
  <2> QED BY <1>a, <1>b, <1>c, <1>d, <1>e, <1>f, <1>g, <1>h
<1> QED BY <1>i, <1>1, <1>2

-----------------------------------------------------------------------------
(* A packet reaches the phone *)

\* A copy of a packet that was heard changes nothing; any other packet is applied.
LEMMA DeliverIs ==
  ASSUME BaseOK, OneRound, NEW d \in OnAir, Deliver(d)
  PROVE  \/ phone' = phone /\ heard' = heard /\ d \in heard
         \/ \E a : Accepted(phone, air[d], now, a) /\ Applied(phone, air[d], now, a, phone')
<1>t. Types /\ PhoneOK BY DEF BaseOK
<1>1. phone \in Phones /\ air[d] \in Packets /\ now \in Nat BY <1>t DEF Types, OnAir
<1>2. CASE Reducer!IsCopy(phone, air[d], now)
  <2>1. phone' = phone /\ heard' = heard \cup {d} BY <1>2 DEF Deliver, Reducer!Apply
  <2>2. PICK i \in 1 .. Len(Reducer!Seen(phone, now)) :
          Reducer!Seen(phone, now)[i].seq = air[d].seq
    BY <1>2 DEF Reducer!IsCopy
  <2>3. Reducer!Seen(phone, now) = phone.recentMessages
    <3>1. Reducer!Seen(phone, now) \in {<<>>, phone.recentMessages} BY DEF Reducer!Seen
    <3>2. Reducer!Seen(phone, now) # <<>> BY <2>2
    <3> QED BY <3>1, <3>2
  <2>4. PICK h \in heard : phone.recentMessages[i] = air[h] BY <2>2, <2>3, <1>t DEF PhoneOK
  <2>5. h = d BY <2>2, <2>3, <2>4, <1>t, NumbersDiffer DEF PhoneOK
  <2> QED BY <2>1, <2>4, <2>5
<1>3. CASE ~Reducer!IsCopy(phone, air[d], now)
  <2>1. phone' = Reducer!Apply(phone, air[d], now) BY DEF Deliver
  <2>2. Accepted(phone, air[d], now, Reducer!Accept(phone, air[d], now)) BY <1>1, AcceptIs
  <2>3. Applied(phone, air[d], now, Reducer!Accept(phone, air[d], now), phone')
    BY <2>1, <1>1, <1>3, ApplyIs
  <2> QED BY <2>2, <2>3
<1> QED BY <1>2, <1>3

LEMMA HearingKeepsBase ==
  ASSUME BaseOK, OneRound, NEW d \in OnAir, Deliver(d) PROVE BaseOK'
<1>t. Types /\ Numbered /\ BotOK /\ MeshOK /\ PhoneOK BY DEF BaseOK
<1>u. UNCHANGED <<vars, sent, restarts>> /\ heard' = heard \cup {d} BY DEF Deliver, botVars
<1>v. /\ now' = now /\ active' = active /\ over' = over /\ batch' = batch /\ nextSeq' = nextSeq
      /\ air' = air /\ sent' = sent /\ restarts' = restarts /\ whole' = whole
  BY <1>u DEF vars
<1>1. Numbered' /\ BotOK' /\ MeshOK'
  <2>1. Numbered' BY <1>v, <1>t DEF Numbered, Num, OnAir
  <2>2. BotOK' BY <1>v, <1>t DEF BotOK, SaidOK, Said, OnAir
  <2>3. MeshOK' BY <1>v, <1>t DEF MeshOK, OnAir
  <2> QED BY <2>1, <2>2, <2>3
<1>2. CASE phone' = phone /\ heard' = heard
  <2>1. Types' BY <1>2, <1>v, <1>t DEF Types
  <2>2. PhoneOK' BY <1>2, <1>v, <1>t DEF PhoneOK, At, OnAir
  <2> QED BY <1>1, <2>1, <2>2 DEF BaseOK
<1>3. CASE \E a : Accepted(phone, air[d], now, a) /\ Applied(phone, air[d], now, a, phone')
  <2>1. PICK a : Accepted(phone, air[d], now, a) /\ Applied(phone, air[d], now, a, phone') BY <1>3
  <2>2. phone' \in Phones BY <2>1 DEF Applied
  <2>3. Types'
    <3>1. heard' \subseteq Nat BY <1>u, <1>t DEF Types, OnAir
    <3> QED BY <2>2, <3>1, <1>v, <1>t DEF Types
  <2>4. heard' \subseteq OnAir' /\ 1 \in heard' BY <1>u, <1>v, <1>t DEF PhoneOK, OnAir
  <2>5. \E p \in heard' : At(p)'
    <3>1. phone'.lastSeq \in {phone.lastSeq, air[d].seq} BY <2>1 DEF Applied, Accepted
    <3>2. PICK p \in heard : phone.lastSeq = air[p].seq BY <1>t DEF PhoneOK, At
    <3> QED BY <3>1, <3>2, <1>u, <1>v DEF At
  <2>6. \A i \in 1 .. Len(phone'.recentMessages) : \E h \in heard' : phone'.recentMessages[i] = air'[h]
    <3> SUFFICES ASSUME NEW i \in 1 .. Len(phone'.recentMessages)
                 PROVE  \E h \in heard' : phone'.recentMessages[i] = air'[h]
      OBVIOUS
    <3>1. phone'.recentMessages = a.recentMessages BY <2>1 DEF Applied
    <3>2. \/ phone'.recentMessages[i] = air[d]
          \/ \E k \in 1 .. Len(phone.recentMessages) : phone'.recentMessages[i] = phone.recentMessages[k]
      BY <2>1, <3>1 DEF Accepted
    <3> QED BY <3>2, <1>u, <1>v, <1>t DEF PhoneOK
  <2>7. phone'.needsDigest => phone'.gapDetectedAt # -1
    <3> HAVE phone'.needsDigest
    <3>1. phone'.needsDigest = a.needsDigest /\ phone'.gapDetectedAt = a.gapDetectedAt
      BY <2>1 DEF Applied
    <3>2. phone.gapDetectedAt \in Int /\ now \in Nat BY <1>t DEF Types, Phones
    <3> QED BY <2>1, <3>1, <3>2, <1>t DEF Accepted, PhoneOK, Reducer!Later
  <2>8. \A w \in Warnings : phone'.warnings[w].receivedAt <= now'
    <3> SUFFICES ASSUME NEW w \in Warnings PROVE phone'.warnings[w].receivedAt <= now
      BY <1>v
    <3>1. a.warnings = phone.warnings BY <2>1 DEF Accepted
    <3>2. \/ phone'.warnings[w] = phone.warnings[w] \/ phone'.warnings[w] = Reducer!NotHeld
          \/ phone'.warnings[w] = HeldIs(air[d].message, air[d].seq, now)
      BY <2>1, <3>1 DEF Applied
    <3>3. now \in Nat BY <1>t DEF Types
    <3>4. Reducer!NotHeld.receivedAt = -1 BY DEF Reducer!NotHeld, Reducer!Never
    <3>5. HeldIs(air[d].message, air[d].seq, now).receivedAt = now BY DEF HeldIs
    <3> QED BY <3>2, <3>3, <3>4, <3>5, <1>t DEF PhoneOK
  <2>9. PhoneOK' BY <2>4, <2>5, <2>6, <2>7, <2>8 DEF PhoneOK
  <2> QED BY <1>1, <2>3, <2>9 DEF BaseOK
<1> QED BY <1>2, <1>3, DeliverIs

IsDigest(i) == air[i].message.type = "digest"

\* Either the packet marks a gap now, or it went out right after the last one and
\* leaves the gap as it is, or is a list that closes it.
Marks == phone'.needsDigest /\ phone'.gapDetectedAt >= now
Leaves == phone'.needsDigest = phone.needsDigest /\ phone'.gapDetectedAt = phone.gapDetectedAt
Closes(d) ==
  LET m == air[d].message IN
  /\ IsDigest(d) /\ ~phone'.needsDigest
  /\ phone.needsDigest => phone.gapDetectedAt < m.built - DigestMargin
  /\ \A w \in Warnings \ m.listed :
       phone.warnings[w].receivedAt < m.built - DigestMargin => ~Reducer!Holds(phone', w)
Follows(d) == \A p \in heard : At(p) => d = p + 1
Moved(d) ==
  /\ phone'.lastSeq \in {phone.lastSeq, air[d].seq}
  /\ \/ Marks
     \/ Follows(d) /\ phone'.lastSeq = air[d].seq /\ (Leaves \/ Closes(d))
  /\ \A w \in Warnings :
       \/ phone'.warnings[w] = phone.warnings[w]
       \/ ~Reducer!Holds(phone', w)
       \/ Says(d, "warning", w) /\ phone'.warnings[w].receivedAt = now
  /\ \A w \in Warnings : Says(d, "cancel", w) => ~Reducer!Holds(phone', w)

LEMMA HeardIs ==
  ASSUME BaseOK, OneRound, NEW d \in OnAir, Deliver(d)
  PROVE  (phone' = phone /\ heard' = heard) \/ Moved(d)
<1> USE FeedConstants
<1>t. Types /\ Numbered /\ BotOK /\ MeshOK /\ PhoneOK BY DEF BaseOK
<1> SUFFICES ASSUME NEW a, Accepted(phone, air[d], now, a), Applied(phone, air[d], now, a, phone')
             PROVE  Moved(d)
  BY DeliverIs
<1> DEFINE m == air[d].message
<1>1. /\ phone.gapDetectedAt \in Int /\ phone.needsDigest \in BOOLEAN /\ now \in Nat
      /\ phone'.gapDetectedAt \in Int /\ phone'.needsDigest \in BOOLEAN
      /\ \A w \in Warnings : phone.warnings[w].receivedAt \in Int
  BY <1>t DEF Types, Phones, Helds, Applied
<1>2. m.type = "digest" => m.built \in Nat /\ m.built <= now
  <2>1. m \in Said BY DEF Said
  <2>2. m \in Messages BY <2>1, <1>t, SaidType
  <2> QED BY <2>1, <2>2, <1>t, MessageKinds DEF BotOK, SaidOK
<1>3. PICK p \in heard : At(p) BY <1>t DEF PhoneOK
<1>4. \A q \in heard : At(q) => q = p
  BY <1>3, <1>t, NumbersDiffer DEF At, PhoneOK
<1>5. PlaceOf(d) \in Gaps \cup {"next"} /\ (PlaceOf(d) = "next" => Follows(d))
  BY <1>3, <1>4, PlaceIs DEF Follows
<1>6. PlaceOf(d) \in Gaps => a.needsDigest /\ a.gapDetectedAt >= now
  BY <1>1 DEF Accepted, PlaceOf, Reducer!Later
<1>7. PlaceOf(d) \notin Gaps => a.needsDigest = phone.needsDigest /\ a.gapDetectedAt = phone.gapDetectedAt
  BY <1>1 DEF Accepted, PlaceOf
<1>8. a.warnings = phone.warnings BY DEF Accepted
<1>9. Reducer!ClosesGap(a, m) /\ m.type = "digest" /\ PlaceOf(d) \in Gaps => FALSE
  BY SMTT(30), <1>1, <1>2, <1>6 DEF Reducer!ClosesGap, Reducer!SpeaksBefore, Reducer!Never, Accepted, Phones
<1>10. ASSUME m.type = "digest", Reducer!ClosesGap(a, m), ~phone'.needsDigest,
              \A w \in Reducer!EndedBy(a, m) : phone'.warnings[w] = Reducer!NotHeld,
              PlaceOf(d) \notin Gaps
       PROVE  Closes(d)
  <2>1. phone.needsDigest => phone.gapDetectedAt < m.built - DigestMargin
    <3> HAVE phone.needsDigest
    <3>1. phone.gapDetectedAt # -1 BY <1>t DEF PhoneOK
    <3>2. a.gapDetectedAt = phone.gapDetectedAt BY <1>7, <1>10
    <3> QED BY <1>10, <3>1, <3>2 DEF Reducer!ClosesGap, Reducer!SpeaksBefore, Reducer!Never
  <2>2. ASSUME NEW w \in Warnings \ m.listed,
               phone.warnings[w].receivedAt < m.built - DigestMargin
        PROVE  ~Reducer!Holds(phone', w)
    <3>1. CASE Reducer!Holds(a, w)
      <4>1. w \in Reducer!EndedBy(a, m) BY <2>2, <3>1, <1>8 DEF Reducer!EndedBy, Reducer!SpeaksBefore
      <4> QED BY <4>1, <1>10 DEF Reducer!Holds
    <3>2. CASE ~Reducer!Holds(a, w)
      BY <3>2, <1>10, <1>8 DEF Applied, Reducer!Holds
    <3> QED BY <3>1, <3>2
  <2> QED BY <2>1, <2>2, <1>10 DEF Closes, IsDigest
<1>11. \/ PlaceOf(d) \in Gaps /\ Marks
       \/ PlaceOf(d) \notin Gaps /\ (Leaves \/ Closes(d))
  BY <1>6, <1>7, <1>9, <1>10 DEF Applied, Marks, Leaves
<1>12. phone'.lastSeq \in {phone.lastSeq, air[d].seq} /\ (PlaceOf(d) = "next" => phone'.lastSeq = air[d].seq)
  BY DEF Applied, Accepted, PlaceOf
<1>13. \A w \in Warnings :
         \/ phone'.warnings[w] = phone.warnings[w]
         \/ ~Reducer!Holds(phone', w)
         \/ Says(d, "warning", w) /\ phone'.warnings[w].receivedAt = now
  BY <1>8 DEF Applied, Reducer!Holds, Says, HeldIs
<1>14. \A w \in Warnings : Says(d, "cancel", w) => ~Reducer!Holds(phone', w)
  BY DEF Applied, Reducer!Holds, Says
<1> QED BY <1>5, <1>11, <1>12, <1>13, <1>14 DEF Moved

-----------------------------------------------------------------------------
(* Gaps stay open *)

\* A gap that hides what came before a packet is not closed by the lists that came
\* before it, nor by those that still list what was cancelled before it.
Unclosed(h) ==
  /\ phone.needsDigest
  /\ \A k \in OnAir : k < h /\ IsDigest(k) => air[k].message.built <= phone.gapDetectedAt
  /\ \A i \in OnAir : \A w \in Warnings : i <= h /\ Says(i, "cancel", w) =>
       \A m \in Said : m.type = "digest" /\ w \in m.listed => m.built <= phone.gapDetectedAt

LossOK ==
  \A i \in OnAir : \A j \in heard : i \notin heard /\ i < j =>
    (\E k \in heard : i < k /\ IsDigest(k)) \/ Unclosed(i)

\* The phone may go back to an old packet's number, and then says that it misses some.
BackOK == \A p \in heard : \A h \in heard : At(p) /\ p < h => Unclosed(h)

\* A warning that is shown after its cancel was passed was stored before the gap
\* was marked, or the cancel is still ahead.
BeforeGap(w, i) ==
  \/ phone.warnings[w].receivedAt <= phone.gapDetectedAt
  \/ \E p \in heard : p < i /\ At(p)
GhostOK ==
  \A w \in Warnings : \A i \in OnAir : \A j \in heard :
    Says(i, "cancel", w) /\ i <= j /\ SentInOrder(w) /\ Reducer!Holds(phone, w) =>
      Unclosed(i) /\ BeforeGap(w, i)

GapsOK == BaseOK /\ LossOK /\ BackOK /\ GhostOK

LEMMA SaidTimes ==
  ASSUME BaseOK
  PROVE  /\ \A m \in Said : m.type = "digest" => m.built \in Nat /\ m.built <= now
         /\ \A k \in OnAir : IsDigest(k) => air[k].message.built \in Nat /\ air[k].message.built <= now
         /\ phone.gapDetectedAt \in Int /\ now \in Nat
<1>t. Types /\ BotOK BY DEF BaseOK
<1>1. \A m \in Said : m.type = "digest" => m.built \in Nat /\ m.built <= now
  BY <1>t, SaidType, MessageKinds DEF BotOK, SaidOK
<1>2. \A k \in OnAir : air[k].message \in Said BY DEF Said
<1> QED BY <1>1, <1>2, <1>t DEF IsDigest, Types, Phones

LEMMA UnclosedBefore ==
  ASSUME BaseOK, NEW h \in OnAir, Unclosed(h), NEW i \in OnAir, i <= h PROVE Unclosed(i)
<1>1. \A k \in OnAir : (k < i => k < h) /\ (k <= i => k <= h) BY DEF OnAir
<1> QED BY <1>1 DEF Unclosed

LEMMA UnclosedStays ==
  ASSUME BaseOK, Moves, NEW h \in OnAir, Unclosed(h) PROVE Unclosed(h)'
<1>t. Types /\ BotOK BY DEF BaseOK
<1>1. phone' = phone BY DEF Moves
<1>2. \A k \in OnAir' : k <= h => k \in OnAir /\ air'[k] = air[k]
  <2>1. \A k \in OnAir' : k <= h => k \in OnAir BY <1>t, AirGrows DEF OnAir, Types
  <2> QED BY <2>1, AirGrows
<1>3. ASSUME NEW k \in OnAir', k < h, IsDigest(k)'
      PROVE  air'[k].message.built <= phone.gapDetectedAt
  <2>1. k \in OnAir /\ air'[k] = air[k] BY <1>2, <1>3 DEF OnAir
  <2> QED BY <2>1, <1>3 DEF IsDigest, Unclosed
<1>4. ASSUME NEW i \in OnAir', NEW w \in Warnings, i <= h, Says(i, "cancel", w)',
             NEW m \in Said', m.type = "digest", w \in m.listed
      PROVE  m.built <= phone.gapDetectedAt
  <2>1. i \in OnAir /\ Says(i, "cancel", w) BY <1>2, <1>4 DEF Says
  <2>2. CASE m \in Said BY <2>1, <2>2, <1>4 DEF Unclosed
  <2>3. CASE m \in Sayable(active) \cup PartMessages
    <3>1. m.listed = Listed(active) BY <2>3, <1>4, <1>t, BuiltNow
    <3>2. active[w] # 0 BY <3>1, <1>4 DEF Listed
    <3>3. air[i].message \in Said BY <2>1 DEF Said
    <3>4. over[w] # "no" BY <2>1, <3>3, <1>t DEF BotOK, SaidOK, Says
    <3> QED BY <3>2, <3>4, <1>t DEF BotOK
  <2> QED BY <2>2, <2>3, AirGrows
<1> QED BY <1>1, <1>3, <1>4 DEF Unclosed

LEMMA MarkedIsUnclosed ==
  ASSUME BaseOK, NEW d \in OnAir, Deliver(d), Marks, phone'.gapDetectedAt \in Int, NEW h \in OnAir
  PROVE  Unclosed(h)'
<1>1. air' = air /\ batch' = batch BY DEF Deliver, botVars, vars
<1>2. OnAir' = OnAir /\ Said' = Said BY <1>1 DEF OnAir, Said
<1>3. phone'.needsDigest /\ phone'.gapDetectedAt >= now BY DEF Marks
<1>4. \A m \in Said' : m.type = "digest" => m.built <= phone'.gapDetectedAt
  BY <1>2, <1>3, SaidTimes
<1>5. \A k \in OnAir' : IsDigest(k)' => air'[k].message.built <= phone'.gapDetectedAt
  <2>1. \A k \in OnAir' : air'[k].message \in Said' BY DEF Said
  <2> QED BY <2>1, <1>4 DEF IsDigest
<1> QED BY <1>3, <1>4, <1>5 DEF Unclosed

LEMMA LeftIsUnclosed ==
  ASSUME BaseOK, NEW d \in OnAir, Deliver(d), NEW h \in OnAir, Unclosed(h), Leaves
  PROVE  Unclosed(h)'
<1>1. air' = air /\ batch' = batch BY DEF Deliver, botVars, vars
<1>2. OnAir' = OnAir /\ Said' = Said BY <1>1 DEF OnAir, Said
<1> QED BY <1>1, <1>2 DEF Unclosed, Leaves, IsDigest, Says

\* No list that went out before a packet closes the gap that hides it.
LEMMA UnclosedIsNotClosed ==
  ASSUME BaseOK, NEW h \in OnAir, Unclosed(h), NEW d \in OnAir, d < h PROVE ~Closes(d)
<1> SUFFICES ASSUME Closes(d) PROVE FALSE OBVIOUS
<1>1. IsDigest(d) /\ air[d].message.built <= phone.gapDetectedAt BY DEF Closes, Unclosed
<1>2. phone.gapDetectedAt < air[d].message.built - DigestMargin BY DEF Closes, Unclosed
<1>3. air[d].message.built \in Nat /\ phone.gapDetectedAt \in Int BY <1>1, SaidTimes
<1> QED BY <1>1, <1>2, <1>3, FeedConstants

\* Whatever is delivered, a gap that hides packet h stays open, unless a list that
\* went out after it closes it.
LEMMA UnclosedUnlessListed ==
  ASSUME BaseOK, NEW d \in OnAir, Deliver(d), Moved(d), phone'.gapDetectedAt \in Int,
         NEW h \in OnAir, Unclosed(h)
  PROVE  Unclosed(h)' \/ (Closes(d) /\ h <= d)
<1>1. CASE Marks BY <1>1, MarkedIsUnclosed
<1>2. CASE Leaves BY <1>2, LeftIsUnclosed
<1>3. CASE Closes(d)
  <2>1. ~(d < h) BY <1>3, UnclosedIsNotClosed
  <2> QED BY <2>1, <1>3 DEF OnAir
<1> QED BY <1>1, <1>2, <1>3 DEF Moved

LEMMA BotKeepsGaps ==
  ASSUME GapsOK, BotNext, OneRound PROVE GapsOK'
<1>b. BaseOK /\ LossOK /\ BackOK /\ GhostOK BY DEF GapsOK
<1>m. BaseOK' /\ Moves BY <1>b, BotKeepsBase
<1>t. Types /\ PhoneOK BY <1>b DEF BaseOK
<1>1. phone' = phone /\ heard' = heard BY <1>m DEF Moves
<1>2. /\ heard \subseteq OnAir /\ OnAir \subseteq OnAir'
      /\ \A i \in OnAir : air'[i] = air[i]
      /\ \A j \in heard : \A i \in OnAir' : i <= j => i \in OnAir
  <2>1. heard \subseteq OnAir BY <1>t DEF PhoneOK
  <2>2. Len(air) \in Nat /\ Len(air') \in {Len(air), Len(air) + 1}
    BY <1>b, <1>m, <1>t, AirGrows DEF Types
  <2>3. OnAir \subseteq OnAir' BY <2>2 DEF OnAir
  <2>4. \A j \in heard : \A i \in OnAir' : i <= j => i \in OnAir BY <2>1, <2>2 DEF OnAir
  <2> QED BY <2>1, <2>3, <2>4, <1>b, <1>m, AirGrows
<1>3. \A h \in OnAir : Unclosed(h) => Unclosed(h)' BY <1>b, <1>m, UnclosedStays
<1>4. LossOK'
  <2> SUFFICES ASSUME NEW i \in OnAir', NEW j \in heard, i \notin heard, i < j
               PROVE  (\E k \in heard : i < k /\ IsDigest(k)') \/ Unclosed(i)'
    BY <1>1 DEF LossOK
  <2>1. i \in OnAir BY <1>2 DEF OnAir
  <2>2. (\E k \in heard : i < k /\ IsDigest(k)) \/ Unclosed(i) BY <2>1, <1>b DEF LossOK
  <2> QED BY <2>1, <2>2, <1>2, <1>3 DEF IsDigest
<1>5. BackOK'
  <2> SUFFICES ASSUME NEW p \in heard, NEW h \in heard, At(p)', p < h PROVE Unclosed(h)'
    BY <1>1 DEF BackOK
  <2>1. At(p) BY <1>1, <1>2 DEF At
  <2> QED BY <2>1, <1>2, <1>3, <1>b DEF BackOK
<1>6. GhostOK'
  <2> SUFFICES ASSUME NEW w \in Warnings, NEW i \in OnAir', NEW j \in heard,
                      Says(i, "cancel", w)', i <= j, SentInOrder(w)', Reducer!Holds(phone, w)
               PROVE  Unclosed(i)' /\ BeforeGap(w, i)'
    BY <1>1 DEF GhostOK
  <2>1. i \in OnAir /\ Says(i, "cancel", w) BY <1>2 DEF Says
  <2>2. SentInOrder(w) BY <1>2 DEF SentInOrder, SaysOf, Says, Order
  <2>3. Unclosed(i) /\ BeforeGap(w, i) BY <2>1, <2>2, <1>b DEF GhostOK
  <2>4. BeforeGap(w, i)' BY <2>3, <1>1, <1>2 DEF BeforeGap, At
  <2> QED BY <2>1, <2>3, <2>4, <1>3
<1> QED BY <1>m, <1>4, <1>5, <1>6 DEF GapsOK

LEMMA HearingKeepsLoss ==
  ASSUME BaseOK, LossOK, BackOK, OneRound, NEW d \in OnAir, Deliver(d), Moved(d), BaseOK'
  PROVE  LossOK' /\ BackOK'
<1>t. Types /\ Types' /\ PhoneOK BY DEF BaseOK
<1>u. air' = air /\ heard' = heard \cup {d} BY DEF Deliver, botVars, vars
<1>o. OnAir' = OnAir /\ heard \subseteq OnAir /\ OnAir \subseteq Nat BY <1>u, <1>t DEF OnAir, PhoneOK
<1>g. phone'.gapDetectedAt \in Int BY <1>t DEF Types, Phones
<1>1. \A h \in OnAir : Unclosed(h) => Unclosed(h)' \/ (Closes(d) /\ h <= d)
  BY <1>g, UnclosedUnlessListed
<1>2. Marks => \A h \in OnAir : Unclosed(h)' BY <1>g, MarkedIsUnclosed
<1>3. PICK p \in heard : At(p) BY <1>t DEF PhoneOK
<1>4. LossOK'
  <2> SUFFICES ASSUME NEW i \in OnAir, NEW j \in heard \cup {d}, i \notin heard, i # d, i < j
               PROVE  (\E k \in heard \cup {d} : i < k /\ IsDigest(k)') \/ Unclosed(i)'
    BY <1>u, <1>o DEF LossOK
  <2>0. \A k \in OnAir : IsDigest(k)' = IsDigest(k) BY <1>u DEF IsDigest
  <2>1. CASE \E k \in heard : i < k /\ IsDigest(k) BY <2>1, <2>0, <1>o
  <2>2. CASE Unclosed(i)
    <3>1. CASE Closes(d) /\ i <= d
      <4>1. i < d /\ IsDigest(d)' BY <3>1, <2>0, <1>o DEF Closes
      <4> QED BY <4>1
    <3> QED BY <3>1, <2>2, <1>1
  <2>3. CASE Marks BY <2>3, <1>2
  <2>4. CASE ~Marks /\ ~(\E h \in heard : i < h)
    <3>1. d = p + 1 BY <2>4, <1>3 DEF Moved, Follows
    <3>2. j = d /\ ~(i < p) /\ i # p BY <2>4, <1>3
    <3> QED BY <3>1, <3>2, <1>o
  <2>5. CASE \E h \in heard : i < h BY <2>1, <2>2, <2>5 DEF LossOK
  <2> QED BY <2>3, <2>4, <2>5
<1>5. BackOK'
  <2> SUFFICES ASSUME NEW q \in heard \cup {d}, NEW h \in heard \cup {d}, At(q)', q < h PROVE Unclosed(h)'
    BY <1>u DEF BackOK
  <2>1. CASE Marks BY <2>1, <1>2, <1>o
  <2>2. CASE ~Marks
    <3>1. d = p + 1 /\ phone'.lastSeq = air[d].seq BY <2>2, <1>3 DEF Moved, Follows
    <3>2. q = d
      <4>1. q \in OnAir /\ air[q].seq = air[d].seq BY <3>1, <1>o, <1>u DEF At
      <4> QED BY <4>1, NumbersDiffer
    <3>3. h \in heard /\ p < h /\ d < h BY <3>1, <3>2, <1>o
    <3>4. Unclosed(h) BY <3>3, <1>3 DEF BackOK
    <3> QED BY <3>3, <3>4, <1>1, <1>o
  <2> QED BY <2>1, <2>2
<1> QED BY <1>4, <1>5

LEMMA HearingKeepsGhosts ==
  ASSUME BaseOK, BackOK, GhostOK, OneRound, NEW d \in OnAir, Deliver(d), Moved(d), BaseOK'
  PROVE  GhostOK'
<1> USE FeedConstants
<1>t. Types /\ Types' /\ PhoneOK /\ PhoneOK' BY DEF BaseOK
<1>u. air' = air /\ heard' = heard \cup {d} /\ now' = now BY DEF Deliver, botVars, vars
<1>o. OnAir' = OnAir /\ heard \subseteq OnAir /\ OnAir \subseteq Nat BY <1>u, <1>t DEF OnAir, PhoneOK
<1>g. /\ phone'.gapDetectedAt \in Int /\ phone.gapDetectedAt \in Int /\ now \in Nat
      /\ \A w \in Warnings : phone'.warnings[w].receivedAt \in Int
      /\ \A w \in Warnings : phone'.warnings[w].receivedAt <= now
  BY <1>t, <1>u DEF Types, Phones, Helds, PhoneOK
<1>1. \A h \in OnAir : Unclosed(h) => Unclosed(h)' \/ (Closes(d) /\ h <= d)
  BY <1>g, UnclosedUnlessListed
<1>2. Marks => \A h \in OnAir : Unclosed(h)' BY <1>g, MarkedIsUnclosed
<1>3. PICK p \in heard : At(p) BY <1>t DEF PhoneOK
<1>4. \A q \in heard : At(q) => q = p BY <1>3, <1>o, NumbersDiffer DEF At
<1> SUFFICES ASSUME NEW w \in Warnings, NEW i \in OnAir, NEW j \in heard \cup {d},
                    Says(i, "cancel", w), i <= j, SentInOrder(w), Reducer!Holds(phone', w)
             PROVE  Unclosed(i)' /\ BeforeGap(w, i)'
  <2>1. \A i \in OnAir : \A w \in Warnings : Says(i, "cancel", w)' = Says(i, "cancel", w)
    BY <1>u DEF Says
  <2>2. \A w \in Warnings : SentInOrder(w)' = SentInOrder(w)
    BY <1>u, <1>o DEF SentInOrder, SaysOf, Says, Order
  <2> QED BY <2>1, <2>2, <1>u, <1>o DEF GhostOK
\* A packet that says the warning, or the cancel, went out before the cancel or is it.
<1>5. Says(d, "warning", w) => d < i
  <2> HAVE Says(d, "warning", w)
  <2>1. air[d].message \in Messages /\ Order(d) \in Nat /\ Order(d) <= MaxVersion
    <3>1. air[d].message \in Messages BY <1>t, SaidType DEF Said
    <3>2. air[d].message.version \in 1 .. MaxVersion BY <3>1, MessageKinds DEF Says
    <3> QED BY <3>1, <3>2 DEF Order, Says
  <2>2. Order(i) = MaxVersion + 1 BY DEF Order, Says
  <2>3. i # d BY DEF Says
  <2>4. ~(i < d) BY <2>1, <2>2 DEF SentInOrder, SaysOf
  <2> QED BY <2>3, <2>4, <1>o
<1>6. d # i BY DEF Moved
<1>7. CASE Marks
  <2>1. phone'.warnings[w].receivedAt <= phone'.gapDetectedAt BY <1>7, <1>g DEF Marks
  <2> QED BY <2>1, <1>2, <1>7 DEF BeforeGap
<1>8. CASE ~Marks
  <2>1. d = p + 1 /\ phone'.lastSeq = air[d].seq /\ (Leaves \/ Closes(d))
    BY <1>8, <1>3 DEF Moved, Follows
  <2>2. d < i => BeforeGap(w, i)' BY <2>1, <1>u DEF BeforeGap, At
  <2>3. ASSUME NEW h \in heard, i <= h, Reducer!Holds(phone, w)
        PROVE  Unclosed(i)' /\ BeforeGap(w, i)'
    <3>1. Unclosed(i) /\ BeforeGap(w, i) BY <2>3 DEF GhostOK
    <3>2. CASE \E q \in heard : q < i /\ At(q)
      <4>1. d < i BY <3>2, <1>4, <1>6, <2>1, <1>o
      <4> QED BY <4>1, <2>2, <3>1, <1>1, <1>o
    <3>3. CASE phone.warnings[w].receivedAt <= phone.gapDetectedAt
      <4>1. CASE Leaves
        <5>1. Unclosed(i)' BY <4>1, <3>1, LeftIsUnclosed
        <5>2. CASE phone'.warnings[w] = phone.warnings[w]
          BY <5>1, <5>2, <4>1, <3>3 DEF BeforeGap, Leaves
        <5>3. CASE Says(d, "warning", w) BY <5>1, <5>3, <1>5, <2>2
        <5> QED BY <5>2, <5>3 DEF Moved
      <4>2. CASE Closes(d)
        <5> DEFINE m == air[d].message
        <5>1. m.built <= phone.gapDetectedAt => FALSE
          BY <4>2, <3>1, <1>g, SaidTimes DEF Closes, Unclosed
        <5>2. w \in m.listed => m.built <= phone.gapDetectedAt
          <6>1. m \in Said /\ m.type = "digest" BY <4>2 DEF Closes, IsDigest, Said
          <6> HIDE DEF m
          <6>2. i <= i BY <1>o
          <6> QED BY <6>1, <6>2, <3>1 DEF Unclosed
        <5>3. phone.warnings[w].receivedAt < m.built - DigestMargin
          <6>1. phone.warnings[w].receivedAt \in Int BY <1>t DEF Types, Phones, Helds
          <6>2. m.built \in Nat BY <4>2, SaidTimes DEF Closes
          <6>3. phone.gapDetectedAt < m.built - DigestMargin BY <4>2, <3>1 DEF Closes, Unclosed
          <6> QED BY <6>1, <6>2, <6>3, <3>3, <1>g
        <5> QED BY <5>1, <5>2, <5>3, <4>2 DEF Closes
      <4> QED BY <4>1, <4>2, <2>1
    <3> QED BY <3>1, <3>2, <3>3 DEF BeforeGap
  <2>4. CASE ~\E h \in heard : i <= h
    <3>1. j = d /\ p < i BY <2>4, <1>3, <1>o
    <3> QED BY <3>1, <2>1, <1>6, <1>o
  <2>5. CASE (\E h \in heard : i <= h) /\ ~Reducer!Holds(phone, w)
    <3>1. PICK h \in heard : i <= h BY <2>5
    <3>2. Says(d, "warning", w) BY <2>5 DEF Moved, Reducer!Holds
    <3>3. d < i BY <3>2, <1>5
    <3>4. p < h BY <3>1, <3>3, <2>1, <1>o
    <3>5. Unclosed(h) BY <3>4, <1>3 DEF BackOK
    <3>6. Unclosed(i) BY <3>1, <3>5, <1>o, UnclosedBefore
    <3>7. Unclosed(i)' BY <3>3, <3>6, <1>1, <1>o
    <3> QED BY <3>3, <3>7, <2>2
  <2> QED BY <2>3, <2>4, <2>5
<1> QED BY <1>7, <1>8

\* The first packet of the bot.
LEMMA FirstPhone ==
  ASSUME NEW w \in Warnings
  PROVE  LET r == Reducer!Apply(Reducer!NewState, First(w), 0)
         IN /\ First(w) \in Packets /\ r \in Phones
            /\ r.lastSeq = SeqModulus - 1 /\ ~r.needsDigest
            /\ r.lastHeardAt = 0
            /\ \A v \in Warnings : r.warnings[v] =
                 IF v = w THEN HeldIs(First(w).message, SeqModulus - 1, 0) ELSE Reducer!NotHeld
            /\ \A v \in Warnings : r.recentCancels[v] = -1
            /\ \A i \in 1 .. Len(r.recentMessages) : r.recentMessages[i] = First(w)
<1> USE FeedConstants
<1> DEFINE s == Reducer!NewState
           pk == First(w)
           a == Reducer!Accept(s, pk, 0)
           r == Reducer!Apply(s, pk, 0)
<1>1. pk \in Packets BY DEF First, Packets, Messages
<1>2. /\ s.lastSeq = -1 /\ s.recentMessages = <<>> /\ s.lastHeardAt = -1
      /\ s.needsDigest = FALSE /\ s.gapDetectedAt = -1
      /\ s.warnings = [v \in Warnings |-> Reducer!NotHeld]
      /\ s.recentCancels = [v \in Warnings |-> -1]
  BY DEF Reducer!NewState, Reducer!Never
<1>3. s \in Phones
  <2>1. Reducer!NotHeld \in Helds BY DEF Reducer!NotHeld, Reducer!Never, Helds
  <2>2. <<>> \in Seq(Packets) BY EmptySeq
  <2> QED BY <2>1, <2>2 DEF Reducer!NewState, Reducer!Never, Phones
<1>4. Reducer!Place(s, pk.seq, 0) = "first" BY <1>2 DEF Reducer!Place, Reducer!Never
<1>5. ~Reducer!IsCopy(s, pk, 0)
  <2>1. Reducer!Seen(s, 0) = <<>> BY <1>2 DEF Reducer!Seen
  <2> QED BY <2>1 DEF Reducer!IsCopy
<1>6. pk.message.type = "warning" /\ pk.message.id = w /\ pk.seq = SeqModulus - 1 BY DEF First
<1> HIDE DEF s, pk, a, r
<1>7. Accepted(s, pk, 0, a) /\ Applied(s, pk, 0, a, r) BY <1>1, <1>3, <1>5, AcceptIs, ApplyIs DEF a, r
<1>8. /\ a.lastSeq = SeqModulus - 1 /\ ~a.needsDigest /\ a.lastHeardAt = 0
      /\ a.warnings = [v \in Warnings |-> Reducer!NotHeld]
      /\ \A v \in Warnings : a.recentCancels[v] = -1
      /\ \A i \in 1 .. Len(a.recentMessages) : a.recentMessages[i] = pk
  BY <1>2, <1>4, <1>6, <1>7 DEF Accepted, Gaps, Reducer!Later
<1>9. r.warnings[w] = HeldIs(pk.message, pk.seq, 0) BY <1>4, <1>6, <1>7 DEF Applied
<1>10. \A v \in Warnings : v # w => r.warnings[v] = Reducer!NotHeld
  BY <1>6, <1>7, <1>8 DEF Applied
<1>11. /\ r \in Phones /\ r.lastSeq = SeqModulus - 1 /\ r.lastHeardAt = 0 /\ ~r.needsDigest
       /\ \A v \in Warnings : r.recentCancels[v] = -1
       /\ \A i \in 1 .. Len(r.recentMessages) : r.recentMessages[i] = pk
  BY <1>6, <1>7, <1>8 DEF Applied
<1> QED BY <1>1, <1>6, <1>9, <1>10, <1>11 DEF r, s, pk

LEMMA FeedStarts == ASSUME FeedInit PROVE GapsOK
<1> USE FeedConstants
<1>1. PICK w \in Warnings :
        /\ now = 0
        /\ active = [v \in Warnings |-> IF v = w THEN 1 ELSE 0] /\ over = [v \in Warnings |-> "no"]
        /\ whole = TRUE
        /\ batch = [t \in Tasks |-> {}]
        /\ air = <<First(w)>> /\ nextSeq = 0
        /\ phone = Reducer!Apply(Reducer!NewState, First(w), now)
        /\ sent = {[packet |-> 1, at |-> now]} /\ heard = {1}
        /\ restarts = 0
  BY DEF FeedInit
<1>2. /\ First(w) \in Packets /\ phone \in Phones
      /\ phone.lastSeq = SeqModulus - 1 /\ ~phone.needsDigest
      /\ \A v \in Warnings : phone.warnings[v] =
           IF v = w THEN HeldIs(First(w).message, SeqModulus - 1, 0) ELSE Reducer!NotHeld
      /\ \A i \in 1 .. Len(phone.recentMessages) : phone.recentMessages[i] = First(w)
  BY <1>1, FirstPhone
<1>3. /\ air \in Seq(Packets) /\ Len(air) = 1 /\ air[1] = First(w) /\ OnAir = {1}
  BY <1>1, <1>2 DEF OnAir
<1>4. Types
  <2>1. active \in [Warnings -> 0 .. MaxVersion] /\ over \in [Warnings -> {"no", "early", "ranOut"}]
    BY <1>1
  <2>2. batch \in [Tasks -> SUBSET Messages] BY <1>1
  <2>3. sent \subseteq [packet : Nat, at : Nat] BY <1>1
  <2> QED BY <1>1, <1>2, <1>3, <2>1, <2>2, <2>3 DEF Types
<1>5. air[1].seq = SeqModulus - 1 /\ air[1].message.type = "warning" BY <1>3 DEF First
<1>6. Numbered
  <2>1. restarts * MaxBatch = 0 BY <1>1
  <2> QED BY <1>1, <1>3, <1>5, <2>1 DEF Numbered, Num
<1>7. BotOK
  <2>1. Said = {air[1].message} BY <1>1, <1>3 DEF Said
  <2> QED BY <1>1, <1>5, <2>1 DEF BotOK, SaidOK
<1>8. MeshOK BY <1>1, <1>3 DEF MeshOK
<1>9. PhoneOK
  <2>1. \A v \in Warnings : phone.warnings[v].receivedAt \in {-1, 0}
    BY <1>2 DEF HeldIs, Reducer!NotHeld, Reducer!Never
  <2> QED BY <1>1, <1>2, <1>3, <1>5, <2>1 DEF PhoneOK, At
<1>10. LossOK /\ BackOK /\ GhostOK BY <1>1, <1>3, <1>5 DEF LossOK, BackOK, GhostOK, Says
<1> QED BY <1>4, <1>6, <1>7, <1>8, <1>9, <1>10 DEF GapsOK, BaseOK

LEMMA FeedSteps ==
  FeedNext <=> BotNext \/ \E s \in sent : Deliver(s.packet)
BY DEF FeedNext, BotNext

LEMMA GapsAreKept ==
  ASSUME OneRound, GapsOK, [FeedNext]_feedVars PROVE GapsOK'
<1>b. BaseOK /\ LossOK /\ BackOK /\ GhostOK BY DEF GapsOK
<1>1. CASE BotNext BY <1>1, BotKeepsGaps
<1>2. CASE \E s \in sent : Deliver(s.packet)
  <2>1. PICK s \in sent : Deliver(s.packet) BY <1>2
  <2>2. PICK d \in OnAir : Deliver(d) BY <2>1, <1>b DEF BaseOK, MeshOK
  <2>3. BaseOK' BY <2>2, <1>b, HearingKeepsBase
  <2>4. CASE Moved(d)
    BY <2>2, <2>3, <2>4, <1>b, HearingKeepsLoss, HearingKeepsGhosts DEF GapsOK
  <2>5. CASE phone' = phone /\ heard' = heard
    <3>1. air' = air /\ batch' = batch BY <2>2 DEF Deliver, botVars, vars
    <3>2. LossOK' /\ BackOK' BY <2>5, <3>1, <1>b
      DEF LossOK, BackOK, Unclosed, At, IsDigest, Says, Said, OnAir
    <3>3. GhostOK' BY <2>5, <3>1, <1>b
      DEF GhostOK, BeforeGap, Unclosed, At, IsDigest, Says, Said, OnAir, SentInOrder, SaysOf, Order
    <3> QED BY <2>3, <3>2, <3>3 DEF GapsOK
  <2> QED BY <2>2, <2>4, <2>5, <1>b, HeardIs
<1>3. CASE UNCHANGED feedVars
  <2>1. /\ UNCHANGED <<now, active, over, whole, batch, nextSeq, air>>
        /\ UNCHANGED <<phone, sent, heard, restarts>>
    BY <1>3 DEF feedVars, vars
  <2>2. BaseOK' BY <2>1, <1>b
    DEF BaseOK, Types, Numbered, Num, BotOK, SaidOK, Said, MeshOK, PhoneOK, At, OnAir
  <2>3. LossOK' /\ BackOK' BY <2>1, <1>b DEF LossOK, BackOK, Unclosed, At, IsDigest, Says, Said, OnAir
  <2>4. GhostOK' BY <2>1, <1>b
    DEF GhostOK, BeforeGap, Unclosed, At, IsDigest, Says, Said, OnAir, SentInOrder, SaysOf, Order
  <2> QED BY <2>2, <2>3, <2>4 DEF GapsOK
<1> QED BY <1>1, <1>2, <1>3, FeedSteps

\* The phone says that it misses a packet lost between two that it heard, until it
\* has a list that went out after it, as long as the bot's numbers do not come round.
THEOREM LossesAreKnown == ASSUME OneRound PROVE FeedSpec => []LossIsKnown
<1>1. GapsOK => LossIsKnown
  <2> SUFFICES ASSUME GapsOK, NEW i \in OnAir, ~WasHeard(i),
                      NEW j \in OnAir, i < j, WasHeard(j)
               PROVE  \/ phone.needsDigest
                      \/ \E k \in OnAir : i < k /\ WasHeard(k) /\ air[k].message.type = "digest"
    BY DEF LossIsKnown
  <2>1. (\E k \in heard : i < k /\ IsDigest(k)) \/ Unclosed(i) BY DEF GapsOK, LossOK, WasHeard
  <2>2. heard \subseteq OnAir BY DEF GapsOK, BaseOK, PhoneOK
  <2> QED BY <2>1, <2>2 DEF IsDigest, Unclosed, WasHeard
<1> QED BY <1>1, FeedStarts, GapsAreKept, PTL DEF FeedSpec

\* A phone that says it misses nothing does not show a warning whose cancel it has
\* passed, whether it heard the cancel or not.
THEOREM NoGhostIsShown == ASSUME OneRound PROVE FeedSpec => []NoGhost
<1>1. GapsOK => NoGhost
  <2> SUFFICES ASSUME GapsOK, NEW i \in OnAir, NEW w \in Warnings,
                      Says(i, "cancel", w), SentInOrder(w), NEW j \in OnAir, i <= j, WasHeard(j),
                      ~phone.needsDigest, Reducer!Holds(phone, w)
               PROVE  FALSE
    BY DEF NoGhost
  <2> QED BY DEF GapsOK, GhostOK, Unclosed, WasHeard
<1> QED BY <1>1, FeedStarts, GapsAreKept, PTL DEF FeedSpec

-----------------------------------------------------------------------------
(* The phone never goes back *)

\* The mesh delivers, or loses, a packet before the phone forgets what tells it
\* from an old one: the packets it heard, a cancel, a warning's arrival; a list
\* only ends what was heard so long before it; and a jump of the numbers is not
\* taken for an old packet.
Prompt ==
  /\ MaxDelay <= DuplicateWindowReset /\ MaxDelay <= DigestMargin
  /\ MaxDelay < CancelRetention /\ MaxDelay < ReorderRecency
  /\ Span < SeqModulus - ReorderWindow

\* No more numbers than the reorder window are used after a packet that may
\* still be on its way.
NotTooFast == \A s \in sent : nextSeq <= Num(s.packet) + ReorderWindow + 1

\* What went out before packet i and may still arrive went out by time t.
Late(i, t) == \A s \in sent : s.packet < i => s.at <= t

LatestOK == \A p \in heard : At(p) => \A h \in heard : h <= p
HeardAtOK == \A h \in heard : Late(h, phone.lastHeardAt)
CancelsOK == \A w \in Warnings : phone.recentCancels[w] # -1 => \E i \in heard : Says(i, "cancel", w)

\* A warning whose cancel was heard is not shown, and the cancel is remembered as
\* long as an older packet may arrive.
Ended(w) ==
  \A i \in heard : Says(i, "cancel", w) =>
    ~Reducer!Holds(phone, w) /\ Late(i, phone.recentCancels[w])
\* What is shown is the last of what was heard.
Shown(w, r) ==
  /\ Says(r, "warning", w) /\ air[r].seq = phone.warnings[w].seq
  /\ air[r].message.version = phone.warnings[w].version
  /\ Late(r, phone.warnings[w].receivedAt)
  /\ \A i \in heard : Says(i, "warning", w) => i <= r
\* What a list ended is too old for an older packet to arrive.
Gone(w) ==
  \A i \in heard : Says(i, "warning", w) =>
    (\E k \in heard : Says(k, "cancel", w)) \/ Late(i, -1)
WarningOK(w) ==
  /\ Ended(w)
  /\ Reducer!Holds(phone, w) => \E r \in heard : Shown(w, r)
  /\ ~Reducer!Holds(phone, w) => Gone(w)

OlderOK ==
  /\ BaseOK /\ LatestOK /\ HeardAtOK /\ CancelsOK
  /\ \A w \in Warnings : SentInOrder(w) => WarningOK(w)

\* A packet, which is no copy, arrives: p is the last one.
Arrives(d, s, p, a) ==
  /\ OlderOK /\ OneRound /\ Prompt /\ NotTooFast
  /\ s \in sent /\ s.packet = d /\ Deliver(d)
  /\ p \in heard /\ At(p)
  /\ Accepted(phone, air[d], now, a) /\ Applied(phone, air[d], now, a, phone')

LEMMA ArrivalFacts ==
  ASSUME NEW d, NEW s, NEW p, NEW a, Arrives(d, s, p, a)
  PROVE  /\ BaseOK /\ Types
         /\ d \in OnAir /\ p \in OnAir /\ heard \subseteq OnAir
         /\ s.at \in Nat /\ now \in Nat /\ s.at <= now /\ now - s.at <= MaxDelay
         /\ heard' = heard \cup {d} /\ air' = air /\ sent' = sent
         /\ \A h \in heard : h <= p
         /\ phone.lastHeardAt \in Int
<1>1. BaseOK /\ Types BY DEF Arrives, OlderOK, BaseOK
<1>2. d \in OnAir /\ p \in OnAir /\ heard \subseteq OnAir
  BY <1>1 DEF Arrives, BaseOK, MeshOK, PhoneOK
<1>3. s.at \in Nat /\ now \in Nat /\ s.at <= now /\ now - s.at <= MaxDelay
  BY <1>1 DEF Arrives, BaseOK, MeshOK, Types
<1>4. heard' = heard \cup {d} /\ air' = air /\ sent' = sent
  BY DEF Arrives, Deliver, botVars, vars
<1>5. \A h \in heard : h <= p BY DEF Arrives, OlderOK, LatestOK
<1> QED BY <1>1, <1>2, <1>3, <1>4, <1>5 DEF Types, Phones

\* How far the numbers are from a packet that still arrives.
LEMMA ArrivalSpread ==
  ASSUME NEW d, NEW s, NEW p, NEW a, Arrives(d, s, p, a), NEW h \in OnAir
  PROVE  /\ d < h => Ahead(d, h) \in 1 .. ReorderWindow
                     /\ Ahead(h, d) >= SeqModulus - ReorderWindow
         /\ Ahead(d, h) \in 1 .. ReorderWindow => d < h
         /\ h <= d => Ahead(h, d) < SeqModulus - ReorderWindow
<1> USE FeedConstants
<1>1. BaseOK /\ d \in OnAir BY ArrivalFacts
<1>2. OneRound /\ Span < SeqModulus - ReorderWindow BY DEF Arrives, Prompt
<1>3. Num(h) < nextSeq /\ nextSeq <= Num(d) + ReorderWindow + 1 /\ nextSeq \in Int
  BY <1>1 DEF Arrives, NotTooFast, BaseOK, Numbered, Types
<1>4. /\ Num(h) \in Int /\ Num(d) \in Int
      /\ Num(h) - Num(d) <= Span /\ Num(d) - Num(h) <= Span
      /\ d < h => Num(d) < Num(h) /\ Ahead(d, h) = Num(h) - Num(d)
                  /\ Ahead(h, d) = SeqModulus - (Num(h) - Num(d))
      /\ d = h => Ahead(d, h) = 0 /\ Ahead(h, d) = 0
      /\ h < d => Num(h) < Num(d) /\ Ahead(d, h) = SeqModulus - (Num(d) - Num(h))
                  /\ Ahead(h, d) = Num(d) - Num(h)
  BY <1>1, <1>2, SpreadIs
<1>5. h \in Int /\ d \in Int BY <1>1 DEF OnAir
<1>6. d < h => Ahead(d, h) \in 1 .. ReorderWindow /\ Ahead(h, d) >= SeqModulus - ReorderWindow
  BY <1>3, <1>4, <1>5
<1>7. Ahead(d, h) \in 1 .. ReorderWindow => d < h
  <2>1. CASE d = h BY <2>1, <1>4
  <2>2. CASE h < d BY <2>2, <1>2, <1>4
  <2> QED BY <2>1, <2>2, <1>5
<1>8. h <= d => Ahead(h, d) < SeqModulus - ReorderWindow
  <2>1. CASE d = h BY <2>1, <1>4
  <2>2. CASE h < d BY <2>2, <1>2, <1>4
  <2> QED BY <2>1, <2>2, <1>5
<1> QED BY <1>6, <1>7, <1>8

\* What went out before the last packet is known to come late.
LEMMA ArrivalPlace ==
  ASSUME NEW d, NEW s, NEW p, NEW a, Arrives(d, s, p, a)
  PROVE  PlaceOf(d) = "behind" <=> d < p
<1> USE FeedConstants
<1>1. BaseOK /\ Types /\ d \in OnAir /\ p \in OnAir /\ p \in Int /\ d \in Int
  BY ArrivalFacts DEF OnAir
<1>2. phone.lastSeq # -1 /\ phone.lastSeq = air[p].seq
  <2>1. air[p] \in Packets BY <1>1 DEF Types, OnAir
  <2> QED BY <2>1 DEF Arrives, At, Packets
<1>3. PlaceOf(d) = IF Reducer!IsLongSilence(phone, now) /\ Ahead(p, d) # 1 THEN "ahead"
                   ELSE Reducer!Position(Ahead(p, d))
  BY <1>2 DEF PlaceOf, Reducer!Place, Reducer!Never, Ahead
<1>4. CASE d < p
  <2>1. Ahead(p, d) >= SeqModulus - ReorderWindow BY <1>1, <1>4, ArrivalSpread
  <2>2. s.at <= phone.lastHeardAt BY <1>4 DEF Arrives, OlderOK, HeardAtOK, Late
  <2>3. ~Reducer!IsLongSilence(phone, now)
    <3>1. /\ s.at \in Nat /\ now \in Nat /\ now - s.at <= MaxDelay /\ phone.lastHeardAt \in Int
      BY ArrivalFacts
    <3>2. MaxDelay <= DuplicateWindowReset BY DEF Arrives, Prompt
    <3> QED BY <2>2, <3>1, <3>2 DEF Reducer!IsLongSilence
  <2>4. Ahead(p, d) \in Int BY <1>1, SpreadIs DEF Arrives
  <2>5. Reducer!Position(Ahead(p, d)) = "behind" BY <2>1, <2>4 DEF Reducer!Position
  <2> QED BY <1>3, <1>4, <2>3, <2>5
<1>5. CASE ~(d < p)
  <2>1. Ahead(p, d) < SeqModulus - ReorderWindow BY <1>1, <1>5, ArrivalSpread
  <2>2. Ahead(p, d) \in Int BY <1>1, SpreadIs DEF Arrives
  <2>3. Reducer!Position(Ahead(p, d)) # "behind" BY <2>1, <2>2 DEF Reducer!Position
  <2> QED BY <1>3, <1>5, <2>3
<1> QED BY <1>4, <1>5

LEMMA LateLater ==
  ASSUME Types, NEW i, NEW t \in Int, NEW u \in Int, t <= u, Late(i, t) PROVE Late(i, u)
<1>1. \A s \in sent : s.at \in Nat BY DEF Types
<1> QED BY <1>1 DEF Late

\* Every packet that may still arrive went out by now.
LEMMA LateNow == ASSUME BaseOK, NEW i PROVE Late(i, now)
BY DEF BaseOK, MeshOK, Late

\* None that is older than what was longer ago than the delay may arrive.
LEMMA TooLate ==
  ASSUME BaseOK, NEW i, NEW t \in Int, t + MaxDelay < now, Late(i, t) PROVE Late(i, -1)
<1>1. \A s \in sent : s.at \in Nat /\ now - s.at <= MaxDelay /\ now \in Nat
  BY DEF BaseOK, MeshOK, Types
<1> QED BY <1>1, FeedConstants DEF Late

\* What the arrival leaves of a warning it does not name: a list may end it, if it
\* was heard long before.
LEMMA OthersKept ==
  ASSUME NEW d, NEW s, NEW p, NEW a, Arrives(d, s, p, a), NEW w \in Warnings
  PROVE  /\ a.warnings = phone.warnings
         /\ phone.recentCancels[w] \in Int /\ phone.warnings[w].receivedAt \in Int
         /\ \A k : Late(k, phone.recentCancels[w]) => Late(k, a.recentCancels[w])
         /\ a.recentCancels[w] \in {phone.recentCancels[w], -1}
         /\ ~Says(d, "cancel", w) => phone'.recentCancels[w] = a.recentCancels[w]
         /\ ~Says(d, "cancel", w) /\ ~Says(d, "warning", w) =>
              \/ phone'.warnings[w] = phone.warnings[w]
              \/ /\ ~Reducer!Holds(phone', w)
                 /\ phone.warnings[w].receivedAt + MaxDelay < now
<1> USE FeedConstants
<1>b. BaseOK /\ Types /\ d \in OnAir /\ now \in Nat BY ArrivalFacts
<1>1. a.warnings = phone.warnings BY DEF Arrives, Accepted
<1>2. phone.recentCancels[w] \in Int /\ phone.warnings[w].receivedAt \in Int
  BY <1>b DEF Types, Phones, Helds
<1>3. a.recentCancels[w] = IF now - phone.recentCancels[w] < CancelRetention
                           THEN phone.recentCancels[w] ELSE -1
  BY DEF Arrives, Accepted
<1>4. ASSUME NEW k, Late(k, phone.recentCancels[w]) PROVE Late(k, a.recentCancels[w])
  <2>1. CASE now - phone.recentCancels[w] < CancelRetention BY <1>3, <1>4, <2>1
  <2>2. CASE ~(now - phone.recentCancels[w] < CancelRetention)
    <3>1. MaxDelay < CancelRetention BY DEF Arrives, Prompt
    <3>2. phone.recentCancels[w] + MaxDelay < now BY <2>2, <3>1, <1>2, <1>b
    <3>3. Late(k, -1) BY <3>2, <1>2, <1>4, <1>b, TooLate
    <3> QED BY <3>3, <1>3, <2>2
  <2> QED BY <2>1, <2>2
<1>5. ~Says(d, "cancel", w) => phone'.recentCancels[w] = a.recentCancels[w]
  BY DEF Arrives, Applied, Says
<1>6. ASSUME ~Says(d, "cancel", w), ~Says(d, "warning", w), phone'.warnings[w] # phone.warnings[w]
      PROVE  ~Reducer!Holds(phone', w) /\ phone.warnings[w].receivedAt + MaxDelay < now
  <2> DEFINE m == air[d].message
  <2>1. phone'.warnings[w] = Reducer!NotHeld /\ m.type = "digest" /\ w \in Reducer!EndedBy(a, m)
    BY <1>1, <1>6 DEF Arrives, Applied, Says
  <2>2. phone.warnings[w].receivedAt < m.built - DigestMargin
    BY <1>1, <2>1 DEF Reducer!EndedBy, Reducer!SpeaksBefore
  <2>3. m.built \in Nat /\ m.built <= now BY <2>1, <1>b, SaidTimes DEF IsDigest
  <2>4. MaxDelay <= DigestMargin BY DEF Arrives, Prompt
  <2> QED BY <2>1, <2>2, <2>3, <2>4, <1>2, <1>b DEF Reducer!Holds
<1> QED BY <1>1, <1>2, <1>3, <1>4, <1>5, <1>6

\* Of a warning that the packet does not name.
LEMMA OtherArrives ==
  ASSUME NEW d, NEW s, NEW p, NEW a, Arrives(d, s, p, a), NEW w \in Warnings,
         ~Says(d, "cancel", w), ~Says(d, "warning", w), WarningOK(w)
  PROVE  WarningOK(w)'
<1>b. /\ BaseOK /\ Types /\ air' = air /\ sent' = sent /\ heard' = heard \cup {d} BY ArrivalFacts
<1>1. \A i, t : Late(i, t)' = Late(i, t) BY <1>b DEF Late
<1>2. \A i \in heard' : \A type \in {"warning", "cancel"} : Says(i, type, w)' => i \in heard /\ Says(i, type, w)
  BY <1>b DEF Says
<1>3. \/ phone'.warnings[w] = phone.warnings[w]
      \/ ~Reducer!Holds(phone', w) /\ phone.warnings[w].receivedAt + MaxDelay < now
  BY OthersKept
<1>4. Reducer!Holds(phone', w) => Reducer!Holds(phone, w) /\ phone'.warnings[w] = phone.warnings[w]
  BY <1>3 DEF Reducer!Holds
<1>5. Ended(w)'
  <2> SUFFICES ASSUME NEW i \in heard, Says(i, "cancel", w)
               PROVE  ~Reducer!Holds(phone', w) /\ Late(i, phone'.recentCancels[w])
    BY <1>1, <1>2 DEF Ended
  <2>1. ~Reducer!Holds(phone, w) /\ Late(i, phone.recentCancels[w]) BY DEF WarningOK, Ended
  <2> QED BY <2>1, <1>4, OthersKept
<1>6. Reducer!Holds(phone', w) => \E r \in heard' : Shown(w, r)'
  <2> HAVE Reducer!Holds(phone', w)
  <2>1. PICK r \in heard : Shown(w, r) BY <1>4 DEF WarningOK
  <2>2. Shown(w, r)' BY <2>1, <1>1, <1>2, <1>4, <1>b DEF Shown, Says
  <2> QED BY <2>2, <1>b
<1>7. ~Reducer!Holds(phone', w) => Gone(w)'
  <2> SUFFICES ASSUME ~Reducer!Holds(phone', w), NEW i \in heard, Says(i, "warning", w)
               PROVE  (\E k \in heard : Says(k, "cancel", w)) \/ Late(i, -1)
    BY <1>1, <1>2, <1>b DEF Gone, Says
  <2>1. CASE ~Reducer!Holds(phone, w) BY <2>1 DEF WarningOK, Gone
  <2>2. CASE Reducer!Holds(phone, w)
    <3>1. PICK r \in heard : Shown(w, r) BY <2>2 DEF WarningOK
    <3>2. phone.warnings[w].receivedAt + MaxDelay < now BY <1>3, <2>2 DEF Reducer!Holds
    <3>3. phone.warnings[w].receivedAt \in Int BY OthersKept
    <3>4. Late(r, -1) BY <3>1, <3>2, <3>3, <1>b, TooLate DEF Shown
    <3>5. i <= r /\ i \in Nat /\ r \in Nat BY <3>1, <1>b DEF Shown, Types
    <3>6. \A u \in sent : u.packet \in Nat BY <1>b DEF Types
    <3> QED BY <3>4, <3>5, <3>6 DEF Late
  <2> QED BY <2>1, <2>2
<1> QED BY <1>5, <1>6, <1>7 DEF WarningOK

\* Of a warning that the packet cancels.
LEMMA CancelArrives ==
  ASSUME NEW d, NEW s, NEW p, NEW a, Arrives(d, s, p, a), NEW w \in Warnings, Says(d, "cancel", w)
  PROVE  WarningOK(w)'
<1>b. /\ BaseOK /\ air' = air /\ sent' = sent /\ heard' = heard \cup {d} BY ArrivalFacts
<1>1. ~Reducer!Holds(phone', w) /\ phone'.recentCancels[w] = now
  BY DEF Arrives, Applied, Says, Reducer!Holds
<1>2. \A i : Late(i, now)' BY <1>b, LateNow DEF Late, Arrives, Deliver, botVars, vars
<1>3. now' = now BY DEF Arrives, Deliver, botVars, vars
<1>4. Ended(w)' BY <1>1, <1>2, <1>3 DEF Ended
<1>5. Gone(w)' BY <1>b DEF Gone, Says
<1> QED BY <1>1, <1>4, <1>5 DEF WarningOK

LEMMA VersionOrder ==
  ASSUME BaseOK, NEW w \in Warnings, NEW i \in OnAir, Says(i, "warning", w)
  PROVE  Order(i) \in 1 .. MaxVersion /\ Order(i) = air[i].message.version
<1>1. air[i].message \in Messages BY SaidType DEF BaseOK, Said
<1>2. air[i].message.version \in 1 .. MaxVersion BY <1>1, MessageKinds DEF Says
<1> QED BY <1>2 DEF Order, Says

\* A late copy of a warning whose cancel was heard is not stored.
LEMMA CancelledArrives ==
  ASSUME NEW d, NEW s, NEW p, NEW a, Arrives(d, s, p, a), NEW w \in Warnings, Says(d, "warning", w),
         SentInOrder(w), WarningOK(w), NEW k \in heard, Says(k, "cancel", w)
  PROVE  WarningOK(w)'
<1> USE FeedConstants
<1>b. /\ BaseOK /\ Types /\ air' = air /\ sent' = sent /\ heard' = heard \cup {d}
      /\ d \in OnAir /\ p \in OnAir /\ heard \subseteq OnAir /\ \A h \in heard : h <= p
      /\ s.at \in Nat /\ now \in Nat /\ now - s.at <= MaxDelay
  BY ArrivalFacts
<1>1. d < k
  <2>1. Order(d) \in 1 .. MaxVersion BY <1>b, VersionOrder
  <2>2. Order(k) = MaxVersion + 1 BY DEF Order, Says
  <2>3. ~(k < d) BY <2>1, <2>2, <1>b DEF SentInOrder, SaysOf
  <2>4. k # d BY DEF Says
  <2> QED BY <2>3, <2>4, <1>b DEF OnAir
<1>2. ~Reducer!Holds(phone, w) /\ Late(k, phone.recentCancels[w]) BY DEF WarningOK, Ended
<1>3. s.at <= phone.recentCancels[w] BY <1>1, <1>2 DEF Late, Arrives
<1>4. phone.recentCancels[w] \in Int BY OthersKept
<1>5. a.recentCancels[w] = phone.recentCancels[w] /\ phone.recentCancels[w] # -1
  <2>1. MaxDelay < CancelRetention BY DEF Arrives, Prompt
  <2>2. now - phone.recentCancels[w] < CancelRetention BY <2>1, <1>3, <1>4, <1>b
  <2>3. phone.recentCancels[w] # -1 BY <1>3, <1>4, <1>b
  <2> QED BY <2>2, <2>3 DEF Arrives, Accepted
<1>6. PlaceOf(d) = "behind"
  <2>1. d < p BY <1>1, <1>b DEF OnAir
  <2> QED BY <2>1, ArrivalPlace
<1>7. Reducer!WouldRollBack(a, w, air[d].seq, now)
  BY <1>5 DEF Reducer!WouldRollBack, Reducer!Never
<1>8. phone'.warnings = a.warnings
  BY <1>6, <1>7 DEF Arrives, Applied, Says, PlaceOf
<1>9. phone'.warnings[w] = phone.warnings[w] BY <1>8, OthersKept
<1>10. phone'.recentCancels[w] = phone.recentCancels[w]
  <2>1. ~Says(d, "cancel", w) BY DEF Says
  <2> QED BY <2>1, <1>5, OthersKept
<1>11. ~Reducer!Holds(phone', w) BY <1>2, <1>9 DEF Reducer!Holds
<1>12. \A i : Late(i, phone.recentCancels[w])' = Late(i, phone'.recentCancels[w])
  BY <1>b, <1>10 DEF Late
<1>13. Ended(w)'
  <2> SUFFICES ASSUME NEW i \in heard', Says(i, "cancel", w)'
               PROVE  ~Reducer!Holds(phone', w) /\ Late(i, phone.recentCancels[w])'
    BY DEF Ended
  <2>1. i \in heard /\ Says(i, "cancel", w) BY <1>b DEF Says
  <2>2. Late(i, phone.recentCancels[w]) BY <2>1 DEF WarningOK, Ended
  <2> QED BY <2>2, <1>10, <1>11, <1>12
<1>14. Gone(w)' BY <1>b DEF Gone, Says
<1> QED BY <1>11, <1>13, <1>14 DEF WarningOK

\* A warning that is not known to be cancelled is stored, unless a newer one is held.
LEMMA WarningArrives ==
  ASSUME NEW d, NEW s, NEW p, NEW a, Arrives(d, s, p, a), NEW w \in Warnings, Says(d, "warning", w),
         SentInOrder(w), WarningOK(w), ~\E k \in heard : Says(k, "cancel", w)
  PROVE  WarningOK(w)'
<1> USE FeedConstants
<1> DEFINE m == air[d].message
           seq == air[d].seq
<1>b. /\ BaseOK /\ Types /\ air' = air /\ sent' = sent /\ heard' = heard \cup {d}
      /\ d \in OnAir /\ p \in OnAir /\ heard \subseteq OnAir /\ \A h \in heard : h <= p
      /\ s.at \in Nat /\ now \in Nat /\ s.at <= now /\ now - s.at <= MaxDelay
      /\ s \in sent /\ s.packet = d
  BY ArrivalFacts DEF Arrives
<1>c. m.type = "warning" /\ m.id = w /\ m.version \in Nat \ {0}
  <2>1. Order(d) \in 1 .. MaxVersion /\ Order(d) = air[d].message.version BY <1>b, VersionOrder
  <2> QED BY <2>1 DEF Says
<1>1. \A i, t : Late(i, t)' = Late(i, t) BY <1>b DEF Late
<1>2. \A i \in heard' : ~Says(i, "cancel", w)' BY <1>b DEF Says
<1>3. Ended(w)' BY <1>2 DEF Ended
<1>4. a.recentCancels[w] = -1
  <2>1. phone.recentCancels[w] = -1 BY DEF Arrives, OlderOK, CancelsOK
  <2> QED BY <2>1, OthersKept
<1>5. a.warnings = phone.warnings /\ phone.warnings[w].receivedAt \in Int BY OthersKept
\* A warning that is held, and newer than the one that arrives, is seen to be.
<1>6. ASSUME NEW r \in heard, Shown(w, r)
      PROVE  /\ Reducer!Forward(seq, a.warnings[w].seq) = Ahead(d, r)
             /\ d < r => now - a.warnings[w].receivedAt < ReorderRecency
  <2>1. Reducer!Forward(seq, a.warnings[w].seq) = Ahead(d, r) BY <1>5, <1>6 DEF Shown, Ahead
  <2>2. ASSUME d < r PROVE now - a.warnings[w].receivedAt < ReorderRecency
    <3>1. s.at <= phone.warnings[w].receivedAt BY <1>b, <1>6, <2>2 DEF Shown, Late
    <3>2. MaxDelay < ReorderRecency BY DEF Arrives, Prompt
    <3> QED BY <3>1, <3>2, <1>5, <1>b
  <2> QED BY <2>1, <2>2
<1>7. CASE PlaceOf(d) = "behind" /\ Reducer!WouldRollBack(a, w, seq, now)
  <2>1. phone'.warnings[w] = phone.warnings[w] BY <1>5, <1>7, <1>c DEF Arrives, Applied, PlaceOf
  <2>2. Reducer!Holds(a, w) /\ Reducer!Forward(seq, a.warnings[w].seq) \in 1 .. ReorderWindow
    BY <1>4, <1>7 DEF Reducer!WouldRollBack, Reducer!Never
  <2>3. Reducer!Holds(phone, w) BY <2>2, <1>5 DEF Reducer!Holds
  <2>4. PICK r \in heard : Shown(w, r) BY <2>3 DEF WarningOK
  <2>5. d < r BY <2>2, <2>4, <1>6, <1>b, ArrivalSpread
  <2>6. Shown(w, r)'
    <3>1. \A i \in heard' : Says(i, "warning", w)' => i <= r
      BY <2>4, <2>5, <1>b DEF Shown, Says, OnAir
    <3> QED BY <3>1, <2>1, <2>4, <1>1, <1>b DEF Shown, Says
  <2>7. Reducer!Holds(phone', w) BY <2>1, <2>3 DEF Reducer!Holds
  <2> QED BY <2>6, <2>7, <1>3, <1>b DEF WarningOK
<1>8. CASE ~(PlaceOf(d) = "behind" /\ Reducer!WouldRollBack(a, w, seq, now))
  <2>1. phone'.warnings[w] = HeldIs(m, seq, now) BY <1>8, <1>c DEF Arrives, Applied, PlaceOf
  <2>2. Reducer!Holds(phone', w)
    BY <2>1, <1>c DEF HeldIs, Reducer!Holds, Reducer!NotHeld, Reducer!Never
  <2>3. ASSUME NEW i \in heard, Says(i, "warning", w) PROVE i <= d
    <3>0. i \in Int /\ d \in Int /\ p \in Int /\ i <= p BY <1>b DEF OnAir
    <3>1. CASE ~(d < p) BY <3>0, <3>1
    <3>2. CASE d < p /\ Reducer!Holds(phone, w)
      <4>1. PICK r \in heard : Shown(w, r) BY <3>2 DEF WarningOK
      <4>2. ~Reducer!WouldRollBack(a, w, seq, now) BY <3>2, <1>8, ArrivalPlace
      <4>3. Reducer!Holds(a, w) BY <3>2, <1>5 DEF Reducer!Holds
      <4>4. CASE d < r
        <5>1. Ahead(d, r) \in 1 .. ReorderWindow BY <4>4, <1>b, ArrivalSpread
        <5> QED BY <5>1, <4>1, <4>2, <4>3, <4>4, <1>6 DEF Reducer!WouldRollBack
      <4>5. i <= r /\ r \in Int BY <2>3, <4>1, <1>b DEF Shown, OnAir
      <4> QED BY <4>4, <4>5, <3>0
    <3>3. CASE ~Reducer!Holds(phone, w)
      <4>1. Late(i, -1) BY <3>3, <2>3 DEF WarningOK, Gone
      <4>2. ~(d < i) BY <4>1, <1>b DEF Late
      <4> QED BY <4>2, <3>0
    <3> QED BY <3>1, <3>2, <3>3
  <2>4. Shown(w, d)'
    <3>1. \A i \in heard' : Says(i, "warning", w)' => i <= d BY <2>3, <1>b DEF Says, OnAir
    <3>2. Late(d, phone.warnings[w].receivedAt)'
      <4>1. phone'.warnings[w].receivedAt = now BY <2>1 DEF HeldIs
      <4>2. Late(d, now) BY <1>b, LateNow
      <4> QED BY <4>1, <4>2, <1>b DEF Late
    <3>3. /\ air[d].seq = phone'.warnings[w].seq
          /\ air[d].message.version = phone'.warnings[w].version
      BY <2>1 DEF HeldIs
    <3> QED BY <3>1, <3>2, <3>3, <1>b DEF Shown, Says
  <2> QED BY <2>2, <2>4, <1>3, <1>b DEF WarningOK
<1> QED BY <1>7, <1>8

LEMMA HearingKeepsOlder ==
  ASSUME NEW d, NEW s, NEW p, NEW a, Arrives(d, s, p, a) PROVE OlderOK'
<1>b. /\ BaseOK /\ Types /\ air' = air /\ sent' = sent /\ heard' = heard \cup {d}
      /\ d \in OnAir /\ p \in OnAir /\ heard \subseteq OnAir /\ \A h \in heard : h <= p
      /\ now \in Nat /\ phone.lastHeardAt \in Int
  BY ArrivalFacts
<1>r. OneRound /\ Deliver(d) BY DEF Arrives
<1>1. BaseOK' BY <1>b, <1>r, HearingKeepsBase
<1>2. LatestOK'
  <2> SUFFICES ASSUME NEW q \in heard', At(q)', NEW h \in heard' PROVE h <= q
    BY DEF LatestOK
  <2>0. q \in OnAir /\ h \in Int /\ d \in Int /\ p \in Int BY <1>b DEF OnAir
  <2>1. phone'.lastSeq = IF d < p THEN air[p].seq ELSE air[d].seq
    BY ArrivalPlace DEF Arrives, Accepted, Applied, PlaceOf, At
  <2>2. CASE d < p
    <3>1. q = p BY <2>0, <2>1, <2>2, <1>b, <1>r, NumbersDiffer DEF At
    <3> QED BY <3>1, <2>0, <2>2, <1>b
  <2>3. CASE ~(d < p)
    <3>1. q = d BY <2>0, <2>1, <2>3, <1>b, <1>r, NumbersDiffer DEF At
    <3> QED BY <3>1, <2>0, <2>3, <1>b
  <2> QED BY <2>2, <2>3
<1>3. HeardAtOK'
  <2>1. phone'.lastHeardAt >= now /\ phone'.lastHeardAt \in Int
    BY <1>b DEF Arrives, Accepted, Applied, Reducer!Later
  <2>2. \A i : Late(i, phone'.lastHeardAt) BY <2>1, <1>b, LateNow, LateLater
  <2> QED BY <2>2, <1>b DEF HeardAtOK, Late
<1>4. CancelsOK'
  <2> SUFFICES ASSUME NEW w \in Warnings, phone'.recentCancels[w] # -1
               PROVE  \E i \in heard' : Says(i, "cancel", w)'
    BY DEF CancelsOK
  <2>1. CASE Says(d, "cancel", w) BY <2>1, <1>b DEF Says
  <2>2. CASE ~Says(d, "cancel", w)
    <3>1. phone.recentCancels[w] # -1 BY <2>2, OthersKept
    <3>2. PICK i \in heard : Says(i, "cancel", w) BY <3>1 DEF Arrives, OlderOK, CancelsOK
    <3> QED BY <3>2, <1>b DEF Says
  <2> QED BY <2>1, <2>2
<1>5. ASSUME NEW w \in Warnings, SentInOrder(w)' PROVE WarningOK(w)'
  <2>1. SentInOrder(w) BY <1>5, <1>b DEF SentInOrder, SaysOf, Says, Order, OnAir
  <2>2. WarningOK(w) BY <2>1 DEF Arrives, OlderOK
  <2>3. CASE Says(d, "cancel", w) BY <2>3, CancelArrives
  <2>4. CASE Says(d, "warning", w) BY <2>1, <2>2, <2>4, CancelledArrives, WarningArrives
  <2>5. CASE ~Says(d, "cancel", w) /\ ~Says(d, "warning", w) BY <2>2, <2>5, OtherArrives
  <2> QED BY <2>3, <2>4, <2>5
<1> QED BY <1>1, <1>2, <1>3, <1>4, <1>5 DEF OlderOK

\* What the bot sends comes after what was heard.
LEMMA LateStays ==
  ASSUME BaseOK, Moves, NEW i \in OnAir, NEW t, Late(i, t) PROVE Late(i, t)'
<1> SUFFICES ASSUME NEW s \in sent', s.packet < i PROVE s.at <= t BY DEF Late
<1>1. CASE s \in sent BY <1>1 DEF Late
<1>2. CASE s = [packet |-> Len(air'), at |-> now] /\ air' # air
  <2>1. Len(air') = Len(air) + 1 /\ Len(air) \in Nat BY <1>2, AirGrows DEF BaseOK, Types
  <2> QED BY <1>2, <2>1 DEF OnAir
<1> QED BY <1>1, <1>2 DEF Moves

LEMMA BotKeepsOlder ==
  ASSUME OlderOK, BotNext, OneRound PROVE OlderOK'
<1>b. BaseOK BY DEF OlderOK
<1>m. BaseOK' /\ Moves BY <1>b, BotKeepsBase
<1>1. phone' = phone /\ heard' = heard BY <1>m DEF Moves
<1>2. /\ heard \subseteq OnAir /\ OnAir \subseteq OnAir'
      /\ \A i \in OnAir : air'[i] = air[i]
  <2>1. heard \subseteq OnAir BY <1>b DEF BaseOK, PhoneOK
  <2>2. Len(air) \in Nat /\ Len(air') \in {Len(air), Len(air) + 1}
    BY <1>b, <1>m, AirGrows DEF BaseOK, Types
  <2>3. OnAir \subseteq OnAir' BY <2>2 DEF OnAir
  <2> QED BY <2>1, <2>3, <1>b, <1>m, AirGrows
<1>3. \A i \in heard : \A t : Late(i, t) => Late(i, t)' BY <1>2, <1>b, <1>m, LateStays
<1>4. \A i \in heard : \A type, w : Says(i, type, w)' = Says(i, type, w) BY <1>2 DEF Says
<1>5. LatestOK' BY <1>1, <1>2 DEF OlderOK, LatestOK, At
<1>6. HeardAtOK'
  <2>1. \A h \in heard : Late(h, phone.lastHeardAt)' BY <1>3, <1>1 DEF OlderOK, HeardAtOK, Late
  <2> QED BY <2>1, <1>1 DEF HeardAtOK
<1>7. CancelsOK' BY <1>1, <1>4 DEF OlderOK, CancelsOK
<1>8. ASSUME NEW w \in Warnings, SentInOrder(w)' PROVE WarningOK(w)'
  <2>1. SentInOrder(w) BY <1>8, <1>2 DEF SentInOrder, SaysOf, Says, Order
  <2>2. WarningOK(w) BY <2>1 DEF OlderOK
  <2>3. Ended(w)'
    <3> SUFFICES ASSUME NEW i \in heard, Says(i, "cancel", w)
                 PROVE  ~Reducer!Holds(phone, w) /\ Late(i, phone.recentCancels[w])'
      BY <1>1, <1>4 DEF Ended
    <3>1. ~Reducer!Holds(phone, w) /\ Late(i, phone.recentCancels[w]) BY <2>2 DEF WarningOK, Ended
    <3> QED BY <3>1, <1>1, <1>3 DEF Late
  <2>4. ASSUME NEW r \in heard, Shown(w, r) PROVE Shown(w, r)'
    <3>1. Late(r, phone.warnings[w].receivedAt)' BY <2>4, <1>1, <1>3 DEF Shown, Late
    <3> QED BY <2>4, <3>1, <1>1, <1>2, <1>4 DEF Shown
  <2>5. Gone(w) => Gone(w)'
    <3>1. \A i \in heard : Late(i, -1) => Late(i, -1)' BY <1>3
    <3> QED BY <3>1, <1>1, <1>4 DEF Gone
  <2> QED BY <2>2, <2>3, <2>4, <2>5, <1>1 DEF WarningOK
<1> QED BY <1>m, <1>5, <1>6, <1>7, <1>8 DEF OlderOK

LEMMA OlderStarts == ASSUME FeedInit PROVE OlderOK
<1> USE FeedConstants
<1>1. PICK w \in Warnings :
        /\ now = 0 /\ air = <<First(w)>>
        /\ phone = Reducer!Apply(Reducer!NewState, First(w), now)
        /\ sent = {[packet |-> 1, at |-> now]} /\ heard = {1}
  BY DEF FeedInit
<1>2. /\ phone.lastHeardAt = 0
      /\ \A v \in Warnings : phone.warnings[v] =
           IF v = w THEN HeldIs(First(w).message, SeqModulus - 1, 0) ELSE Reducer!NotHeld
      /\ \A v \in Warnings : phone.recentCancels[v] = -1
  BY <1>1, FirstPhone
<1>3. air[1] = First(w) BY <1>1
<1>4. BaseOK BY FeedStarts DEF GapsOK
<1>5. LatestOK /\ HeardAtOK /\ CancelsOK BY <1>1, <1>2 DEF LatestOK, HeardAtOK, CancelsOK, Late
<1>6. ASSUME NEW v \in Warnings PROVE WarningOK(v)
  <2>1. Ended(v) BY <1>1, <1>3 DEF Ended, Says, First
  <2>2. CASE v = w
    <3>1. phone.warnings[v] = [version |-> 1, receivedAt |-> 0, seq |-> SeqModulus - 1]
      BY <1>2, <2>2 DEF HeldIs, First
    <3>2. Shown(v, 1) BY <3>1, <1>1, <1>3, <2>2 DEF Shown, Says, First, Late
    <3>3. Reducer!Holds(phone, v)
      BY <3>1 DEF Reducer!Holds, Reducer!NotHeld, Reducer!Never
    <3> QED BY <3>2, <3>3, <2>1, <1>1 DEF WarningOK
  <2>3. CASE v # w
    <3>1. ~Reducer!Holds(phone, v) BY <1>2, <2>3 DEF Reducer!Holds
    <3>2. Gone(v) BY <2>3, <1>1, <1>3 DEF Gone, Says, First
    <3> QED BY <3>1, <3>2, <2>1 DEF WarningOK
  <2> QED BY <2>2, <2>3
<1> QED BY <1>4, <1>5, <1>6 DEF OlderOK

LEMMA OlderIsKept ==
  ASSUME OneRound, Prompt, NotTooFast, OlderOK, [FeedNext]_feedVars PROVE OlderOK'
<1>b. BaseOK BY DEF OlderOK
<1>1. CASE BotNext BY <1>1, BotKeepsOlder
<1>2. CASE \E s \in sent : Deliver(s.packet)
  <2>1. PICK s \in sent : Deliver(s.packet) BY <1>2
  <2>2. PICK d \in OnAir : d = s.packet /\ Deliver(d) BY <2>1, <1>b DEF BaseOK, MeshOK
  <2>3. PICK p \in heard : At(p) BY <1>b DEF BaseOK, PhoneOK
  <2>4. CASE \E a : Accepted(phone, air[d], now, a) /\ Applied(phone, air[d], now, a, phone')
    <3>1. PICK a : Accepted(phone, air[d], now, a) /\ Applied(phone, air[d], now, a, phone') BY <2>4
    <3>2. Arrives(d, s, p, a) BY <3>1, <2>1, <2>2, <2>3 DEF Arrives
    <3> QED BY <3>2, HearingKeepsOlder
  <2>5. CASE phone' = phone /\ heard' = heard
    <3>1. air' = air /\ sent' = sent BY <2>2 DEF Deliver, botVars, vars
    <3>2. BaseOK' BY <2>2, <1>b, HearingKeepsBase
    <3> QED BY <2>5, <3>1, <3>2
      DEF OlderOK, LatestOK, HeardAtOK, CancelsOK, WarningOK, Ended, Shown, Gone, Late, At, Says,
          SentInOrder, SaysOf, Order, OnAir
  <2> QED BY <2>2, <2>4, <2>5, <1>b, DeliverIs
<1>3. CASE UNCHANGED feedVars
  <2>1. /\ UNCHANGED <<now, active, over, whole, batch, nextSeq, air>>
        /\ UNCHANGED <<phone, sent, heard, restarts>>
    BY <1>3 DEF feedVars, vars
  <2>2. BaseOK' BY <2>1, <1>b
    DEF BaseOK, Types, Numbered, Num, BotOK, SaidOK, Said, MeshOK, PhoneOK, At, OnAir
  <2> QED BY <2>1, <2>2
    DEF OlderOK, LatestOK, HeardAtOK, CancelsOK, WarningOK, Ended, Shown, Gone, Late, At, Says,
        SentInOrder, SaysOf, Order, OnAir
<1> QED BY <1>1, <1>2, <1>3, FeedSteps

\* While the mesh is prompt and the bot does not send too fast, what the phone shows
\* of a warning is the newest it has heard of it, and it shows none whose cancel it
\* heard.
THEOREM NothingGoesBack ==
  ASSUME OneRound, Prompt PROVE FeedSpec /\ []NotTooFast => []NeverOlder
<1>1. OlderOK => NeverOlder
  <2> SUFFICES ASSUME OlderOK, NEW w \in Warnings, Reducer!Holds(phone, w), SentInOrder(w),
                      NEW i \in OnAir, WasHeard(i)
               PROVE  /\ ~Says(i, "cancel", w)
                      /\ Says(i, "warning", w) => air[i].message.version <= phone.warnings[w].version
    BY DEF NeverOlder
  <2>1. WarningOK(w) /\ BaseOK /\ i \in heard BY DEF OlderOK, WasHeard
  <2>2. ~Says(i, "cancel", w) BY <2>1 DEF WarningOK, Ended
  <2>3. ASSUME Says(i, "warning", w) PROVE air[i].message.version <= phone.warnings[w].version
    <3>1. PICK r \in heard : Shown(w, r) BY <2>1 DEF WarningOK
    <3>2. r \in OnAir /\ i <= r /\ Says(r, "warning", w)
      BY <3>1, <2>1, <2>3 DEF Shown, BaseOK, PhoneOK
    <3>3. Order(i) = air[i].message.version /\ Order(r) = phone.warnings[w].version /\ Order(i) \in Int
      BY <3>1, <3>2, <2>1, <2>3, VersionOrder DEF Shown
    <3>4. CASE i = r BY <3>3, <3>4
    <3>5. CASE i # r
      <4>1. i < r BY <3>2, <3>5 DEF OnAir
      <4> QED BY <4>1, <3>2, <3>3, <2>3 DEF SentInOrder, SaysOf
    <3> QED BY <3>4, <3>5
  <2> QED BY <2>2, <2>3
<1>2. FeedSpec /\ []NotTooFast => []OlderOK
  BY OlderStarts, OlderIsKept, PTL DEF FeedSpec
<1> QED BY <1>1, <1>2, PTL
=============================================================================
