------------------------ MODULE WeatherAnswersProofs ------------------------
(***************************************************************************)
(* Proofs about WeatherAnswers, for any scripts, files and limits.          *)
(***************************************************************************)
EXTENDS WeatherAnswers, FiniteSetTheorems, SequenceTheorems, TLAPS

LEMMA Constants ==
  /\ SeqModulus \in Nat /\ FutureTolerance \in Nat /\ MaxAreaSweeps \in Nat /\ MaxRadarTiles \in Nat
  /\ RadarRetention \in Nat /\ TextRetention \in Nat /\ MaxTexts \in Nat /\ ForecastRetention \in Nat
  /\ MaxForecasts \in Nat /\ ObservationRetention \in Nat /\ MaxObservations \in Nat
  /\ PacketsPerTick \in Nat /\ PacketsPerTick < SeqModulus /\ StartTime \in Nat /\ MaxTime \in Nat
  /\ StartTime <= MaxTime /\ MaxUpsets \in Nat /\ MaxReplays \in Nat /\ DuplicateWindow \in Nat
BY ReducerAssumption, AnswersAssumption

-----------------------------------------------------------------------------
(* Sequences put in order *)

IsOrder(S, r) ==
  /\ \A i \in S : <<i, i>> \notin r
  /\ \A i, j, k \in S : <<i, j>> \in r /\ <<j, k>> \in r => <<i, k>> \in r
  /\ \A i, j \in S : i # j => <<i, j>> \in r \/ <<j, i>> \in r

RankIn(S, r, i) == Cardinality({j \in S : <<j, i>> \in r}) + 1
AreRanked(S, r) ==
  /\ Cardinality(S) \in Nat
  /\ \A i \in S : RankIn(S, r, i) \in 1 .. Cardinality(S)
  /\ \A n \in 1 .. Cardinality(S) : \E i \in S : RankIn(S, r, i) = n

\* In a finite order no two have the same place.
LEMMA Apart ==
  ASSUME NEW S, IsFiniteSet(S), NEW r, IsOrder(S, r), NEW x \in S, NEW y \in S, x # y
  PROVE  RankIn(S, r, x) # RankIn(S, r, y)
<1> DEFINE Before(i) == {k \in S : <<k, i>> \in r}
<1>1. ASSUME NEW i \in S PROVE IsFiniteSet(Before(i)) /\ Cardinality(Before(i)) \in Nat
  <2>1. Before(i) \in SUBSET S OBVIOUS
  <2> QED BY <2>1, FS_Subset, FS_CardinalityType
<1>2. ASSUME NEW i \in S, NEW j \in S, <<i, j>> \in r
      PROVE  Cardinality(Before(i)) < Cardinality(Before(j))
  <2>1. i \notin Before(i) /\ Before(i) \union {i} \in SUBSET Before(j) BY <1>2 DEF IsOrder
  <2>2. Cardinality(Before(i) \union {i}) = Cardinality(Before(i)) + 1 BY <1>1, <2>1, FS_AddElement
  <2>3. Cardinality(Before(i) \union {i}) <= Cardinality(Before(j)) BY <1>1, <2>1, FS_Subset
  <2>4. Cardinality(Before(i)) \in Nat /\ Cardinality(Before(j)) \in Nat BY <1>1
  <2> HIDE DEF Before
  <2> QED BY <2>2, <2>3, <2>4
<1>3. Cardinality(Before(x)) # Cardinality(Before(y))
  <2>1. <<x, y>> \in r \/ <<y, x>> \in r BY DEF IsOrder
  <2>2. Cardinality(Before(x)) \in Nat /\ Cardinality(Before(y)) \in Nat BY <1>1
  <2>3. <<x, y>> \in r => Cardinality(Before(x)) < Cardinality(Before(y)) BY <1>2
  <2>4. <<y, x>> \in r => Cardinality(Before(y)) < Cardinality(Before(x)) BY <1>2
  <2> HIDE DEF Before
  <2> QED BY <2>1, <2>2, <2>3, <2>4
<1>4. Cardinality(Before(x)) \in Nat /\ Cardinality(Before(y)) \in Nat BY <1>1
<1> SUFFICES Cardinality(Before(x)) + 1 # Cardinality(Before(y)) + 1 BY DEF RankIn
<1> HIDE DEF Before
<1> QED BY <1>3, <1>4

\* In a finite order every place is somebody's.
LEMMA Ranked ==
  ASSUME NEW S, IsFiniteSet(S), NEW r, IsOrder(S, r)
  PROVE  AreRanked(S, r)
<1> DEFINE Before(i) == {j \in S : <<j, i>> \in r}
           f == [i \in S |-> RankIn(S, r, i)]
<1>1. Cardinality(S) \in Nat BY FS_CardinalityType
<1>2. ASSUME NEW i \in S
      PROVE  /\ IsFiniteSet(Before(i)) /\ Cardinality(Before(i)) \in Nat
             /\ Cardinality(Before(i)) <= Cardinality(S) - 1
  <2>1. IsFiniteSet(S \ {i}) /\ Cardinality(S \ {i}) = Cardinality(S) - 1 BY FS_RemoveElement
  <2>2. Before(i) \in SUBSET (S \ {i}) BY DEF IsOrder
  <2> QED BY <2>1, <2>2, FS_Subset, FS_CardinalityType
<1>4. f \in [S -> 1 .. Cardinality(S)]
  <2> SUFFICES ASSUME NEW i \in S PROVE RankIn(S, r, i) \in 1 .. Cardinality(S) OBVIOUS
  <2>1. RankIn(S, r, i) = Cardinality(Before(i)) + 1 BY DEF RankIn
  <2> HIDE DEF Before
  <2> QED BY <1>1, <1>2, <2>1
<1>5. \A i, j \in S : f[i] = f[j] => i = j
  <2> SUFFICES ASSUME NEW i \in S, NEW j \in S, i # j PROVE f[i] # f[j] OBVIOUS
  <2> QED BY Apart
<1>6. f \in Injection(S, 1 .. Cardinality(S)) BY <1>4, <1>5 DEF Injection, IsInjective
<1>7. IsFiniteSet(1 .. Cardinality(S)) /\ Cardinality(1 .. Cardinality(S)) = Cardinality(S)
  BY <1>1, FS_Interval
<1>8. f \in Surjection(S, 1 .. Cardinality(S)) BY <1>6, <1>7, FS_Injection
<1>9. \A n \in 1 .. Cardinality(S) : \E i \in S : f[i] = n BY <1>8 DEF Surjection
<1> QED BY <1>1, <1>4, <1>9 DEF AreRanked

LEMMA ListIs ==
  ASSUME NEW s, IsList(s)
  PROVE  /\ Len(s) \in Nat /\ DOMAIN s = 1 .. Len(s) /\ s = [n \in 1 .. Len(s) |-> s[n]]
         /\ IsFiniteSet(DOMAIN s) /\ DOMAIN s \subseteq Nat
<1>1. Len(s) \in Nat /\ DOMAIN s = 1 .. Len(s) /\ s = [n \in 1 .. Len(s) |-> s[n]] BY DEF IsList
<1> QED BY <1>1, FS_Interval

LEMMA IsAList ==
  ASSUME NEW n \in Nat, NEW s, s = [i \in 1 .. n |-> s[i]]
  PROVE  IsList(s) /\ Len(s) = n /\ DOMAIN s = 1 .. n
<1>1. DOMAIN s = 1 .. n OBVIOUS
<1>2. s \in [1 .. n -> Range(s)] BY <1>1 DEF Range
<1> QED BY <1>1, <1>2 DEF IsList

\* What is put in order is what was to be put in order.
LEMMA InOrderIs ==
  ASSUME NEW s, IsList(s), NEW kept \in SUBSET DOMAIN s, NEW r, IsOrder(kept, r)
  PROVE  /\ IsList(InOrder(s, kept, r)) /\ Len(InOrder(s, kept, r)) = Cardinality(kept)
         /\ Range(InOrder(s, kept, r)) = {s[i] : i \in kept}
<1> DEFINE Rank(i) == RankIn(kept, r, i)
           At(n) == CHOOSE i \in kept : Rank(i) = n
           o == [n \in 1 .. Cardinality(kept) |-> s[At(n)]]
<1>1. IsFiniteSet(kept) BY ListIs, FS_Subset
<1>r. AreRanked(kept, r) BY <1>1, Ranked
<1>2. /\ Cardinality(kept) \in Nat
      /\ \A i \in kept : Rank(i) \in 1 .. Cardinality(kept)
      /\ \A n \in 1 .. Cardinality(kept) : \E i \in kept : Rank(i) = n
  BY <1>r DEF AreRanked
<1>3. InOrder(s, kept, r) = o BY DEF InOrder, RankIn
<1>i. \A i, j \in kept : Rank(i) = Rank(j) => i = j BY <1>1, Apart
<1> HIDE DEF Rank
<1>4. \A n \in 1 .. Cardinality(kept) : At(n) \in kept /\ Rank(At(n)) = n BY <1>2
<1>5. IsList(o) /\ Len(o) = Cardinality(kept) /\ DOMAIN o = 1 .. Cardinality(kept) BY <1>2, IsAList
<1>6. \A i \in kept : At(Rank(i)) = i BY <1>2, <1>4, <1>i
<1> HIDE DEF At
<1>7. Range(o) = {s[i] : i \in kept}
  <2>1. ASSUME NEW n \in 1 .. Cardinality(kept) PROVE o[n] \in {s[i] : i \in kept} BY <1>4
  <2>2. ASSUME NEW i \in kept PROVE \E n \in DOMAIN o : s[i] = o[n]
    <3>1. Rank(i) \in DOMAIN o /\ o[Rank(i)] = s[At(Rank(i))] BY <1>2, <1>5
    <3> QED BY <3>1, <1>6
  <2> QED BY <2>1, <2>2, <1>5 DEF Range
<1> QED BY <1>3, <1>5, <1>7

\* Every place in a finite set of numbers is somebody's.
LEMMA NthIs ==
  ASSUME NEW S \in SUBSET Int, IsFiniteSet(S), NEW n \in 1 .. Cardinality(S)
  PROVE  \E x \in S : Cardinality({y \in S : y <= x}) = n
<1> DEFINE r == {p \in S \X S : p[1] < p[2]}
<1>1. IsOrder(S, r)
  <2>1. \A i, j \in S : <<i, j>> \in r <=> i < j OBVIOUS
  <2> HIDE DEF r
  <2> QED BY <2>1 DEF IsOrder
<1>2. AreRanked(S, r) BY <1>1, Ranked
<1>3. PICK x \in S : RankIn(S, r, x) = n BY <1>2 DEF AreRanked
<1> DEFINE Before == {j \in S : <<j, x>> \in r}
<1>4. IsFiniteSet(Before) /\ Cardinality(Before) \in Nat
  <2>1. Before \in SUBSET S OBVIOUS
  <2> QED BY <2>1, FS_Subset, FS_CardinalityType
<1>5. {y \in S : y <= x} = Before \union {x} /\ x \notin Before
  <2>1. \A y \in S : <<y, x>> \in r <=> y < x OBVIOUS
  <2>2. \A y \in S : y <= x <=> (y < x \/ y = x) OBVIOUS
  <2>3. ~(x < x) OBVIOUS
  <2> HIDE DEF r
  <2> QED BY <2>1, <2>2, <2>3, Zenon
<1> HIDE DEF Before
<1>6. Cardinality(Before \union {x}) = Cardinality(Before) + 1 BY <1>4, <1>5, FS_AddElement
<1>7. RankIn(S, r, x) = Cardinality(Before) + 1 BY DEF RankIn, Before
<1> QED BY <1>3, <1>5, <1>6, <1>7

-----------------------------------------------------------------------------
(* What a message and a phone's state are *)

Fields ==
  {"lastSeq", "recentMessages", "lastHeardAt", "warnings", "recentCancels", "digest",
   "missingFromDigest", "needsDigest", "gapDetectedAt", "observations", "forecasts",
   "unbundledForecasts", "texts", "coverage", "areaSweeps", "radarTiles", "lastLiveHeardAt"}
Answered == {"observations", "forecasts", "texts", "areaSweeps", "radarTiles"}

\* A message carries what its script says, its time and its group.
Said(s) == UNION {Range(s[a].packets) : a \in DOMAIN s}
Carries(m, p) == DOMAIN p \subseteq DOMAIN m /\ \A f \in DOMAIN p : m[f] = p[f]
IsDated(m) ==
  /\ \E p \in Said(script) : Carries(m, p)
  /\ MessageMinutes(m) \in Int
  /\ "group" \in DOMAIN m => m.group \in Nat
IsMessage(m) == IsDated(m) /\ (m.type \in Multi => "group" \in DOMAIN m)

\* A state is a record with these fields, and what it holds is what it can hold.
IsState(state, at) == DOMAIN state = Fields /\ IsHeld(state, at)
AreStates(held, at) == \A b \in DOMAIN held : IsState(held[b], at)

LEMMA SaidIs ==
  ASSUME IsScript(script), NEW p \in Said(script)
  PROVE  IsSaid(p) /\ (p.type = "area_sweep" => p \in Maps(script))
<1>1. PICK a \in DOMAIN script : p \in Range(script[a].packets) BY DEF Said
<1>2. IsSaid(p) BY <1>1 DEF IsScript
<1>3. p.type = "area_sweep" => p \in Maps(script) BY <1>1 DEF Maps
<1> QED BY <1>2, <1>3

\* What a message says is of the kinds that its type has.
TypedMessage(m) ==
  /\ m.type \in DOMAIN FieldsOf
  /\ MessageMinutes(m) \in Int
  /\ m.type \in Multi => m.group \in Nat /\ {m.idx, m.total} \subseteq Nat
  /\ m.type = "observations" =>
       /\ m.ts \in Int /\ IsFiniteSet(DOMAIN m.stations)
       /\ \A s \in DOMAIN m.stations : {s, m.stations[s]} \subseteq Nat
  /\ m.type = "forecast" => m.point \in Nat /\ m.issued \in Int
  /\ m.type = "area_sweep" =>
       /\ m.built \in Int /\ {m.scoped, m.cut, m.advisories} \subseteq BOOLEAN
       /\ \E p \in Maps(script) : /\ m.idx = p.idx /\ m.entries = p.entries /\ m.scope = p.scope
                                  /\ m.scoped = p.scoped /\ m.cut = p.cut
  /\ m.type = "radar" =>
       m.taken \in Int /\ m.tile.square \in Int /\ m.tile.zoom \in Nat /\ m.coarse \in BOOLEAN

LEMMA MessageIs ==
  ASSUME IsScript(script), NEW m, IsMessage(m)
  PROVE  TypedMessage(m)
<1>1. PICK p \in Said(script) : Carries(m, p) BY DEF IsMessage, IsDated
<1>2. IsSaid(p) /\ (p.type = "area_sweep" => p \in Maps(script)) BY SaidIs
<1>3. "type" \in DOMAIN p /\ m.type = p.type /\ \A f \in DOMAIN p : m[f] = p[f] BY <1>1, <1>2 DEF Carries, IsSaid
<1>4. m.type \in DOMAIN FieldsOf /\ DOMAIN p = FieldsOf[m.type] \union {"type"} BY <1>2, <1>3 DEF IsSaid
<1>5. m.type \in Multi => m.group \in Nat /\ {m.idx, m.total} \subseteq Nat
  <2>1. m.type \in Multi => {"idx", "total"} \subseteq DOMAIN p BY <1>4 DEF FieldsOf, Multi
  <2> QED BY <1>2, <1>3, <2>1 DEF IsMessage, IsDated, IsSaid
<1>6. m.type = "observations" =>
        /\ m.ts \in Int /\ IsFiniteSet(DOMAIN m.stations)
        /\ \A s \in DOMAIN m.stations : {s, m.stations[s]} \subseteq Nat
  <2>1. m.type = "observations" => "stations" \in DOMAIN p BY <1>4 DEF FieldsOf
  <2> QED BY <1>2, <1>3, <2>1 DEF IsMessage, IsDated, IsSaid, MessageMinutes
<1>7. m.type = "forecast" => m.point \in Nat /\ m.issued \in Int
  <2>1. m.type = "forecast" => "point" \in DOMAIN p BY <1>4 DEF FieldsOf
  <2> QED BY <1>2, <1>3, <2>1 DEF IsMessage, IsDated, IsSaid, MessageMinutes
<1>8. ASSUME m.type = "area_sweep"
      PROVE  /\ m.built \in Int /\ {m.scoped, m.cut, m.advisories} \subseteq BOOLEAN
             /\ \E q \in Maps(script) : /\ m.idx = q.idx /\ m.entries = q.entries /\ m.scope = q.scope
                                        /\ m.scoped = q.scoped /\ m.cut = q.cut
  <2>1. {"idx", "scoped", "scope", "cut", "advisories", "entries"} \subseteq DOMAIN p BY <1>4, <1>8 DEF FieldsOf
  <2>2. m.built \in Int BY <1>8 DEF IsMessage, IsDated, MessageMinutes
  <2>3. {p.scoped, p.cut, p.advisories} \subseteq BOOLEAN BY <1>2, <1>3, <1>8 DEF IsSaid
  <2> QED BY <1>2, <1>3, <1>8, <2>1, <2>2, <2>3
<1>9. m.type = "radar" =>
        m.taken \in Int /\ m.tile.square \in Int /\ m.tile.zoom \in Nat /\ m.coarse \in BOOLEAN
  <2>1. m.type = "radar" => {"tile", "coarse"} \subseteq DOMAIN p BY <1>4 DEF FieldsOf
  <2> QED BY <1>2, <1>3, <2>1 DEF IsMessage, IsDated, IsSaid, MessageMinutes
<1> QED BY <1>4, <1>5, <1>6, <1>7, <1>8, <1>9 DEF TypedMessage, IsMessage, IsDated

-----------------------------------------------------------------------------
(* What a packet changes of a state *)

LEMMA NewBotIs ==
  /\ DOMAIN NewBot = Fields
  /\ NewBot.texts = <<>> /\ NewBot.forecasts = <<>> /\ NewBot.observations = <<>>
  /\ NewBot.areaSweeps = <<>> /\ NewBot.radarTiles = <<>> /\ NewBot.unbundledForecasts = <<>>
<1> DEFINE n == Stream!NewState
<1>1. /\ n = [f \in DOMAIN n |-> n[f]]
      /\ DOMAIN n = {"lastSeq", "recentMessages", "lastHeardAt", "warnings", "recentCancels", "digest",
                     "missingFromDigest", "needsDigest", "gapDetectedAt"}
  BY DEF Stream!NewState
<1>2. DOMAIN NewAnswers = {"observations", "forecasts", "unbundledForecasts", "texts", "coverage",
                           "areaSweeps", "radarTiles", "lastLiveHeardAt"}
  BY DEF NewAnswers
<1>3. NewBot = [f \in DOMAIN n \union DOMAIN NewAnswers |-> IF f \in DOMAIN n THEN n[f] ELSE NewAnswers[f]]
  BY DEF NewBot
<1> HIDE DEF n
<1>4. DOMAIN NewBot = Fields BY <1>1, <1>2, <1>3 DEF Fields
<1>5. \A f \in DOMAIN NewAnswers : NewBot[f] = NewAnswers[f] BY <1>1, <1>2, <1>3
<1> QED BY <1>2, <1>4, <1>5 DEF NewAnswers

LEMMA NewBotIsHeld ==
  ASSUME NEW at
  PROVE  IsState(NewBot, at)
<1>1. DOMAIN <<>> = {} /\ IsList(<<>>) /\ Range(<<>>) = {} BY DEF IsList, Range
<1> QED BY <1>1, NewBotIs, FS_EmptySet DEF IsState, IsHeld

\* What the stream of numbers does leaves the answers alone.
LEMMA Accepted ==
  ASSUME NEW state, DOMAIN state = Fields, NEW packet, NEW at
  PROVE  /\ DOMAIN Stream!Accept(state, packet, at) = Fields
         /\ \A f \in Answered : Stream!Accept(state, packet, at)[f] = state[f]
<1>1. DOMAIN Stream!Accept(state, packet, at) = DOMAIN state BY DEF Stream!Accept
<1>2. Answered \subseteq Fields BY DEF Answered, Fields
<1>3. \A f \in Answered : Stream!Accept(state, packet, at)[f] = state[f]
  BY <1>2 DEF Stream!Accept, Answered
<1> QED BY <1>1, <1>3

\* A message changes what is held of its own kind.
Stores(old, new, m, at) ==
  /\ DOMAIN new = Fields
  /\ new.texts = IF m.type = "text" THEN StoreText(old, m, at).texts ELSE old.texts
  /\ new.forecasts = IF m.type = "forecast" THEN StoreForecast(old, m, at).forecasts ELSE old.forecasts
  /\ new.observations = IF m.type = "observations" THEN StoreObservations(old, m, at).observations
                        ELSE old.observations
  /\ new.areaSweeps = IF m.type = "area_sweep" THEN StoreAreaSweep(old, m, at).areaSweeps ELSE old.areaSweeps
  /\ new.radarTiles = IF m.type = "radar" THEN StoreRadar(old, m, at).radarTiles ELSE old.radarTiles

Agree(a, b) == DOMAIN a = Fields /\ DOMAIN b = Fields /\ \A f \in Answered : a[f] = b[f]

LEMMA AgreeIs ==
  ASSUME NEW a, NEW b, Agree(a, b)
  PROVE  /\ DOMAIN a = Fields /\ DOMAIN b = Fields /\ a.texts = b.texts /\ a.forecasts = b.forecasts
         /\ a.observations = b.observations /\ a.areaSweeps = b.areaSweeps /\ a.radarTiles = b.radarTiles
BY DEF Agree, Answered

LEMMA StoresText ==
  ASSUME NEW old, NEW a, Agree(old, a), NEW m, NEW at
  PROVE  /\ StoreText(a, m, at).texts = StoreText(old, m, at).texts
         /\ DOMAIN StoreText(a, m, at) = Fields
         /\ \A f \in Answered \ {"texts"} : StoreText(a, m, at)[f] = old[f]
<1>1. "texts" \in Fields /\ Answered \subseteq Fields BY DEF Fields, Answered
<1> QED BY <1>1, AgreeIs DEF StoreText, Agree

LEMMA StoresForecast ==
  ASSUME NEW old, NEW a, Agree(old, a), NEW m, NEW at
  PROVE  /\ StoreForecast(a, m, at).forecasts = StoreForecast(old, m, at).forecasts
         /\ DOMAIN StoreForecast(a, m, at) = Fields
         /\ \A f \in Answered \ {"forecasts"} : StoreForecast(a, m, at)[f] = old[f]
<1>1. /\ "forecasts" \in Fields /\ "unbundledForecasts" \in Fields
      /\ Answered \subseteq Fields /\ "unbundledForecasts" \notin Answered
  BY DEF Fields, Answered
<1> QED BY <1>1, AgreeIs DEF StoreForecast, Agree, HoldsNewerForecast

LEMMA StoresObservations ==
  ASSUME NEW old, NEW a, Agree(old, a), NEW m, NEW at
  PROVE  /\ StoreObservations(a, m, at).observations = StoreObservations(old, m, at).observations
         /\ DOMAIN StoreObservations(a, m, at) = Fields
         /\ \A f \in Answered \ {"observations"} : StoreObservations(a, m, at)[f] = old[f]
<1>1. "observations" \in Fields /\ Answered \subseteq Fields BY DEF Fields, Answered
<1> QED BY <1>1, AgreeIs DEF StoreObservations, Agree

LEMMA StoresAreaSweep ==
  ASSUME NEW old, NEW a, Agree(old, a), NEW m, NEW at
  PROVE  /\ StoreAreaSweep(a, m, at).areaSweeps = StoreAreaSweep(old, m, at).areaSweeps
         /\ DOMAIN StoreAreaSweep(a, m, at) = Fields
         /\ \A f \in Answered \ {"areaSweeps"} : StoreAreaSweep(a, m, at)[f] = old[f]
<1>1. "areaSweeps" \in Fields /\ Answered \subseteq Fields BY DEF Fields, Answered
<1> QED BY <1>1, AgreeIs DEF StoreAreaSweep, Agree

LEMMA StoresRadar ==
  ASSUME NEW old, NEW a, Agree(old, a), NEW m, NEW at
  PROVE  /\ StoreRadar(a, m, at).radarTiles = StoreRadar(old, m, at).radarTiles
         /\ DOMAIN StoreRadar(a, m, at) = Fields
         /\ \A f \in Answered \ {"radarTiles"} : StoreRadar(a, m, at)[f] = old[f]
<1>1. "radarTiles" \in Fields /\ Answered \subseteq Fields BY DEF Fields, Answered
<1> QED BY <1>1, AgreeIs DEF StoreRadar, Agree

LEMMA StoreIs ==
  ASSUME NEW old, NEW a, Agree(old, a), NEW m, NEW at, NEW o
  PROVE  Stores(old, Store(a, m, at, o), m, at)
<1> DEFINE s == Store(a, m, at, o)
<1>1. CASE m.type = "text"
  <2>1. s = StoreText(a, m, at) BY <1>1 DEF Store
  <2> QED BY <1>1, <2>1, StoresText DEF Stores, Answered
<1>2. CASE m.type = "area_sweep"
  <2>1. s = StoreAreaSweep(a, m, at) BY <1>2 DEF Store
  <2> QED BY <1>2, <2>1, StoresAreaSweep DEF Stores, Answered
<1>3. CASE m.type = "radar"
  <2>1. s = StoreRadar(a, m, at) BY <1>3 DEF Store
  <2> QED BY <1>3, <2>1, StoresRadar DEF Stores, Answered
<1>4. CASE m.type = "forecast"
  <2>1. s = StoreForecast(a, m, at) BY <1>4 DEF Store
  <2> QED BY <1>4, <2>1, StoresForecast DEF Stores, Answered
<1>5. CASE m.type = "observations"
  <2>1. s = StoreObservations(a, m, at) BY <1>5 DEF Store
  <2> QED BY <1>5, <2>1, StoresObservations DEF Stores, Answered
<1>6. CASE m.type \notin {"text", "area_sweep", "radar", "forecast", "observations"}
  <2>1. s = IF m.type = "coverage" THEN StoreCoverage(a, m, at, o) ELSE a BY <1>6 DEF Store
  <2>2. "coverage" \in Fields /\ "coverage" \notin Answered /\ Answered \subseteq Fields BY DEF Fields, Answered
  <2>3. Agree(old, s) BY <2>1, <2>2 DEF StoreCoverage, Agree
  <2> QED BY <1>6, <2>3, AgreeIs DEF Stores
<1> QED BY <1>1, <1>2, <1>3, <1>4, <1>5, <1>6

LEMMA HeardIs ==
  ASSUME NEW before, DOMAIN before = Fields, NEW packet, NEW at, NEW heard, NEW x,
         ~IsDuplicate(before, packet, at),
         heard = [Apply(before, packet, at) EXCEPT !.lastLiveHeardAt = x]
  PROVE  IF IsAhead(MessageMinutes(packet.message), at) THEN Agree(before, heard)
         ELSE Stores(before, heard, packet.message, at)
<1> DEFINE a == Stream!Accept(before, packet, at)
           o == Stream!Place(before, packet.seq, at) = "behind"
           m == packet.message
<1>1. Agree(before, a) BY Accepted DEF Agree
<1>2. "lastLiveHeardAt" \notin Answered /\ Answered \subseteq Fields BY DEF Fields, Answered
<1>3. CASE IsAhead(MessageMinutes(m), at)
  <2>1. heard = [a EXCEPT !.lastLiveHeardAt = x] BY <1>3 DEF Apply
  <2> QED BY <1>1, <1>2, <1>3, <2>1 DEF Agree
<1>4. CASE ~IsAhead(MessageMinutes(m), at)
  <2>1. heard = [Store(a, m, at, o) EXCEPT !.lastLiveHeardAt = x] BY <1>4 DEF Apply
  <2> HIDE DEF a, o
  <2>2. Stores(before, Store(a, m, at, o), m, at) BY <1>1, StoreIs
  <2> QED BY <1>2, <1>4, <2>1, <2>2 DEF Stores, Fields
<1> QED BY <1>3, <1>4

\* In a finite order somebody comes first.
LEMMA FirstIs ==
  ASSUME NEW S, IsFiniteSet(S), S # {}, NEW r, IsOrder(S, r)
  PROVE  \E x \in S : \A y \in S : <<y, x>> \notin r
<1>1. AreRanked(S, r) BY Ranked
<1>2. Cardinality(S) \in Nat /\ Cardinality(S) # 0 BY FS_CardinalityType, FS_EmptySet
<1>3. PICK x \in S : RankIn(S, r, x) = 1 BY <1>1, <1>2 DEF AreRanked
<1> DEFINE Before == {y \in S : <<y, x>> \in r}
<1>4. IsFiniteSet(Before) /\ Cardinality(Before) \in Nat
  <2>1. Before \in SUBSET S OBVIOUS
  <2> QED BY <2>1, FS_Subset, FS_CardinalityType
<1>5. Cardinality(Before) + 1 = 1 BY <1>3 DEF RankIn
<1>6. Before = {}
  <2> HIDE DEF Before
  <2> QED BY <1>4, <1>5, FS_EmptySet
<1> QED BY <1>6

LEMMA GreatestIs ==
  ASSUME NEW S \in SUBSET Int, IsFiniteSet(S), S # {}
  PROVE  \E x \in S : \A y \in S : y <= x
<1> DEFINE r == {p \in S \X S : p[1] > p[2]}
<1>1. \A i, j \in S : <<i, j>> \in r <=> i > j OBVIOUS
<1>t. \A i, j \in S : i > j \/ i <= j OBVIOUS
<1> HIDE DEF r
<1>2. IsOrder(S, r) BY <1>1 DEF IsOrder
<1>3. PICK x \in S : \A y \in S : <<y, x>> \notin r BY <1>2, FirstIs
<1> QED BY <1>1, <1>3, <1>t

LEMMA LeastIs ==
  ASSUME NEW S \in SUBSET Int, IsFiniteSet(S), S # {}
  PROVE  \E x \in S : \A y \in S : x <= y
<1> DEFINE r == {p \in S \X S : p[1] < p[2]}
<1>1. \A i, j \in S : <<i, j>> \in r <=> i < j OBVIOUS
<1>t. \A i, j \in S : i < j \/ j <= i OBVIOUS
<1> HIDE DEF r
<1>2. IsOrder(S, r) BY <1>1 DEF IsOrder
<1>3. PICK x \in S : \A y \in S : <<y, x>> \notin r BY <1>2, FirstIs
<1> QED BY <1>1, <1>3, <1>t

\* What is noted on the answer of a request.
IsMarked(old, new, m, pending_, settled) ==
  /\ DOMAIN new = Fields /\ new.observations = old.observations /\ new.radarTiles = old.radarTiles
  /\ \/ new.forecasts = old.forecasts
     \/ /\ m.type = "forecast" /\ m.point \in DOMAIN old.forecasts
        /\ new.forecasts = [old.forecasts EXCEPT ![m.point].requestedHere = TRUE]
  /\ \/ new.texts = old.texts
     \/ /\ m.type = "text" /\ m.group \in DOMAIN old.texts
        /\ \E k \in settled : /\ pending_[k].request.kind # "parts"
                              /\ new.texts = [old.texts EXCEPT ![m.group].request = pending_[k].request]
  /\ \/ new.areaSweeps = old.areaSweeps
     \/ \E r : new.areaSweeps =
          [i \in DOMAIN old.areaSweeps |->
             IF old.areaSweeps[i].group = m.group /\ old.areaSweeps[i].builtMinutes = m.built
             THEN [old.areaSweeps[i] EXCEPT !.request = r] ELSE old.areaSweeps[i]]

LEMMA MarkedIs ==
  ASSUME NEW state, DOMAIN state = Fields, NEW pending_, NEW m, NEW settled \in SUBSET Int, IsFiniteSet(settled)
  PROVE  IsMarked(state, Marked(state, pending_, m, settled), m, pending_, settled)
<1> DEFINE named == {i \in settled : pending_[i].request.kind # "parts"}
           last == CHOOSE i \in named : \A j \in named : j <= i
           request == pending_[last].request
           new == Marked(state, pending_, m, settled)
<1> SUFFICES IsMarked(state, new, m, pending_, settled) OBVIOUS
<1>0. {"forecasts", "unbundledForecasts", "texts", "areaSweeps"} \subseteq Fields
      /\ {"observations", "radarTiles"} \subseteq Fields BY DEF Fields
<1>1. CASE m.type = "forecast"
  <2>1. new = FileForecast(state, m, pending_, settled) BY <1>1 DEF Marked
  <2>2. \/ new = state
        \/ /\ m.point \in DOMAIN state.forecasts
           /\ new = [state EXCEPT !.forecasts[m.point].requestedHere = TRUE]
        \/ \E x : new = [state EXCEPT !.unbundledForecasts = x]
    BY <2>1 DEF FileForecast, Held
  <2> QED BY <1>0, <1>1, <2>2 DEF IsMarked
<1>2. CASE m.type = "text" /\ named # {} /\ Held(state.texts, m.group)
  <2>1. new = [state EXCEPT !.texts[m.group].request = request] BY <1>2 DEF Marked
  <2>2. named \in SUBSET Int /\ IsFiniteSet(named)
    <3>1. named \in SUBSET settled OBVIOUS
    <3> QED BY <3>1, FS_Subset
  <2>3. \E i \in named : \A j \in named : j <= i BY <1>2, <2>2, GreatestIs
  <2>4. last \in named BY <2>3
  <2>5. new.texts = [state.texts EXCEPT ![m.group].request = request] BY <1>0, <2>1
  <2>6. /\ DOMAIN new = Fields /\ new.observations = state.observations /\ new.radarTiles = state.radarTiles
        /\ new.forecasts = state.forecasts /\ new.areaSweeps = state.areaSweeps
    BY <1>0, <2>1
  <2> HIDE DEF last, new
  <2> QED BY <1>2, <2>4, <2>5, <2>6 DEF IsMarked, Held
<1>3. CASE m.type = "area_sweep" /\ named # {}
  <2>1. new = [state EXCEPT !.areaSweeps =
                 [i \in DOMAIN state.areaSweeps |->
                    IF /\ state.areaSweeps[i].group = m.group
                       /\ state.areaSweeps[i].builtMinutes = m.built
                    THEN [state.areaSweeps[i] EXCEPT !.request = request] ELSE state.areaSweeps[i]]]
    BY <1>3 DEF Marked
  <2> HIDE DEF new, request
  <2> QED BY <1>0, <2>1 DEF IsMarked
<1>4. CASE /\ m.type # "forecast" /\ ~(m.type = "text" /\ named # {} /\ Held(state.texts, m.group))
           /\ ~(m.type = "area_sweep" /\ named # {})
  <2>1. new = state BY <1>4 DEF Marked
  <2> QED BY <2>1 DEF IsMarked
<1> QED BY <1>1, <1>2, <1>3, <1>4

LEMMA TrimIs ==
  ASSUME NEW state, DOMAIN state = Fields, NEW at
  PROVE  /\ DOMAIN Trim(state, at) = Fields
         /\ Trim(state, at).areaSweeps = state.areaSweeps /\ Trim(state, at).radarTiles = state.radarTiles
         /\ Trim(state, at).texts = PruneTexts(state, at - TextRetention).texts
         /\ Trim(state, at).forecasts = PruneForecasts(state, at - ForecastRetention).forecasts
         /\ Trim(state, at).observations = TrimObservations(state, at - ObservationRetention).observations
<1>0. {"forecasts", "texts", "areaSweeps", "observations", "radarTiles"} \subseteq Fields BY DEF Fields
<1>1. \E x : PruneTexts(state, at - TextRetention) = [state EXCEPT !.texts = x] BY DEF PruneTexts
<1> DEFINE t == PruneTexts(state, at - TextRetention)
           f == PruneForecasts(t, at - ForecastRetention)
<1>2. /\ DOMAIN t = Fields /\ t.areaSweeps = state.areaSweeps /\ t.radarTiles = state.radarTiles
      /\ t.forecasts = state.forecasts /\ t.observations = state.observations
  BY <1>0, <1>1
<1> HIDE DEF t
<1>3. \E x : f = [t EXCEPT !.forecasts = x] BY DEF PruneForecasts
<1>4. f.forecasts = PruneForecasts(state, at - ForecastRetention).forecasts
  BY <1>0, <1>2 DEF PruneForecasts
<1>5. /\ DOMAIN f = Fields /\ f.areaSweeps = state.areaSweeps /\ f.radarTiles = state.radarTiles
      /\ f.texts = t.texts /\ f.observations = state.observations
  BY <1>0, <1>2, <1>3
<1>6. Trim(state, at) = TrimObservations(f, at - ObservationRetention) BY DEF Trim, t
<1> HIDE DEF f
<1>7. \E x : TrimObservations(f, at - ObservationRetention) = [f EXCEPT !.observations = x]
  BY DEF TrimObservations
<1>8. TrimObservations(f, at - ObservationRetention).observations
        = TrimObservations(state, at - ObservationRetention).observations
  BY <1>0, <1>5 DEF TrimObservations
<1>9. /\ DOMAIN Trim(state, at) = Fields
      /\ Trim(state, at).areaSweeps = f.areaSweeps /\ Trim(state, at).radarTiles = f.radarTiles
      /\ Trim(state, at).texts = f.texts /\ Trim(state, at).forecasts = f.forecasts
  BY <1>0, <1>5, <1>6, <1>7
<1>10. t.texts = PruneTexts(state, at - TextRetention).texts BY DEF t
<1> QED BY <1>4, <1>5, <1>6, <1>8, <1>9, <1>10

-----------------------------------------------------------------------------
(* Forecasts *)

AreForecasts(forecasts, at) ==
  /\ IsFiniteSet(DOMAIN forecasts)
  /\ \A p \in DOMAIN forecasts : p \in Nat /\ IsForecast(forecasts[p], at)

\* The limits take forecasts whole, and leave a newest one of this phone's own.
LEMMA PrunedForecasts ==
  ASSUME NEW state, DOMAIN state = Fields, NEW at, AreForecasts(state.forecasts, at), NEW before,
         NEW pruned, pruned = PruneForecasts(state, before).forecasts
  PROVE  /\ DOMAIN pruned \subseteq DOMAIN state.forecasts
         /\ \A p \in DOMAIN pruned : pruned[p] = state.forecasts[p]
         /\ \A p \in DOMAIN state.forecasts : state.forecasts[p].requestedHere =>
              \E q \in DOMAIN pruned : /\ pruned[q].requestedHere
                                       /\ state.forecasts[p].receivedAt <= pruned[q].receivedAt
<1> DEFINE forecasts == state.forecasts
           own == {p \in DOMAIN forecasts : forecasts[p].requestedHere}
           shown == ShownForecastPoints(forecasts)
           r == {x \in own \X own : \/ forecasts[x[1]].receivedAt > forecasts[x[2]].receivedAt
                                    \/ /\ forecasts[x[1]].receivedAt = forecasts[x[2]].receivedAt
                                       /\ x[1] > x[2]}
<1>1. \E kept : /\ pruned = Restrict(forecasts, kept) /\ shown \subseteq kept /\ kept \subseteq DOMAIN forecasts
  <2>1. "forecasts" \in Fields BY DEF Fields
  <2>2. shown \subseteq DOMAIN forecasts BY DEF ShownForecastPoints
  <2> QED BY <2>1, <2>2 DEF PruneForecasts, Best
<1>2. PICK kept : /\ pruned = Restrict(forecasts, kept) /\ shown \subseteq kept /\ kept \subseteq DOMAIN forecasts
  BY <1>1
<1>3. DOMAIN pruned = kept /\ \A p \in kept : pruned[p] = forecasts[p] BY <1>2 DEF Restrict
<1>4. ASSUME NEW p \in own
      PROVE  \E q \in shown : forecasts[q].requestedHere /\ forecasts[p].receivedAt <= forecasts[q].receivedAt
  <2>1. \A x \in own : x \in Nat /\ forecasts[x].receivedAt \in Int BY DEF AreForecasts, IsForecast
  <2>2. IsFiniteSet(own)
    <3>1. own \in SUBSET DOMAIN forecasts OBVIOUS
    <3> QED BY <3>1, FS_Subset DEF AreForecasts
  <2>3. \A x, y \in own :
          <<x, y>> \in r <=> \/ forecasts[x].receivedAt > forecasts[y].receivedAt
                             \/ forecasts[x].receivedAt = forecasts[y].receivedAt /\ x > y
    OBVIOUS
  <2> HIDE DEF r
  <2>4. IsOrder(own, r) BY <2>1, <2>3 DEF IsOrder
  <2>5. PICK q \in own : \A y \in own : <<y, q>> \notin r BY <1>4, <2>2, <2>4, FirstIs
  <2>6. \A y \in own : ~(forecasts[y].receivedAt > forecasts[q].receivedAt) BY <2>3, <2>5
  <2>7. forecasts[p].receivedAt <= forecasts[q].receivedAt BY <2>1, <2>6
  <2>8. q \in shown
    <3>1. ASSUME NEW y \in own \ {q}
          PROVE  \/ forecasts[y].receivedAt < forecasts[q].receivedAt
                 \/ forecasts[y].receivedAt = forecasts[q].receivedAt /\ y < q
      <4>1. y # q /\ y \in own OBVIOUS
      <4>2. <<y, q>> \notin r BY <2>5, <4>1
      <4>3. ~(\/ forecasts[y].receivedAt > forecasts[q].receivedAt
              \/ forecasts[y].receivedAt = forecasts[q].receivedAt /\ y > q) BY <2>3, <4>1, <4>2
      <4>4. y \in Nat /\ q \in Nat /\ forecasts[y].receivedAt \in Int /\ forecasts[q].receivedAt \in Int
        BY <2>1, <4>1
      <4> HIDE DEF own, forecasts
      <4> QED BY <4>1, <4>3, <4>4
    <3>2. \A y \in DOMAIN forecasts : forecasts[y].requestedHere /\ y # q =>
             \/ forecasts[y].receivedAt < forecasts[q].receivedAt
             \/ forecasts[y].receivedAt = forecasts[q].receivedAt /\ y < q
      BY <3>1
    <3>3. q \in DOMAIN forecasts /\ forecasts[q].requestedHere OBVIOUS
    <3> HIDE DEF forecasts
    <3> QED BY <3>2, <3>3 DEF ShownForecastPoints
  <2> QED BY <2>7, <2>8
<1> QED BY <1>2, <1>3, <1>4

\* From one packet to the next.
GoOn(old, new, at) ==
  /\ AreForecasts(new, at)
  /\ \A p \in DOMAIN old \intersect DOMAIN new : old[p].issued <= new[p].issued
  /\ \A p \in ShownForecastPoints(old) :
       \E q \in DOMAIN new : new[q].requestedHere /\ old[p].receivedAt <= new[q].receivedAt
ForecastsFrom(old, new, m) ==
  \A p \in DOMAIN new :
    \/ p \in DOMAIN old /\ new[p].issued = old[p].issued
    \/ m.type = "forecast" /\ p = m.point /\ p # UnbundledPoint /\ new[p].issued = m.issued

LEMMA TrimmedForecasts ==
  ASSUME NEW state, DOMAIN state = Fields, NEW at0 \in Int, AreForecasts(state.forecasts, at0),
         NEW at \in Int, at0 <= at
  PROVE  /\ GoOn(state.forecasts, Trim(state, at).forecasts, at)
         /\ \A p \in DOMAIN Trim(state, at).forecasts :
              p \in DOMAIN state.forecasts /\ Trim(state, at).forecasts[p] = state.forecasts[p]
         /\ \A p \in DOMAIN state.forecasts : state.forecasts[p].requestedHere =>
              \E q \in DOMAIN Trim(state, at).forecasts :
                /\ Trim(state, at).forecasts[q].requestedHere
                /\ state.forecasts[p].receivedAt <= Trim(state, at).forecasts[q].receivedAt
<1> DEFINE f == state.forecasts
           g == Trim(state, at).forecasts
<1>1. g = PruneForecasts(state, at - ForecastRetention).forecasts BY TrimIs
<1>2. /\ DOMAIN g \subseteq DOMAIN f /\ \A p \in DOMAIN g : g[p] = f[p]
      /\ \A p \in DOMAIN f : f[p].requestedHere =>
           \E q \in DOMAIN g : g[q].requestedHere /\ f[p].receivedAt <= g[q].receivedAt
  <2> DEFINE b == at - ForecastRetention
  <2>1. g = PruneForecasts(state, b).forecasts BY <1>1
  <2> HIDE DEF b, g
  <2> QED BY <2>1, PrunedForecasts
<1> HIDE DEF g
<1>3. DOMAIN g \in SUBSET DOMAIN f BY <1>2
<1>4. AreForecasts(g, at)
  <2>1. IsFiniteSet(DOMAIN f) BY DEF AreForecasts
  <2>2. IsFiniteSet(DOMAIN g) BY <1>3, <2>1, FS_Subset
  <2>3. \A p \in DOMAIN f : p \in Nat /\ IsForecast(f[p], at) BY DEF AreForecasts, IsForecast
  <2> QED BY <1>2, <2>2, <2>3 DEF AreForecasts
<1>5. \A p \in ShownForecastPoints(f) : p \in DOMAIN f /\ f[p].requestedHere BY DEF ShownForecastPoints
<1>6. \A p \in DOMAIN f \intersect DOMAIN g : f[p].issued <= g[p].issued BY <1>2 DEF AreForecasts, IsForecast
<1>7. GoOn(f, g, at) BY <1>2, <1>4, <1>5, <1>6 DEF GoOn
<1> QED BY <1>2, <1>7 DEF g

LEMMA StoredForecasts ==
  ASSUME NEW state, DOMAIN state = Fields, NEW at0 \in Int, AreForecasts(state.forecasts, at0),
         NEW at \in Int, at0 <= at, NEW m, TypedMessage(m), m.type = "forecast",
         NEW new, new = StoreForecast(state, m, at).forecasts
  PROVE  /\ AreForecasts(new, at) /\ DOMAIN state.forecasts \subseteq DOMAIN new
         /\ \A p \in DOMAIN state.forecasts :
              /\ state.forecasts[p].issued <= new[p].issued
              /\ state.forecasts[p].receivedAt <= new[p].receivedAt
              /\ new[p].requestedHere = state.forecasts[p].requestedHere
         /\ ForecastsFrom(state.forecasts, new, m)
         /\ m.point # UnbundledPoint => m.point \in DOMAIN new /\ m.issued <= new[m.point].issued
<1> DEFINE f == state.forecasts
           p0 == m.point
<1>0. "forecasts" \in Fields /\ "unbundledForecasts" \in Fields BY DEF Fields
<1>1. p0 \in Nat /\ m.issued \in Int BY DEF TypedMessage
<1>t. \A p \in DOMAIN f : /\ p \in Nat /\ f[p].issued \in Int /\ f[p].receivedAt \in Int
                          /\ f[p].receivedAt <= at /\ f[p].requestedHere \in BOOLEAN /\ IsForecast(f[p], at)
  BY DEF AreForecasts, IsForecast
<1>2. CASE p0 = UnbundledPoint \/ HoldsNewerForecast(state, m)
  <2>1. new = f BY <1>0, <1>2 DEF StoreForecast
  <2>2. AreForecasts(new, at) BY <1>t, <2>1 DEF AreForecasts
  <2>3. ForecastsFrom(f, new, m) BY <2>1 DEF ForecastsFrom
  <2>4. m.point # UnbundledPoint => m.point \in DOMAIN new /\ m.issued <= new[m.point].issued
    BY <1>1, <1>2, <1>t, <2>1 DEF HoldsNewerForecast, Held
  <2> QED BY <1>t, <2>1, <2>2, <2>3, <2>4
<1>3. CASE p0 # UnbundledPoint /\ ~HoldsNewerForecast(state, m)
  <2> DEFINE it == Forecast(m, at, p0 \in DOMAIN f /\ f[p0].requestedHere)
  <2>1. new = Put(f, p0, it) BY <1>0, <1>3 DEF StoreForecast, Held
  <2>2. /\ it.issued = m.issued /\ it.receivedAt = at /\ it.requestedHere = (p0 \in DOMAIN f /\ f[p0].requestedHere)
        /\ it.requestedHere \in BOOLEAN /\ IsForecast(it, at)
    BY <1>1 DEF Forecast, IsForecast
  <2> HIDE DEF it
  <2>3. /\ DOMAIN new = DOMAIN f \union {p0} /\ new[p0] = it
        /\ \A p \in DOMAIN f : p # p0 => new[p] = f[p]
    BY <2>1 DEF Put
  <2>4. AreForecasts(new, at) BY <1>1, <1>t, <2>2, <2>3, FS_AddElement DEF AreForecasts
  <2>5. ForecastsFrom(f, new, m) BY <1>3, <2>2, <2>3 DEF ForecastsFrom
  <2>6. p0 \in DOMAIN f => f[p0].issued <= m.issued BY <1>1, <1>3, <1>t DEF HoldsNewerForecast, Held
  <2>7. ASSUME NEW p \in DOMAIN f
        PROVE  /\ f[p].issued <= new[p].issued /\ f[p].receivedAt <= new[p].receivedAt
               /\ new[p].requestedHere = f[p].requestedHere
    <3>1. CASE p = p0 BY <1>t, <2>2, <2>3, <2>6, <3>1
    <3>2. CASE p # p0 BY <1>t, <2>3, <3>2
    <3> QED BY <3>1, <3>2
  <2>8. m.issued <= new[p0].issued BY <1>1, <2>2, <2>3
  <2> QED BY <2>3, <2>4, <2>5, <2>7, <2>8
<1> QED BY <1>2, <1>3

\* Before the limits nothing goes.
Grows(old, new, at) ==
  /\ AreForecasts(new, at) /\ DOMAIN old \subseteq DOMAIN new
  /\ \A p \in DOMAIN old :
       /\ old[p].issued <= new[p].issued /\ old[p].receivedAt <= new[p].receivedAt
       /\ old[p].requestedHere => new[p].requestedHere

\* What one packet makes of the forecasts.
LEMMA ForecastsFollow ==
  ASSUME NEW old, DOMAIN old = Fields, NEW at0 \in Int, AreForecasts(old.forecasts, at0),
         NEW at \in Int, at0 <= at, NEW m, TypedMessage(m),
         NEW heard, Agree(old, heard) \/ Stores(old, heard, m, at),
         NEW pending_, NEW settled, NEW marked, IsMarked(heard, marked, m, pending_, settled),
         NEW new, new = Trim(marked, at).forecasts
  PROVE  /\ GoOn(old.forecasts, new, at)
         /\ ForecastsFrom(old.forecasts, new, m)
         /\ Agree(old, heard) => \A p \in DOMAIN new : p \in DOMAIN old.forecasts
                                                       /\ new[p].issued = old.forecasts[p].issued
         /\ Stores(old, heard, m, at) /\ m.type = "forecast" /\ m.point # UnbundledPoint
              /\ m.point \in DOMAIN new => m.issued <= new[m.point].issued
<1> DEFINE f0 == old.forecasts
           f1 == heard.forecasts
           f2 == marked.forecasts
<1>0. \A p \in DOMAIN f0 : /\ p \in Nat /\ f0[p].issued \in Int /\ f0[p].receivedAt \in Int
                           /\ IsForecast(f0[p], at)
  BY DEF AreForecasts, IsForecast
<1>1. /\ Grows(f0, f1, at) /\ ForecastsFrom(f0, f1, m)
      /\ Agree(old, heard) => f1 = f0
      /\ Stores(old, heard, m, at) /\ m.type = "forecast" /\ m.point # UnbundledPoint =>
           m.point \in DOMAIN f1 /\ m.issued <= f1[m.point].issued
  <2>1. f1 = f0 => Grows(f0, f1, at) /\ ForecastsFrom(f0, f1, m)
    BY <1>0 DEF Grows, ForecastsFrom, AreForecasts
  <2>2. Agree(old, heard) => f1 = f0 BY AgreeIs
  <2>3. Stores(old, heard, m, at) /\ m.type # "forecast" => f1 = f0 BY DEF Stores
  <2>4. ASSUME Stores(old, heard, m, at), m.type = "forecast"
        PROVE  /\ Grows(f0, f1, at) /\ ForecastsFrom(f0, f1, m)
               /\ m.point # UnbundledPoint => m.point \in DOMAIN f1 /\ m.issued <= f1[m.point].issued
    <3>1. f1 = StoreForecast(old, m, at).forecasts BY <2>4 DEF Stores
    <3> HIDE DEF f1
    <3>2. /\ AreForecasts(f1, at) /\ DOMAIN f0 \subseteq DOMAIN f1
          /\ \A p \in DOMAIN f0 :
              /\ f0[p].issued <= f1[p].issued
              /\ f0[p].receivedAt <= f1[p].receivedAt
              /\ f1[p].requestedHere = f0[p].requestedHere
          /\ ForecastsFrom(f0, f1, m)
          /\ m.point # UnbundledPoint => m.point \in DOMAIN f1 /\ m.issued <= f1[m.point].issued
      BY <2>4, <3>1, StoredForecasts
    <3> HIDE DEF f0
    <3> QED BY <3>2 DEF Grows
  <2> QED BY <2>1, <2>2, <2>3, <2>4
<1>2. /\ DOMAIN f2 = DOMAIN f1 /\ IsFiniteSet(DOMAIN f2)
      /\ \A p \in DOMAIN f1 : /\ f2[p].issued = f1[p].issued /\ f2[p].receivedAt = f1[p].receivedAt
                              /\ f1[p].requestedHere => f2[p].requestedHere
                              /\ IsForecast(f2[p], at)
  <2>1. \/ f2 = f1
        \/ m.point \in DOMAIN f1 /\ f2 = [f1 EXCEPT ![m.point].requestedHere = TRUE]
    BY DEF IsMarked
  <2>2. \A p \in DOMAIN f1 : IsForecast(f1[p], at) BY <1>1 DEF Grows, AreForecasts
  <2>3. IsFiniteSet(DOMAIN f1) BY <1>1 DEF Grows, AreForecasts
  <2> HIDE DEF f1, f2
  <2>4. CASE f2 = f1 BY <2>2, <2>3, <2>4
  <2>5. CASE m.point \in DOMAIN f1 /\ f2 = [f1 EXCEPT ![m.point].requestedHere = TRUE]
    <3>1. DOMAIN f2 = DOMAIN f1 /\ \A p \in DOMAIN f1 : p # m.point => f2[p] = f1[p] BY <2>5
    <3>2. f2[m.point] = [f1[m.point] EXCEPT !.requestedHere = TRUE] BY <2>5
    <3>3. /\ f2[m.point].issued = f1[m.point].issued /\ f2[m.point].receivedAt = f1[m.point].receivedAt
          /\ f2[m.point].requestedHere = TRUE /\ IsForecast(f2[m.point], at)
      BY <2>2, <2>5, <3>2 DEF IsForecast
    <3> QED BY <2>2, <2>3, <3>1, <3>3
  <2> QED BY <2>1, <2>4, <2>5
<1>3. AreForecasts(f2, at)
  <2>1. \A p \in DOMAIN f1 : p \in Nat BY <1>1 DEF Grows, AreForecasts
  <2> QED BY <1>2, <2>1 DEF AreForecasts
<1>4. /\ GoOn(f2, new, at) /\ \A p \in DOMAIN new : p \in DOMAIN f2 /\ new[p] = f2[p]
      /\ \A p \in DOMAIN f2 : f2[p].requestedHere =>
           \E q \in DOMAIN new : new[q].requestedHere /\ f2[p].receivedAt <= new[q].receivedAt
  <2>1. DOMAIN marked = Fields BY DEF IsMarked
  <2>2. at <= at OBVIOUS
  <2> QED BY <1>3, <2>1, <2>2, TrimmedForecasts
<1> HIDE DEF f1, f2
<1>5. ForecastsFrom(f0, new, m)
  <2> SUFFICES ASSUME NEW p \in DOMAIN new
               PROVE  \/ p \in DOMAIN f0 /\ new[p].issued = f0[p].issued
                      \/ m.type = "forecast" /\ p = m.point /\ p # UnbundledPoint /\ new[p].issued = m.issued
    BY DEF ForecastsFrom
  <2>1. p \in DOMAIN f1 /\ new[p].issued = f1[p].issued BY <1>2, <1>4
  <2> QED BY <1>1, <2>1 DEF ForecastsFrom
<1>6. GoOn(f0, new, at)
  <2>1. AreForecasts(new, at) BY <1>4 DEF GoOn
  <2>2. \A p \in DOMAIN f0 \intersect DOMAIN new : f0[p].issued <= new[p].issued
    BY <1>1, <1>2, <1>4 DEF Grows
  <2>3. ASSUME NEW p \in ShownForecastPoints(f0)
        PROVE  \E q \in DOMAIN new : new[q].requestedHere /\ f0[p].receivedAt <= new[q].receivedAt
    <3>1. p \in DOMAIN f0 /\ f0[p].requestedHere BY DEF ShownForecastPoints
    <3>2. p \in DOMAIN f2 /\ f2[p].requestedHere /\ f0[p].receivedAt <= f2[p].receivedAt
      BY <1>1, <1>2, <3>1 DEF Grows
    <3>3. PICK q \in DOMAIN new : new[q].requestedHere /\ f2[p].receivedAt <= new[q].receivedAt
      BY <1>4, <3>2
    <3>4. f0[p].receivedAt \in Int /\ f2[p].receivedAt \in Int /\ new[q].receivedAt \in Int
      BY <1>0, <1>3, <2>1, <3>1, <3>2 DEF AreForecasts, IsForecast
    <3>5. f0[p].receivedAt <= new[q].receivedAt BY <3>2, <3>3, <3>4
    <3> QED BY <3>3, <3>5
  <2> QED BY <2>1, <2>2, <2>3 DEF GoOn
<1>7. Agree(old, heard) => \A p \in DOMAIN new : p \in DOMAIN f0 /\ new[p].issued = f0[p].issued
  BY <1>1, <1>2, <1>4
<1>8. Stores(old, heard, m, at) /\ m.type = "forecast" /\ m.point # UnbundledPoint
        /\ m.point \in DOMAIN new => m.issued <= new[m.point].issued
  BY <1>1, <1>2, <1>4
<1> QED BY <1>5, <1>6, <1>7, <1>8

-----------------------------------------------------------------------------
(* Texts *)

AreTexts(texts, at) ==
  /\ IsFiniteSet(DOMAIN texts)
  /\ \A g \in DOMAIN texts : g \in Nat /\ IsText(texts[g], at)

\* Of a reply that answered this phone, one of its subject is left, no older.
OwnStay(old, new, g) ==
  \E h \in OwnTexts(new) :
    new[h].subject = old[g].subject /\ old[g].lastReceivedAt <= new[h].lastReceivedAt

LEMMA TextFieldsIs ==
  ASSUME NEW t, NEW at, IsText(t, at)
  PROVE  /\ DOMAIN t = {"subject", "group", "total", "chunks", "lastReceivedAt", "request", "wasCut"}
         /\ t.lastReceivedAt \in Int /\ t.lastReceivedAt <= at
BY DEF IsText, TextAssembly

LEMMA PrunedTexts ==
  ASSUME NEW state, DOMAIN state = Fields, NEW at, AreTexts(state.texts, at), NEW before,
         NEW pruned, pruned = PruneTexts(state, before).texts
  PROVE  /\ DOMAIN pruned \subseteq DOMAIN state.texts
         /\ \A g \in DOMAIN pruned : pruned[g] = state.texts[g]
         /\ \A g \in OwnTexts(state.texts) : OwnStay(state.texts, pruned, g)
<1> DEFINE texts == state.texts
           shown == ShownTextGroups(texts)
<1>1. \E kept : /\ pruned = Restrict(texts, kept) /\ shown \subseteq kept /\ kept \subseteq DOMAIN texts
  <2>1. "texts" \in Fields BY DEF Fields
  <2>2. shown \subseteq DOMAIN texts BY DEF ShownTextGroups, NewestTexts, OwnTexts
  <2> QED BY <2>1, <2>2 DEF PruneTexts, Best
<1>2. PICK kept : /\ pruned = Restrict(texts, kept) /\ shown \subseteq kept /\ kept \subseteq DOMAIN texts
  BY <1>1
<1>3. DOMAIN pruned = kept /\ \A g \in kept : pruned[g] = texts[g] BY <1>2 DEF Restrict
<1>4. ASSUME NEW g \in OwnTexts(texts)
      PROVE  OwnStay(texts, pruned, g)
  <2> DEFINE own == {h \in OwnTexts(texts) : texts[h].subject = texts[g].subject}
             At(h) == texts[h].lastReceivedAt
             r == {x \in own \X own : At(x[1]) > At(x[2]) \/ (At(x[1]) = At(x[2]) /\ x[1] < x[2])}
  <2>1. \A x \in own : x \in DOMAIN texts /\ x \in Nat /\ At(x) \in Int BY DEF AreTexts, IsText, OwnTexts
  <2>2. IsFiniteSet(own)
    <3>1. own \in SUBSET DOMAIN texts BY DEF OwnTexts
    <3> QED BY <3>1, FS_Subset DEF AreTexts
  <2>3. \A x, y \in own : <<x, y>> \in r <=> At(x) > At(y) \/ (At(x) = At(y) /\ x < y) OBVIOUS
  <2> HIDE DEF r, At
  <2>4. IsOrder(own, r) BY <2>1, <2>3 DEF IsOrder
  <2>5. g \in own OBVIOUS
  <2>6. PICK h \in own : \A y \in own : <<y, h>> \notin r BY <2>2, <2>4, <2>5, FirstIs
  <2>7. \A y \in own : y # h => At(y) < At(h) \/ (At(y) = At(h) /\ h < y)
    <3> SUFFICES ASSUME NEW y \in own, y # h PROVE At(y) < At(h) \/ (At(y) = At(h) /\ h < y) OBVIOUS
    <3>1. ~(At(y) > At(h) \/ (At(y) = At(h) /\ y < h)) BY <2>3, <2>6
    <3>2. y \in Nat /\ h \in Nat /\ At(y) \in Int /\ At(h) \in Int BY <2>1
    <3> QED BY <3>1, <3>2
  <2>8. \A y \in OwnTexts(texts) \ {h} : texts[y].subject = texts[h].subject =>
          \/ texts[y].lastReceivedAt < texts[h].lastReceivedAt
          \/ texts[y].lastReceivedAt = texts[h].lastReceivedAt /\ h < y
    BY <2>7 DEF At
  <2>9. h \in NewestTexts(texts, OwnTexts(texts))
    <3>1. h \in OwnTexts(texts) OBVIOUS
    <3> HIDE DEF own, texts
    <3> QED BY <2>8, <3>1 DEF NewestTexts
  <2>10. h \in kept BY <1>2, <2>9 DEF ShownTextGroups
  <2>11. texts[g].lastReceivedAt <= texts[h].lastReceivedAt
    <3>1. At(g) <= At(h) BY <2>1, <2>5, <2>7
    <3> QED BY <3>1 DEF At
  <2>12. pruned[h] = texts[h] /\ h \in OwnTexts(pruned) BY <1>3, <2>10 DEF OwnTexts
  <2> QED BY <2>11, <2>12 DEF OwnStay
<1> QED BY <1>2, <1>3, <1>4

LEMMA TrimmedTexts ==
  ASSUME NEW state, DOMAIN state = Fields, NEW at0 \in Int, AreTexts(state.texts, at0),
         NEW at \in Int, at0 <= at
  PROVE  /\ AreTexts(Trim(state, at).texts, at)
         /\ \A g \in OwnTexts(state.texts) : OwnStay(state.texts, Trim(state, at).texts, g)
<1> DEFINE f == state.texts
           g == Trim(state, at).texts
<1>1. g = PruneTexts(state, at - TextRetention).texts BY TrimIs
<1>2. /\ DOMAIN g \subseteq DOMAIN f /\ \A p \in DOMAIN g : g[p] = f[p]
      /\ \A p \in OwnTexts(f) : OwnStay(f, g, p)
  <2> DEFINE b == at - TextRetention
  <2>1. g = PruneTexts(state, b).texts BY <1>1
  <2> HIDE DEF b, g
  <2> QED BY <2>1, PrunedTexts
<1> HIDE DEF g
<1>3. DOMAIN g \in SUBSET DOMAIN f BY <1>2
<1>4. AreTexts(g, at)
  <2>1. IsFiniteSet(DOMAIN g) BY <1>3, FS_Subset DEF AreTexts
  <2>2. \A p \in DOMAIN f : p \in Nat /\ IsText(f[p], at) BY DEF AreTexts, IsText
  <2> QED BY <1>2, <2>1, <2>2 DEF AreTexts
<1> QED BY <1>2, <1>4 DEF g

\* What one packet makes of the replies.
LEMMA TextsFollow ==
  ASSUME NEW old, DOMAIN old = Fields, NEW at0 \in Int, AreTexts(old.texts, at0),
         NEW at \in Int, at0 <= at, NEW m, TypedMessage(m),
         NEW heard, Agree(old, heard) \/ Stores(old, heard, m, at),
         NEW pending_, NEW settled, \A k \in settled : pending_[k].request # NoRequest,
         NEW marked, IsMarked(heard, marked, m, pending_, settled),
         NEW new, new = Trim(marked, at).texts
  PROVE  /\ AreTexts(new, at)
         /\ \A g \in OwnTexts(old.texts) :
              (m.type = "text" /\ m.group = g => Continues(old.texts, m)) => OwnStay(old.texts, new, g)
<1> DEFINE f0 == old.texts
           f1 == heard.texts
           f2 == marked.texts
<1>0. \A g \in DOMAIN f0 : g \in Nat /\ IsText(f0[g], at) BY DEF AreTexts, IsText
<1>1. /\ AreTexts(f1, at)
      /\ \A g \in OwnTexts(f0) : (m.type = "text" /\ m.group = g => Continues(f0, m)) =>
           /\ g \in OwnTexts(f1) /\ f1[g].subject = f0[g].subject
           /\ f0[g].lastReceivedAt <= f1[g].lastReceivedAt
  <2>1. CASE f1 = f0
    <3>1. AreTexts(f1, at) BY <1>0, <2>1 DEF AreTexts
    <3>2. \A g \in OwnTexts(f0) : f0[g].lastReceivedAt <= f0[g].lastReceivedAt
      BY <1>0 DEF OwnTexts, IsText
    <3> QED BY <2>1, <3>1, <3>2
  <2>2. CASE Stores(old, heard, m, at) /\ m.type = "text"
    <3> DEFINE g0 == m.group
               a0 == IF Continues(f0, m) THEN f0[g0] ELSE TextAssembly(m, at)
               a1 == [a0 EXCEPT !.chunks = Put(a0.chunks, m.idx, m.text), !.lastReceivedAt = at,
                                !.wasCut = a0.wasCut \/ m.cut]
    <3>1. f1 = Put(f0, g0, a1)
      <4>1. f1 = StoreText(old, m, at).texts BY <2>2 DEF Stores
      <4>2. "texts" \in Fields BY DEF Fields
      <4> QED BY <4>1, <4>2 DEF StoreText
    <3>2. g0 \in Nat BY <2>2 DEF TypedMessage, Multi
    <3>3. DOMAIN a0 = {"subject", "group", "total", "chunks", "lastReceivedAt", "request", "wasCut"}
      BY <1>0, TextFieldsIs DEF Continues, Held, TextAssembly
    <3>4. Continues(f0, m) => a0 = f0[g0] OBVIOUS
    <3> HIDE DEF a0
    <3>5. DOMAIN a1 = DOMAIN a0 /\ a1.lastReceivedAt = at /\ a1.request = a0.request /\ a1.subject = a0.subject
      BY <3>3
    <3> HIDE DEF a1
    <3>6. IsText(a1, at) BY <3>3, <3>5 DEF IsText, TextAssembly
    <3>7. /\ DOMAIN f1 = DOMAIN f0 \union {g0} /\ f1[g0] = a1
          /\ \A g \in DOMAIN f0 : g # g0 => f1[g] = f0[g]
      BY <3>1 DEF Put
    <3>8. AreTexts(f1, at)
      <4>1. IsFiniteSet(DOMAIN f1) BY <3>7, FS_AddElement DEF AreTexts
      <4> QED BY <1>0, <3>2, <3>6, <3>7, <4>1 DEF AreTexts
    <3>9. ASSUME NEW g \in OwnTexts(f0), m.type = "text" /\ m.group = g => Continues(f0, m)
          PROVE  /\ g \in OwnTexts(f1) /\ f1[g].subject = f0[g].subject
                 /\ f0[g].lastReceivedAt <= f1[g].lastReceivedAt
      <4>1. g \in DOMAIN f0 /\ f0[g].request # NoRequest BY DEF OwnTexts
      <4>2. f0[g].lastReceivedAt \in Int /\ f0[g].lastReceivedAt <= at BY <1>0, <4>1 DEF IsText
      <4>3. CASE g = g0
        <5>1. a0 = f0[g] BY <2>2, <3>4, <3>9, <4>3
        <5> QED BY <3>5, <3>7, <4>1, <4>2, <4>3, <5>1 DEF OwnTexts
      <4>4. CASE g # g0 BY <3>7, <4>1, <4>2, <4>4 DEF OwnTexts
      <4> QED BY <4>3, <4>4
    <3> QED BY <3>8, <3>9
  <2>3. Agree(old, heard) => f1 = f0 BY AgreeIs
  <2>4. Stores(old, heard, m, at) /\ m.type # "text" => f1 = f0 BY DEF Stores
  <2> QED BY <2>1, <2>2, <2>3, <2>4
<1>2. /\ AreTexts(f2, at)
      /\ \A g \in OwnTexts(f1) : /\ g \in OwnTexts(f2) /\ f2[g].subject = f1[g].subject
                                 /\ f2[g].lastReceivedAt = f1[g].lastReceivedAt
  <2>1. \/ f2 = f1
        \/ \E k \in settled : m.group \in DOMAIN f1 /\ f2 = [f1 EXCEPT ![m.group].request = pending_[k].request]
    BY DEF IsMarked
  <2>2. CASE f2 = f1 BY <1>1, <2>2
  <2>3. ASSUME NEW k \in settled, m.group \in DOMAIN f1, f2 = [f1 EXCEPT ![m.group].request = pending_[k].request]
        PROVE  /\ AreTexts(f2, at)
               /\ \A g \in OwnTexts(f1) : /\ g \in OwnTexts(f2) /\ f2[g].subject = f1[g].subject
                                          /\ f2[g].lastReceivedAt = f1[g].lastReceivedAt
    <3> DEFINE g0 == m.group
               q == pending_[k].request
    <3>1. IsText(f1[g0], at) BY <1>1, <2>3 DEF AreTexts
    <3>2. DOMAIN f2 = DOMAIN f1 /\ f2[g0] = [f1[g0] EXCEPT !.request = q] /\ \A g \in DOMAIN f1 : g # g0 => f2[g] = f1[g]
      BY <2>3
    <3>3. q # NoRequest OBVIOUS
    <3> HIDE DEF q
    <3>4. /\ f2[g0].request = q /\ f2[g0].subject = f1[g0].subject /\ f2[g0].lastReceivedAt = f1[g0].lastReceivedAt
          /\ DOMAIN f2[g0] = DOMAIN f1[g0]
      BY <3>1, <3>2, TextFieldsIs
    <3>5. IsText(f2[g0], at) BY <3>1, <3>4 DEF IsText
    <3>6. AreTexts(f2, at) BY <1>1, <3>2, <3>5 DEF AreTexts
    <3> HIDE DEF g0, f1, f2
    <3>7. \A g \in OwnTexts(f1) : /\ g \in OwnTexts(f2) /\ f2[g].subject = f1[g].subject
                                  /\ f2[g].lastReceivedAt = f1[g].lastReceivedAt
      BY <3>2, <3>3, <3>4 DEF OwnTexts
    <3> QED BY <3>6, <3>7 DEF f1, f2
  <2> QED BY <2>1, <2>2, <2>3
<1>3. AreTexts(new, at) /\ \A g \in OwnTexts(f2) : OwnStay(f2, new, g)
  <2>1. DOMAIN marked = Fields BY DEF IsMarked
  <2>2. at <= at OBVIOUS
  <2> QED BY <1>2, <2>1, <2>2, TrimmedTexts
<1> HIDE DEF f1, f2
<1>4. ASSUME NEW g \in OwnTexts(f0), m.type = "text" /\ m.group = g => Continues(f0, m)
      PROVE  OwnStay(f0, new, g)
  <2>1. /\ g \in OwnTexts(f2) /\ f2[g].subject = f0[g].subject /\ f0[g].lastReceivedAt <= f2[g].lastReceivedAt
    BY <1>1, <1>2, <1>4
  <2>2. PICK h \in OwnTexts(new) :
          new[h].subject = f2[g].subject /\ f2[g].lastReceivedAt <= new[h].lastReceivedAt
    BY <1>3, <2>1 DEF OwnStay
  <2>3. f0[g].lastReceivedAt \in Int /\ f2[g].lastReceivedAt \in Int /\ new[h].lastReceivedAt \in Int
    BY <1>0, <1>2, <1>3, <2>1 DEF OwnTexts, AreTexts, IsText
  <2>4. f0[g].lastReceivedAt <= new[h].lastReceivedAt BY <2>1, <2>2, <2>3
  <2> QED BY <2>1, <2>2, <2>4 DEF OwnStay
<1> QED BY <1>3, <1>4

-----------------------------------------------------------------------------
(* Readings *)

AreReadings(readings) ==
  /\ IsFiniteSet(DOMAIN readings)
  /\ \A s \in DOMAIN readings : s \in Nat /\ IsReading(readings[s])

ReadingsFrom(old, new, m) ==
  \A s \in DOMAIN new :
    \/ s \in DOMAIN old /\ new[s].timestampMinutes = old[s].timestampMinutes
    \/ /\ m.type = "observations" /\ s \in DOMAIN m.stations
       /\ new[s].timestampMinutes = ReportMinutes(m, s)

LEMMA TrimmedReadings ==
  ASSUME NEW state, DOMAIN state = Fields, NEW at
  PROVE  /\ \A s \in DOMAIN Trim(state, at).observations :
              s \in DOMAIN state.observations /\ Trim(state, at).observations[s] = state.observations[s]
         /\ AreReadings(state.observations) => AreReadings(Trim(state, at).observations)
<1>1. Trim(state, at).observations = TrimObservations(state, at - ObservationRetention).observations BY TrimIs
<1>2. "observations" \in Fields BY DEF Fields
<1>3. \E kept : /\ kept \subseteq DOMAIN state.observations
                /\ Trim(state, at).observations = Restrict(state.observations, kept)
  BY <1>1, <1>2 DEF TrimObservations, Best
<1>4. \A s \in DOMAIN Trim(state, at).observations :
        s \in DOMAIN state.observations /\ Trim(state, at).observations[s] = state.observations[s]
  BY <1>3 DEF Restrict
<1>5. IsFiniteSet(DOMAIN state.observations) => IsFiniteSet(DOMAIN Trim(state, at).observations)
  BY <1>4, FS_Subset
<1> QED BY <1>4, <1>5 DEF AreReadings

LEMMA StoredReadings ==
  ASSUME NEW state, DOMAIN state = Fields, AreReadings(state.observations), NEW at \in Int,
         NEW m, TypedMessage(m), m.type = "observations",
         NEW new, new = StoreObservations(state, m, at).observations
  PROVE  /\ AreReadings(new) /\ DOMAIN new = DOMAIN state.observations \union DOMAIN m.stations
         /\ \A s \in DOMAIN state.observations : state.observations[s].timestampMinutes <= new[s].timestampMinutes
         /\ ReadingsFrom(state.observations, new, m)
         /\ \A s \in DOMAIN m.stations : ReportMinutes(m, s) <= new[s].timestampMinutes
<1> DEFINE f == state.observations
           New(s) == [timestampMinutes |-> ReportMinutes(m, s), receivedAt |-> at,
                      lastBatchMinutes |-> LastBatch(f, m, s)]
           Kept(s) == [f[s] EXCEPT !.lastBatchMinutes = LastBatch(f, m, s)]
<1>1. new = [s \in DOMAIN f \union DOMAIN m.stations |->
               IF s \notin DOMAIN m.stations THEN f[s]
               ELSE IF s \in DOMAIN f /\ f[s].timestampMinutes > ReportMinutes(m, s)
                    THEN Kept(s) ELSE New(s)]
  <2>1. "observations" \in Fields BY DEF Fields
  <2> QED BY <2>1 DEF StoreObservations, Held
<1>2. m.ts \in Int /\ \A s \in DOMAIN m.stations : m.stations[s] \in Nat /\ ReportMinutes(m, s) \in Int
  BY DEF TypedMessage, ReportMinutes
<1>3. \A s \in DOMAIN f : /\ DOMAIN f[s] = {"timestampMinutes", "receivedAt", "lastBatchMinutes"}
                          /\ f[s].timestampMinutes \in Int /\ f[s].receivedAt \in Int /\ f[s].lastBatchMinutes \in Int
  BY DEF AreReadings, IsReading
<1>4. \A s \in DOMAIN m.stations : LastBatch(f, m, s) \in Int
  <2> SUFFICES ASSUME NEW s \in DOMAIN m.stations PROVE LastBatch(f, m, s) \in Int OBVIOUS
  <2>1. (IF Held(f, s) THEN f[s].lastBatchMinutes ELSE Never) \in Int BY <1>3 DEF Held, Never
  <2> QED BY <1>2, <2>1 DEF LastBatch, Later
<1>5. \A s \in DOMAIN m.stations : IsReading(New(s)) /\ New(s).timestampMinutes = ReportMinutes(m, s)
  BY <1>2, <1>4 DEF IsReading
<1>6. \A s \in DOMAIN m.stations : s \in DOMAIN f =>
        IsReading(Kept(s)) /\ Kept(s).timestampMinutes = f[s].timestampMinutes
  BY <1>3, <1>4 DEF IsReading
<1> HIDE DEF New, Kept, f
<1>7. ASSUME NEW s \in DOMAIN f \union DOMAIN m.stations
      PROVE  /\ IsReading(new[s])
             /\ s \in DOMAIN f => f[s].timestampMinutes <= new[s].timestampMinutes
             /\ s \in DOMAIN m.stations => ReportMinutes(m, s) <= new[s].timestampMinutes
             /\ \/ s \in DOMAIN f /\ new[s].timestampMinutes = f[s].timestampMinutes
                \/ s \in DOMAIN m.stations /\ new[s].timestampMinutes = ReportMinutes(m, s)
  <2>1. CASE s \notin DOMAIN m.stations
    <3>1. new[s] = f[s] /\ s \in DOMAIN f BY <1>1, <2>1
    <3>2. IsReading(f[s]) BY <3>1 DEF AreReadings, f
    <3> QED BY <1>3, <2>1, <3>1, <3>2
  <2>2. CASE s \in DOMAIN m.stations /\ s \in DOMAIN f /\ f[s].timestampMinutes > ReportMinutes(m, s)
    <3>1. new[s] = Kept(s) BY <1>1, <2>2
    <3> QED BY <1>2, <1>3, <1>6, <2>2, <3>1
  <2>3. CASE s \in DOMAIN m.stations /\ ~(s \in DOMAIN f /\ f[s].timestampMinutes > ReportMinutes(m, s))
    <3>1. new[s] = New(s) BY <1>1, <2>3
    <3> QED BY <1>2, <1>3, <1>5, <2>3, <3>1
  <2> QED BY <2>1, <2>2, <2>3
<1>8. DOMAIN new = DOMAIN f \union DOMAIN m.stations BY <1>1
<1>9. AreReadings(new)
  <2>1. IsFiniteSet(DOMAIN f) /\ \A s \in DOMAIN f : s \in Nat BY DEF AreReadings, f
  <2>2. IsFiniteSet(DOMAIN m.stations) /\ \A s \in DOMAIN m.stations : s \in Nat BY DEF TypedMessage
  <2>3. IsFiniteSet(DOMAIN new) BY <1>8, <2>1, <2>2, FS_Union
  <2> QED BY <1>7, <1>8, <2>1, <2>2, <2>3 DEF AreReadings
<1>10. ReadingsFrom(f, new, m) BY <1>7, <1>8 DEF ReadingsFrom
<1> QED BY <1>7, <1>8, <1>9, <1>10 DEF f

\* What one packet makes of the readings.
LEMMA ReadingsFollow ==
  ASSUME NEW old, DOMAIN old = Fields, AreReadings(old.observations), NEW at \in Int,
         NEW m, TypedMessage(m), NEW heard, Agree(old, heard) \/ Stores(old, heard, m, at),
         NEW pending_, NEW settled, NEW marked, IsMarked(heard, marked, m, pending_, settled),
         NEW new, new = Trim(marked, at).observations
  PROVE  /\ AreReadings(new)
         /\ \A s \in DOMAIN old.observations \intersect DOMAIN new :
              old.observations[s].timestampMinutes <= new[s].timestampMinutes
         /\ ReadingsFrom(old.observations, new, m)
         /\ Agree(old, heard) => \A s \in DOMAIN new :
              /\ s \in DOMAIN old.observations
              /\ new[s].timestampMinutes = old.observations[s].timestampMinutes
         /\ Stores(old, heard, m, at) /\ m.type = "observations" =>
              \A s \in DOMAIN m.stations \intersect DOMAIN new : ReportMinutes(m, s) <= new[s].timestampMinutes
<1> DEFINE f0 == old.observations
           f1 == heard.observations
<1>0. marked.observations = f1 /\ DOMAIN marked = Fields BY DEF IsMarked
<1>1. \A s \in DOMAIN new : s \in DOMAIN f1 /\ new[s] = f1[s] BY <1>0, TrimmedReadings
<1>2. /\ AreReadings(f1) /\ ReadingsFrom(f0, f1, m)
      /\ \A s \in DOMAIN f0 : s \in DOMAIN f1 => f0[s].timestampMinutes <= f1[s].timestampMinutes
      /\ Agree(old, heard) => f1 = f0
      /\ Stores(old, heard, m, at) /\ m.type = "observations" =>
           \A s \in DOMAIN m.stations : ReportMinutes(m, s) <= f1[s].timestampMinutes
  <2>1. f1 = f0 => ReadingsFrom(f0, f1, m) /\ \A s \in DOMAIN f0 : f0[s].timestampMinutes <= f1[s].timestampMinutes
    BY DEF ReadingsFrom, AreReadings, IsReading
  <2>2. Agree(old, heard) => f1 = f0 BY AgreeIs
  <2>3. Stores(old, heard, m, at) /\ m.type # "observations" => f1 = f0 BY DEF Stores
  <2>4. ASSUME Stores(old, heard, m, at), m.type = "observations"
        PROVE  /\ AreReadings(f1) /\ DOMAIN f1 = DOMAIN f0 \union DOMAIN m.stations
               /\ \A s \in DOMAIN f0 : f0[s].timestampMinutes <= f1[s].timestampMinutes
               /\ ReadingsFrom(f0, f1, m)
               /\ \A s \in DOMAIN m.stations : ReportMinutes(m, s) <= f1[s].timestampMinutes
    <3>1. f1 = StoreObservations(old, m, at).observations BY <2>4 DEF Stores
    <3> HIDE DEF f1
    <3> QED BY <2>4, <3>1, StoredReadings
  <2> QED BY <2>1, <2>2, <2>3, <2>4
<1> HIDE DEF f1
<1>3. AreReadings(new) BY <1>0, <1>2, TrimmedReadings
<1> QED BY <1>1, <1>2, <1>3 DEF ReadingsFrom

-----------------------------------------------------------------------------
(* Lists that are sorted and cut *)

LEMMA AtMostIs ==
  ASSUME NEW s, IsList(s), NEW n \in Nat
  PROVE  /\ IsList(AtMost(s, n)) /\ Range(AtMost(s, n)) \subseteq Range(s) /\ Len(AtMost(s, n)) <= n
         /\ Len(AtMost(s, n)) # n => AtMost(s, n) = s
<1> DEFINE k == IF Len(s) <= n THEN Len(s) ELSE n
<1>1. /\ Len(s) \in Nat /\ DOMAIN s = 1 .. Len(s) /\ s = [i \in 1 .. Len(s) |-> s[i]] BY ListIs
<1>2. k \in Nat /\ k <= Len(s) /\ k <= n BY <1>1
<1>3. AtMost(s, n) = SubSeq(s, 1, k) BY DEF AtMost
<1>4. SubSeq(s, 1, k) = [i \in 1 .. k |-> s[i]]
  <2>1. s \in Seq(Range(s)) BY DEF IsList
  <2>2. SubSeq(s, 1, k) = [i \in 1 .. (k - 1 + 1) |-> s[i + 1 - 1]] BY <1>2, <2>1 DEF SubSeq
  <2>3. k - 1 + 1 = k /\ \A i \in 1 .. k : i + 1 - 1 = i BY <1>2
  <2> HIDE DEF k
  <2> QED BY <2>2, <2>3
<1> HIDE DEF k
<1>5. AtMost(s, n) = [i \in 1 .. k |-> AtMost(s, n)[i]] /\ \A i \in 1 .. k : AtMost(s, n)[i] = s[i]
  BY <1>3, <1>4
<1>6. IsList(AtMost(s, n)) /\ Len(AtMost(s, n)) = k /\ DOMAIN AtMost(s, n) = 1 .. k BY <1>2, <1>5, IsAList
<1>7. Range(AtMost(s, n)) \subseteq Range(s) BY <1>1, <1>2, <1>5, <1>6 DEF Range
<1>8. k # n => AtMost(s, n) = s BY <1>1, <1>3, <1>4 DEF k
<1> QED BY <1>2, <1>6, <1>7, <1>8

LEMMA ThoseIs ==
  ASSUME NEW s, IsList(s), NEW kept \in SUBSET DOMAIN s
  PROVE  IsList(Those(s, kept)) /\ Range(Those(s, kept)) = {s[i] : i \in kept}
<1> DEFINE r == {p \in kept \X kept : p[1] < p[2]}
<1>1. kept \subseteq Nat BY ListIs
<1>2. \A i, j \in kept : <<i, j>> \in r <=> i < j OBVIOUS
<1>3. Those(s, kept) = InOrder(s, kept, r) BY DEF Those
<1> HIDE DEF r
<1>4. IsOrder(kept, r) BY <1>1, <1>2 DEF IsOrder
<1> QED BY <1>3, <1>4, InOrderIs

LEMMA OrderOfSome ==
  ASSUME NEW S, NEW r, IsOrder(S, r), NEW T \in SUBSET S
  PROVE  IsOrder(T, r)
BY DEF IsOrder

AreSweeps(sweeps) == IsList(sweeps) /\ \A n \in DOMAIN sweeps : IsSweep(sweeps[n])

SweepFields ==
  {"builtMinutes", "group", "total", "packets", "lastReceivedAt", "wasCut", "includesAdvisories",
   "isScoped", "scopeKnown", "scope", "request"}

LEMMA SweepIs ==
  ASSUME NEW x
  PROVE  IsSweep(x) <=>
           /\ DOMAIN x = SweepFields
           /\ x.builtMinutes \in Int /\ x.group \in Int /\ x.lastReceivedAt \in Int
           /\ x.wasCut \in BOOLEAN /\ x.includesAdvisories \in BOOLEAN
           /\ x.isScoped \in BOOLEAN /\ x.scopeKnown \in BOOLEAN
<1>1. DOMAIN AreaSweepAssembly([built |-> 0, group |-> 0, total |-> 0, scoped |-> FALSE], 0) = SweepFields
  BY DEF AreaSweepAssembly, SweepFields
<1> QED BY <1>1 DEF IsSweep

LEMMA ByBuildIs ==
  ASSUME NEW s, AreSweeps(s)
  PROVE  /\ IsOrder(DOMAIN s, Sorting(s, ByBuild))
         /\ \A i, j \in DOMAIN s : <<i, j>> \in Sorting(s, ByBuild) => s[j].builtMinutes <= s[i].builtMinutes
<1> DEFINE r == Sorting(s, ByBuild)
<1>1. \A i, j \in DOMAIN s : <<i, j>> \in r <=> ByBuild(s[i], s[j]) \/ (~ByBuild(s[j], s[i]) /\ i < j)
  BY DEF Sorting
<1>2. \A i \in DOMAIN s : /\ s[i].builtMinutes \in Int /\ s[i].group \in Int /\ s[i].lastReceivedAt \in Int
                          /\ i \in Nat
  BY ListIs DEF AreSweeps, IsSweep
<1> HIDE DEF r
<1>3. \A i \in DOMAIN s : <<i, i>> \notin r BY <1>1, <1>2 DEF ByBuild
<1>4. ASSUME NEW i \in DOMAIN s, NEW j \in DOMAIN s, NEW k \in DOMAIN s, <<i, j>> \in r, <<j, k>> \in r
      PROVE  <<i, k>> \in r
  <2>1. ByBuild(s[i], s[j]) \/ (~ByBuild(s[j], s[i]) /\ i < j) BY <1>1, <1>4
  <2>2. ByBuild(s[j], s[k]) \/ (~ByBuild(s[k], s[j]) /\ j < k) BY <1>1, <1>4
  <2>3. ByBuild(s[i], s[k]) \/ (~ByBuild(s[k], s[i]) /\ i < k) BY <1>2, <2>1, <2>2 DEF ByBuild
  <2> QED BY <1>1, <2>3
<1>5. \A i, j \in DOMAIN s : i # j => <<i, j>> \in r \/ <<j, i>> \in r BY <1>1, <1>2 DEF ByBuild
<1>6. \A i, j \in DOMAIN s : <<i, j>> \in r => s[j].builtMinutes <= s[i].builtMinutes
  BY <1>1, <1>2 DEF ByBuild
<1>7. IsOrder(DOMAIN s, r) BY <1>3, <1>4, <1>5 DEF IsOrder
<1> QED BY <1>6, <1>7 DEF r

LEMMA SaysOn ==
  ASSUME NEW a, NEW b, NEW c, IsSweep(a), IsSweep(b), IsSweep(c), Says(a, b), Says(b, c)
  PROVE  Says(a, c)
BY SweepIs DEF Says

\* A sweep goes only for one no older that says all it says, or for the limit.
LEMMA RetainedSweeps ==
  ASSUME NEW s, AreSweeps(s), NEW new, new = RetainAreaSweeps(s)
  PROVE  /\ AreSweeps(new) /\ Range(new) \subseteq Range(s)
         /\ Len(new) # MaxAreaSweeps => \A i \in DOMAIN s : \E n \in DOMAIN new :
              /\ s[i].builtMinutes <= new[n].builtMinutes
              /\ new[n] = s[i] \/ Says(new[n], s[i])
<1> DEFINE r == Sorting(s, ByBuild)
           kept == {i \in DOMAIN s : \A j \in DOMAIN s : <<j, i>> \in r => ~Says(s[j], s[i])}
           l == InOrder(s, kept, r)
<1>1. new = AtMost(l, MaxAreaSweeps) BY DEF RetainAreaSweeps
<1>2. /\ IsOrder(DOMAIN s, r)
      /\ \A i, j \in DOMAIN s : <<i, j>> \in r => s[j].builtMinutes <= s[i].builtMinutes
  BY ByBuildIs
<1>3. IsList(s) /\ IsFiniteSet(DOMAIN s) /\ \A i \in DOMAIN s : IsSweep(s[i]) BY ListIs DEF AreSweeps
<1> HIDE DEF r
<1>4. kept \in SUBSET DOMAIN s OBVIOUS
<1>5. IsList(l) /\ Range(l) = {s[i] : i \in kept}
  <2>1. IsOrder(kept, r) BY <1>2, <1>4, OrderOfSome
  <2> HIDE DEF kept
  <2> QED BY <1>3, <1>4, <2>1, InOrderIs
<1> HIDE DEF l
<1>6. /\ IsList(new) /\ Range(new) \subseteq Range(l) /\ (Len(new) # MaxAreaSweeps => new = l)
  BY <1>1, <1>5, AtMostIs, Constants
<1>7. Range(l) \subseteq Range(s) BY <1>4, <1>5 DEF Range
<1>8. AreSweeps(new) BY <1>3, <1>6, <1>7 DEF AreSweeps, Range
<1>9. ASSUME NEW i \in DOMAIN s, Len(new) # MaxAreaSweeps
      PROVE  \E n \in DOMAIN new : /\ s[i].builtMinutes <= new[n].builtMinutes
                                   /\ new[n] = s[i] \/ Says(new[n], s[i])
  <2> DEFINE T == {j \in DOMAIN s : j = i \/ (<<j, i>> \in r /\ Says(s[j], s[i]))}
  <2>1. T \in SUBSET DOMAIN s /\ i \in T OBVIOUS
  <2>2. IsFiniteSet(T) /\ IsOrder(T, r) BY <1>2, <1>3, <2>1, FS_Subset, OrderOfSome
  <2>3. PICK j \in T : \A k \in T : <<k, j>> \notin r
    <3> HIDE DEF T
    <3> QED BY <2>1, <2>2, FirstIs
  <2>4. j \in kept
    <3> SUFFICES ASSUME NEW k \in DOMAIN s, <<k, j>> \in r, Says(s[k], s[j]) PROVE FALSE OBVIOUS
    <3>1. CASE j = i
      <4>1. k \in T BY <3>1
      <4> QED BY <2>3, <4>1
    <3>2. CASE j # i
      <4>1. <<j, i>> \in r /\ Says(s[j], s[i]) BY <3>2
      <4>2. <<k, i>> \in r BY <1>2, <4>1 DEF IsOrder
      <4>3. Says(s[k], s[i]) BY <1>3, <4>1, SaysOn
      <4> QED BY <2>3, <4>2, <4>3
    <3> QED BY <3>1, <3>2
  <2>5. s[j] \in Range(new) BY <1>5, <1>6, <1>9, <2>4
  <2>6. PICK n \in DOMAIN new : new[n] = s[j] BY <2>5 DEF Range
  <2>7. j = i \/ (<<j, i>> \in r /\ Says(s[j], s[i])) OBVIOUS
  <2>8. s[i].builtMinutes <= s[j].builtMinutes
    <3>1. s[i].builtMinutes \in Int BY <1>3 DEF IsSweep
    <3> QED BY <1>2, <2>7, <3>1
  <2> QED BY <2>6, <2>7, <2>8
<1> QED BY <1>6, <1>7, <1>8, <1>9

-----------------------------------------------------------------------------
(* Maps *)

IsSweepOf(i, b) == air[i].bot = b /\ MessageAt(i).type = "area_sweep"

AirOK ==
  /\ now \in Int /\ StartTime <= now /\ IsScript(script) /\ IsList(air)
  /\ \A i \in DOMAIN air :
       /\ IsMessage(MessageAt(i)) /\ air[i].at \in Int /\ air[i].at <= now
       /\ air[i].packet.seq \in Nat /\ air[i].bot \in BotsOf(script)

\* A map goes out from its first packet on, after it was built.
SweepsSent ==
  \A i \in DOMAIN air : MessageAt(i).type = "area_sweep" =>
    /\ StartTime <= MessageAt(i).built /\ MessageAt(i).built <= air[i].at
    /\ \E j \in DOMAIN air : /\ IsSweepOf(j, air[i].bot) /\ MessageAt(j).entries = MessageAt(i).entries
                             /\ MessageAt(j).idx = 0

\* Two builds of one minute have two groups.
GroupsTell ==
  \A i, j \in DOMAIN air :
    /\ MessageAt(i).type = "area_sweep" /\ IsSweepOf(j, air[i].bot)
    /\ MessageAt(i).group = MessageAt(j).group /\ MessageAt(i).built = MessageAt(j).built
    => MessageAt(i).entries = MessageAt(j).entries

MapsOK == AirOK /\ SweepsSent /\ GroupsTell

\* A sweep is of one build that was on the air, or of the file.
Stems(x, b) ==
  \E j \in DOMAIN air :
    /\ IsSweepOf(j, b) /\ MessageAt(j).group = x.group /\ MessageAt(j).built = x.builtMinutes
    /\ \A k \in DOMAIN x.packets : x.packets[k] = MessageAt(j).entries
    /\ MessageAt(j).cut => x.wasCut
    /\ x.isScoped = MessageAt(j).scoped
    /\ x.isScoped /\ x.scopeKnown =>
         \E p \in Maps(script) : p.entries = MessageAt(j).entries /\ p.idx = 0 /\ p.scope = x.scope
Filed(x) ==
  /\ x.builtMinutes < StartTime
  /\ \A k, l \in DOMAIN x.packets : x.packets[k] = x.packets[l]
  /\ \A k \in DOMAIN x.packets : \A p \in Maps(script) : x.packets[k] # p.entries
SweepOK(x, b) == IsSweep(x) /\ x.builtMinutes <= now /\ (Filed(x) \/ Stems(x, b))
SweepsOK(sweeps, b) == IsList(sweeps) /\ \A n \in DOMAIN sweeps : SweepOK(sweeps[n], b)

LEMMA SentIs ==
  ASSUME AirOK, NEW i \in DOMAIN air
  PROVE  TypedMessage(MessageAt(i))
BY MessageIs DEF AirOK

\* What is said of a map in one packet is said of it in all.
LEMMA OneMap ==
  ASSUME AirOK, NEW i \in DOMAIN air, NEW j \in DOMAIN air, MessageAt(i).type = "area_sweep",
         MessageAt(j).type = "area_sweep", MessageAt(i).entries = MessageAt(j).entries
  PROVE  /\ MessageAt(i).cut = MessageAt(j).cut /\ MessageAt(i).scoped = MessageAt(j).scoped
         /\ \A p \in Maps(script) : p.entries = MessageAt(i).entries /\ p.idx = 0 /\ MessageAt(j).idx = 0 =>
              p.scope = MessageAt(j).scope
<1>1. PICK p \in Maps(script) : /\ MessageAt(i).idx = p.idx /\ MessageAt(i).entries = p.entries
                                /\ MessageAt(i).scoped = p.scoped /\ MessageAt(i).cut = p.cut
  BY SentIs DEF TypedMessage
<1>2. PICK q \in Maps(script) : /\ MessageAt(j).idx = q.idx /\ MessageAt(j).entries = q.entries
                                /\ MessageAt(j).scope = q.scope
                                /\ MessageAt(j).scoped = q.scoped /\ MessageAt(j).cut = q.cut
  BY SentIs DEF TypedMessage
<1>3. \A r, s \in Maps(script) : r.entries = s.entries =>
        r.cut = s.cut /\ r.scoped = s.scoped /\ (r.idx = 0 /\ s.idx = 0 => r.scope = s.scope)
  BY DEF AirOK, IsScript
<1> QED BY <1>1, <1>2, <1>3

LEMMA ScopeIs ==
  ASSUME MapsOK, NEW i \in DOMAIN air, MessageAt(i).type = "area_sweep",
         NEW p \in Maps(script), p.entries = MessageAt(i).entries, p.idx = 0
  PROVE  ScopeOf(i) = p.scope
<1> DEFINE first == {j \in DOMAIN air : /\ air[j].bot = air[i].bot /\ MessageAt(j).type = "area_sweep"
                                        /\ MessageAt(j).entries = MessageAt(i).entries /\ MessageAt(j).idx = 0}
<1>1. \E j \in DOMAIN air : j \in first BY DEF MapsOK, SweepsSent, IsSweepOf
<1>2. ASSUME NEW j \in first PROVE MessageAt(j).scope = p.scope
  <2>1. j \in DOMAIN air /\ MessageAt(j).type = "area_sweep" /\ MessageAt(j).entries = MessageAt(i).entries
        /\ MessageAt(j).idx = 0 OBVIOUS
  <2> QED BY <2>1, OneMap DEF MapsOK
<1>3. ScopeOf(i) = UNION {MessageAt(j).scope : j \in first} BY DEF ScopeOf
<1> HIDE DEF first
<1> QED BY <1>1, <1>2, <1>3

\* What a sweep must say to have a packet on the map.
SaysPacket(x, i) ==
  \/ MessageAt(i).entries \in Range(x.packets)
  \/ ~x.isScoped
  \/ MessageAt(i).scoped /\ \A s \in ScopeOf(i) : CoversState(x, s)

LEMMA OnMapIs ==
  ASSUME NEW sweeps, NEW i
  PROVE  OnMap(sweeps, i) <=>
           \E n \in DOMAIN sweeps : sweeps[n].builtMinutes >= MessageAt(i).built /\ SaysPacket(sweeps[n], i)
BY DEF OnMap, SaysPacket

\* A sweep that holds a packet of a map knows what the map is about.
LEMMA HoldsItsMap ==
  ASSUME AirOK, NEW i \in DOMAIN air, MessageAt(i).type = "area_sweep", NEW b, NEW x, SweepOK(x, b),
         MessageAt(i).entries \in Range(x.packets)
  PROVE  /\ x.isScoped = MessageAt(i).scoped /\ (MessageAt(i).cut => x.wasCut)
         /\ x.isScoped /\ x.scopeKnown =>
              \E p \in Maps(script) : p.entries = MessageAt(i).entries /\ p.idx = 0 /\ p.scope = x.scope
<1>1. PICK k \in DOMAIN x.packets : x.packets[k] = MessageAt(i).entries BY DEF Range
<1>2. PICK p \in Maps(script) : MessageAt(i).entries = p.entries BY SentIs DEF TypedMessage
<1>3. ~Filed(x) BY <1>1, <1>2 DEF Filed
<1>4. PICK j \in DOMAIN air :
        /\ IsSweepOf(j, b)
        /\ \A l \in DOMAIN x.packets : x.packets[l] = MessageAt(j).entries
        /\ MessageAt(j).cut => x.wasCut
        /\ x.isScoped = MessageAt(j).scoped
        /\ x.isScoped /\ x.scopeKnown =>
             \E q \in Maps(script) : q.entries = MessageAt(j).entries /\ q.idx = 0 /\ q.scope = x.scope
  BY <1>3 DEF SweepOK, Stems
<1>5. MessageAt(i).entries = MessageAt(j).entries /\ MessageAt(j).type = "area_sweep"
  BY <1>1, <1>4 DEF IsSweepOf
<1>6. MessageAt(i).cut = MessageAt(j).cut /\ MessageAt(i).scoped = MessageAt(j).scoped BY <1>5, OneMap
<1> QED BY <1>4, <1>5, <1>6

\* What says a sweep says its packets.
LEMMA SaysItsPackets ==
  ASSUME MapsOK, NEW i \in DOMAIN air, MessageAt(i).type = "area_sweep", NEW b, NEW x, NEW y,
         SweepOK(x, b), SweepOK(y, b), SaysPacket(x, i), Says(y, x)
  PROVE  SaysPacket(y, i)
<1>1. CASE ~y.isScoped BY <1>1 DEF SaysPacket
<1>2. CASE y.isScoped
  <2>1. x.isScoped /\ y.scopeKnown /\ x.scopeKnown /\ x.scope \subseteq y.scope BY <1>2 DEF Says
  <2>2. CASE MessageAt(i).entries \in Range(x.packets)
    <3>1. /\ MessageAt(i).scoped
          /\ \E p \in Maps(script) : p.entries = MessageAt(i).entries /\ p.idx = 0 /\ p.scope = x.scope
      BY <2>1, <2>2, HoldsItsMap DEF MapsOK
    <3>2. ScopeOf(i) = x.scope BY <3>1, ScopeIs
    <3> QED BY <2>1, <3>1, <3>2 DEF SaysPacket, CoversState
  <2>3. CASE MessageAt(i).scoped /\ \A s \in ScopeOf(i) : CoversState(x, s)
    BY <2>1, <2>3 DEF SaysPacket, CoversState
  <2> QED BY <2>1, <2>2, <2>3 DEF SaysPacket
<1> QED BY <1>1, <1>2 DEF SweepOK, IsSweep

\* A sweep that a packet has joined says all it said.
Joined(x, y) ==
  /\ y.builtMinutes = x.builtMinutes /\ y.isScoped = x.isScoped
  /\ Range(x.packets) \subseteq Range(y.packets)
  /\ \A s : CoversState(x, s) => CoversState(y, s)

LEMMA JoinedSays ==
  ASSUME NEW x, NEW y, NEW i, Joined(x, y), SaysPacket(x, i)
  PROVE  SaysPacket(y, i)
BY DEF Joined, SaysPacket

TakesPacket(x, y, m) ==
  /\ DOMAIN y = SweepFields /\ y.builtMinutes = x.builtMinutes /\ y.group = x.group
  /\ y.packets = Put(x.packets, m.idx, m.entries) /\ y.lastReceivedAt = now
  /\ y.wasCut = (x.wasCut \/ m.cut) /\ y.isScoped = (x.isScoped \/ m.scoped)
  /\ y.includesAdvisories = (x.includesAdvisories \/ m.advisories)
  /\ y.scopeKnown = (x.scopeKnown \/ m.idx = 0)
  /\ y.scope = IF m.scoped /\ m.idx = 0 THEN m.scope ELSE x.scope

\* The first packet of a sweep says what it is about.
TakesUp(y, m) == m.scoped /\ m.idx = 0 => y.scopeKnown = TRUE /\ y.scope = m.scope

LEMMA WithPacket ==
  ASSUME NEW x, DOMAIN x = SweepFields, NEW m
  PROVE  TakesPacket(x, WithSweepPacket(x, m, now), m)
BY DEF WithSweepPacket, SweepFields, TakesPacket

LEMMA PutIs ==
  ASSUME NEW f, NEW k, NEW v
  PROVE  /\ DOMAIN Put(f, k, v) = DOMAIN f \union {k} /\ Put(f, k, v)[k] = v
         /\ \A l \in DOMAIN f : l # k => Put(f, k, v)[l] = f[l]
BY DEF Put

\* The first packet of a sweep.
LEMMA NewSweep ==
  ASSUME MapsOK, NEW i \in DOMAIN air, MessageAt(i).type = "area_sweep", NEW m, m = MessageAt(i),
         NEW y, y = WithSweepPacket(AreaSweepAssembly(m, now), m, now)
  PROVE  SweepOK(y, air[i].bot) /\ y.builtMinutes = m.built /\ m.entries \in Range(y.packets) /\ TakesUp(y, m)
<1> DEFINE x == AreaSweepAssembly(m, now)
<1>1. /\ DOMAIN x = SweepFields /\ x.builtMinutes = m.built /\ x.group = m.group /\ x.packets = <<>>
      /\ x.wasCut = FALSE /\ x.includesAdvisories = FALSE /\ x.isScoped = m.scoped
      /\ x.scopeKnown = ~m.scoped /\ x.scope = {}
  BY DEF AreaSweepAssembly, SweepFields
<1>w. y = WithSweepPacket(x, m, now) OBVIOUS
<1> HIDE DEF x
<1>2. /\ DOMAIN y = SweepFields /\ y.builtMinutes = x.builtMinutes /\ y.group = x.group
      /\ y.packets = Put(x.packets, m.idx, m.entries) /\ y.lastReceivedAt = now
      /\ y.wasCut = (x.wasCut \/ m.cut) /\ y.isScoped = (x.isScoped \/ m.scoped)
      /\ y.includesAdvisories = (x.includesAdvisories \/ m.advisories)
      /\ y.scopeKnown = (x.scopeKnown \/ m.idx = 0)
      /\ y.scope = IF m.scoped /\ m.idx = 0 THEN m.scope ELSE x.scope
  <2>1. TakesPacket(x, y, m) BY <1>1, <1>w, WithPacket
  <2> QED BY <2>1 DEF TakesPacket
<1>3. /\ m.type = "area_sweep" /\ m.built \in Int /\ m.group \in Nat
      /\ m.scoped \in BOOLEAN /\ m.cut \in BOOLEAN /\ m.advisories \in BOOLEAN
      /\ \E p \in Maps(script) : m.idx = p.idx /\ m.entries = p.entries /\ m.scope = p.scope
  BY SentIs DEF TypedMessage, MapsOK, Multi
<1>4. DOMAIN y.packets = {m.idx} /\ y.packets[m.idx] = m.entries
  <2>1. DOMAIN <<>> = {} OBVIOUS
  <2>2. y.packets = Put(<<>>, m.idx, m.entries) BY <1>1, <1>2
  <2> QED BY <2>1, <2>2 DEF Put
<1>5. now \in Int /\ m.built <= now
  <2>1. now \in Int /\ air[i].at \in Int /\ air[i].at <= now BY DEF MapsOK, AirOK
  <2>2. m.built <= air[i].at BY DEF MapsOK, SweepsSent
  <2> QED BY <1>3, <2>1, <2>2
<1>6. IsSweep(y)
  <2>1. y.wasCut \in BOOLEAN /\ y.includesAdvisories \in BOOLEAN BY <1>2
  <2>2. y.isScoped \in BOOLEAN /\ y.scopeKnown \in BOOLEAN BY <1>2
  <2>3. y.builtMinutes \in Int /\ y.group \in Int /\ y.lastReceivedAt \in Int BY <1>1, <1>2, <1>3, <1>5
  <2> QED BY <1>2, <2>1, <2>2, <2>3, SweepIs
<1>7. Stems(y, air[i].bot)
  <2>1. IsSweepOf(i, air[i].bot) /\ m.group = y.group /\ m.built = y.builtMinutes BY <1>1, <1>2 DEF IsSweepOf
  <2>2. \A k \in DOMAIN y.packets : y.packets[k] = m.entries BY <1>4
  <2>3. (m.cut => y.wasCut) /\ y.isScoped = m.scoped BY <1>1, <1>2, <1>3
  <2>4. y.isScoped /\ y.scopeKnown =>
          \E p \in Maps(script) : p.entries = m.entries /\ p.idx = 0 /\ p.scope = y.scope
    BY <1>1, <1>2, <1>3
  <2> QED BY <2>1, <2>2, <2>3, <2>4 DEF Stems
<1>8. m.entries \in Range(y.packets) BY <1>4 DEF Range
<1>9. TakesUp(y, m) BY <1>2 DEF TakesUp
<1> QED BY <1>1, <1>2, <1>5, <1>6, <1>7, <1>8, <1>9 DEF SweepOK

\* A packet joins only a sweep of its own build.
LEMMA JoinsSweep ==
  ASSUME MapsOK, NEW i \in DOMAIN air, MessageAt(i).type = "area_sweep", NEW m, m = MessageAt(i),
         NEW x, SweepOK(x, air[i].bot), OfBuild(x, m), NEW y, y = WithSweepPacket(x, m, now)
  PROVE  /\ SweepOK(y, air[i].bot) /\ Joined(x, y)
         /\ y.builtMinutes = m.built /\ m.entries \in Range(y.packets) /\ TakesUp(y, m)
<1> DEFINE b == air[i].bot
<1>0. IsSweep(x) /\ x.builtMinutes <= now /\ (Filed(x) \/ Stems(x, b)) BY DEF SweepOK
<1>1. /\ DOMAIN x = SweepFields /\ x.builtMinutes \in Int /\ x.group \in Int
      /\ x.wasCut \in BOOLEAN /\ x.includesAdvisories \in BOOLEAN /\ x.isScoped \in BOOLEAN
      /\ x.scopeKnown \in BOOLEAN
  BY <1>0, SweepIs
<1>2. /\ DOMAIN y = SweepFields /\ y.builtMinutes = x.builtMinutes /\ y.group = x.group
      /\ y.packets = Put(x.packets, m.idx, m.entries) /\ y.lastReceivedAt = now
      /\ y.wasCut = (x.wasCut \/ m.cut) /\ y.isScoped = (x.isScoped \/ m.scoped)
      /\ y.includesAdvisories = (x.includesAdvisories \/ m.advisories)
      /\ y.scopeKnown = (x.scopeKnown \/ m.idx = 0)
      /\ y.scope = IF m.scoped /\ m.idx = 0 THEN m.scope ELSE x.scope
  <2>1. TakesPacket(x, y, m) BY <1>1, WithPacket
  <2> QED BY <2>1 DEF TakesPacket
<1>3. /\ m.built \in Int /\ m.scoped \in BOOLEAN /\ m.cut \in BOOLEAN /\ m.advisories \in BOOLEAN
  BY SentIs DEF TypedMessage, MapsOK
<1>m. PICK q \in Maps(script) : m.idx = q.idx /\ m.entries = q.entries /\ m.scope = q.scope
  BY SentIs DEF TypedMessage, MapsOK
<1>4. x.group = m.group /\ x.builtMinutes = m.built BY DEF OfBuild
<1>5. StartTime <= m.built BY DEF MapsOK, SweepsSent
<1>6. PICK j \in DOMAIN air :
        /\ IsSweepOf(j, b) /\ MessageAt(j).group = x.group /\ MessageAt(j).built = x.builtMinutes
        /\ \A k \in DOMAIN x.packets : x.packets[k] = MessageAt(j).entries
        /\ MessageAt(j).cut => x.wasCut
        /\ x.isScoped = MessageAt(j).scoped
        /\ x.isScoped /\ x.scopeKnown =>
             \E p \in Maps(script) : p.entries = MessageAt(j).entries /\ p.idx = 0 /\ p.scope = x.scope
  <2>1. ~Filed(x) BY <1>1, <1>4, <1>5, Constants DEF Filed
  <2> QED BY <1>0, <2>1 DEF Stems
<1>7. m.entries = MessageAt(j).entries BY <1>4, <1>6 DEF MapsOK, GroupsTell
<1>8. m.cut = MessageAt(j).cut /\ m.scoped = MessageAt(j).scoped
  BY <1>6, <1>7, OneMap DEF MapsOK, IsSweepOf
<1>9. DOMAIN y.packets = DOMAIN x.packets \union {m.idx} /\ \A k \in DOMAIN y.packets : y.packets[k] = m.entries
  BY <1>2, <1>6, <1>7 DEF Put
<1>10. Range(x.packets) \subseteq Range(y.packets) /\ m.entries \in Range(y.packets)
  BY <1>6, <1>7, <1>9 DEF Range
<1>11. /\ y.isScoped = x.isScoped /\ x.isScoped = m.scoped /\ (m.cut => y.wasCut)
  BY <1>1, <1>2, <1>3, <1>6, <1>8
<1>12. x.isScoped /\ x.scopeKnown => y.scope = x.scope
  <2> SUFFICES ASSUME x.isScoped, x.scopeKnown, m.idx = 0 PROVE m.scope = x.scope BY <1>2
  <2>1. PICK p \in Maps(script) : p.entries = m.entries /\ p.idx = 0 /\ p.scope = x.scope BY <1>6, <1>7
  <2> QED BY <1>m, <2>1 DEF MapsOK, AirOK, IsScript
<1>13. y.isScoped /\ y.scopeKnown =>
         \E p \in Maps(script) : p.entries = m.entries /\ p.idx = 0 /\ p.scope = y.scope
  <2>1. CASE x.isScoped /\ x.scopeKnown BY <1>6, <1>7, <1>12, <2>1
  <2>2. CASE ~(x.isScoped /\ x.scopeKnown) BY <1>2, <1>m, <1>11, <2>2
  <2> QED BY <2>1, <2>2
<1>14. now \in Int BY DEF MapsOK, AirOK
<1>15. IsSweep(y) BY <1>1, <1>2, <1>3, <1>14, SweepIs
<1>16. Stems(y, b)
  <2>1. IsSweepOf(i, b) /\ m.group = y.group /\ m.built = y.builtMinutes BY <1>2, <1>4 DEF IsSweepOf
  <2> QED BY <1>9, <1>11, <1>13, <2>1 DEF Stems
<1>17. \A s : CoversState(x, s) => CoversState(y, s) BY <1>2, <1>11, <1>12 DEF CoversState
<1>18. TakesUp(y, m) BY <1>2 DEF TakesUp
<1> QED BY <1>0, <1>2, <1>4, <1>10, <1>11, <1>15, <1>16, <1>17, <1>18 DEF SweepOK, Joined

IsCons(t, x, s) ==
  /\ IsList(t) /\ DOMAIN t = 1 .. Len(s) + 1 /\ t[1] = x
  /\ \A n \in DOMAIN s : n + 1 \in 1 .. Len(s) + 1 /\ t[n + 1] = s[n]
  /\ \A n \in 1 .. Len(s) + 1 : n # 1 => n - 1 \in DOMAIN s /\ t[n] = s[n - 1]

LEMMA ConsIs ==
  ASSUME NEW s, IsList(s), NEW x
  PROVE  IsCons(<<x>> \o s, x, s)
<1>1. Len(s) \in Nat /\ DOMAIN s = 1 .. Len(s) BY ListIs
<1>2. <<x>> \o s = [n \in 1 .. 1 + Len(s) |-> IF n <= 1 THEN <<x>>[n] ELSE s[n - 1]]
  <2>1. s \in Seq(Range(s) \union {x}) /\ <<x>> \in Seq(Range(s) \union {x})
    <3>1. s \in [1 .. Len(s) -> Range(s) \union {x}] BY <1>1, ListIs DEF Range
    <3> QED BY <1>1, <3>1
  <2> QED BY <2>1, <1>1
<1>3. <<x>> \o s = [n \in 1 .. 1 + Len(s) |-> (<<x>> \o s)[n]] BY <1>2
<1>4. 1 + Len(s) \in Nat /\ 1 + Len(s) = Len(s) + 1 BY <1>1
<1>5. IsList(<<x>> \o s) /\ DOMAIN (<<x>> \o s) = 1 .. Len(s) + 1 BY <1>3, <1>4, IsAList
<1>6. (<<x>> \o s)[1] = x BY <1>1, <1>2
<1>7. \A n \in DOMAIN s : n + 1 \in 1 .. Len(s) + 1 /\ (<<x>> \o s)[n + 1] = s[n]
  <2> SUFFICES ASSUME NEW n \in 1 .. Len(s)
               PROVE  n + 1 \in 1 .. Len(s) + 1 /\ (<<x>> \o s)[n + 1] = s[n] BY <1>1
  <2>1. n + 1 \in 1 .. 1 + Len(s) /\ ~(n + 1 <= 1) /\ n + 1 - 1 = n BY <1>1
  <2> QED BY <1>2, <1>4, <2>1
<1>8. \A n \in 1 .. Len(s) + 1 : n # 1 => n - 1 \in DOMAIN s /\ (<<x>> \o s)[n] = s[n - 1]
  BY <1>1, <1>2, <1>4
<1> QED BY <1>5, <1>6, <1>7, <1>8 DEF IsCons

LEMMA ReplacedIs ==
  ASSUME NEW s, IsList(s), NEW t, DOMAIN t = DOMAIN s, t = [n \in DOMAIN s |-> t[n]]
  PROVE  IsList(t)
<1>1. Len(s) \in Nat /\ DOMAIN s = 1 .. Len(s) BY ListIs
<1>2. t = [n \in 1 .. Len(s) |-> t[n]] BY <1>1
<1> QED BY <1>1, <1>2, IsAList

\* A packet joins a sweep of its build or is a new one, and the others stay.
LEMMA MergedIs ==
  ASSUME MapsOK, NEW i \in DOMAIN air, MessageAt(i).type = "area_sweep", NEW m, m = MessageAt(i),
         NEW s, SweepsOK(s, air[i].bot), NEW new, new = Merged(s, m, now)
  PROVE  /\ SweepsOK(new, air[i].bot)
         /\ \A n \in DOMAIN s : \E k \in DOMAIN new : Joined(s[n], new[k])
         /\ \E k \in DOMAIN new : /\ new[k].builtMinutes = m.built /\ m.entries \in Range(new[k].packets)
                                  /\ TakesUp(new[k], m)
<1> DEFINE found == {n \in DOMAIN s : OfBuild(s[n], m)}
           first == CHOOSE n \in found : \A j \in found : n <= j
           fresh == WithSweepPacket(AreaSweepAssembly(m, now), m, now)
           joined == WithSweepPacket(s[first], m, now)
<1>1. new = IF found = {} THEN <<fresh>> \o s ELSE [s EXCEPT ![first] = joined] BY DEF Merged
<1>2. IsList(s) /\ \A n \in DOMAIN s : SweepOK(s[n], air[i].bot) BY DEF SweepsOK
<1>3. Len(s) \in Nat /\ DOMAIN s = 1 .. Len(s) /\ IsFiniteSet(DOMAIN s) BY <1>2, ListIs
<1>4. \A n \in DOMAIN s : Joined(s[n], s[n]) BY DEF Joined
<1>5. CASE found = {}
  <2>1. /\ SweepOK(fresh, air[i].bot) /\ fresh.builtMinutes = m.built
        /\ m.entries \in Range(fresh.packets) /\ TakesUp(fresh, m)
    BY NewSweep
  <2> HIDE DEF fresh
  <2>2. new = <<fresh>> \o s BY <1>1, <1>5
  <2> HIDE DEF found
  <2>3. /\ IsList(new) /\ DOMAIN new = 1 .. Len(s) + 1
        /\ new[1] = fresh /\ \A n \in DOMAIN s : n + 1 \in 1 .. Len(s) + 1 /\ new[n + 1] = s[n]
        /\ \A n \in 1 .. Len(s) + 1 : n # 1 => n - 1 \in DOMAIN s /\ new[n] = s[n - 1]
    <3>1. IsCons(new, fresh, s) BY <1>2, <2>2, ConsIs
    <3> QED BY <3>1 DEF IsCons
  <2>4. 1 \in DOMAIN new BY <1>3, <2>3
  <2>5. SweepsOK(new, air[i].bot)
    <3> SUFFICES ASSUME NEW n \in DOMAIN new PROVE SweepOK(new[n], air[i].bot) BY <2>3 DEF SweepsOK
    <3>1. new[n] = fresh \/ (n - 1 \in DOMAIN s /\ new[n] = s[n - 1]) BY <2>3
    <3> QED BY <1>2, <2>1, <3>1
  <2>6. \A n \in DOMAIN s : \E k \in DOMAIN new : Joined(s[n], new[k]) BY <1>4, <2>3
  <2> QED BY <2>1, <2>3, <2>4, <2>5, <2>6
<1>6. CASE found # {}
  <2>1. found \in SUBSET Int /\ IsFiniteSet(found)
    <3>1. found \in SUBSET DOMAIN s OBVIOUS
    <3> QED BY <1>3, <3>1, FS_Subset
  <2>2. \E n \in found : \A j \in found : n <= j
    <3> HIDE DEF found
    <3> QED BY <1>6, <2>1, LeastIs
  <2>3. first \in found BY <2>2
  <2> HIDE DEF first
  <2>4. first \in DOMAIN s /\ OfBuild(s[first], m) BY <2>3
  <2>5. /\ SweepOK(joined, air[i].bot) /\ Joined(s[first], joined)
        /\ joined.builtMinutes = m.built /\ m.entries \in Range(joined.packets) /\ TakesUp(joined, m)
    BY <1>2, <2>4, JoinsSweep
  <2> HIDE DEF joined
  <2>6. new = [s EXCEPT ![first] = joined] BY <1>1, <1>6
  <2> HIDE DEF found
  <2>7. /\ DOMAIN new = DOMAIN s /\ new = [n \in DOMAIN s |-> new[n]] /\ new[first] = joined
        /\ \A n \in DOMAIN s : n # first => new[n] = s[n]
    BY <2>4, <2>6
  <2>8. IsList(new) BY <1>2, <2>7, ReplacedIs
  <2>9. SweepsOK(new, air[i].bot) BY <1>2, <2>5, <2>7, <2>8 DEF SweepsOK
  <2>10. \A n \in DOMAIN s : \E k \in DOMAIN new : Joined(s[n], new[k]) BY <1>4, <2>5, <2>7
  <2> QED BY <2>4, <2>5, <2>7, <2>9, <2>10
<1> QED BY <1>5, <1>6

\* What is noted on a sweep is not what it says.
LEMMA MarkedSweep ==
  ASSUME NEW x, NEW b, SweepOK(x, b), NEW r, NEW y, y = [x EXCEPT !.request = r]
  PROVE  SweepOK(y, b) /\ Joined(x, y)
<1>1. DOMAIN x = SweepFields BY SweepIs DEF SweepOK
<1>2. /\ DOMAIN y = SweepFields /\ y.builtMinutes = x.builtMinutes /\ y.group = x.group
      /\ y.packets = x.packets /\ y.lastReceivedAt = x.lastReceivedAt /\ y.wasCut = x.wasCut
      /\ y.isScoped = x.isScoped /\ y.includesAdvisories = x.includesAdvisories
      /\ y.scopeKnown = x.scopeKnown /\ y.scope = x.scope
  BY <1>1 DEF SweepFields
<1>3. IsSweep(y) BY <1>2, SweepIs DEF SweepOK
<1>4. Filed(x) => Filed(y) BY <1>2 DEF Filed
<1>5. Stems(x, b) => Stems(y, b) BY <1>2 DEF Stems
<1>6. Joined(x, y) BY <1>2 DEF Joined, CoversState
<1> QED BY <1>2, <1>3, <1>4, <1>5, <1>6 DEF SweepOK

\* What one packet makes of the maps.
LEMMA SweepsFollow ==
  ASSUME MapsOK, NEW i \in DOMAIN air, NEW old, DOMAIN old = Fields, SweepsOK(old.areaSweeps, air[i].bot),
         NEW heard, Agree(old, heard) \/ Stores(old, heard, MessageAt(i), now),
         NEW pending_, NEW settled, NEW marked, IsMarked(heard, marked, MessageAt(i), pending_, settled),
         NEW new, new = Trim(marked, now).areaSweeps
  PROVE  /\ SweepsOK(new, air[i].bot)
         /\ Len(new) # MaxAreaSweeps =>
              /\ \A j \in DOMAIN air : IsSweepOf(j, air[i].bot) /\ OnMap(old.areaSweeps, j) => OnMap(new, j)
              /\ Stores(old, heard, MessageAt(i), now) /\ MessageAt(i).type = "area_sweep" => OnMap(new, i)
<1> DEFINE b == air[i].bot
           m == MessageAt(i)
           s0 == old.areaSweeps
           s1 == heard.areaSweeps
<1>0. \A j \in DOMAIN air : MessageAt(j).type = "area_sweep" => MessageAt(j).built \in Int
  BY SentIs DEF TypedMessage, MapsOK
<1>1. /\ SweepsOK(s1, b)
      /\ Len(s1) # MaxAreaSweeps =>
           /\ \A j \in DOMAIN air : IsSweepOf(j, b) /\ OnMap(s0, j) => OnMap(s1, j)
           /\ Stores(old, heard, m, now) /\ m.type = "area_sweep" => OnMap(s1, i)
  <2>1. CASE s1 = s0 /\ ~(Stores(old, heard, m, now) /\ m.type = "area_sweep") BY <2>1
  <2>2. CASE Stores(old, heard, m, now) /\ m.type = "area_sweep"
    <3> DEFINE M == Merged(s0, m, now)
    <3>1. s1 = RetainAreaSweeps(M)
      <4>1. s1 = StoreAreaSweep(old, m, now).areaSweeps BY <2>2 DEF Stores
      <4>2. "areaSweeps" \in Fields BY DEF Fields
      <4> QED BY <4>1, <4>2 DEF StoreAreaSweep
    <3>2. /\ SweepsOK(M, b)
          /\ \A n \in DOMAIN s0 : \E k \in DOMAIN M : Joined(s0[n], M[k])
          /\ \E k \in DOMAIN M : M[k].builtMinutes = m.built /\ m.entries \in Range(M[k].packets)
      BY <2>2, MergedIs
    <3> HIDE DEF M, s1
    <3>3. AreSweeps(M) BY <3>2 DEF SweepsOK, SweepOK, AreSweeps
    <3>4. /\ AreSweeps(s1) /\ Range(s1) \subseteq Range(M)
          /\ Len(s1) # MaxAreaSweeps => \A k \in DOMAIN M : \E n \in DOMAIN s1 :
               /\ M[k].builtMinutes <= s1[n].builtMinutes
               /\ s1[n] = M[k] \/ Says(s1[n], M[k])
      BY <3>1, <3>3, RetainedSweeps
    <3>5. SweepsOK(s1, b) BY <3>2, <3>4 DEF SweepsOK, AreSweeps, Range
    <3>6. ASSUME Len(s1) # MaxAreaSweeps, NEW j \in DOMAIN air, IsSweepOf(j, b), NEW k \in DOMAIN M,
                 M[k].builtMinutes >= MessageAt(j).built, SaysPacket(M[k], j)
          PROVE  OnMap(s1, j)
      <4>1. PICK n \in DOMAIN s1 : /\ M[k].builtMinutes <= s1[n].builtMinutes
                                   /\ s1[n] = M[k] \/ Says(s1[n], M[k])
        BY <3>4, <3>6
      <4>2. SweepOK(M[k], b) /\ SweepOK(s1[n], b) BY <3>2, <3>5 DEF SweepsOK
      <4>3. SaysPacket(s1[n], j)
        <5>1. MessageAt(j).type = "area_sweep" BY <3>6 DEF IsSweepOf
        <5> QED BY <3>6, <4>1, <4>2, <5>1, SaysItsPackets
      <4>4. s1[n].builtMinutes >= MessageAt(j).built
        <5>1. M[k].builtMinutes \in Int /\ s1[n].builtMinutes \in Int BY <4>2 DEF SweepOK, IsSweep
        <5>2. MessageAt(j).built \in Int BY <1>0, <3>6 DEF IsSweepOf
        <5> QED BY <3>6, <4>1, <5>1, <5>2
      <4> QED BY <4>3, <4>4, OnMapIs
    <3>7. ASSUME Len(s1) # MaxAreaSweeps, NEW j \in DOMAIN air, IsSweepOf(j, b), OnMap(s0, j)
          PROVE  OnMap(s1, j)
      <4>1. PICK n \in DOMAIN s0 : s0[n].builtMinutes >= MessageAt(j).built /\ SaysPacket(s0[n], j)
        BY <3>7, OnMapIs
      <4>2. PICK k \in DOMAIN M : Joined(s0[n], M[k]) BY <3>2
      <4>3. SaysPacket(M[k], j) BY <4>1, <4>2, JoinedSays
      <4>4. M[k].builtMinutes >= MessageAt(j).built BY <4>1, <4>2 DEF Joined
      <4> QED BY <3>6, <3>7, <4>3, <4>4
    <3>8. ASSUME Len(s1) # MaxAreaSweeps PROVE OnMap(s1, i)
      <4>1. PICK k \in DOMAIN M : M[k].builtMinutes = m.built /\ m.entries \in Range(M[k].packets) BY <3>2
      <4>2. M[k].builtMinutes >= MessageAt(i).built BY <1>0, <2>2, <4>1
      <4>3. SaysPacket(M[k], i) BY <4>1 DEF SaysPacket
      <4>4. IsSweepOf(i, b) BY <2>2 DEF IsSweepOf
      <4> QED BY <3>6, <3>8, <4>2, <4>3, <4>4
    <3> QED BY <3>5, <3>7, <3>8
  <2>3. Agree(old, heard) => s1 = s0 BY AgreeIs
  <2>4. Stores(old, heard, m, now) /\ m.type # "area_sweep" => s1 = s0 BY DEF Stores
  <2> QED BY <2>1, <2>2, <2>3, <2>4
<1>2. new = marked.areaSweeps
  <2>1. DOMAIN marked = Fields BY DEF IsMarked
  <2> QED BY <2>1, TrimIs
<1>3. \/ new = s1
      \/ \E r : new = [n \in DOMAIN s1 |-> IF s1[n].group = m.group /\ s1[n].builtMinutes = m.built
                                          THEN [s1[n] EXCEPT !.request = r] ELSE s1[n]]
  BY <1>2 DEF IsMarked
<1> HIDE DEF s1
<1>4. CASE new = s1 BY <1>1, <1>4
<1>5. ASSUME NEW r, new = [n \in DOMAIN s1 |-> IF s1[n].group = m.group /\ s1[n].builtMinutes = m.built
                                             THEN [s1[n] EXCEPT !.request = r] ELSE s1[n]]
      PROVE  /\ SweepsOK(new, b) /\ Len(new) = Len(s1)
             /\ \A j : OnMap(s1, j) => OnMap(new, j)
  <2>1. DOMAIN new = DOMAIN s1 /\ new = [n \in DOMAIN s1 |-> new[n]] BY <1>5
  <2>2. IsList(s1) BY <1>1 DEF SweepsOK
  <2>3. IsList(new) BY <2>1, <2>2, ReplacedIs
  <2>4. Len(new) = Len(s1) BY <2>1, <2>2, <2>3, ListIs
  <2>5. ASSUME NEW n \in DOMAIN s1 PROVE SweepOK(new[n], b) /\ Joined(s1[n], new[n])
    <3>1. new[n] = s1[n] \/ new[n] = [s1[n] EXCEPT !.request = r] BY <1>5
    <3>2. SweepOK(s1[n], b) BY <1>1 DEF SweepsOK
    <3>3. CASE new[n] = s1[n] BY <3>2, <3>3 DEF Joined
    <3>4. CASE new[n] = [s1[n] EXCEPT !.request = r] BY <3>2, <3>4, MarkedSweep
    <3> QED BY <3>1, <3>3, <3>4
  <2>6. ASSUME NEW j, OnMap(s1, j) PROVE OnMap(new, j)
    <3>1. PICK n \in DOMAIN s1 : s1[n].builtMinutes >= MessageAt(j).built /\ SaysPacket(s1[n], j)
      BY <2>6, OnMapIs
    <3>2. SaysPacket(new[n], j) BY <2>5, <3>1, JoinedSays
    <3>3. new[n].builtMinutes >= MessageAt(j).built BY <2>5, <3>1 DEF Joined
    <3> QED BY <2>1, <3>2, <3>3, OnMapIs
  <2> QED BY <2>1, <2>3, <2>4, <2>5, <2>6 DEF SweepsOK
<1> QED BY <1>1, <1>3, <1>4, <1>5

-----------------------------------------------------------------------------
(* Pictures *)

PastTiles(tiles, at) ==
  /\ IsList(tiles)
  /\ \A n \in DOMAIN tiles : /\ IsTile(tiles[n]) /\ tiles[n].tile.zoom >= 0
                             /\ ~IsAhead(tiles[n].taken, at)

\* A picture is held, or is old beside one that is.
Pictured(tiles, i) ==
  \/ HasPicture(tiles, i)
  \/ \E n \in DOMAIN tiles : tiles[n].taken - MessageAt(i).taken > RadarRetention

LEMMA ByPictureIs ==
  ASSUME NEW s, IsList(s), \A n \in DOMAIN s : IsTile(s[n])
  PROVE  /\ IsOrder(DOMAIN s, Sorting(s, ByPicture))
         /\ \A i, j \in DOMAIN s : <<i, j>> \in Sorting(s, ByPicture) => s[j].taken <= s[i].taken
<1> DEFINE r == Sorting(s, ByPicture)
<1>1. \A i, j \in DOMAIN s : <<i, j>> \in r <=> ByPicture(s[i], s[j]) \/ (~ByPicture(s[j], s[i]) /\ i < j)
  BY DEF Sorting
<1>2. \A i \in DOMAIN s : /\ s[i].taken \in Int /\ s[i].receivedAt \in Int /\ s[i].tile.square \in Int
                          /\ i \in Nat
  BY ListIs DEF IsTile
<1> HIDE DEF r
<1>3. \A i \in DOMAIN s : <<i, i>> \notin r BY <1>1, <1>2 DEF ByPicture
<1>4. ASSUME NEW i \in DOMAIN s, NEW j \in DOMAIN s, NEW k \in DOMAIN s, <<i, j>> \in r, <<j, k>> \in r
      PROVE  <<i, k>> \in r
  <2>1. ByPicture(s[i], s[j]) \/ (~ByPicture(s[j], s[i]) /\ i < j) BY <1>1, <1>4
  <2>2. ByPicture(s[j], s[k]) \/ (~ByPicture(s[k], s[j]) /\ j < k) BY <1>1, <1>4
  <2>3. ByPicture(s[i], s[k]) \/ (~ByPicture(s[k], s[i]) /\ i < k) BY <1>2, <2>1, <2>2 DEF ByPicture
  <2> QED BY <1>1, <2>3
<1>5. \A i, j \in DOMAIN s : i # j => <<i, j>> \in r \/ <<j, i>> \in r BY <1>1, <1>2 DEF ByPicture
<1>6. \A i, j \in DOMAIN s : <<i, j>> \in r => s[j].taken <= s[i].taken
  BY <1>1, <1>2 DEF ByPicture
<1>7. IsOrder(DOMAIN s, r) BY <1>3, <1>4, <1>5 DEF IsOrder
<1> QED BY <1>6, <1>7 DEF r

\* A picture goes only when it is old beside one that stays, or for the limit.
LEMMA RetainedTiles ==
  ASSUME NEW s, IsList(s), \A n \in DOMAIN s : IsTile(s[n]), NEW new, new = RetainRadarTiles(s)
  PROVE  /\ IsList(new) /\ Range(new) \subseteq Range(s)
         /\ \A n \in DOMAIN new : new[n].tile.zoom >= 0
         /\ Len(new) # MaxRadarTiles => \A i \in DOMAIN s : s[i].tile.zoom >= 0 =>
              s[i] \in Range(new) \/ \E n \in DOMAIN new : new[n].taken - s[i].taken > RadarRetention
<1> DEFINE r == Sorting(s, ByPicture)
           kept == KeptTiles(s)
           fresh == {i \in kept : \A j \in kept : s[j].taken - s[i].taken <= RadarRetention}
           l == InOrder(s, fresh, r)
<1>1. new = AtMost(l, MaxRadarTiles) BY DEF RetainRadarTiles
<1>2. /\ IsOrder(DOMAIN s, r)
      /\ \A i, j \in DOMAIN s : <<i, j>> \in r => s[j].taken <= s[i].taken
  BY ByPictureIs
<1>3. IsFiniteSet(DOMAIN s) BY ListIs
<1> HIDE DEF r
<1>4. kept \in SUBSET DOMAIN s /\ \A i \in DOMAIN s : i \in kept <=> s[i].tile.zoom >= 0
  BY DEF KeptTiles, IsKeptTile
<1> HIDE DEF kept
<1>5. fresh \in SUBSET DOMAIN s BY <1>4
<1>6. IsList(l) /\ Range(l) = {s[i] : i \in fresh}
  <2>1. IsOrder(fresh, r) BY <1>2, <1>5, OrderOfSome
  <2> HIDE DEF fresh
  <2> QED BY <1>5, <2>1, InOrderIs
<1> HIDE DEF l
<1>7. /\ IsList(new) /\ Range(new) \subseteq Range(l) /\ (Len(new) # MaxRadarTiles => new = l)
  BY <1>1, <1>6, AtMostIs, Constants
<1>8. Range(l) \subseteq Range(s) BY <1>5, <1>6 DEF Range
<1>9. \A n \in DOMAIN new : new[n].tile.zoom >= 0
  <2> SUFFICES ASSUME NEW n \in DOMAIN new PROVE new[n].tile.zoom >= 0 OBVIOUS
  <2>1. new[n] \in Range(l) BY <1>7 DEF Range
  <2>2. PICK i \in fresh : new[n] = s[i] BY <1>6, <2>1
  <2> QED BY <1>4, <2>2
<1>10. ASSUME NEW i \in DOMAIN s, s[i].tile.zoom >= 0, Len(new) # MaxRadarTiles, s[i] \notin Range(new)
       PROVE  \E n \in DOMAIN new : new[n].taken - s[i].taken > RadarRetention
  <2>1. i \in kept BY <1>4, <1>10
  <2>2. i \notin fresh BY <1>6, <1>7, <1>10
  <2>t. RadarRetention \in Nat /\ \A j \in kept : s[j].taken \in Int BY <1>4, Constants DEF IsTile
  <2>3. PICK j \in kept : s[j].taken - s[i].taken > RadarRetention BY <2>1, <2>2, <2>t
  <2>4. PICK x \in kept : \A y \in kept : <<y, x>> \notin r
    <3>1. IsFiniteSet(kept) /\ IsOrder(kept, r) BY <1>2, <1>3, <1>4, FS_Subset, OrderOfSome
    <3> QED BY <2>1, <3>1, FirstIs
  <2>5. \A y \in kept : s[y].taken <= s[x].taken
    <3> SUFFICES ASSUME NEW y \in kept PROVE s[y].taken <= s[x].taken OBVIOUS
    <3>1. y = x \/ <<x, y>> \in r BY <1>2, <1>4, <2>4 DEF IsOrder
    <3> QED BY <1>2, <1>4, <2>t, <3>1
  <2>6. x \in fresh BY <2>5, <2>t
  <2>7. s[x].taken - s[i].taken > RadarRetention BY <2>1, <2>3, <2>5, <2>t
  <2>8. s[x] \in Range(new) BY <1>6, <1>7, <1>10, <2>6
  <2> QED BY <2>7, <2>8 DEF Range
<1> QED BY <1>7, <1>8, <1>9, <1>10

StoredTile(m) == [tile |-> m.tile, taken |-> m.taken, coarse |-> m.coarse, receivedAt |-> now]

TakesTile(T, t, x) ==
  /\ IsList(T) /\ x \in Range(T)
  /\ \A k \in DOMAIN T : T[k] = x \/ T[k] \in Range(t)
  /\ \A n \in DOMAIN t : \E k \in DOMAIN T : /\ T[k].tile = t[n].tile /\ T[k].taken = t[n].taken
                                             /\ T[k].coarse => t[n].coarse

\* A picture joins the pictures, or replaces a coarser one of its own.
LEMMA PlacedTile ==
  ASSUME NEW t, IsList(t), \A n \in DOMAIN t : IsTile(t[n]), NEW x, IsTile(x),
         NEW found, found = {n \in DOMAIN t : t[n].tile = x.tile /\ t[n].taken = x.taken},
         \A n \in found : x.coarse => t[n].coarse,
         NEW T, T = IF found = {} THEN <<x>> \o t ELSE [n \in DOMAIN t |-> IF n \in found THEN x ELSE t[n]]
  PROVE  TakesTile(T, t, x)
<1>1. CASE found = {}
  <2>1. T = <<x>> \o t BY <1>1
  <2>2. IsCons(T, x, t) BY <2>1, ConsIs
  <2>3. Len(t) \in Nat /\ DOMAIN t = 1 .. Len(t) BY ListIs
  <2>4. IsList(T) /\ x \in Range(T)
    <3>1. 1 \in DOMAIN T /\ T[1] = x BY <2>2, <2>3 DEF IsCons
    <3> QED BY <2>2, <3>1 DEF IsCons, Range
  <2>5. \A k \in DOMAIN T : T[k] = x \/ T[k] \in Range(t) BY <2>2 DEF IsCons, Range
  <2>6. \A n \in DOMAIN t : n + 1 \in DOMAIN T /\ T[n + 1] = t[n] BY <2>2 DEF IsCons
  <2> QED BY <2>4, <2>5, <2>6 DEF TakesTile
<1>2. CASE found # {}
  <2>1. T = [n \in DOMAIN t |-> IF n \in found THEN x ELSE t[n]] BY <1>2
  <2>2. DOMAIN T = DOMAIN t /\ T = [n \in DOMAIN t |-> T[n]] BY <2>1
  <2>3. IsList(T) BY <2>2, ReplacedIs
  <2>4. found \subseteq DOMAIN t BY DEF Range
  <2>5. x \in Range(T) BY <1>2, <2>1, <2>2, <2>4 DEF Range
  <2>6. \A k \in DOMAIN T : T[k] = x \/ T[k] \in Range(t) BY <2>1, <2>2 DEF Range
  <2>7. ASSUME NEW n \in DOMAIN t
        PROVE  T[n].tile = t[n].tile /\ T[n].taken = t[n].taken /\ (T[n].coarse => t[n].coarse)
    BY <2>1
  <2> QED BY <2>2, <2>3, <2>5, <2>6, <2>7 DEF TakesTile
<1> QED BY <1>1, <1>2

\* What one packet makes of the pictures.
LEMMA TilesFollow ==
  ASSUME AirOK, NEW i \in DOMAIN air, NEW old, DOMAIN old = Fields, PastTiles(old.radarTiles, now),
         NEW heard, IF IsAhead(MessageMinutes(MessageAt(i)), now) THEN Agree(old, heard)
                    ELSE Stores(old, heard, MessageAt(i), now),
         NEW pending_, NEW settled, NEW marked, IsMarked(heard, marked, MessageAt(i), pending_, settled),
         NEW new, new = Trim(marked, now).radarTiles
  PROVE  /\ PastTiles(new, now)
         /\ Len(new) # MaxRadarTiles =>
              /\ \A j \in DOMAIN air : MessageAt(j).type = "radar" /\ Pictured(old.radarTiles, j) => Pictured(new, j)
              /\ ~IsAhead(MessageMinutes(MessageAt(i)), now) /\ MessageAt(i).type = "radar" => Pictured(new, i)
<1> DEFINE m == MessageAt(i)
           t == old.radarTiles
<1>1. new = heard.radarTiles
  <2>1. DOMAIN marked = Fields /\ marked.radarTiles = heard.radarTiles BY DEF IsMarked
  <2> QED BY <2>1, TrimIs
<1>2. CASE IsAhead(MessageMinutes(m), now)
  <2>1. new = t BY <1>1, <1>2, AgreeIs
  <2> QED BY <1>2, <2>1
<1>3. CASE ~IsAhead(MessageMinutes(m), now) /\ m.type # "radar"
  <2>1. new = t BY <1>1, <1>3 DEF Stores
  <2> QED BY <1>3, <2>1
<1>4. CASE ~IsAhead(MessageMinutes(m), now) /\ m.type = "radar"
  <2> DEFINE x == StoredTile(m)
             found == {n \in DOMAIN t : t[n].tile = m.tile /\ t[n].taken = m.taken}
             T == IF found = {} THEN <<x>> \o t ELSE [n \in DOMAIN t |-> IF n \in found THEN x ELSE t[n]]
  <2>0. /\ m.taken \in Int /\ m.tile.square \in Int /\ m.tile.zoom \in Nat /\ m.coarse \in BOOLEAN
        /\ now \in Int /\ ~IsAhead(m.taken, now)
    BY <1>4, SentIs DEF AirOK, TypedMessage, MessageMinutes
  <2>1. new = StoreRadar(old, m, now).radarTiles BY <1>1, <1>4 DEF Stores
  <2>2. CASE \E n \in found : IsCoarserOf(t[n], m)
    <3>1. new = t BY <2>1, <2>2 DEF StoreRadar
    <3>2. HasPicture(t, i) BY <2>2 DEF IsCoarserOf, HasPicture
    <3> QED BY <3>1, <3>2 DEF Pictured
  <2>3. CASE ~\E n \in found : IsCoarserOf(t[n], m)
    <3>1. new = RetainRadarTiles(T)
      <4>1. "radarTiles" \in Fields BY DEF Fields
      <4> QED BY <2>1, <2>3, <4>1 DEF StoreRadar, StoredTile
    <3>2. IsTile(x) /\ x.tile = m.tile /\ x.taken = m.taken /\ x.coarse = m.coarse BY <2>0 DEF StoredTile, IsTile
    <3>3. IsList(t) /\ \A n \in DOMAIN t : IsTile(t[n]) BY DEF PastTiles
    <3>4. \A n \in found : x.coarse => t[n].coarse BY <2>3, <3>2 DEF IsCoarserOf
    <3>5. found = {n \in DOMAIN t : t[n].tile = x.tile /\ t[n].taken = x.taken} BY <3>2
    <3> HIDE DEF x, found
    <3>6. /\ IsList(T) /\ x \in Range(T)
          /\ \A k \in DOMAIN T : T[k] = x \/ T[k] \in Range(t)
          /\ \A n \in DOMAIN t : \E k \in DOMAIN T : /\ T[k].tile = t[n].tile /\ T[k].taken = t[n].taken
                                                     /\ T[k].coarse => t[n].coarse
      <4>1. TakesTile(T, t, x) BY <3>2, <3>3, <3>4, <3>5, PlacedTile
      <4> QED BY <4>1 DEF TakesTile
    <3> HIDE DEF T
    <3>7. \A k \in DOMAIN T : IsTile(T[k]) /\ T[k].tile.zoom >= 0 /\ ~IsAhead(T[k].taken, now)
      <4> SUFFICES ASSUME NEW k \in DOMAIN T PROVE IsTile(T[k]) /\ T[k].tile.zoom >= 0 /\ ~IsAhead(T[k].taken, now)
        OBVIOUS
      <4>1. CASE T[k] = x BY <2>0, <3>2, <4>1
      <4>2. CASE T[k] \in Range(t) BY <4>2 DEF PastTiles, Range
      <4> QED BY <3>6, <4>1, <4>2
    <3>8. /\ IsList(new) /\ Range(new) \subseteq Range(T)
          /\ Len(new) # MaxRadarTiles => \A k \in DOMAIN T : T[k].tile.zoom >= 0 =>
               T[k] \in Range(new) \/ \E n \in DOMAIN new : new[n].taken - T[k].taken > RadarRetention
      BY <3>1, <3>6, <3>7, RetainedTiles
    <3>9. PastTiles(new, now)
      <4>1. \A n \in DOMAIN new : \E k \in DOMAIN T : new[n] = T[k] BY <3>8 DEF Range
      <4> QED BY <3>7, <3>8, <4>1 DEF PastTiles
    <3>10. ASSUME Len(new) # MaxRadarTiles, NEW j, NEW k \in DOMAIN T, T[k].tile = MessageAt(j).tile,
                  T[k].taken = MessageAt(j).taken, T[k].coarse => MessageAt(j).coarse
           PROVE  Pictured(new, j)
      <4>1. CASE T[k] \in Range(new)
        <5>1. PICK n \in DOMAIN new : new[n] = T[k] BY <4>1 DEF Range
        <5> QED BY <3>10, <5>1 DEF Pictured, HasPicture
      <4>2. CASE \E n \in DOMAIN new : new[n].taken - T[k].taken > RadarRetention
        BY <3>10, <4>2 DEF Pictured
      <4> QED BY <3>7, <3>8, <3>10, <4>1, <4>2
    <3>11. ASSUME Len(new) # MaxRadarTiles PROVE Pictured(new, i)
      <4>1. PICK k \in DOMAIN T : T[k] = x BY <3>6 DEF Range
      <4> QED BY <3>2, <3>10, <3>11, <4>1
    <3>12. ASSUME Len(new) # MaxRadarTiles, NEW j \in DOMAIN air, MessageAt(j).type = "radar", Pictured(t, j)
           PROVE  Pictured(new, j)
      <4>1. CASE HasPicture(t, j)
        <5>1. PICK n \in DOMAIN t : /\ t[n].tile = MessageAt(j).tile /\ t[n].taken = MessageAt(j).taken
                                    /\ t[n].coarse => MessageAt(j).coarse
          BY <4>1 DEF HasPicture
        <5>2. PICK k \in DOMAIN T : /\ T[k].tile = t[n].tile /\ T[k].taken = t[n].taken
                                    /\ T[k].coarse => t[n].coarse
          BY <3>6
        <5> QED BY <3>10, <3>12, <5>1, <5>2
      <4>2. CASE \E n \in DOMAIN t : t[n].taken - MessageAt(j).taken > RadarRetention
        <5>1. PICK n \in DOMAIN t : t[n].taken - MessageAt(j).taken > RadarRetention BY <4>2
        <5>2. PICK k \in DOMAIN T : T[k].taken = t[n].taken BY <3>6
        <5>3. CASE T[k] \in Range(new)
          <6>1. PICK l \in DOMAIN new : new[l] = T[k] BY <5>3 DEF Range
          <6> QED BY <5>1, <5>2, <6>1 DEF Pictured
        <5>4. CASE \E l \in DOMAIN new : new[l].taken - T[k].taken > RadarRetention
          <6>1. PICK l \in DOMAIN new : new[l].taken - T[k].taken > RadarRetention BY <5>4
          <6>2. new[l].taken \in Int /\ T[k].taken \in Int BY <3>7, <3>9 DEF PastTiles, IsTile
          <6>3. MessageAt(j).taken \in Int BY <3>12, SentIs DEF TypedMessage
          <6>4. RadarRetention \in Nat BY Constants
          <6>5. new[l].taken - MessageAt(j).taken > RadarRetention BY <5>1, <5>2, <6>1, <6>2, <6>3, <6>4
          <6> QED BY <6>5 DEF Pictured
        <5> QED BY <3>7, <3>8, <3>12, <5>3, <5>4
      <4> QED BY <3>12, <4>1, <4>2 DEF Pictured
    <3> QED BY <3>9, <3>11, <3>12
  <2> QED BY <2>2, <2>3
<1> QED BY <1>2, <1>3, <1>4

-----------------------------------------------------------------------------
(* The packets on the air *)

\* Packets go out in the order of time and of the bot's numbers, and fewer within a
\* minute than there are numbers.
Since(k) == {l \in DOMAIN air : air[l].bot = air[k].bot /\ k <= l}
Wrapped(n) == IF n < SeqModulus THEN n ELSE n - SeqModulus
NumbersOK ==
  /\ built \in Nat
  /\ DOMAIN nextSeq = BotsOf(script) /\ \A b \in BotsOf(script) : nextSeq[b] \in 0 .. SeqModulus - 1
  /\ \A k \in DOMAIN air : air[k].packet.seq \in 0 .. SeqModulus - 1
  /\ \A k, l \in DOMAIN air : k <= l => air[k].at <= air[l].at
  /\ SentThisTick <= PacketsPerTick
  /\ \A k \in DOMAIN air : air[k].at = now =>
       nextSeq[air[k].bot] = Wrapped(air[k].packet.seq + Cardinality(Since(k)))

\* The number that a map's group is went out after the map was built.
FirstsSent ==
  \A i \in DOMAIN air : MessageAt(i).type = "area_sweep" =>
    \E f \in DOMAIN air : /\ air[f].bot = air[i].bot /\ air[f].packet.seq = MessageAt(i).group
                          /\ MessageAt(i).built <= air[f].at

\* A map that is still to go out whole, and one of which packets have gone out.
IsLeft(m) == IsDated(m) /\ (m.type = "area_sweep" /\ "group" \notin DOMAIN m => "built" \in DOMAIN m)
IsFresh(m) ==
  /\ StartTime <= m.built /\ m.built <= now /\ outgoing.left[1].idx = 0
  /\ \A q \in Range(outgoing.left) : /\ q.type = "area_sweep" /\ q.entries = m.entries /\ q.built = m.built
                                     /\ "group" \notin DOMAIN q
  /\ \A k \in DOMAIN air : air[k].bot = outgoing.bot /\ m.built <= air[k].at
                             => air[k].packet.seq # nextSeq[outgoing.bot]
GoesOn(m) ==
  \E j \in DOMAIN air : /\ IsSweepOf(j, outgoing.bot) /\ MessageAt(j).entries = m.entries
                        /\ MessageAt(j).built = m.built
                        /\ MessageAt(j).group = IF "group" \in DOMAIN m THEN m.group ELSE outgoing.group
OutgoingOK ==
  /\ DOMAIN outgoing = {"bot", "group", "left"} /\ IsList(outgoing.left)
  /\ outgoing.left # <<>> =>
       /\ outgoing.bot \in BotsOf(script) /\ outgoing.group \in Nat \union {Never}
       /\ \A m \in Range(outgoing.left) :
            /\ IsLeft(m)
            /\ m.type = "area_sweep" => IF outgoing.group = Never THEN IsFresh(m) ELSE GoesOn(m)

AirInv == MapsOK /\ NumbersOK /\ FirstsSent /\ OutgoingOK

LEMMA NextNumber ==
  ASSUME NEW n \in Nat \ {0}, NEW x \in 0 .. n - 1
  PROVE  (x + 1) % n = IF x + 1 = n THEN 0 ELSE x + 1
OBVIOUS

GrownBy(new, old, x) ==
  /\ IsList(new) /\ Len(old) + 1 \notin DOMAIN old /\ DOMAIN new = DOMAIN old \union {Len(old) + 1}
  /\ \A k \in DOMAIN old : new[k] = old[k] /\ k <= Len(old) + 1
  /\ new[Len(old) + 1] = x /\ Len(old) + 1 \in Nat

LEMMA AppendIs ==
  ASSUME NEW s, IsList(s), NEW x
  PROVE  GrownBy(Append(s, x), s, x)
<1> DEFINE t == Append(s, x)
<1>1. Len(s) \in Nat /\ DOMAIN s = 1 .. Len(s) /\ s \in Seq(Range(s) \union {x})
  <2>1. Len(s) \in Nat /\ DOMAIN s = 1 .. Len(s) /\ s = [n \in 1 .. Len(s) |-> s[n]] BY ListIs
  <2>2. s \in [1 .. Len(s) -> Range(s) \union {x}] BY <2>1 DEF Range
  <2> QED BY <2>1, <2>2
<1>2. t \in Seq(Range(s) \union {x}) /\ Len(t) = Len(s) + 1 /\ t[Len(s) + 1] = x
      /\ \A k \in 1 .. Len(s) : t[k] = s[k]
  BY <1>1
<1>3. t = [n \in 1 .. Len(s) + 1 |-> t[n]] /\ Len(s) + 1 \in Nat
  <2> HIDE DEF t
  <2>1. t = [n \in 1 .. Len(t) |-> t[n]] BY <1>2
  <2> QED BY <1>1, <1>2, <2>1
<1> HIDE DEF t
<1>4. IsList(t) /\ DOMAIN t = 1 .. Len(s) + 1 BY <1>3, IsAList
<1>5. 1 .. Len(s) + 1 = (1 .. Len(s)) \union {Len(s) + 1} BY <1>1
<1>6. Len(s) + 1 \notin 1 .. Len(s) /\ \A k \in 1 .. Len(s) : k <= Len(s) + 1 BY <1>1
<1>7. GrownBy(t, s, x) BY <1>1, <1>2, <1>3, <1>4, <1>5, <1>6 DEF GrownBy
<1> QED BY <1>7 DEF t

LEMMA SentNow ==
  ASSUME AirOK
  PROVE  /\ IsFiniteSet(DOMAIN air) /\ DOMAIN air \subseteq Nat
         /\ \A S \in SUBSET DOMAIN air : IsFiniteSet(S) /\ Cardinality(S) \in Nat
<1>1. IsFiniteSet(DOMAIN air) /\ DOMAIN air \subseteq Nat BY ListIs DEF AirOK
<1> QED BY <1>1, FS_Subset, FS_CardinalityType

\* A number does not come round within the minute.
LEMMA NewNumber ==
  ASSUME AirOK, NumbersOK, NEW k \in DOMAIN air, now <= air[k].at
  PROVE  air[k].packet.seq # nextSeq[air[k].bot]
<1> DEFINE n == Cardinality(Since(k))
           S == {i \in DOMAIN air : air[i].at = now}
<1>1. now \in Int /\ \A i \in DOMAIN air : air[i].at \in Int /\ air[i].at <= now BY DEF AirOK
<1>2. air[k].at = now BY <1>1
<1>3. k \in Since(k) /\ Since(k) \in SUBSET DOMAIN air BY SentNow DEF Since
<1>4. Since(k) \subseteq S
  <2> SUFFICES ASSUME NEW l \in Since(k) PROVE air[l].at = now BY <1>3
  <2>1. l \in DOMAIN air /\ k <= l BY DEF Since
  <2>2. air[k].at <= air[l].at BY <2>1 DEF NumbersOK
  <2> QED BY <1>1, <1>2, <2>1, <2>2
<1>5. IsFiniteSet(S) /\ Cardinality(S) \in Nat /\ IsFiniteSet(Since(k)) /\ n \in Nat
  <2>1. S \in SUBSET DOMAIN air OBVIOUS
  <2> QED BY <1>3, <2>1, SentNow
<1>6. n <= Cardinality(S) BY <1>4, <1>5, FS_Subset
<1>7. Cardinality(S) <= PacketsPerTick BY DEF NumbersOK, SentThisTick
<1>8. n # 0 BY <1>3, <1>5, FS_EmptySet
<1> DEFINE q == air[k].packet.seq
<1>9. q \in 0 .. SeqModulus - 1 BY DEF NumbersOK
<1>10. nextSeq[air[k].bot] = Wrapped(q + n)
  BY <1>2 DEF NumbersOK
<1> HIDE DEF n, S, q
<1>11. q # nextSeq[air[k].bot] BY <1>5, <1>6, <1>7, <1>8, <1>9, <1>10, Constants DEF Wrapped
<1> QED BY <1>11 DEF q

\* What is neither sent nor built leaves the air as it is.
LEMMA AirStays ==
  ASSUME AirInv, UNCHANGED <<now, script, botVars>>
  PROVE  AirInv'
<1>1. /\ now' = now /\ script' = script /\ built' = built /\ outgoing' = outgoing
      /\ nextSeq' = nextSeq /\ air' = air
  BY DEF botVars
<1>2. MapsOK'
  BY <1>1 DEF AirInv, MapsOK, AirOK, SweepsSent, GroupsTell, IsSweepOf, MessageAt, IsMessage, IsDated, MessageMinutes
<1>3. NumbersOK' BY <1>1 DEF AirInv, NumbersOK, Since, SentThisTick
<1>4. FirstsSent' BY <1>1 DEF AirInv, FirstsSent, MessageAt
<1>5. OutgoingOK' BY <1>1 DEF AirInv, OutgoingOK, IsLeft, IsDated, IsFresh, GoesOn, IsSweepOf, MessageAt
<1> QED BY <1>2, <1>3, <1>4, <1>5 DEF AirInv

LEMMA AirTicks ==
  ASSUME AirInv, Tick
  PROVE  AirInv'
<1>1. /\ now' = now + 1 /\ script' = script /\ built' = built /\ outgoing' = outgoing
      /\ nextSeq' = nextSeq /\ air' = air /\ now \in Int /\ StartTime \in Int
  BY Constants DEF Tick, botVars, AirInv, MapsOK, AirOK
<1>2. AirOK'
  <2>1. \A i \in DOMAIN air : air[i].at \in Int /\ air[i].at <= now BY DEF AirInv, MapsOK, AirOK
  <2>2. \A i \in DOMAIN air : air[i].at <= now + 1 BY <1>1, <2>1
  <2>3. \A m : IsMessage(m)' <=> IsMessage(m) BY <1>1 DEF IsMessage, IsDated
  <2>4. StartTime <= now + 1 /\ now + 1 \in Int BY <1>1 DEF AirInv, MapsOK, AirOK
  <2> QED BY <1>1, <2>2, <2>3, <2>4 DEF AirInv, MapsOK, AirOK, MessageAt
<1>3. SweepsSent' /\ GroupsTell' BY <1>1 DEF AirInv, MapsOK, SweepsSent, GroupsTell, IsSweepOf, MessageAt
<1>4. NumbersOK'
  <2>1. \A k \in DOMAIN air : air'[k].at # now'
    <3>1. \A i \in DOMAIN air : air[i].at \in Int /\ air[i].at <= now BY DEF AirInv, MapsOK, AirOK
    <3> QED BY <1>1, <3>1
  <2>2. {i \in DOMAIN air' : air'[i].at = now'} = {} BY <1>1, <2>1
  <2>3. SentThisTick' = 0 BY <2>2, FS_EmptySet DEF SentThisTick
  <2>4. SentThisTick' <= PacketsPerTick BY <2>3, Constants
  <2> QED BY <1>1, <2>1, <2>4 DEF AirInv, NumbersOK
<1>5. FirstsSent' BY <1>1 DEF AirInv, FirstsSent, MessageAt
<1>6. OutgoingOK'
  <2>1. \A m : IsLeft(m) => IsLeft(m)' BY <1>1 DEF IsLeft, IsDated
  <2>2. \A m : GoesOn(m) => GoesOn(m)' BY <1>1 DEF GoesOn, IsSweepOf, MessageAt
  <2>3. ASSUME NEW m \in Range(outgoing.left), IsLeft(m), m.type = "area_sweep", IsFresh(m) PROVE IsFresh(m)'
    <3>1. "group" \notin DOMAIN m BY <2>3 DEF IsFresh
    <3>2. m.built \in Int BY <2>3 DEF IsLeft, IsDated, MessageMinutes
    <3>3. m.built <= now + 1 BY <1>1, <2>3, <3>2 DEF IsFresh
    <3> QED BY <1>1, <2>3, <3>3 DEF IsFresh
  <2> QED BY <1>1, <2>1, <2>2, <2>3 DEF AirInv, OutgoingOK
<1> QED BY <1>2, <1>3, <1>4, <1>5, <1>6 DEF AirInv, MapsOK

IsTagged(m, p, f, v) == DOMAIN m = DOMAIN p \union {f} /\ m[f] = v /\ Carries(m, p)

LEMMA TaggedIs ==
  ASSUME NEW p, NEW f, f \notin DOMAIN p, NEW v
  PROVE  IsTagged(Put(p, f, v), p, f, v)
<1> DEFINE m == Put(p, f, v)
<1>1. DOMAIN m = DOMAIN p \union {f} /\ m[f] = v /\ \A g \in DOMAIN p : g # f => m[g] = p[g] BY DEF Put
<1> HIDE DEF m
<1>2. IsTagged(m, p, f, v) BY <1>1 DEF IsTagged, Carries
<1> QED BY <1>2 DEF m

\* A message is dated when it is built.
LEMMA DatedIs ==
  ASSUME now \in Int, NEW p \in Said(script), IsSaid(p), NEW m, m = Dated(p)
  PROVE  /\ IsLeft(m) /\ m.type = p.type /\ "group" \notin DOMAIN m
         /\ m.type = "area_sweep" => m.built = now /\ m.entries = p.entries /\ m.idx = p.idx
<1>1. /\ p.type \in DOMAIN FieldsOf /\ DOMAIN p = FieldsOf[p.type] \union {"type"}
      /\ "age" \in DOMAIN p => p.age \in Int
  BY DEF IsSaid
<1>2. DOMAIN FieldsOf = {"observations", "forecast", "area_sweep", "radar", "text", "coverage", "not_available"}
  BY DEF FieldsOf
<1>4. CASE p.type = "observations"
  <2>1. DOMAIN p = {"stations", "age", "type"} BY <1>1, <1>4 DEF FieldsOf
  <2>2. m = Put(p, "ts", now - p.age) BY <1>4 DEF Dated
  <2>t. IsTagged(m, p, "ts", now - p.age) BY <2>1, <2>2, TaggedIs
  <2>3. DOMAIN m = {"stations", "age", "type", "ts"} /\ m.ts = now - p.age /\ Carries(m, p) /\ m.type = p.type
    BY <2>t, <2>1 DEF IsTagged, Carries
  <2>4. MessageMinutes(m) \in Int BY <1>1, <1>4, <2>1, <2>3 DEF MessageMinutes
  <2> QED BY <1>4, <2>3, <2>4 DEF IsLeft, IsDated
<1>5. CASE p.type = "forecast"
  <2>1. DOMAIN p = {"point", "of", "age", "type"} BY <1>1, <1>5 DEF FieldsOf
  <2>2. m = Put(p, "issued", now - p.age) BY <1>5 DEF Dated
  <2>t. IsTagged(m, p, "issued", now - p.age) BY <2>1, <2>2, TaggedIs
  <2>3. DOMAIN m = {"point", "of", "age", "type", "issued"} /\ m.issued = now - p.age /\ Carries(m, p) /\ m.type = p.type
    BY <2>t, <2>1 DEF IsTagged, Carries
  <2>4. MessageMinutes(m) \in Int BY <1>1, <1>5, <2>1, <2>3 DEF MessageMinutes
  <2> QED BY <1>5, <2>3, <2>4 DEF IsLeft, IsDated
<1>6. CASE p.type = "area_sweep"
  <2>1. DOMAIN p = {"idx", "total", "scoped", "scope", "cut", "advisories", "entries", "type"}
    BY <1>1, <1>6 DEF FieldsOf
  <2>2. m = Put(p, "built", now) BY <1>6 DEF Dated
  <2>t. IsTagged(m, p, "built", now) BY <2>1, <2>2, TaggedIs
  <2>3. /\ DOMAIN m = {"idx", "total", "scoped", "scope", "cut", "advisories", "entries", "type", "built"}
        /\ m.built = now /\ Carries(m, p) /\ m.type = p.type /\ m.entries = p.entries /\ m.idx = p.idx
    BY <2>t, <2>1 DEF IsTagged, Carries
  <2>4. MessageMinutes(m) \in Int BY <1>6, <2>3 DEF MessageMinutes
  <2> QED BY <2>3, <2>4 DEF IsLeft, IsDated
<1>7. CASE p.type = "radar"
  <2>1. DOMAIN p = {"tile", "age", "coarse", "type"} BY <1>1, <1>7 DEF FieldsOf
  <2>2. m = Put(p, "taken", now - p.age) BY <1>7 DEF Dated
  <2>t. IsTagged(m, p, "taken", now - p.age) BY <2>1, <2>2, TaggedIs
  <2>3. DOMAIN m = {"tile", "age", "coarse", "type", "taken"} /\ m.taken = now - p.age /\ Carries(m, p) /\ m.type = p.type
    BY <2>t, <2>1 DEF IsTagged, Carries
  <2>4. MessageMinutes(m) \in Int BY <1>1, <1>7, <2>1, <2>3 DEF MessageMinutes
  <2> QED BY <1>7, <2>3, <2>4 DEF IsLeft, IsDated
<1>8. CASE p.type \in {"text", "coverage", "not_available"}
  <2>1. m = p BY <1>8 DEF Dated
  <2>2. "group" \notin DOMAIN p BY <1>1, <1>8 DEF FieldsOf
  <2>3. MessageMinutes(m) \in Int BY <1>8, <2>1 DEF MessageMinutes, Never
  <2> QED BY <1>8, <2>1, <2>2, <2>3 DEF IsLeft, IsDated, Carries
<1> QED BY <1>1, <1>2, <1>4, <1>5, <1>6, <1>7, <1>8

LEMMA AirBuilds ==
  ASSUME AirInv, Build
  PROVE  AirInv'
<1> DEFINE answer == script[built + 1]
           left == [i \in DOMAIN answer.packets |-> Dated(answer.packets[i])]
<1>1. /\ now' = now /\ script' = script /\ nextSeq' = nextSeq /\ air' = air /\ built' = built + 1
      /\ outgoing' = [bot |-> answer.bot, group |-> Never, left |-> left]
      /\ built \in Nat /\ built < Len(script) /\ now \in Int
  BY DEF Build, AirInv, MapsOK, AirOK, NumbersOK
<1>2. built + 1 \in DOMAIN script /\ IsScript(script)
  <2>1. IsScript(script) BY DEF AirInv, MapsOK, AirOK
  <2>2. Len(script) \in Nat /\ DOMAIN script = 1 .. Len(script) BY <2>1, ListIs DEF IsScript
  <2> QED BY <1>1, <2>1, <2>2
<1>3. MapsOK'
  BY <1>1 DEF AirInv, MapsOK, AirOK, SweepsSent, GroupsTell, IsSweepOf, MessageAt, IsMessage, IsDated, MessageMinutes
<1>4. NumbersOK' BY <1>1 DEF AirInv, NumbersOK, Since, SentThisTick
<1>5. FirstsSent' BY <1>1 DEF AirInv, FirstsSent, MessageAt
<1>6. OutgoingOK'
  <2>1. IsList(answer.packets) /\ \A p \in Range(answer.packets) : IsSaid(p) /\ p \in Said(script)
    BY <1>2 DEF IsScript, Said
  <2>2. IsList(left)
    <3>1. DOMAIN left = DOMAIN answer.packets /\ left = [n \in DOMAIN answer.packets |-> left[n]] OBVIOUS
    <3> HIDE DEF left
    <3> QED BY <2>1, <3>1, ReplacedIs
  <2>3. \A q \in Range(left) : \E p \in Range(answer.packets) : q = Dated(p) BY DEF Range
  <2>4. \A p \in Range(answer.packets) :
          /\ IsLeft(Dated(p)) /\ Dated(p).type = p.type /\ "group" \notin DOMAIN Dated(p)
          /\ Dated(p).type = "area_sweep" =>
               Dated(p).built = now /\ Dated(p).entries = p.entries /\ Dated(p).idx = p.idx
    BY <1>1, <2>1, DatedIs
  <2>5. answer.bot \in BotsOf(script) BY <1>2 DEF BotsOf
  <2>6. ASSUME NEW m \in Range(left), m.type = "area_sweep"
        PROVE  /\ m.built = now /\ left[1].idx = 0
               /\ \A q \in Range(left) : /\ q.type = "area_sweep" /\ q.entries = m.entries /\ q.built = m.built
                                         /\ "group" \notin DOMAIN q
    <3>1. PICK p \in Range(answer.packets) : m = Dated(p) BY <2>3
    <3>2. p.type = "area_sweep" BY <2>4, <2>6, <3>1
    <3>3. \A q \in Range(answer.packets) :
            q.type = "area_sweep" /\ q.entries = p.entries /\ answer.packets[1].idx = 0
      BY <1>2, <3>2 DEF IsScript
    <3>4. 1 \in DOMAIN answer.packets
      <4>1. PICK k \in DOMAIN answer.packets : p = answer.packets[k] BY DEF Range
      <4> QED BY <2>1, <4>1, ListIs
    <3>5. answer.packets[1] \in Range(answer.packets) /\ left[1] = Dated(answer.packets[1]) BY <3>4 DEF Range
    <3>6. left[1].idx = 0 BY <2>4, <3>3, <3>5
    <3>7. m.built = now /\ m.entries = p.entries BY <2>4, <3>1, <3>2
    <3> HIDE DEF left
    <3>8. ASSUME NEW q \in Range(left)
          PROVE  q.type = "area_sweep" /\ q.entries = m.entries /\ q.built = m.built /\ "group" \notin DOMAIN q
      <4>1. PICK r \in Range(answer.packets) : q = Dated(r) BY <2>3
      <4> QED BY <2>4, <3>3, <3>7, <4>1
    <3> QED BY <3>6, <3>7, <3>8
  <2>7. /\ outgoing'.left = left /\ outgoing'.bot = answer.bot /\ outgoing'.group = Never BY <1>1
  <2>8. \A m : IsLeft(m)' <=> IsLeft(m) BY <1>1 DEF IsLeft, IsDated
  <2> HIDE DEF left
  <2>9. ASSUME NEW m \in Range(left), m.type = "area_sweep" PROVE IsFresh(m)'
    <3>1. StartTime <= now BY DEF AirInv, MapsOK, AirOK
    <3>2. /\ m.built = now /\ left[1].idx = 0
          /\ \A q \in Range(left) : /\ q.type = "area_sweep" /\ q.entries = m.entries /\ q.built = m.built
                                    /\ "group" \notin DOMAIN q
      BY <2>6, <2>9
    <3>3. \A k \in DOMAIN air : now <= air[k].at => air[k].packet.seq # nextSeq[air[k].bot]
      BY NewNumber DEF AirInv, MapsOK
    <3> QED BY <1>1, <2>7, <3>1, <3>2, <3>3 DEF IsFresh
  <2>10. \A m \in Range(left) : IsLeft(m)' BY <2>3, <2>4, <2>8
  <2> QED BY <1>1, <2>2, <2>5, <2>7, <2>9, <2>10 DEF OutgoingOK
<1> QED BY <1>3, <1>4, <1>5, <1>6 DEF AirInv

-----------------------------------------------------------------------------
(* A packet goes out *)

GroupNow == IF outgoing.group = Never THEN nextSeq[outgoing.bot] ELSE outgoing.group
GroupOf(h) == IF "group" \in DOMAIN h THEN h.group ELSE GroupNow
Going(h) == IF h.type \in Multi /\ "group" \notin DOMAIN h THEN Put(h, "group", GroupNow) ELSE h
Sent(m) == [bot |-> outgoing.bot, packet |-> [seq |-> nextSeq[outgoing.bot], message |-> m], at |-> now]

LEMMA GoingIs ==
  ASSUME IsScript(script), NEW h, IsLeft(h), GroupNow \in Nat, NEW m, m = Going(h)
  PROVE  /\ IsMessage(m) /\ m.type = h.type
         /\ m.type = "area_sweep" =>
              m.built = h.built /\ m.entries = h.entries /\ m.idx = h.idx /\ m.group = GroupOf(h)
<1>1. PICK p \in Said(script) : Carries(h, p) BY DEF IsLeft, IsDated
<1>2. /\ IsSaid(p) /\ "type" \in DOMAIN p /\ "type" \in DOMAIN h /\ h.type = p.type
      /\ p.type = "area_sweep" => {"entries", "idx"} \subseteq DOMAIN h
  <2>1. IsSaid(p) BY SaidIs
  <2>2. p.type = "area_sweep" => {"entries", "idx"} \subseteq DOMAIN p BY <2>1 DEF IsSaid, FieldsOf
  <2> QED BY <1>1, <2>1, <2>2 DEF Carries, IsSaid
<1>3. CASE h.type \in Multi /\ "group" \notin DOMAIN h
  <2>1. IsTagged(m, h, "group", GroupNow) BY <1>3, TaggedIs DEF Going
  <2>2. /\ DOMAIN m = DOMAIN h \union {"group"} /\ m.group = GroupNow
        /\ \A f \in DOMAIN h : m[f] = h[f]
    BY <2>1 DEF IsTagged, Carries
  <2>3. m.type = h.type BY <1>2, <2>2
  <2>4. Carries(m, p) BY <1>1, <2>2 DEF Carries
  <2>5. MessageMinutes(m) = MessageMinutes(h)
    <3>1. CASE h.type = "text" BY <2>3, <3>1 DEF MessageMinutes
    <3>2. CASE h.type = "area_sweep"
      <4>1. m.built = h.built BY <1>3, <2>2, <3>2 DEF IsLeft
      <4> QED BY <2>3, <3>2, <4>1 DEF MessageMinutes
    <3> QED BY <1>3, <3>1, <3>2 DEF Multi
  <2>6. IsMessage(m) BY <2>2, <2>4, <2>5 DEF IsMessage, IsDated, IsLeft
  <2>7. m.type = "area_sweep" =>
          m.built = h.built /\ m.entries = h.entries /\ m.idx = h.idx /\ m.group = GroupOf(h)
    BY <1>2, <1>3, <2>2, <2>3 DEF IsLeft, GroupOf
  <2> QED BY <2>3, <2>6, <2>7
<1>4. CASE ~(h.type \in Multi /\ "group" \notin DOMAIN h)
  <2>1. m = h BY <1>4 DEF Going
  <2>2. m.type = "area_sweep" => "group" \in DOMAIN h BY <1>4, <2>1 DEF Multi
  <2> QED BY <1>4, <2>1, <2>2 DEF IsMessage, IsLeft, GroupOf
<1> QED BY <1>3, <1>4

\* What a step of the bot's sender does.
IsSend(h, m, n) ==
  /\ h \in Range(outgoing.left) /\ h = outgoing.left[1] /\ m = Going(h) /\ n = Len(air) + 1
  /\ outgoing.left # <<>> /\ outgoing.bot \in BotsOf(script) /\ GroupNow \in Nat
  /\ GrownBy(air', air, Sent(m))
  /\ nextSeq' = [nextSeq EXCEPT ![outgoing.bot] = (nextSeq[outgoing.bot] + 1) % SeqModulus]
  /\ now' = now /\ script' = script /\ built' = built /\ SentThisTick < PacketsPerTick
  /\ outgoing'.bot = outgoing.bot /\ outgoing'.group = GroupNow /\ IsList(outgoing'.left)
  /\ Range(outgoing'.left) \subseteq Range(outgoing.left)
  /\ IsMessage(m) /\ m.type = h.type
  /\ m.type = "area_sweep" =>
       m.built = h.built /\ m.entries = h.entries /\ m.idx = h.idx /\ m.group = GroupOf(h)

LEMMA SendIs ==
  ASSUME AirInv, Send
  PROVE  \E h, m, n : IsSend(h, m, n)
<1> DEFINE h == Head(outgoing.left)
           m == Going(h)
<1>1. /\ now' = now /\ script' = script /\ built' = built /\ outgoing.left # <<>>
      /\ SentThisTick < PacketsPerTick /\ air' = Append(air, Sent(m))
      /\ outgoing' = [outgoing EXCEPT !.group = GroupNow, !.left = Tail(outgoing.left)]
      /\ nextSeq' = [nextSeq EXCEPT ![outgoing.bot] = (nextSeq[outgoing.bot] + 1) % SeqModulus]
  BY DEF Send, Going, Sent, GroupNow
<1>2. /\ IsList(outgoing.left) /\ outgoing.bot \in BotsOf(script) /\ outgoing.group \in Nat \union {Never}
      /\ \A q \in Range(outgoing.left) : IsLeft(q)
  BY <1>1 DEF AirInv, OutgoingOK
<1>3. GroupNow \in Nat BY <1>2, Constants DEF GroupNow, AirInv, NumbersOK
<1>4. h = outgoing.left[1] /\ h \in Range(outgoing.left)
  <2>1. 1 \in DOMAIN outgoing.left BY <1>1, <1>2 DEF IsList
  <2> QED BY <1>1, <1>2, <2>1 DEF IsList, Range
<1>5. IsList(Tail(outgoing.left)) /\ Range(Tail(outgoing.left)) \subseteq Range(outgoing.left)
  <2> DEFINE l == outgoing.left
             t == Tail(l)
  <2>1. l \in Seq(Range(l)) /\ l # <<>> BY <1>1, <1>2 DEF IsList
  <2>2. t \in Seq(Range(l))
    <3>1. \A S : l \in Seq(S) => Tail(l) \in Seq(S) BY <2>1, HeadTailProperties
    <3> QED BY <2>1, <3>1
  <2> HIDE DEF t
  <2>3. Len(t) \in Nat /\ t \in [1 .. Len(t) -> Range(l)] BY <2>2
  <2>4. t = [n \in 1 .. Len(t) |-> t[n]] /\ \A n \in 1 .. Len(t) : t[n] \in Range(l) BY <2>3
  <2>5. IsList(t) /\ DOMAIN t = 1 .. Len(t) BY <2>3, <2>4, IsAList
  <2>6. Range(t) \subseteq Range(l) BY <2>4, <2>5 DEF Range
  <2> QED BY <2>5, <2>6 DEF t
<1>6. IsScript(script) /\ IsList(air) BY DEF AirInv, MapsOK, AirOK
<1> HIDE DEF h
<1>7. /\ IsMessage(m) /\ m.type = h.type
      /\ m.type = "area_sweep" =>
           m.built = h.built /\ m.entries = h.entries /\ m.idx = h.idx /\ m.group = GroupOf(h)
  <2>1. IsLeft(h) BY <1>2, <1>4
  <2> HIDE DEF m
  <2>2. m = Going(h) BY DEF m
  <2> QED BY <1>3, <1>6, <2>1, <2>2, GoingIs
<1>8. GrownBy(air', air, Sent(m)) BY <1>1, <1>6, AppendIs
<1>9. outgoing'.bot = outgoing.bot /\ outgoing'.group = GroupNow /\ outgoing'.left = Tail(outgoing.left)
  BY <1>1 DEF AirInv, OutgoingOK
<1> QED BY <1>1, <1>2, <1>3, <1>4, <1>5, <1>7, <1>8, <1>9 DEF IsSend

LEMMA SentGrows ==
  ASSUME AirInv, NEW h, NEW m, NEW n, IsSend(h, m, n)
  PROVE  /\ DOMAIN air' = DOMAIN air \union {n} /\ n \notin DOMAIN air /\ IsList(air')
         /\ \A k \in DOMAIN air : air'[k] = air[k] /\ k <= n /\ MessageAt(k)' = MessageAt(k)
         /\ air'[n].bot = outgoing.bot /\ air'[n].packet.seq = nextSeq[outgoing.bot]
         /\ air'[n].at = now /\ MessageAt(n)' = m /\ n \in Nat
BY DEF IsSend, GrownBy, Sent, MessageAt

\* What is said of a map that goes out was said of it before.
LEMMA SentMap ==
  ASSUME AirInv, NEW h, NEW m, NEW n, IsSend(h, m, n), m.type = "area_sweep"
  PROVE  /\ StartTime <= m.built /\ m.built <= now
         /\ \A j \in DOMAIN air :
              IsSweepOf(j, outgoing.bot) /\ MessageAt(j).group = m.group /\ MessageAt(j).built = m.built
                => MessageAt(j).entries = m.entries
         /\ \/ m.idx = 0
            \/ \E j \in DOMAIN air : IsSweepOf(j, outgoing.bot) /\ MessageAt(j).entries = m.entries
                                     /\ MessageAt(j).idx = 0
         /\ \/ m.group = nextSeq[outgoing.bot]
            \/ \E f \in DOMAIN air : /\ air[f].bot = outgoing.bot /\ air[f].packet.seq = m.group
                                     /\ m.built <= air[f].at
<1>1. /\ h \in Range(outgoing.left) /\ h.type = "area_sweep" /\ h = outgoing.left[1] /\ outgoing.left # <<>>
      /\ m.built = h.built /\ m.entries = h.entries /\ m.idx = h.idx /\ m.group = GroupOf(h)
  BY DEF IsSend
<1>2. CASE outgoing.group = Never
  <2>1. IsFresh(h) BY <1>1, <1>2 DEF AirInv, OutgoingOK
  <2>2. m.group = nextSeq[outgoing.bot] BY <1>1, <1>2, <2>1 DEF IsFresh, GroupOf, GroupNow
  <2>3. ASSUME NEW j \in DOMAIN air, IsSweepOf(j, outgoing.bot), MessageAt(j).group = m.group,
               MessageAt(j).built = m.built
        PROVE  FALSE
    <3>1. PICK f \in DOMAIN air : /\ air[f].bot = air[j].bot /\ air[f].packet.seq = MessageAt(j).group
                                  /\ MessageAt(j).built <= air[f].at
      BY <2>3 DEF AirInv, FirstsSent, IsSweepOf
    <3> QED BY <1>1, <2>1, <2>2, <2>3, <3>1 DEF IsFresh, IsSweepOf
  <2> QED BY <1>1, <2>1, <2>2, <2>3 DEF IsFresh
<1>3. CASE outgoing.group # Never
  <2>1. GoesOn(h) BY <1>1, <1>3 DEF AirInv, OutgoingOK
  <2>2. PICK j0 \in DOMAIN air : /\ IsSweepOf(j0, outgoing.bot) /\ MessageAt(j0).entries = m.entries
                                 /\ MessageAt(j0).built = m.built /\ MessageAt(j0).group = m.group
    BY <1>1, <1>3, <2>1 DEF GoesOn, GroupOf, GroupNow
  <2>3. /\ StartTime <= m.built /\ m.built <= air[j0].at
        /\ \E j \in DOMAIN air : /\ IsSweepOf(j, outgoing.bot) /\ MessageAt(j).entries = m.entries
                                 /\ MessageAt(j).idx = 0
    BY <2>2 DEF AirInv, MapsOK, SweepsSent, IsSweepOf
  <2>4. m.built <= now
    <3>1. air[j0].at \in Int /\ air[j0].at <= now /\ now \in Int BY DEF AirInv, MapsOK, AirOK
    <3>2. m.built \in Int BY <2>2, SentIs DEF TypedMessage, IsSweepOf, AirInv, MapsOK
    <3> QED BY <2>3, <3>1, <3>2
  <2>5. ASSUME NEW j \in DOMAIN air, IsSweepOf(j, outgoing.bot), MessageAt(j).group = m.group,
               MessageAt(j).built = m.built
        PROVE  MessageAt(j).entries = m.entries
    BY <2>2, <2>5 DEF AirInv, MapsOK, GroupsTell, IsSweepOf
  <2>6. \E f \in DOMAIN air : /\ air[f].bot = outgoing.bot /\ air[f].packet.seq = m.group
                              /\ m.built <= air[f].at
    BY <2>2 DEF AirInv, FirstsSent, IsSweepOf
  <2> QED BY <2>3, <2>4, <2>5, <2>6
<1> QED BY <1>2, <1>3

LEMMA NumbersGoOn ==
  ASSUME AirInv, NEW h, NEW m, NEW n, IsSend(h, m, n)
  PROVE  NumbersOK'
<1> DEFINE b == outgoing.bot
           x == nextSeq[b]
           S == {i \in DOMAIN air : air[i].at = now}
<1>1. /\ DOMAIN air' = DOMAIN air \union {n} /\ n \notin DOMAIN air /\ IsList(air')
      /\ \A k \in DOMAIN air : air'[k] = air[k] /\ k <= n
      /\ air'[n].bot = b /\ air'[n].packet.seq = x /\ air'[n].at = now /\ n \in Nat
  BY SentGrows
<1>2. /\ now' = now /\ script' = script /\ built' = built /\ SentThisTick < PacketsPerTick
      /\ b \in BotsOf(script) /\ nextSeq' = [nextSeq EXCEPT ![b] = (x + 1) % SeqModulus]
  BY DEF IsSend
<1>3. /\ SeqModulus \in Nat \ {0} /\ PacketsPerTick \in Nat /\ PacketsPerTick < SeqModulus
      /\ DOMAIN nextSeq = BotsOf(script) /\ x \in 0 .. SeqModulus - 1
      /\ \A c \in BotsOf(script) : nextSeq[c] \in 0 .. SeqModulus - 1
  BY <1>2, Constants DEF AirInv, NumbersOK
<1>4. (x + 1) % SeqModulus = IF x + 1 = SeqModulus THEN 0 ELSE x + 1 BY <1>3, NextNumber
<1>5. nextSeq'[b] = (IF x + 1 = SeqModulus THEN 0 ELSE x + 1) /\ DOMAIN nextSeq' = DOMAIN nextSeq
      /\ \A c \in BotsOf(script) : c # b => nextSeq'[c] = nextSeq[c]
  BY <1>2, <1>3, <1>4
<1>6. AirOK /\ \A k \in DOMAIN air : air[k].at \in Int /\ air[k].at <= now /\ air[k].bot \in BotsOf(script)
  BY DEF AirInv, MapsOK, AirOK
<1>7. IsFiniteSet(S) /\ Cardinality(S) \in Nat /\ Cardinality(S) < PacketsPerTick
  <2>1. S \in SUBSET DOMAIN air OBVIOUS
  <2> QED BY <1>2, <1>6, <2>1, SentNow DEF SentThisTick
<1>8. {i \in DOMAIN air' : air'[i].at = now'} = S \union {n} BY <1>1, <1>2
<1>9. Cardinality(S \union {n}) = Cardinality(S) + 1 BY <1>1, <1>7, FS_AddElement
<1>10. SentThisTick' <= PacketsPerTick
  <2>1. SentThisTick' = Cardinality(S) + 1 BY <1>8, <1>9 DEF SentThisTick
  <2> QED BY <1>3, <1>7, <2>1
<1>11. ASSUME NEW k \in DOMAIN air', NEW l \in DOMAIN air', k <= l PROVE air'[k].at <= air'[l].at
  <2>1. CASE k \in DOMAIN air /\ l \in DOMAIN air BY <1>1, <1>11, <2>1 DEF AirInv, NumbersOK
  <2>2. CASE l = n /\ k \in DOMAIN air BY <1>1, <1>6, <2>2
  <2>3. CASE k = n /\ l \in DOMAIN air
    <3>1. l <= n /\ l # n /\ l \in Nat BY <1>1, <1>6, <2>3, SentNow
    <3> QED BY <1>1, <1>11, <2>3, <3>1
  <2>4. CASE k = n /\ l = n
    <3>1. now \in Int BY <1>6 DEF AirOK
    <3> QED BY <1>1, <2>4, <3>1
  <2> QED BY <1>1, <2>1, <2>2, <2>3, <2>4
<1>12. ASSUME NEW k \in DOMAIN air', air'[k].at = now'
       PROVE  nextSeq'[air'[k].bot] = Wrapped(air'[k].packet.seq + Cardinality(Since(k)'))
  <2>1. Since(k)' = {l \in DOMAIN air' : air'[l].bot = air'[k].bot /\ k <= l} BY DEF Since
  <2>2. CASE k = n
    <3>1. \A l \in DOMAIN air : ~(n <= l) BY <1>1, <1>6, SentNow
    <3>2. Since(k)' = {n} BY <1>1, <2>1, <2>2, <3>1
    <3>3. Cardinality({n}) = 1 BY FS_Singleton
    <3> QED BY <1>1, <1>3, <1>5, <2>2, <3>2, <3>3 DEF Wrapped
  <2>3. CASE k \in DOMAIN air
    <3> DEFINE q == air[k].packet.seq
               c == Cardinality(Since(k))
    <3>1. air[k].at = now /\ air[k].bot \in BotsOf(script) BY <1>1, <1>2, <1>6, <1>12, <2>3
    <3>2. q \in 0 .. SeqModulus - 1 /\ nextSeq[air[k].bot] = Wrapped(q + c)
      BY <2>3, <3>1 DEF AirInv, NumbersOK
    <3>3. CASE air[k].bot # b
      <4>1. Since(k)' = Since(k) BY <1>1, <2>1, <2>3, <3>3 DEF Since
      <4> QED BY <1>1, <1>5, <2>3, <3>1, <3>2, <3>3, <4>1
    <3>4. CASE air[k].bot = b
      <4>1. Since(k)' = Since(k) \union {n} BY <1>1, <2>1, <2>3, <3>4 DEF Since
      <4>2. Since(k) \subseteq S
        <5> SUFFICES ASSUME NEW l \in DOMAIN air, k <= l PROVE air[l].at = now BY DEF Since
        <5>1. air[k].at <= air[l].at BY <2>3 DEF AirInv, NumbersOK
        <5> QED BY <1>6, <3>1, <5>1 DEF AirOK
      <4>3. IsFiniteSet(Since(k)) /\ c \in Nat /\ n \notin Since(k)
        <5>1. Since(k) \in SUBSET DOMAIN air BY DEF Since
        <5> QED BY <1>1, <1>6, <5>1, SentNow
      <4>4. Cardinality(Since(k)') = c + 1 BY <4>1, <4>3, FS_AddElement
      <4>5. c <= Cardinality(S) BY <1>7, <4>2, FS_Subset
      <4>6. x = Wrapped(q + c) BY <3>2, <3>4
      <4>7. nextSeq'[air'[k].bot] = IF x + 1 = SeqModulus THEN 0 ELSE x + 1 BY <1>1, <1>5, <2>3, <3>4
      <4>8. air'[k].packet.seq = q BY <1>1, <2>3
      <4> HIDE DEF x, q, c, S
      <4>9. (IF x + 1 = SeqModulus THEN 0 ELSE x + 1) = Wrapped(q + (c + 1))
        BY <1>3, <1>7, <3>2, <4>3, <4>5, <4>6 DEF Wrapped
      <4> QED BY <4>4, <4>7, <4>8, <4>9
    <3> QED BY <3>3, <3>4
  <2> QED BY <1>1, <2>2, <2>3
<1>13. \A k \in DOMAIN air' : air'[k].packet.seq \in 0 .. SeqModulus - 1 BY <1>1, <1>3 DEF AirInv, NumbersOK
<1>14. \A c \in BotsOf(script) : nextSeq'[c] \in 0 .. SeqModulus - 1 BY <1>3, <1>5
<1>15. built \in Nat BY DEF AirInv, NumbersOK
<1> QED BY <1>2, <1>3, <1>5, <1>10, <1>11, <1>12, <1>13, <1>14, <1>15 DEF NumbersOK

LEMMA AirSends ==
  ASSUME AirInv, Send
  PROVE  AirInv'
<1>1. PICK h, m, n : IsSend(h, m, n) BY SendIs
<1> DEFINE b == outgoing.bot
<1>2. /\ DOMAIN air' = DOMAIN air \union {n} /\ n \notin DOMAIN air /\ IsList(air')
      /\ \A k \in DOMAIN air : air'[k] = air[k] /\ k <= n /\ MessageAt(k)' = MessageAt(k)
      /\ air'[n].bot = b /\ air'[n].packet.seq = nextSeq[b]
      /\ air'[n].at = now /\ MessageAt(n)' = m /\ n \in Nat
  BY <1>1, SentGrows
<1>3. /\ now' = now /\ script' = script /\ IsMessage(m) /\ b \in BotsOf(script) /\ m.type = h.type
      /\ m.type = "area_sweep" =>
           m.built = h.built /\ m.entries = h.entries /\ m.idx = h.idx /\ m.group = GroupOf(h)
      /\ h \in Range(outgoing.left) /\ h = outgoing.left[1] /\ outgoing.left # <<>>
      /\ outgoing'.bot = b /\ outgoing'.group = GroupNow /\ GroupNow \in Nat /\ IsList(outgoing'.left)
      /\ Range(outgoing'.left) \subseteq Range(outgoing.left)
  BY <1>1 DEF IsSend
<1>4. AirOK /\ SweepsSent /\ GroupsTell /\ NumbersOK BY DEF AirInv, MapsOK
<1>5. /\ m.type = "area_sweep" => StartTime <= m.built /\ m.built <= now
      /\ \A j \in DOMAIN air : m.type = "area_sweep" /\
           IsSweepOf(j, b) /\ MessageAt(j).group = m.group /\ MessageAt(j).built = m.built
             => MessageAt(j).entries = m.entries
      /\ m.type = "area_sweep" =>
           \/ m.idx = 0
           \/ \E j \in DOMAIN air : IsSweepOf(j, b) /\ MessageAt(j).entries = m.entries /\ MessageAt(j).idx = 0
      /\ m.type = "area_sweep" =>
           \/ m.group = nextSeq[b]
           \/ \E f \in DOMAIN air : /\ air[f].bot = b /\ air[f].packet.seq = m.group
                                    /\ m.built <= air[f].at
  BY <1>1, SentMap
<1>6. \A k \in DOMAIN air : IsSweepOf(k, b) => air'[k].bot = b /\ MessageAt(k)'.type = "area_sweep"
  BY <1>2 DEF IsSweepOf
<1>8. \A q : (IsMessage(q)' <=> IsMessage(q)) /\ (IsLeft(q)' <=> IsLeft(q))
  BY <1>3 DEF IsMessage, IsLeft, IsDated
<1>9. AirOK'
  <2>1. ASSUME NEW k \in DOMAIN air'
        PROVE  /\ IsMessage(MessageAt(k)') /\ air'[k].at \in Int /\ air'[k].at <= now
               /\ air'[k].packet.seq \in Nat /\ air'[k].bot \in BotsOf(script)
    <3>1. CASE k = n
      <4>1. now \in Int /\ nextSeq[b] \in Nat BY <1>3, <1>4, Constants DEF AirOK, NumbersOK
      <4> QED BY <1>2, <1>3, <3>1, <4>1
    <3>2. CASE k \in DOMAIN air BY <1>2, <1>4, <3>2 DEF AirOK
    <3> QED BY <1>2, <3>1, <3>2
  <2> QED BY <1>2, <1>3, <1>4, <1>8, <2>1 DEF AirOK
<1>10. SweepsSent'
  <2> SUFFICES ASSUME NEW k \in DOMAIN air', MessageAt(k)'.type = "area_sweep"
               PROVE  /\ StartTime <= MessageAt(k)'.built /\ MessageAt(k)'.built <= air'[k].at
                      /\ \E j \in DOMAIN air' : /\ air'[j].bot = air'[k].bot /\ MessageAt(j)'.type = "area_sweep"
                                                /\ MessageAt(j)'.entries = MessageAt(k)'.entries
                                                /\ MessageAt(j)'.idx = 0
    BY DEF SweepsSent, IsSweepOf
  <2>1. CASE k = n
    <3>1. CASE m.idx = 0 BY <1>2, <1>5, <2>1, <3>1
    <3>2. CASE m.idx # 0
      <4>1. PICK j \in DOMAIN air : IsSweepOf(j, b) /\ MessageAt(j).entries = m.entries /\ MessageAt(j).idx = 0
        BY <1>2, <1>5, <2>1, <3>2
      <4> QED BY <1>2, <1>5, <1>6, <2>1, <4>1
    <3> QED BY <3>1, <3>2
  <2>2. CASE k \in DOMAIN air
    <3>1. /\ StartTime <= MessageAt(k).built /\ MessageAt(k).built <= air[k].at
      BY <1>2, <1>4, <2>2 DEF SweepsSent
    <3>2. PICK j \in DOMAIN air : /\ IsSweepOf(j, air[k].bot) /\ MessageAt(j).entries = MessageAt(k).entries
                                  /\ MessageAt(j).idx = 0
      BY <1>2, <1>4, <2>2 DEF SweepsSent
    <3> QED BY <1>2, <2>2, <3>1, <3>2 DEF IsSweepOf
  <2> QED BY <1>2, <2>1, <2>2
<1>11. GroupsTell'
  <2> SUFFICES ASSUME NEW i \in DOMAIN air', NEW j \in DOMAIN air', MessageAt(i)'.type = "area_sweep",
                      air'[j].bot = air'[i].bot, MessageAt(j)'.type = "area_sweep",
                      MessageAt(i)'.group = MessageAt(j)'.group,
                      MessageAt(i)'.built = MessageAt(j)'.built
               PROVE  MessageAt(i)'.entries = MessageAt(j)'.entries
    BY DEF GroupsTell, IsSweepOf
  <2>1. CASE i = n /\ j = n BY <2>1
  <2>2. CASE i = n /\ j \in DOMAIN air BY <1>2, <1>5, <2>2 DEF IsSweepOf
  <2>3. CASE i \in DOMAIN air /\ j = n
    <3>1. air[i].bot = b /\ m.type = "area_sweep" BY <1>2, <2>3
    <3>2. IsSweepOf(i, b) BY <1>2, <2>3, <3>1 DEF IsSweepOf
    <3>3. MessageAt(i).group = m.group /\ MessageAt(i).built = m.built BY <1>2, <2>3
    <3> QED BY <1>2, <1>5, <2>3, <3>1, <3>2, <3>3
  <2>4. CASE i \in DOMAIN air /\ j \in DOMAIN air BY <1>2, <1>4, <2>4 DEF GroupsTell, IsSweepOf
  <2> QED BY <1>2, <2>1, <2>2, <2>3, <2>4
<1>12. NumbersOK' BY <1>1, NumbersGoOn
<1>13. FirstsSent'
  <2> SUFFICES ASSUME NEW k \in DOMAIN air', MessageAt(k)'.type = "area_sweep"
               PROVE  \E f \in DOMAIN air' : /\ air'[f].bot = air'[k].bot
                                             /\ air'[f].packet.seq = MessageAt(k)'.group
                                             /\ MessageAt(k)'.built <= air'[f].at
    BY DEF FirstsSent
  <2>1. CASE k = n
    <3>1. CASE m.group = nextSeq[b] BY <1>2, <1>5, <2>1, <3>1
    <3>2. CASE m.group # nextSeq[b]
      <4>1. PICK f \in DOMAIN air : /\ air[f].bot = b /\ air[f].packet.seq = m.group /\ m.built <= air[f].at
        BY <1>2, <1>5, <2>1, <3>2
      <4> QED BY <1>2, <2>1, <4>1
    <3> QED BY <3>1, <3>2
  <2>2. CASE k \in DOMAIN air
    <3>1. PICK f \in DOMAIN air : /\ air[f].bot = air[k].bot /\ air[f].packet.seq = MessageAt(k).group
                                  /\ MessageAt(k).built <= air[f].at
      BY <1>2, <2>2 DEF AirInv, FirstsSent
    <3> QED BY <1>2, <2>2, <3>1
  <2> QED BY <1>2, <2>1, <2>2
<1>14. OutgoingOK'
  <2>1. DOMAIN outgoing' = DOMAIN outgoing BY DEF Send
  <2>2. GroupNow # Never /\ GroupNow \in Nat BY <1>3 DEF Never
  <2>3. ASSUME NEW q \in Range(outgoing'.left)
        PROVE  IsLeft(q)' /\ (q.type = "area_sweep" => GoesOn(q)')
    <3>1. q \in Range(outgoing.left) BY <1>3
    <3>2. IsLeft(q)' BY <1>3, <1>8, <3>1 DEF AirInv, OutgoingOK
    <3>3. ASSUME q.type = "area_sweep"
          PROVE  \E j \in DOMAIN air' : /\ air'[j].bot = b /\ MessageAt(j)'.type = "area_sweep"
                                        /\ MessageAt(j)'.entries = q.entries
                                        /\ MessageAt(j)'.built = q.built
                                        /\ MessageAt(j)'.group = IF "group" \in DOMAIN q THEN q.group ELSE GroupNow
      <4>1. CASE outgoing.group = Never
        <5>1. IsFresh(q) BY <1>3, <3>1, <3>3, <4>1 DEF AirInv, OutgoingOK
        <5>2. /\ h.type = "area_sweep" /\ h.entries = q.entries /\ h.built = q.built /\ "group" \notin DOMAIN h
              /\ "group" \notin DOMAIN q
          BY <1>3, <3>1, <5>1 DEF IsFresh
        <5>3. m.type = "area_sweep" /\ m.entries = q.entries /\ m.built = q.built /\ m.group = GroupNow
          BY <1>3, <5>2 DEF GroupOf
        <5> QED BY <1>2, <5>2, <5>3
      <4>2. CASE outgoing.group # Never
        <5>1. GoesOn(q) BY <1>3, <3>1, <3>3, <4>2 DEF AirInv, OutgoingOK
        <5>2. PICK j \in DOMAIN air : /\ IsSweepOf(j, b) /\ MessageAt(j).entries = q.entries
                                      /\ MessageAt(j).built = q.built
                                      /\ MessageAt(j).group = IF "group" \in DOMAIN q THEN q.group ELSE outgoing.group
          BY <5>1 DEF GoesOn
        <5>3. outgoing.group = GroupNow BY <4>2 DEF GroupNow
        <5> QED BY <1>2, <1>6, <5>2, <5>3
      <4> QED BY <4>1, <4>2
    <3>4. q.type = "area_sweep" => GoesOn(q)' BY <1>3, <3>3 DEF GoesOn, IsSweepOf
    <3> QED BY <3>2, <3>4
  <2> QED BY <1>3, <2>1, <2>2, <2>3 DEF AirInv, OutgoingOK
<1> QED BY <1>9, <1>10, <1>11, <1>12, <1>13, <1>14 DEF AirInv, MapsOK

\* The packets that go out again are some that went out.
LEMMA AirReplays ==
  ASSUME AirInv, NEW i \in DOMAIN pending, Replay(i)
  PROVE  AirInv'
<1> DEFINE wanted == pending[i].request.of
           cached == {k \in DOMAIN air :
                        /\ air[k].bot = pending[i].bot /\ now - air[k].at <= PartsKept
                        /\ air[k].packet.message.type \in Multi
                        /\ air[k].packet.message.group = wanted.group
                        /\ air[k].packet.message.idx \in wanted.indexes}
           indexes == {air[k].packet.message.idx : k \in cached}
           Nth(n) == CHOOSE x \in indexes : Cardinality({y \in indexes : y <= x}) = n
           Cached(x) == CHOOSE k \in cached : air[k].packet.message.idx = x
           left == [n \in 1 .. Cardinality(indexes) |-> air[Cached(Nth(n))].packet.message]
<1>1. /\ now' = now /\ script' = script /\ nextSeq' = nextSeq /\ air' = air /\ built' = built
      /\ outgoing' = [bot |-> pending[i].bot, group |-> wanted.group, left |-> left]
      /\ cached # {}
  BY DEF Replay
<1>2. MapsOK'
  BY <1>1 DEF AirInv, MapsOK, AirOK, SweepsSent, GroupsTell, IsSweepOf, MessageAt, IsMessage, IsDated, MessageMinutes
<1>3. NumbersOK' BY <1>1 DEF AirInv, NumbersOK, Since, SentThisTick
<1>4. FirstsSent' BY <1>1 DEF AirInv, FirstsSent, MessageAt
<1>5. AirOK BY DEF AirInv, MapsOK
<1>6. ASSUME NEW k \in cached
      PROVE  /\ k \in DOMAIN air /\ air[k].bot = pending[i].bot /\ MessageAt(k).type \in Multi
             /\ MessageAt(k).group = wanted.group /\ MessageAt(k).idx \in Nat /\ wanted.group \in Nat
             /\ "group" \in DOMAIN MessageAt(k) /\ IsDated(MessageAt(k)) /\ air[k].bot \in BotsOf(script)
  <2>1. k \in DOMAIN air /\ air[k].bot = pending[i].bot /\ MessageAt(k).type \in Multi
        /\ MessageAt(k).group = wanted.group
    BY DEF MessageAt
  <2>2. TypedMessage(MessageAt(k)) /\ IsMessage(MessageAt(k)) /\ air[k].bot \in BotsOf(script)
    BY <1>5, <2>1, SentIs DEF AirOK
  <2> QED BY <2>1, <2>2 DEF TypedMessage, IsMessage
<1>7. indexes \in SUBSET Int /\ IsFiniteSet(indexes)
  <2>1. IsFiniteSet(cached)
    <3>1. cached \in SUBSET DOMAIN air OBVIOUS
    <3> QED BY <1>5, <3>1, SentNow
  <2>2. indexes = {MessageAt(k).idx : k \in cached} BY DEF MessageAt
  <2> HIDE DEF cached, indexes
  <2>3. indexes \in SUBSET Int BY <1>6, <2>2
  <2> DEFINE f == [k \in cached |-> MessageAt(k).idx]
  <2>4. f \in Surjection(cached, indexes) BY <2>2 DEF Surjection
  <2> HIDE DEF f
  <2>5. IsFiniteSet(indexes) BY <2>1, <2>4, FS_Surjection
  <2> QED BY <2>3, <2>5
<1>8. Cardinality(indexes) \in Nat
  <2> HIDE DEF indexes
  <2> QED BY <1>7, FS_CardinalityType
<1>9. ASSUME NEW n \in 1 .. Cardinality(indexes) PROVE \E k \in cached : left[n] = MessageAt(k)
  <2>1. Nth(n) \in indexes
    <3> HIDE DEF indexes
    <3>0. \A k \in 1 .. Cardinality(indexes) : \E x \in indexes : Cardinality({y \in indexes : y <= x}) = k
      BY <1>7, NthIs
    <3>1. \E x \in indexes : Cardinality({y \in indexes : y <= x}) = n BY <3>0
    <3> QED BY <3>1
  <2>2. \E k \in cached : air[k].packet.message.idx = Nth(n) BY <2>1
  <2> HIDE DEF Nth
  <2>3. Cached(Nth(n)) \in cached BY <2>2
  <2> QED BY <2>3 DEF MessageAt
<1> HIDE DEF cached, indexes, Nth, Cached
<1>10. IsList(left) /\ DOMAIN left = 1 .. Cardinality(indexes)
  <2>1. left = [n \in 1 .. Cardinality(indexes) |-> left[n]] OBVIOUS
  <2> HIDE DEF left
  <2> QED BY <1>8, <2>1, IsAList
<1> HIDE DEF left
<1>11. \A q \in Range(left) : \E k \in cached : q = MessageAt(k) BY <1>9, <1>10 DEF Range
<1>12. OutgoingOK'
  <2>1. /\ outgoing'.left = left /\ outgoing'.bot = pending[i].bot /\ outgoing'.group = wanted.group
        /\ DOMAIN outgoing' = {"bot", "group", "left"}
    BY <1>1
  <2>2. pending[i].bot \in BotsOf(script) /\ wanted.group \in Nat /\ wanted.group # Never
    <3>1. wanted.group \in Nat /\ pending[i].bot \in BotsOf(script) BY <1>1, <1>6
    <3> QED BY <3>1 DEF Never
  <2>3. ASSUME NEW q \in Range(left)
        PROVE  IsLeft(q)' /\ (q.type = "area_sweep" => GoesOn(q)')
    <3>1. PICK k \in cached : q = MessageAt(k) BY <1>11
    <3>2. IsLeft(q) BY <1>6, <3>1 DEF IsLeft
    <3>3. IsLeft(q)' BY <1>1, <3>2 DEF IsLeft, IsDated
    <3>4. ASSUME q.type = "area_sweep" PROVE GoesOn(q)'
      <4>1. /\ k \in DOMAIN air /\ air[k].bot = pending[i].bot /\ MessageAt(k) = q /\ "group" \in DOMAIN q
        BY <1>6, <3>1
      <4>2. IsSweepOf(k, pending[i].bot) BY <3>4, <4>1 DEF IsSweepOf
      <4> QED BY <1>1, <2>1, <4>1, <4>2 DEF GoesOn, IsSweepOf, MessageAt
    <3> QED BY <3>3, <3>4
  <2> QED BY <1>1, <1>10, <2>1, <2>2, <2>3 DEF OutgoingOK
<1> QED BY <1>2, <1>3, <1>4, <1>12 DEF AirInv

LEMMA AirStarts ==
  ASSUME Init
  PROVE  AirInv
<1>1. /\ now = StartTime /\ built = 0 /\ outgoing = NoPackets /\ air = <<>>
      /\ nextSeq = [b \in BotsOf(script) |-> 0]
      /\ \E case \in Cases : script = case.script
  BY DEF Init
<1>2. IsScript(script) BY <1>1, CasesAssumption
<1>3. DOMAIN air = {} /\ IsList(air) BY <1>1 DEF IsList, Range
<1>4. AirOK BY <1>1, <1>2, <1>3, Constants DEF AirOK
<1>5. MapsOK BY <1>3, <1>4 DEF MapsOK, SweepsSent, GroupsTell
<1>6. SentThisTick = 0
  <2>1. {k \in DOMAIN air : air[k].at = now} = {} BY <1>3
  <2> QED BY <2>1, FS_EmptySet DEF SentThisTick
<1>7. NumbersOK BY <1>1, <1>3, <1>6, Constants DEF NumbersOK
<1>8. OutgoingOK BY <1>1, <1>3 DEF OutgoingOK, NoPackets
<1> QED BY <1>3, <1>5, <1>7, <1>8 DEF AirInv, FirstsSent

-----------------------------------------------------------------------------
(* What is read back from the file *)

IsRead(d, s) ==
  /\ DOMAIN d = Fields
  /\ DOMAIN d.forecasts = DOMAIN s.forecasts \ {UnbundledPoint}
  /\ \A p \in DOMAIN d.forecasts : d.forecasts[p] = s.forecasts[p]
  /\ d.observations = s.observations /\ d.texts = s.texts /\ d.areaSweeps = s.areaSweeps
  /\ IsList(d.radarTiles) /\ Range(d.radarTiles) = {x \in Range(s.radarTiles) : x.tile.zoom >= 0}

LEMMA ReadIs ==
  ASSUME NEW s, NEW at, IsState(s, at)
  PROVE  IsRead(Decode(s, NewBot), s)
<1> DEFINE d == Decode(s, NewBot)
           tiles == s.radarTiles
<1>0. /\ DOMAIN s = Fields /\ DOMAIN NewBot = Fields /\ IsList(tiles)
      /\ {"forecasts", "unbundledForecasts", "observations", "texts", "areaSweeps", "radarTiles",
          "recentMessages"} \subseteq Fields
  BY NewBotIs DEF IsState, IsHeld, Fields
<1>1. DOMAIN d = Fields BY <1>0 DEF Decode
<1>2. d.forecasts = Restrict(s.forecasts, DOMAIN s.forecasts \ {UnbundledPoint})
  BY <1>0 DEF Decode, FieldOr
<1>3. d.observations = s.observations /\ d.texts = s.texts /\ d.areaSweeps = s.areaSweeps
  BY <1>0 DEF Decode, FieldOr
<1>4. d.radarTiles = Those(tiles, KeptTiles(tiles)) BY <1>0 DEF Decode, FieldOr
<1>5. KeptTiles(tiles) \in SUBSET DOMAIN tiles BY DEF KeptTiles
<1>6. IsList(Those(tiles, KeptTiles(tiles)))
      /\ Range(Those(tiles, KeptTiles(tiles))) = {tiles[n] : n \in KeptTiles(tiles)}
  BY <1>0, <1>5, ThoseIs
<1>7. {tiles[n] : n \in KeptTiles(tiles)} = {x \in Range(tiles) : x.tile.zoom >= 0}
  BY DEF KeptTiles, IsKeptTile, Range
<1> HIDE DEF d
<1>8. /\ DOMAIN d.forecasts = DOMAIN s.forecasts \ {UnbundledPoint}
      /\ \A p \in DOMAIN d.forecasts : d.forecasts[p] = s.forecasts[p]
  BY <1>2 DEF Restrict
<1>9. IsRead(d, s) BY <1>1, <1>3, <1>4, <1>6, <1>7, <1>8 DEF IsRead
<1> QED BY <1>9 DEF d

IsLoaded(l, s, at) ==
  /\ DOMAIN l = Fields /\ l.texts = s.texts
  /\ DOMAIN l.forecasts = {p \in DOMAIN s.forecasts : ~IsAhead(s.forecasts[p].issued, at)}
  /\ \A p \in DOMAIN l.forecasts : l.forecasts[p] = s.forecasts[p]
  /\ DOMAIN l.observations = {o \in DOMAIN s.observations : ~IsAhead(s.observations[o].timestampMinutes, at)}
  /\ \A o \in DOMAIN l.observations :
       /\ IsReading(l.observations[o])
       /\ l.observations[o].timestampMinutes = s.observations[o].timestampMinutes
  /\ IsList(l.areaSweeps)
  /\ Range(l.areaSweeps) = {x \in Range(s.areaSweeps) : ~IsAhead(x.builtMinutes, at)}
  /\ IsList(l.radarTiles)
  /\ Range(l.radarTiles) = {x \in Range(s.radarTiles) : ~IsAhead(x.taken, at)}

LEMMA LoadedIs ==
  ASSUME NEW s, NEW at0, IsState(s, at0), NEW at
  PROVE  IsLoaded(DropFutureTimes(s, at), s, at)
<1> DEFINE l == DropFutureTimes(s, at)
           sweeps == {i \in DOMAIN s.areaSweeps : ~IsAhead(s.areaSweeps[i].builtMinutes, at)}
           tiles == {i \in DOMAIN s.radarTiles : ~IsAhead(s.radarTiles[i].taken, at)}
           stations == {o \in DOMAIN s.observations : ~IsAhead(s.observations[o].timestampMinutes, at)}
           readings == [o \in stations |-> IF IsAhead(s.observations[o].lastBatchMinutes, at)
                                           THEN [s.observations[o] EXCEPT !.lastBatchMinutes = Never]
                                           ELSE s.observations[o]]
           Past(stored_) == ~IsAhead(stored_.issued, at)
<1>0. /\ DOMAIN s = Fields /\ IsList(s.areaSweeps) /\ IsList(s.radarTiles)
      /\ \A o \in DOMAIN s.observations : IsReading(s.observations[o])
      /\ {"forecasts", "unbundledForecasts", "observations", "texts", "areaSweeps", "radarTiles"} \subseteq Fields
  BY DEF IsState, IsHeld, Fields
<1>1. /\ DOMAIN l = Fields /\ l.texts = s.texts /\ l.observations = readings
      /\ l.areaSweeps = Those(s.areaSweeps, sweeps) /\ l.radarTiles = Those(s.radarTiles, tiles)
  BY <1>0 DEF DropFutureTimes
<1>2. l.forecasts = [p \in {q \in DOMAIN s.forecasts : ~IsAhead(s.forecasts[q].issued, at)} |-> s.forecasts[p]]
  BY <1>0 DEF DropFutureTimes, RestrictValues, Restrict
<1>3. /\ IsList(l.areaSweeps)
      /\ Range(l.areaSweeps) = {x \in Range(s.areaSweeps) : ~IsAhead(x.builtMinutes, at)}
  <2>1. sweeps \in SUBSET DOMAIN s.areaSweeps OBVIOUS
  <2>2. {s.areaSweeps[i] : i \in sweeps} = {x \in Range(s.areaSweeps) : ~IsAhead(x.builtMinutes, at)}
    BY DEF Range
  <2> HIDE DEF sweeps, l
  <2> QED BY <1>0, <1>1, <2>1, <2>2, ThoseIs
<1>4. /\ IsList(l.radarTiles)
      /\ Range(l.radarTiles) = {x \in Range(s.radarTiles) : ~IsAhead(x.taken, at)}
  <2>1. tiles \in SUBSET DOMAIN s.radarTiles OBVIOUS
  <2>2. {s.radarTiles[i] : i \in tiles} = {x \in Range(s.radarTiles) : ~IsAhead(x.taken, at)}
    BY DEF Range
  <2> HIDE DEF tiles, l
  <2> QED BY <1>0, <1>1, <2>1, <2>2, ThoseIs
<1>5. ASSUME NEW o \in stations
      PROVE  IsReading(readings[o]) /\ readings[o].timestampMinutes = s.observations[o].timestampMinutes
  BY <1>0 DEF IsReading, Never
<1> HIDE DEF l, readings
<1>6. DOMAIN readings = stations BY DEF readings
<1> HIDE DEF sweeps, tiles
<1>7. IsLoaded(l, s, at) BY <1>1, <1>2, <1>3, <1>4, <1>5, <1>6 DEF IsLoaded
<1> QED BY <1>7 DEF l

-----------------------------------------------------------------------------
(* What is held of one bot *)

\* What a phone can hold of a bot, of what is not ahead of its clock, and of what a
\* packet that it heard says.
Sound(state, b) ==
  /\ IsState(state, now) /\ SweepsOK(state.areaSweeps, b) /\ UnbundledPoint \notin DOMAIN state.forecasts
  /\ \A x \in Range(state.radarTiles) : x.tile.zoom >= 0
Timely(state) ==
  /\ \A p \in DOMAIN state.forecasts : ~IsAhead(state.forecasts[p].issued, now)
  /\ \A s \in DOMAIN state.observations : ~IsAhead(state.observations[s].timestampMinutes, now)
  /\ \A x \in Range(state.radarTiles) : ~IsAhead(x.taken, now)
ShowsForecast(state, i) ==
  MessageAt(i).type = "forecast" /\ MessageAt(i).point # UnbundledPoint =>
    /\ MessageAt(i).point \in DOMAIN state.forecasts
    /\ MessageAt(i).issued <= state.forecasts[MessageAt(i).point].issued
ShowsReadings(state, i) ==
  MessageAt(i).type = "observations" =>
    \A s \in DOMAIN MessageAt(i).stations :
      /\ s \in DOMAIN state.observations
      /\ ReportMinutes(MessageAt(i), s) <= state.observations[s].timestampMinutes
Shows(state, i) ==
  /\ ShowsForecast(state, i) /\ ShowsReadings(state, i)
  /\ MessageAt(i).type = "area_sweep" => OnMap(state.areaSweeps, i)
  /\ MessageAt(i).type = "radar" => Pictured(state.radarTiles, i)

LEMMA StateParts ==
  ASSUME NEW state, NEW at, IsState(state, at)
  PROVE  /\ DOMAIN state = Fields /\ AreForecasts(state.forecasts, at) /\ AreTexts(state.texts, at)
         /\ AreReadings(state.observations) /\ IsList(state.areaSweeps) /\ IsList(state.radarTiles)
         /\ \A x \in Range(state.areaSweeps) : IsSweep(x)
         /\ \A x \in Range(state.radarTiles) : IsTile(x)
BY DEF IsState, IsHeld, AreForecasts, AreTexts, AreReadings

LEMMA StateOf ==
  ASSUME NEW state, NEW at, DOMAIN state = Fields, AreForecasts(state.forecasts, at),
         AreTexts(state.texts, at), AreReadings(state.observations),
         IsList(state.areaSweeps), IsList(state.radarTiles),
         \A x \in Range(state.areaSweeps) : IsSweep(x), \A x \in Range(state.radarTiles) : IsTile(x)
  PROVE  IsState(state, at)
BY DEF IsState, IsHeld, AreForecasts, AreTexts, AreReadings

LEMMA SoundTiles ==
  ASSUME NEW state, NEW b, Sound(state, b), Timely(state)
  PROVE  PastTiles(state.radarTiles, now)
BY StateParts DEF Sound, Timely, PastTiles, Range

\* What is on the map depends on what there is, and not on its order.
LEMMA SameMap ==
  ASSUME NEW s, NEW t, Range(s) \subseteq Range(t), NEW i, OnMap(s, i)
  PROVE  OnMap(t, i)
<1>1. PICK n \in DOMAIN s : s[n].builtMinutes >= MessageAt(i).built /\ SaysPacket(s[n], i) BY OnMapIs
<1>2. PICK k \in DOMAIN t : t[k] = s[n] BY DEF Range
<1> QED BY <1>1, <1>2, OnMapIs

LEMMA SamePictures ==
  ASSUME NEW s, NEW t, Range(s) \subseteq Range(t), NEW i, Pictured(s, i)
  PROVE  Pictured(t, i)
<1>1. \A n \in DOMAIN s : \E k \in DOMAIN t : t[k] = s[n] BY DEF Range
<1>2. CASE HasPicture(s, i) BY <1>1, <1>2 DEF Pictured, HasPicture
<1>3. CASE \E n \in DOMAIN s : s[n].taken - MessageAt(i).taken > RadarRetention BY <1>1, <1>3 DEF Pictured
<1> QED BY <1>2, <1>3 DEF Pictured

LEMMA SameSweeps ==
  ASSUME NEW s, NEW b, SweepsOK(s, b), NEW t, IsList(t), Range(t) \subseteq Range(s)
  PROVE  SweepsOK(t, b)
<1>1. \A n \in DOMAIN t : \E k \in DOMAIN s : t[n] = s[k] BY DEF Range
<1> QED BY <1>1 DEF SweepsOK

\* What is written and read back is what was held.
LEMMA ReadBackSound ==
  ASSUME NEW s, NEW b, Sound(s, b), NEW d, IsRead(d, s)
  PROVE  /\ Sound(d, b) /\ (Timely(s) => Timely(d))
         /\ \A i : Shows(s, i) => Shows(d, i)
<1>1. /\ DOMAIN s = Fields /\ AreForecasts(s.forecasts, now) /\ AreTexts(s.texts, now)
      /\ AreReadings(s.observations) /\ IsList(s.areaSweeps)
      /\ \A x \in Range(s.areaSweeps) : IsSweep(x)
      /\ \A x \in Range(s.radarTiles) : IsTile(x)
  BY StateParts DEF Sound
<1>2. DOMAIN d.forecasts = DOMAIN s.forecasts /\ Range(d.radarTiles) = Range(s.radarTiles)
  BY DEF IsRead, Sound
<1>3. AreForecasts(d.forecasts, now) BY <1>1, <1>2 DEF AreForecasts, IsRead
<1>4. IsState(d, now) BY <1>1, <1>2, <1>3, StateOf DEF IsRead
<1>5. Sound(d, b) BY <1>2, <1>4 DEF Sound, IsRead
<1>6. Timely(s) => Timely(d) BY <1>2 DEF Timely, IsRead
<1>7. ASSUME NEW i, Shows(s, i) PROVE Shows(d, i)
  <2>1. Pictured(s.radarTiles, i) => Pictured(d.radarTiles, i) BY <1>2, SamePictures
  <2>2. ShowsForecast(d, i) BY <1>2, <1>7 DEF Shows, ShowsForecast, IsRead
  <2>3. ShowsReadings(d, i) BY <1>7 DEF Shows, ShowsReadings, IsRead
  <2> QED BY <1>7, <2>1, <2>2, <2>3 DEF Shows, IsRead
<1> QED BY <1>5, <1>6, <1>7

\* A file that is read: nothing of it is ahead of the clock, and what is not stays.
LEMMA LoadedSound ==
  ASSUME AirOK, NEW s, NEW b, Sound(s, b), NEW l, IsLoaded(l, s, now)
  PROVE  /\ Sound(l, b) /\ Timely(l)
         /\ Timely(s) => \A i : Shows(s, i) => Shows(l, i)
<1>1. /\ DOMAIN s = Fields /\ AreForecasts(s.forecasts, now) /\ AreTexts(s.texts, now)
      /\ AreReadings(s.observations) /\ IsList(s.areaSweeps)
      /\ \A x \in Range(s.areaSweeps) : IsSweep(x)
      /\ \A x \in Range(s.radarTiles) : IsTile(x)
  BY StateParts DEF Sound
<1>2. AreForecasts(l.forecasts, now)
  <2>1. DOMAIN l.forecasts \in SUBSET DOMAIN s.forecasts /\ IsFiniteSet(DOMAIN s.forecasts)
    BY <1>1 DEF IsLoaded, AreForecasts
  <2>2. IsFiniteSet(DOMAIN l.forecasts) BY <2>1, FS_Subset
  <2> QED BY <1>1, <2>1, <2>2 DEF IsLoaded, AreForecasts
<1>3. Range(l.areaSweeps) = Range(s.areaSweeps)
  <2> SUFFICES ASSUME NEW x \in Range(s.areaSweeps) PROVE ~IsAhead(x.builtMinutes, now) BY DEF IsLoaded
  <2>1. x.builtMinutes <= now /\ x.builtMinutes \in Int BY <1>1 DEF Sound, SweepsOK, SweepOK, IsSweep, Range
  <2>2. now \in Int /\ FutureTolerance \in Nat BY Constants DEF AirOK
  <2> QED BY <2>1, <2>2 DEF IsAhead
<1>4. SweepsOK(l.areaSweeps, b) BY <1>3, SameSweeps DEF Sound, IsLoaded
<1>5. IsState(l, now)
  <2>0. DOMAIN l.observations \in SUBSET DOMAIN s.observations BY DEF IsLoaded
  <2>1. AreReadings(l.observations) /\ AreTexts(l.texts, now)
    BY <1>1, <2>0, FS_Subset DEF IsLoaded, AreReadings
  <2>2. Range(l.radarTiles) \subseteq Range(s.radarTiles) BY DEF IsLoaded
  <2> QED BY <1>1, <1>2, <1>3, <2>1, <2>2, StateOf DEF IsLoaded
<1>6. Sound(l, b) BY <1>4, <1>5 DEF Sound, IsLoaded
<1>7. Timely(l) BY DEF Timely, IsLoaded
<1>8. ASSUME Timely(s), NEW i, Shows(s, i) PROVE Shows(l, i)
  <2>1. Range(l.radarTiles) = Range(s.radarTiles) BY <1>8 DEF Timely, IsLoaded
  <2>2. DOMAIN l.forecasts = DOMAIN s.forecasts /\ DOMAIN l.observations = DOMAIN s.observations
    BY <1>8 DEF Timely, IsLoaded
  <2>3. OnMap(s.areaSweeps, i) => OnMap(l.areaSweeps, i) BY <1>3, SameMap
  <2>4. Pictured(s.radarTiles, i) => Pictured(l.radarTiles, i) BY <2>1, SamePictures
  <2>5. ShowsForecast(l, i) BY <1>8, <2>2 DEF Shows, ShowsForecast, IsLoaded
  <2>6. ShowsReadings(l, i) BY <1>8, <2>2 DEF Shows, ShowsReadings, IsLoaded
  <2> QED BY <1>8, <2>3, <2>4, <2>5, <2>6 DEF Shows
<1> QED BY <1>6, <1>7, <1>8

-----------------------------------------------------------------------------
(* What one packet makes of what is held of its bot *)

Hears(old, heard, i) ==
  IF IsAhead(MessageMinutes(MessageAt(i)), now) THEN Agree(old, heard)
  ELSE Stores(old, heard, MessageAt(i), now)
\* What a step makes of what is held of a bot.
Follows(old, new, b) ==
  /\ Sound(new, b) /\ Timely(new)
  /\ \A j \in DOMAIN air : air[j].bot = b /\ Shows(old, j) /\ WithinLimits(new, j) => Shows(new, j)

LEMMA FollowSound ==
  ASSUME AirOK, NEW new, NEW b, DOMAIN new = Fields, AreForecasts(new.forecasts, now), AreTexts(new.texts, now),
         AreReadings(new.observations), SweepsOK(new.areaSweeps, b), PastTiles(new.radarTiles, now),
         UnbundledPoint \notin DOMAIN new.forecasts
  PROVE  Sound(new, b)
<1>1. IsList(new.areaSweeps) /\ IsList(new.radarTiles) BY DEF SweepsOK, PastTiles
<1>2. \A x \in Range(new.areaSweeps) : IsSweep(x) BY DEF SweepsOK, SweepOK, Range
<1>3. \A x \in Range(new.radarTiles) : IsTile(x) /\ x.tile.zoom >= 0 BY DEF PastTiles, Range
<1>4. IsState(new, now) BY <1>1, <1>2, <1>3, StateOf
<1> QED BY <1>3, <1>4 DEF Sound

LEMMA TimelyForecasts ==
  ASSUME AirOK, NEW i \in DOMAIN air, NEW old, Timely(old), NEW heard, Hears(old, heard, i),
         NEW forecasts, ForecastsFrom(old.forecasts, forecasts, MessageAt(i)),
         Agree(old, heard) => \A p \in DOMAIN forecasts : p \in DOMAIN old.forecasts
                                                          /\ forecasts[p].issued = old.forecasts[p].issued
  PROVE  \A p \in DOMAIN forecasts : ~IsAhead(forecasts[p].issued, now)
<1> SUFFICES ASSUME NEW p \in DOMAIN forecasts PROVE ~IsAhead(forecasts[p].issued, now) OBVIOUS
<1>1. CASE IsAhead(MessageMinutes(MessageAt(i)), now) BY <1>1 DEF Hears, Timely
<1>2. CASE ~IsAhead(MessageMinutes(MessageAt(i)), now)
  <2>1. CASE p \in DOMAIN old.forecasts /\ forecasts[p].issued = old.forecasts[p].issued BY <2>1 DEF Timely
  <2>2. CASE MessageAt(i).type = "forecast" /\ forecasts[p].issued = MessageAt(i).issued
    BY <1>2, <2>2 DEF MessageMinutes
  <2> QED BY <2>1, <2>2 DEF ForecastsFrom
<1> QED BY <1>1, <1>2

LEMMA TimelyReadings ==
  ASSUME AirOK, NEW i \in DOMAIN air, NEW old, Timely(old), NEW heard, Hears(old, heard, i),
         NEW readings, ReadingsFrom(old.observations, readings, MessageAt(i)),
         Agree(old, heard) => \A s \in DOMAIN readings :
              /\ s \in DOMAIN old.observations
              /\ readings[s].timestampMinutes = old.observations[s].timestampMinutes
  PROVE  \A s \in DOMAIN readings : ~IsAhead(readings[s].timestampMinutes, now)
<1> SUFFICES ASSUME NEW s \in DOMAIN readings PROVE ~IsAhead(readings[s].timestampMinutes, now) OBVIOUS
<1>1. CASE IsAhead(MessageMinutes(MessageAt(i)), now) BY <1>1 DEF Hears, Timely
<1>2. CASE ~IsAhead(MessageMinutes(MessageAt(i)), now)
  <2>1. CASE s \in DOMAIN old.observations /\ readings[s].timestampMinutes = old.observations[s].timestampMinutes
    BY <2>1 DEF Timely
  <2>2. CASE /\ MessageAt(i).type = "observations" /\ s \in DOMAIN MessageAt(i).stations
             /\ readings[s].timestampMinutes = ReportMinutes(MessageAt(i), s)
    <3>1. TypedMessage(MessageAt(i)) BY SentIs
    <3>2. MessageAt(i).ts \in Int /\ MessageAt(i).stations[s] \in Nat BY <2>2, <3>1 DEF TypedMessage
    <3>3. ~IsAhead(MessageAt(i).ts, now) BY <1>2, <2>2 DEF MessageMinutes
    <3>4. now \in Int /\ FutureTolerance \in Nat BY Constants DEF AirOK
    <3> QED BY <2>2, <3>2, <3>3, <3>4 DEF IsAhead, ReportMinutes
  <2> QED BY <2>1, <2>2 DEF ReadingsFrom
<1> QED BY <1>1, <1>2

\* A packet leaves shown what was shown, and is shown itself, but for the limits.
LEMMA StateFollows ==
  ASSUME MapsOK, NEW i \in DOMAIN air, NEW old, Sound(old, air[i].bot), Timely(old),
         NEW heard, Hears(old, heard, i),
         NEW pending_, NEW settled, \A k \in settled : pending_[k].request # NoRequest,
         NEW marked, IsMarked(heard, marked, MessageAt(i), pending_, settled),
         NEW new, new = Trim(marked, now)
  PROVE  /\ Follows(old, new, air[i].bot)
         /\ ~IsAhead(MessageMinutes(MessageAt(i)), now) /\ WithinLimits(new, i) => Shows(new, i)
<1> DEFINE m == MessageAt(i)
           b == air[i].bot
           ahead == IsAhead(MessageMinutes(m), now)
<1>a. AirOK /\ now \in Int /\ TypedMessage(m) BY SentIs DEF MapsOK, AirOK
<1>h. /\ Agree(old, heard) \/ Stores(old, heard, m, now)
      /\ ahead => Agree(old, heard)
      /\ ~ahead => Stores(old, heard, m, now)
  BY DEF Hears
<1>o. /\ DOMAIN old = Fields /\ AreForecasts(old.forecasts, now) /\ AreTexts(old.texts, now)
      /\ AreReadings(old.observations) /\ SweepsOK(old.areaSweeps, b) /\ PastTiles(old.radarTiles, now)
  BY StateParts, SoundTiles DEF Sound
<1>d. DOMAIN marked = Fields /\ DOMAIN new = Fields BY TrimIs DEF IsMarked
<1> HIDE DEF m, ahead
<1>f. /\ GoOn(old.forecasts, new.forecasts, now) /\ ForecastsFrom(old.forecasts, new.forecasts, m)
      /\ Agree(old, heard) => \A p \in DOMAIN new.forecasts :
           p \in DOMAIN old.forecasts /\ new.forecasts[p].issued = old.forecasts[p].issued
      /\ ~ahead /\ m.type = "forecast" /\ m.point # UnbundledPoint /\ m.point \in DOMAIN new.forecasts
           => m.issued <= new.forecasts[m.point].issued
  <2>1. now <= now BY <1>a
  <2> QED BY <1>a, <1>h, <1>o, <2>1, ForecastsFollow DEF m
<1>t. AreTexts(new.texts, now)
  <2>1. now <= now BY <1>a
  <2> QED BY <1>a, <1>h, <1>o, <2>1, TextsFollow DEF m
<1>r. /\ AreReadings(new.observations)
      /\ \A s \in DOMAIN old.observations \intersect DOMAIN new.observations :
              old.observations[s].timestampMinutes <= new.observations[s].timestampMinutes
      /\ ReadingsFrom(old.observations, new.observations, m)
      /\ Agree(old, heard) => \A s \in DOMAIN new.observations :
              /\ s \in DOMAIN old.observations
              /\ new.observations[s].timestampMinutes = old.observations[s].timestampMinutes
      /\ ~ahead /\ m.type = "observations" =>
              \A s \in DOMAIN m.stations \intersect DOMAIN new.observations :
                ReportMinutes(m, s) <= new.observations[s].timestampMinutes
  BY <1>a, <1>h, <1>o, ReadingsFollow DEF m
<1>s. /\ SweepsOK(new.areaSweeps, b)
      /\ Len(new.areaSweeps) # MaxAreaSweeps =>
           /\ \A j \in DOMAIN air : IsSweepOf(j, b) /\ OnMap(old.areaSweeps, j) => OnMap(new.areaSweeps, j)
           /\ ~ahead /\ m.type = "area_sweep" => OnMap(new.areaSweeps, i)
  BY <1>h, <1>o, SweepsFollow DEF m
<1>p. /\ PastTiles(new.radarTiles, now)
      /\ Len(new.radarTiles) # MaxRadarTiles =>
           /\ \A j \in DOMAIN air : MessageAt(j).type = "radar" /\ Pictured(old.radarTiles, j)
                => Pictured(new.radarTiles, j)
           /\ ~ahead /\ m.type = "radar" => Pictured(new.radarTiles, i)
  <2>1. IF IsAhead(MessageMinutes(MessageAt(i)), now) THEN Agree(old, heard)
        ELSE Stores(old, heard, MessageAt(i), now) BY DEF Hears
  <2> QED BY <1>a, <1>o, <2>1, TilesFollow DEF m, ahead
<1>1. UnbundledPoint \notin DOMAIN new.forecasts BY <1>f DEF ForecastsFrom, Sound
<1>2. Sound(new, b) BY <1>a, <1>d, <1>f, <1>t, <1>r, <1>s, <1>p, <1>1, FollowSound DEF GoOn
<1>3. Timely(new)
  <2>1. \A p \in DOMAIN new.forecasts : ~IsAhead(new.forecasts[p].issued, now)
    BY <1>a, <1>f, TimelyForecasts DEF m
  <2>2. \A s \in DOMAIN new.observations : ~IsAhead(new.observations[s].timestampMinutes, now)
    BY <1>a, <1>r, TimelyReadings DEF m
  <2>3. \A x \in Range(new.radarTiles) : ~IsAhead(x.taken, now) BY <1>p DEF PastTiles, Range
  <2> QED BY <2>1, <2>2, <2>3 DEF Timely
<1>4. ASSUME NEW j \in DOMAIN air, WithinLimits(new, j)
      PROVE  /\ MessageAt(j).type = "forecast" /\ MessageAt(j).point # UnbundledPoint
                  => MessageAt(j).point \in DOMAIN new.forecasts
             /\ MessageAt(j).type = "observations" => DOMAIN MessageAt(j).stations \subseteq DOMAIN new.observations
             /\ MessageAt(j).type = "area_sweep" /\ Len(new.areaSweeps) = MaxAreaSweeps => OnMap(new.areaSweeps, j)
             /\ MessageAt(j).type = "radar" /\ Len(new.radarTiles) = MaxRadarTiles => Pictured(new.radarTiles, j)
  BY <1>4 DEF WithinLimits, Held, Pictured
<1>5. ASSUME NEW j \in DOMAIN air, air[j].bot = b, Shows(old, j), WithinLimits(new, j) PROVE Shows(new, j)
  <2>1. ShowsForecast(new, j)
    <3> SUFFICES ASSUME MessageAt(j).type = "forecast", MessageAt(j).point # UnbundledPoint
                 PROVE  /\ MessageAt(j).point \in DOMAIN new.forecasts
                        /\ MessageAt(j).issued <= new.forecasts[MessageAt(j).point].issued
      BY DEF ShowsForecast
    <3> DEFINE p == MessageAt(j).point
    <3>1. p \in DOMAIN new.forecasts BY <1>4, <1>5
    <3>2. p \in DOMAIN old.forecasts /\ MessageAt(j).issued <= old.forecasts[p].issued
      BY <1>5 DEF Shows, ShowsForecast
    <3>3. old.forecasts[p].issued <= new.forecasts[p].issued BY <1>f, <3>1, <3>2 DEF GoOn
    <3>4. MessageAt(j).issued \in Int BY <1>a, SentIs DEF TypedMessage
    <3>5. old.forecasts[p].issued \in Int /\ new.forecasts[p].issued \in Int
      BY <1>o, <1>f, <3>1, <3>2 DEF AreForecasts, IsForecast, GoOn
    <3> HIDE DEF p
    <3> SUFFICES p \in DOMAIN new.forecasts /\ MessageAt(j).issued <= new.forecasts[p].issued BY DEF p
    <3> QED BY <3>1, <3>2, <3>3, <3>4, <3>5
  <2>2. ShowsReadings(new, j)
    <3> SUFFICES ASSUME MessageAt(j).type = "observations", NEW s \in DOMAIN MessageAt(j).stations
                 PROVE  /\ s \in DOMAIN new.observations
                        /\ ReportMinutes(MessageAt(j), s) <= new.observations[s].timestampMinutes
      BY DEF ShowsReadings
    <3>1. s \in DOMAIN new.observations BY <1>4, <1>5
    <3>2. s \in DOMAIN old.observations /\ ReportMinutes(MessageAt(j), s) <= old.observations[s].timestampMinutes
      BY <1>5 DEF Shows, ShowsReadings
    <3>3. old.observations[s].timestampMinutes <= new.observations[s].timestampMinutes BY <1>r, <3>1, <3>2
    <3>4. ReportMinutes(MessageAt(j), s) \in Int
      <4>1. TypedMessage(MessageAt(j)) BY <1>a, SentIs
      <4> QED BY <4>1 DEF TypedMessage, ReportMinutes
    <3>5. old.observations[s].timestampMinutes \in Int /\ new.observations[s].timestampMinutes \in Int
      BY <1>o, <1>r, <3>1, <3>2 DEF AreReadings, IsReading
    <3> QED BY <3>1, <3>2, <3>3, <3>4, <3>5
  <2>3. MessageAt(j).type = "area_sweep" => OnMap(new.areaSweeps, j)
    <3>1. MessageAt(j).type = "area_sweep" => IsSweepOf(j, b) /\ OnMap(old.areaSweeps, j)
      BY <1>5 DEF Shows, IsSweepOf
    <3> QED BY <1>s, <1>4, <1>5, <3>1
  <2>4. MessageAt(j).type = "radar" => Pictured(new.radarTiles, j) BY <1>p, <1>4, <1>5 DEF Shows
  <2> QED BY <2>1, <2>2, <2>3, <2>4 DEF Shows
<1>6. ASSUME ~ahead, WithinLimits(new, i) PROVE Shows(new, i)
  <2>1. ShowsForecast(new, i) BY <1>f, <1>4, <1>6 DEF ShowsForecast, m
  <2>2. ShowsReadings(new, i) BY <1>r, <1>4, <1>6 DEF ShowsReadings, m
  <2>3. m.type = "area_sweep" => OnMap(new.areaSweeps, i) BY <1>s, <1>4, <1>6 DEF m
  <2>4. m.type = "radar" => Pictured(new.radarTiles, i) BY <1>p, <1>4, <1>6 DEF m
  <2> QED BY <2>1, <2>2, <2>3, <2>4 DEF Shows, m
<1> QED BY <1>2, <1>3, <1>5, <1>6 DEF Follows, ahead, m

LEMMA TrimFollows ==
  ASSUME AirOK, NEW old, NEW b, Sound(old, b), Timely(old), NEW new, new = Trim(old, now)
  PROVE  Follows(old, new, b)
<1>a. now \in Int /\ now <= now BY DEF AirOK
<1>o. /\ DOMAIN old = Fields /\ AreForecasts(old.forecasts, now) /\ AreTexts(old.texts, now)
      /\ AreReadings(old.observations) /\ SweepsOK(old.areaSweeps, b) /\ PastTiles(old.radarTiles, now)
  BY StateParts, SoundTiles DEF Sound
<1>n. DOMAIN new = Fields /\ new.areaSweeps = old.areaSweeps /\ new.radarTiles = old.radarTiles BY <1>o, TrimIs
<1>f. /\ AreForecasts(new.forecasts, now)
      /\ \A p \in DOMAIN new.forecasts : p \in DOMAIN old.forecasts /\ new.forecasts[p] = old.forecasts[p]
  BY <1>a, <1>o, TrimmedForecasts DEF GoOn
<1>t. AreTexts(new.texts, now) BY <1>a, <1>o, TrimmedTexts
<1>r. \A s \in DOMAIN new.observations : s \in DOMAIN old.observations /\ new.observations[s] = old.observations[s]
  BY <1>o, TrimmedReadings
<1>1. AreReadings(new.observations) BY <1>o, TrimmedReadings
<1>2. UnbundledPoint \notin DOMAIN new.forecasts BY <1>f DEF Sound
<1>3. Sound(new, b) BY <1>o, <1>n, <1>f, <1>t, <1>1, <1>2, FollowSound
<1>4. Timely(new) BY <1>n, <1>f, <1>r DEF Timely
<1>5. ASSUME NEW j \in DOMAIN air, Shows(old, j), WithinLimits(new, j) PROVE Shows(new, j)
  <2>1. ShowsForecast(new, j)
    BY <1>5, <1>f DEF Shows, ShowsForecast, WithinLimits, Held
  <2>2. ShowsReadings(new, j)
    BY <1>5, <1>r DEF Shows, ShowsReadings, WithinLimits
  <2> QED BY <1>5, <1>n, <2>1, <2>2 DEF Shows
<1> QED BY <1>3, <1>4, <1>5 DEF Follows

\* A bot nobody has heard yet.
LEMMA NewBotSound ==
  ASSUME AirOK, NEW b
  PROVE  Sound(NewBot, b) /\ Timely(NewBot)
<1>1. /\ DOMAIN NewBot = Fields /\ NewBot.forecasts = <<>> /\ NewBot.observations = <<>>
      /\ NewBot.areaSweeps = <<>> /\ NewBot.radarTiles = <<>>
  BY NewBotIs
<1>2. IsState(NewBot, now) BY NewBotIsHeld
<1>3. IsList(<<>>) /\ DOMAIN <<>> = {} /\ Range(<<>>) = {} BY DEF IsList, Range
<1>4. SweepsOK(<<>>, b) BY <1>3 DEF SweepsOK
<1> QED BY <1>1, <1>2, <1>3, <1>4 DEF Sound, Timely

-----------------------------------------------------------------------------
(* What was sound and shown stays so as time goes on and more is sent *)

GoesForward ==
  /\ now <= now' /\ script' = script
  /\ \A k \in DOMAIN air : k \in DOMAIN air' /\ air'[k] = air[k] /\ MessageAt(k)' = MessageAt(k)

LEMMA SoundLater ==
  ASSUME AirOK, AirOK', GoesForward, NEW s, NEW b, Sound(s, b)
  PROVE  Sound(s, b)'
<1>1. now \in Int /\ now' \in Int /\ now <= now' BY DEF AirOK, GoesForward
<1>2. IsState(s, now')
  <2>1. /\ DOMAIN s = Fields /\ AreForecasts(s.forecasts, now) /\ AreTexts(s.texts, now)
        /\ AreReadings(s.observations) /\ IsList(s.areaSweeps) /\ IsList(s.radarTiles)
        /\ \A x \in Range(s.areaSweeps) : IsSweep(x)
        /\ \A x \in Range(s.radarTiles) : IsTile(x)
    BY StateParts DEF Sound
  <2>2. AreForecasts(s.forecasts, now')
    <3>1. ASSUME NEW p \in DOMAIN s.forecasts PROVE p \in Nat /\ IsForecast(s.forecasts[p], now')
      <4>1. p \in Nat /\ IsForecast(s.forecasts[p], now) BY <2>1 DEF AreForecasts
      <4> QED BY <1>1, <4>1 DEF IsForecast
    <3> QED BY <2>1, <3>1 DEF AreForecasts
  <2>3. AreTexts(s.texts, now')
    <3>1. ASSUME NEW g \in DOMAIN s.texts PROVE g \in Nat /\ IsText(s.texts[g], now')
      <4>1. g \in Nat /\ IsText(s.texts[g], now) BY <2>1 DEF AreTexts
      <4> QED BY <1>1, <4>1 DEF IsText
    <3> QED BY <2>1, <3>1 DEF AreTexts
  <2> QED BY <2>1, <2>2, <2>3, StateOf
<1>3. ASSUME NEW x, SweepOK(x, b) PROVE SweepOK(x, b)'
  <2>1. IsSweep(x) /\ x.builtMinutes <= now' BY <1>1, <1>3 DEF SweepOK, IsSweep
  <2>2. Filed(x) => Filed(x)' BY DEF Filed, GoesForward, Maps
  <2>3. Stems(x, b) => Stems(x, b)'
    <3>1. Maps(script') = Maps(script) BY DEF GoesForward
    <3> QED BY <3>1 DEF Stems, GoesForward, IsSweepOf
  <2> QED BY <1>3, <2>1, <2>2, <2>3 DEF SweepOK
<1>4. SweepsOK(s.areaSweeps, b)' BY <1>3 DEF Sound, SweepsOK
<1> QED BY <1>2, <1>4 DEF Sound

LEMMA TimelyLater ==
  ASSUME AirOK, AirOK', GoesForward, NEW s, NEW b, Sound(s, b), Timely(s)
  PROVE  Timely(s)'
<1>1. now \in Int /\ now' \in Int /\ now <= now' /\ FutureTolerance \in Nat
  BY Constants DEF AirOK, GoesForward
<1>2. /\ AreForecasts(s.forecasts, now) /\ AreReadings(s.observations)
      /\ \A x \in Range(s.radarTiles) : IsTile(x)
  BY StateParts DEF Sound
<1>3. ASSUME NEW t, t \in Int, ~IsAhead(t, now) PROVE ~IsAhead(t, now')
  <2>1. \A k, l \in Int : k <= l /\ ~(t > k + FutureTolerance) => ~(t > l + FutureTolerance) BY <1>1, <1>3
  <2> QED BY <1>1, <1>3, <2>1 DEF IsAhead
<1>4. \A p \in DOMAIN s.forecasts : s.forecasts[p].issued \in Int BY <1>2 DEF AreForecasts, IsForecast
<1>5. \A o \in DOMAIN s.observations : s.observations[o].timestampMinutes \in Int
  BY <1>2 DEF AreReadings, IsReading
<1>6. \A x \in Range(s.radarTiles) : x.taken \in Int BY <1>2 DEF IsTile
<1> QED BY <1>3, <1>4, <1>5, <1>6 DEF Timely

\* A map that more packets say the same of is about what it was about.
LEMMA ScopeLater ==
  ASSUME MapsOK, AirOK', GoesForward, NEW i \in DOMAIN air, MessageAt(i).type = "area_sweep"
  PROVE  ScopeOf(i)' = ScopeOf(i)
<1>a. AirOK BY DEF MapsOK
<1>1. PICK j \in DOMAIN air : /\ IsSweepOf(j, air[i].bot) /\ MessageAt(j).entries = MessageAt(i).entries
                              /\ MessageAt(j).idx = 0
  BY DEF MapsOK, SweepsSent
<1>2. PICK p \in Maps(script) : p.idx = 0 /\ p.entries = MessageAt(i).entries /\ p.scope = MessageAt(j).scope
  <2>1. TypedMessage(MessageAt(j)) BY <1>a, SentIs
  <2> QED BY <1>1, <2>1 DEF TypedMessage, IsSweepOf
<1>3. ScopeOf(i) = p.scope BY <1>2, ScopeIs
<1> DEFINE first == {k \in DOMAIN air' : /\ air'[k].bot = air'[i].bot /\ air'[k].packet.message.type = "area_sweep"
                      /\ air'[k].packet.message.entries = air'[i].packet.message.entries
                      /\ air'[k].packet.message.idx = 0}
<1>4. ScopeOf(i)' = UNION {air'[k].packet.message.scope : k \in first} BY DEF ScopeOf, MessageAt
<1>5. j \in first BY <1>1 DEF GoesForward, IsSweepOf, MessageAt
<1>6. ASSUME NEW k \in first PROVE air'[k].packet.message.scope = p.scope
  <2> DEFINE m == air'[k].packet.message
  <2>1. IsMessage(m) BY DEF AirOK, GoesForward, MessageAt, IsMessage, IsDated
  <2>2. IsScript(script) BY <1>a DEF AirOK
  <2>3. TypedMessage(m) BY <2>1, <2>2, MessageIs
  <2>4. m.type = "area_sweep" /\ m.idx = 0 /\ m.entries = MessageAt(i).entries BY DEF GoesForward, MessageAt
  <2> HIDE DEF m
  <2>5. PICK q \in Maps(script) : q.idx = 0 /\ q.entries = p.entries /\ q.scope = m.scope
    BY <1>2, <2>3, <2>4 DEF TypedMessage
  <2>6. p.scope = q.scope BY <1>2, <2>2, <2>5 DEF IsScript
  <2> QED BY <2>5, <2>6 DEF m
<1> HIDE DEF first
<1> QED BY <1>3, <1>4, <1>5, <1>6

LEMMA ShownLater ==
  ASSUME MapsOK, AirOK', GoesForward, NEW i \in DOMAIN air, NEW s, Shows(s, i)
  PROVE  Shows(s, i)'
<1>1. MessageAt(i)' = MessageAt(i) BY DEF GoesForward
<1>2. ShowsForecast(s, i)' BY <1>1 DEF Shows, ShowsForecast
<1>3. ShowsReadings(s, i)' BY <1>1 DEF Shows, ShowsReadings
<1>4. MessageAt(i).type = "area_sweep" => OnMap(s.areaSweeps, i)'
  <2> HAVE MessageAt(i).type = "area_sweep"
  <2>1. ScopeOf(i)' = ScopeOf(i) BY ScopeLater
  <2>2. OnMap(s.areaSweeps, i) BY DEF Shows
  <2> QED BY <1>1, <2>1, <2>2 DEF OnMap
<1>5. MessageAt(i).type = "radar" => Pictured(s.radarTiles, i)' BY <1>1 DEF Shows, Pictured, HasPicture
<1> QED BY <1>1, <1>2, <1>3, <1>4, <1>5 DEF Shows

-----------------------------------------------------------------------------
(* The phone *)

Holds(held, c, s) == c \in DOMAIN held /\ s = held[c]
HeldOK(held) == \A c, s : Holds(held, c, s) => Sound(s, c) /\ Timely(s)
KnownOK(held, heard) ==
  \A i \in heard : i \in DOMAIN air /\ \E s : Holds(held, air[i].bot, s) /\ Shows(s, i)
\* The blob may be of a phone with another clock, until this one has written it.
FileOK(held, heard) ==
  /\ \A c, s : Holds(held, c, s) => Sound(s, c) /\ (heard # {} => Timely(s))
  /\ KnownOK(held, heard)
PendingOK == IsList(pending) /\ \A k \in DOMAIN pending : pending[k].request # NoRequest
PhoneInv == HeldOK(states) /\ KnownOK(states, known) /\ FileOK(FromSnapshot(stored), saved) /\ PendingOK

\* What is so of what the phone now has stays so while the air and the clock go on.
LEMMA HeldLater ==
  ASSUME MapsOK, AirOK', GoesForward, HeldOK(states')
  PROVE  HeldOK(states)'
<1>a. AirOK BY DEF MapsOK
<1>1. ASSUME NEW c, NEW s, Holds(states', c, s) PROVE Sound(s, c)' /\ Timely(s)'
  <2>1. Sound(s, c) /\ Timely(s) BY <1>1 DEF HeldOK
  <2> QED BY <1>a, <2>1, SoundLater, TimelyLater
<1> QED BY <1>1 DEF HeldOK, Holds

LEMMA KnownLater ==
  ASSUME MapsOK, AirOK', GoesForward, NEW held, NEW heard, KnownOK(held, heard)
  PROVE  \A i \in heard : i \in DOMAIN air' /\ \E s : Holds(held, air'[i].bot, s) /\ Shows(s, i)'
<1> SUFFICES ASSUME NEW i \in heard
             PROVE  i \in DOMAIN air' /\ \E s : Holds(held, air'[i].bot, s) /\ Shows(s, i)'
  OBVIOUS
<1>1. PICK s : Holds(held, air[i].bot, s) /\ Shows(s, i) BY DEF KnownOK
<1>2. i \in DOMAIN air BY DEF KnownOK
<1>3. Shows(s, i)' BY <1>1, <1>2, ShownLater
<1> QED BY <1>1, <1>2, <1>3 DEF GoesForward

LEMMA PhoneLater ==
  ASSUME MapsOK, AirOK', GoesForward, HeldOK(states'), KnownOK(states', known'),
         FileOK(FromSnapshot(stored'), saved'), PendingOK'
  PROVE  PhoneInv'
<1>a. AirOK BY DEF MapsOK
<1>1. HeldOK(states)' BY HeldLater
<1>2. KnownOK(states, known)' BY KnownLater DEF KnownOK, Holds
<1>3. ASSUME NEW c, NEW s, Holds(FromSnapshot(stored'), c, s) PROVE Sound(s, c)' /\ (saved' # {} => Timely(s)')
  <2>1. Sound(s, c) /\ (saved' # {} => Timely(s)) BY <1>3 DEF FileOK
  <2> QED BY <1>a, <2>1, SoundLater, TimelyLater
<1>4. \A i \in saved' : i \in DOMAIN air' /\ \E s : Holds(FromSnapshot(stored'), air'[i].bot, s) /\ Shows(s, i)'
  BY KnownLater DEF FileOK
<1>5. FromSnapshot(stored)' = FromSnapshot(stored') BY DEF FromSnapshot
<1>6. FileOK(FromSnapshot(stored), saved)' BY <1>3, <1>4, <1>5 DEF FileOK, KnownOK, Holds
<1> QED BY <1>1, <1>2, <1>6 DEF PhoneInv

\* The blob of what is held.
LEMMA SavedSound ==
  ASSUME HeldOK(states), KnownOK(states, known)
  PROVE  /\ HeldOK(FromSnapshot(Snapshot(states)))
         /\ KnownOK(FromSnapshot(Snapshot(states)), known)
<1> DEFINE read == [c \in DOMAIN states |-> Decode(states[c], NewBot)]
<1>1. FromSnapshot(Snapshot(states)) = read BY DEF FromSnapshot, Snapshot, FormatVersion
<1>2. ASSUME NEW c \in DOMAIN states
      PROVE  /\ Holds(states, c, states[c])
             /\ Sound(read[c], c) /\ Timely(read[c]) /\ \A i : Shows(states[c], i) => Shows(read[c], i)
  <2>1. Holds(states, c, states[c]) /\ Sound(states[c], c) /\ Timely(states[c]) BY DEF HeldOK, Holds
  <2>2. IsState(states[c], now) BY <2>1 DEF Sound
  <2>3. IsRead(read[c], states[c]) BY <2>2, ReadIs
  <2> HIDE DEF read
  <2> QED BY <2>1, <2>3, ReadBackSound
<1>3. DOMAIN read = DOMAIN states OBVIOUS
<1> HIDE DEF read
<1>4. HeldOK(read) BY <1>2, <1>3 DEF HeldOK, Holds
<1>5. KnownOK(read, known)
  <2>1. ASSUME NEW i \in known PROVE i \in DOMAIN air /\ \E s : Holds(read, air[i].bot, s) /\ Shows(s, i)
    <3>1. PICK s : Holds(states, air[i].bot, s) /\ Shows(s, i) BY DEF KnownOK
    <3>2. air[i].bot \in DOMAIN states /\ s = states[air[i].bot] BY <3>1 DEF Holds
    <3>3. Shows(read[air[i].bot], i) BY <1>2, <3>1, <3>2
    <3>4. Holds(read, air[i].bot, read[air[i].bot]) BY <1>3, <3>2 DEF Holds
    <3> QED BY <3>3, <3>4 DEF KnownOK
  <2> QED BY <2>1 DEF KnownOK
<1> QED BY <1>1, <1>4, <1>5

\* What the blob gives when the app is opened.
LEMMA LoadSound ==
  ASSUME AirOK, FileOK(FromSnapshot(stored), saved)
  PROVE  HeldOK(Load(stored, now)) /\ KnownOK(Load(stored, now), saved)
<1> DEFINE held == FromSnapshot(stored)
           loaded == [c \in DOMAIN held |-> DropFutureTimes(held[c], now)]
<1>1. Load(stored, now) = loaded BY DEF Load
<1>2. ASSUME NEW c \in DOMAIN held
      PROVE  /\ Sound(loaded[c], c) /\ Timely(loaded[c])
             /\ saved # {} => \A i : Shows(held[c], i) => Shows(loaded[c], i)
  <2>1. Sound(held[c], c) /\ (saved # {} => Timely(held[c])) BY DEF FileOK, Holds
  <2>2. IsState(held[c], now) BY <2>1 DEF Sound
  <2>3. IsLoaded(loaded[c], held[c], now) BY <2>2, LoadedIs
  <2> HIDE DEF loaded, held
  <2> QED BY <2>1, <2>3, LoadedSound
<1>3. DOMAIN loaded = DOMAIN held OBVIOUS
<1>4. KnownOK(held, saved) BY DEF FileOK
<1> HIDE DEF loaded, held
<1>5. HeldOK(loaded) BY <1>2, <1>3 DEF HeldOK, Holds
<1>6. KnownOK(loaded, saved)
  <2>1. ASSUME NEW i \in saved PROVE i \in DOMAIN air /\ \E s : Holds(loaded, air[i].bot, s) /\ Shows(s, i)
    <3>1. PICK s : Holds(held, air[i].bot, s) /\ Shows(s, i) BY <1>4 DEF KnownOK
    <3>2. air[i].bot \in DOMAIN held /\ s = held[air[i].bot] BY <3>1 DEF Holds
    <3>3. Shows(loaded[air[i].bot], i) BY <1>2, <3>1, <3>2
    <3>4. Holds(loaded, air[i].bot, loaded[air[i].bot]) BY <1>3, <3>2 DEF Holds
    <3> QED BY <1>4, <3>3, <3>4 DEF KnownOK
  <2> QED BY <2>1 DEF KnownOK
<1> QED BY <1>1, <1>5, <1>6

\* A file has what a phone can hold, and no map of the script's.
LEMMA FileIs ==
  ASSUME AirOK, NEW file, IsFile(file, script), now = StartTime, NEW c, NEW s, Holds(FromSnapshot(file), c, s)
  PROVE  Sound(s, c)
<1> DEFINE tiles == FieldOr(file.bots[c], "radarTiles", <<>>)
           forecasts == FieldOr(file.bots[c], "forecasts", <<>>)
<1>1. /\ c \in DOMAIN FromSnapshot(file) /\ s = FromSnapshot(file)[c] BY DEF Holds
<1>2. s = Decode(file.bots[c], NewBot) BY <1>1 DEF FromSnapshot
<1>3. DOMAIN NewBot = Fields /\ {"forecasts", "radarTiles"} \subseteq Fields BY NewBotIs DEF Fields
<1>4. /\ DOMAIN s = Fields /\ s.radarTiles = Those(tiles, KeptTiles(tiles))
      /\ s.forecasts = Restrict(forecasts, DOMAIN forecasts \ {UnbundledPoint})
  BY <1>2, <1>3 DEF Decode
<1>5. /\ IsHeld(s, now) /\ IsList(tiles)
      /\ \A x \in Range(s.areaSweeps) :
           /\ x.builtMinutes < StartTime
           /\ \A k, l \in DOMAIN x.packets : x.packets[k] = x.packets[l]
           /\ \A k \in DOMAIN x.packets : \A p \in Maps(script) : x.packets[k] # p.entries
  BY <1>1 DEF IsFile
<1> HIDE DEF tiles, forecasts
<1>6. \A x \in Range(s.radarTiles) : x.tile.zoom >= 0
  <2>1. KeptTiles(tiles) \in SUBSET DOMAIN tiles BY DEF KeptTiles
  <2>2. Range(s.radarTiles) = {tiles[n] : n \in KeptTiles(tiles)} BY <1>4, <1>5, <2>1, ThoseIs
  <2> QED BY <2>2 DEF KeptTiles, IsKeptTile
<1>7. UnbundledPoint \notin DOMAIN s.forecasts BY <1>4 DEF Restrict
<1>8. SweepsOK(s.areaSweeps, c)
  <2>1. IsList(s.areaSweeps) /\ \A x \in Range(s.areaSweeps) : IsSweep(x) BY <1>5 DEF IsHeld
  <2>2. ASSUME NEW n \in DOMAIN s.areaSweeps PROVE SweepOK(s.areaSweeps[n], c)
    <3> DEFINE x == s.areaSweeps[n]
    <3>1. x \in Range(s.areaSweeps) BY DEF Range
    <3>2. IsSweep(x) /\ Filed(x) BY <1>5, <2>1, <3>1 DEF Filed
    <3>3. x.builtMinutes \in Int /\ x.builtMinutes < StartTime /\ StartTime \in Nat
      BY <1>5, <3>1, <3>2, Constants DEF IsSweep
    <3>4. x.builtMinutes <= now BY <3>3
    <3> QED BY <3>2, <3>4 DEF SweepOK
  <2> QED BY <2>1, <2>2 DEF SweepsOK
<1> QED BY <1>4, <1>5, <1>6, <1>7, <1>8 DEF Sound, IsState

LEMMA PhoneStarts ==
  ASSUME Init
  PROVE  PhoneInv
<1>1. AirOK BY AirStarts DEF AirInv, MapsOK
<1>2. now = StartTime /\ states = Load(stored, now) /\ known = {} /\ saved = {} /\ pending = <<>> BY DEF Init
<1>3. IsFile(stored, script) BY CasesAssumption DEF Init
<1>4. FileOK(FromSnapshot(stored), saved) BY <1>1, <1>2, <1>3, FileIs DEF FileOK, KnownOK
<1>5. HeldOK(states) BY <1>1, <1>2, <1>4, LoadSound
<1>6. KnownOK(states, known) BY <1>2 DEF KnownOK
<1>7. PendingOK BY <1>2 DEF PendingOK, IsList, Range
<1> QED BY <1>4, <1>5, <1>6, <1>7 DEF PhoneInv

-----------------------------------------------------------------------------
(* A packet is taken in *)

\* What Deliver(i) does with a packet that is no copy.
Ingests(i, old, heard, settled, marked) ==
  /\ old = IF air[i].bot \in DOMAIN states THEN states[air[i].bot] ELSE NewBot
  /\ settled \subseteq DOMAIN pending
  /\ DOMAIN old = Fields => Hears(old, heard, i) /\ DOMAIN heard = Fields
  /\ marked = Marked(heard, pending, MessageAt(i), settled)
  /\ states' = [c \in DOMAIN states \union {air[i].bot} |->
                  Trim(IF c = air[i].bot THEN marked ELSE states[c], now)]
  /\ pending' = [k \in 1 .. Len(pending) - Cardinality(settled) |->
                   pending[CHOOSE l \in DOMAIN pending :
                             l \notin settled /\ Cardinality({m \in 1 .. l : m \notin settled}) = k]]
  /\ known' = {k \in known \union (IF IsAhead(MessageMinutes(MessageAt(i)), now) THEN {} ELSE {i}) :
                 WithinLimits(states'[air[k].bot], k)}

\* What it notes: the slots that the message fills, if it was stored.
AsOf(i, slot) ==
  IF slot[1] = "station" THEN ReportMinutes(MessageAt(i), slot[3]) ELSE MessageMinutes(MessageAt(i))
Notes(i, heard, marked, fills) ==
  /\ \/ fills = {}
     \/ /\ ~IsAhead(MessageMinutes(MessageAt(i)), now) /\ WasStored(heard, MessageAt(i))
        /\ \E requests : fills = Fills(Put(states, air[i].bot, marked), air[i].bot, MessageAt(i), requests)
  /\ lastAnswers' = [slot \in DOMAIN lastAnswers \union fills |->
                       IF slot \in fills
                       THEN [bot |-> slot[2], receivedAt |-> now, contentAsOf |-> AsOf(i, slot)]
                       ELSE lastAnswers[slot]]
SaysCoverage(i, old, heard) ==
  \/ old.coverage # NoCoverage
  \/ MessageAt(i).type = "coverage" /\ ~IsAhead(MessageMinutes(MessageAt(i)), now)
  => heard.coverage # NoCoverage
IsNoted(i, old, heard, marked) ==
  /\ DOMAIN old = Fields => SaysCoverage(i, old, heard)
  /\ \E fills : Notes(i, heard, marked, fills)
IsIngest(i) ==
  \E old, heard, settled, marked : Ingests(i, old, heard, settled, marked) /\ IsNoted(i, old, heard, marked)

\* What a bot has said of its coverage is not taken back.
LEMMA CoverageHeard ==
  ASSUME NEW before, DOMAIN before = Fields, NEW packet, NEW at, NEW heard, NEW x,
         ~IsDuplicate(before, packet, at),
         heard = [Apply(before, packet, at) EXCEPT !.lastLiveHeardAt = x]
  PROVE  \/ before.coverage # NoCoverage
         \/ packet.message.type = "coverage" /\ ~IsAhead(MessageMinutes(packet.message), at)
         => heard.coverage # NoCoverage
<1> DEFINE a == Stream!Accept(before, packet, at)
           o == Stream!Place(before, packet.seq, at) = "behind"
           m == packet.message
           s == Store(a, m, at, o)
<1>1. /\ {"coverage", "lastLiveHeardAt", "texts", "areaSweeps", "radarTiles", "forecasts",
          "unbundledForecasts", "observations"} \subseteq Fields
  BY DEF Fields
<1>2. DOMAIN a = Fields /\ a.coverage = before.coverage
  <2>1. DOMAIN a = DOMAIN before BY DEF Stream!Accept
  <2> QED BY <1>1, <2>1 DEF Stream!Accept
<1>3. \A y : [says |-> y, receivedAt |-> at] # NoCoverage
  <2>1. \A y : "says" \in DOMAIN [says |-> y, receivedAt |-> at] OBVIOUS
  <2>2. "says" \notin DOMAIN NoCoverage BY DEF NoCoverage
  <2> QED BY <2>1, <2>2
<1> HIDE DEF a, o
<1>4. DOMAIN s = Fields /\ (a.coverage # NoCoverage \/ m.type = "coverage" => s.coverage # NoCoverage)
  <2>1. CASE m.type = "coverage"
    <3>1. s = StoreCoverage(a, m, at, o) BY <2>1 DEF Store
    <3> QED BY <1>1, <1>2, <1>3, <3>1 DEF StoreCoverage
  <2>2. CASE m.type # "coverage"
    <3>1. \/ s = a \/ (\E y : s = [a EXCEPT !.texts = y]) \/ (\E y : s = [a EXCEPT !.areaSweeps = y])
          \/ (\E y : s = [a EXCEPT !.radarTiles = y]) \/ (\E y : s = [a EXCEPT !.forecasts = y])
          \/ (\E y : s = [a EXCEPT !.unbundledForecasts = y]) \/ (\E y : s = [a EXCEPT !.observations = y])
      <4>1. CASE m.type = "text"
        <5>1. s = StoreText(a, m, at) BY <4>1 DEF Store
        <5> QED BY <5>1 DEF StoreText
      <4>2. CASE m.type = "area_sweep"
        <5>1. s = StoreAreaSweep(a, m, at) BY <4>2 DEF Store
        <5> QED BY <5>1 DEF StoreAreaSweep
      <4>3. CASE m.type = "radar"
        <5>1. s = StoreRadar(a, m, at) BY <4>3 DEF Store
        <5> QED BY <5>1 DEF StoreRadar
      <4>4. CASE m.type = "forecast"
        <5>1. s = StoreForecast(a, m, at) BY <4>4 DEF Store
        <5> QED BY <5>1 DEF StoreForecast
      <4>5. CASE m.type = "observations"
        <5>1. s = StoreObservations(a, m, at) BY <4>5 DEF Store
        <5> QED BY <5>1 DEF StoreObservations
      <4>6. CASE m.type \notin {"text", "area_sweep", "radar", "forecast", "observations"}
        BY <2>2, <4>6 DEF Store
      <4> QED BY <4>1, <4>2, <4>3, <4>4, <4>5, <4>6
    <3> HIDE DEF s
    <3> QED BY <1>1, <1>2, <2>2, <3>1
  <2> QED BY <2>1, <2>2
<1>5. CASE IsAhead(MessageMinutes(m), at)
  <2>1. heard = [a EXCEPT !.lastLiveHeardAt = x] BY <1>5 DEF Apply, a
  <2> QED BY <1>1, <1>2, <1>5, <2>1
<1>6. CASE ~IsAhead(MessageMinutes(m), at)
  <2>1. heard = [s EXCEPT !.lastLiveHeardAt = x] BY <1>6 DEF Apply, a, o
  <2> HIDE DEF s
  <2> QED BY <1>1, <1>2, <1>4, <2>1
<1> QED BY <1>5, <1>6

LEMMA CoverageStays ==
  ASSUME NEW state, DOMAIN state = Fields
  PROVE  /\ \A pending_, m, settled : Marked(state, pending_, m, settled).coverage = state.coverage
         /\ \A at : Trim(state, at).coverage = state.coverage
<1>1. /\ {"coverage", "texts", "areaSweeps", "forecasts", "unbundledForecasts", "observations"} \subseteq Fields
  BY DEF Fields
<1>2. ASSUME NEW pending_, NEW m, NEW settled
      PROVE  Marked(state, pending_, m, settled).coverage = state.coverage
  <2> DEFINE s == Marked(state, pending_, m, settled)
  <2>1. \/ s = state \/ (\E y : s = [state EXCEPT !.texts = y]) \/ (\E y : s = [state EXCEPT !.areaSweeps = y])
        \/ (\E y : s = [state EXCEPT !.forecasts = y]) \/ (\E y : s = [state EXCEPT !.unbundledForecasts = y])
    <3>1. CASE m.type = "forecast"
      <4>1. s = FileForecast(state, m, pending_, settled) BY <3>1 DEF Marked
      <4>2. \/ s = state
            \/ s = [state EXCEPT !.forecasts[m.point].requestedHere = TRUE]
            \/ \E y : s = [state EXCEPT !.unbundledForecasts = y]
        BY <4>1 DEF FileForecast
      <4>3. [state EXCEPT !.forecasts[m.point].requestedHere = TRUE]
              = [state EXCEPT !.forecasts = [state.forecasts EXCEPT ![m.point].requestedHere = TRUE]]
        OBVIOUS
      <4> QED BY <4>2, <4>3
    <3>2. CASE m.type = "text"
      <4>1. s = state \/ \E r : s = [state EXCEPT !.texts[m.group].request = r] BY <3>2 DEF Marked
      <4>2. \A r : [state EXCEPT !.texts[m.group].request = r]
                     = [state EXCEPT !.texts = [state.texts EXCEPT ![m.group].request = r]]
        OBVIOUS
      <4> QED BY <4>1, <4>2
    <3>3. CASE m.type = "area_sweep"
      <4>1. s = state \/ \E y : s = [state EXCEPT !.areaSweeps = y] BY <3>3 DEF Marked
      <4> QED BY <4>1
    <3>4. CASE m.type \notin {"forecast", "text", "area_sweep"}
      <4>1. s = state BY <3>4 DEF Marked
      <4> QED BY <4>1
    <3> QED BY <3>1, <3>2, <3>3, <3>4
  <2> HIDE DEF s
  <2>2. s.coverage = state.coverage BY <1>1, <2>1
  <2> QED BY <2>2 DEF s
<1>3. ASSUME NEW at PROVE Trim(state, at).coverage = state.coverage
  <2> DEFINE t == PruneTexts(state, at - TextRetention)
             f == PruneForecasts(t, at - ForecastRetention)
             r == TrimObservations(f, at - ObservationRetention)
  <2>1. Trim(state, at) = r BY DEF Trim
  <2>2. \E y : t = [state EXCEPT !.texts = y] BY DEF PruneTexts
  <2> HIDE DEF t
  <2>3. \E y : f = [t EXCEPT !.forecasts = y] BY DEF PruneForecasts
  <2> HIDE DEF f
  <2>4. \E y : r = [f EXCEPT !.observations = y] BY DEF TrimObservations
  <2> HIDE DEF r
  <2> QED BY <1>1, <2>1, <2>2, <2>3, <2>4
<1> QED BY <1>2, <1>3

LEMMA SettledIs ==
  ASSUME NEW state, NEW m, NEW b
  PROVE  Settled(state, pending, m, b) \subseteq DOMAIN pending
BY DEF Settled, Refused

LEMMA DeliverIs ==
  ASSUME NEW i \in DOMAIN air, Deliver(i)
  PROVE  \/ UNCHANGED <<states, pending, known, lastAnswers>>
         \/ IsIngest(i)
<1> DEFINE b == air[i].bot
           m == air[i].packet.message
           old == IF b \in DOMAIN states THEN states[b] ELSE NewBot
           applied == Apply(old, air[i].packet, now)
           heard == [applied EXCEPT !.lastLiveHeardAt = IF IsLive(i) THEN now ELSE applied.lastLiveHeardAt]
           settled == Settled(heard, pending, m, b)
           marked == Marked(heard, pending, m, settled)
           held == Put(states, b, marked)
           trimmed == [c \in DOMAIN held |-> Trim(held[c], now)]
           isAnswer == IsLive(i) /\ ~IsAhead(MessageMinutes(m), now) /\ WasStored(heard, m)
           requests == {pending[k].request : k \in settled}
           fills == IF isAnswer THEN Fills(held, b, m, requests) ELSE {}
<1>1. CASE IsDuplicate(old, air[i].packet, now) BY <1>1 DEF Deliver
<1>2. CASE ~IsDuplicate(old, air[i].packet, now)
  <2>1. Ingest(i, old) BY <1>2 DEF Deliver
  <2>2. states' = trimmed BY <2>1 DEF Ingest
  <2>3. trimmed = [c \in DOMAIN states \union {b} |-> Trim(IF c = b THEN marked ELSE states[c], now)]
    BY DEF Put
  <2>4. pending' = [k \in 1 .. Len(pending) - Cardinality(settled) |->
                      pending[CHOOSE l \in DOMAIN pending :
                             l \notin settled /\ Cardinality({n \in 1 .. l : n \notin settled}) = k]]
    BY <2>1 DEF Ingest
  <2>5. known' = {k \in known \union (IF IsAhead(MessageMinutes(m), now) THEN {} ELSE {i}) :
                 WithinLimits(trimmed[air[k].bot], k)}
    BY <2>1 DEF Ingest
  <2>6. settled \subseteq DOMAIN pending BY SettledIs
  <2>7. ASSUME DOMAIN old = Fields PROVE Hears(old, heard, i) /\ DOMAIN heard = Fields
    <3> HIDE DEF old
    <3>1. IF IsAhead(MessageMinutes(m), now) THEN Agree(old, heard) ELSE Stores(old, heard, m, now)
      BY <1>2, <2>7, HeardIs
    <3> QED BY <3>1 DEF Hears, MessageAt, Agree, Stores
  <2>8. ASSUME DOMAIN old = Fields PROVE SaysCoverage(i, old, heard)
    <3> HIDE DEF old
    <3>1. \/ old.coverage # NoCoverage
          \/ m.type = "coverage" /\ ~IsAhead(MessageMinutes(m), now)
          => heard.coverage # NoCoverage
      BY <1>2, <2>8, CoverageHeard
    <3> QED BY <3>1 DEF SaysCoverage, MessageAt
  <2>9. Notes(i, heard, marked, fills)
    <3>1. lastAnswers' = [slot \in DOMAIN lastAnswers \union fills |->
                            IF slot \in fills
                            THEN [bot |-> slot[2], receivedAt |-> now,
                                  contentAsOf |-> IF slot[1] = "station" THEN ReportMinutes(m, slot[3])
                                                  ELSE MessageMinutes(m)]
                            ELSE lastAnswers[slot]]
      BY <2>1 DEF Ingest
    <3>2. \/ fills = {}
          \/ /\ ~IsAhead(MessageMinutes(m), now) /\ WasStored(heard, m)
             /\ fills = Fills(Put(states, b, marked), b, m, requests)
      OBVIOUS
    <3> HIDE DEF heard, settled, marked, fills, requests
    <3> QED BY <3>1, <3>2 DEF Notes, AsOf, MessageAt
  <2>10. IsNoted(i, old, heard, marked) BY <2>8, <2>9 DEF IsNoted
  <2> SUFFICES Ingests(i, old, heard, settled, marked) BY <2>10 DEF IsIngest
  <2> HIDE DEF heard, settled, marked, trimmed
  <2> QED BY <2>2, <2>3, <2>4, <2>5, <2>6, <2>7 DEF Ingests, MessageAt, marked
<1> QED BY <1>1, <1>2

\* The requests that wait on are some of those that waited.
LEMMA WaitingIs ==
  ASSUME PendingOK, NEW settled \in SUBSET DOMAIN pending,
         pending' = [k \in 1 .. Len(pending) - Cardinality(settled) |->
                   pending[CHOOSE l \in DOMAIN pending :
                             l \notin settled /\ Cardinality({m \in 1 .. l : m \notin settled}) = k]]
  PROVE  PendingOK'
<1> DEFINE S == (DOMAIN pending) \ settled
           n == Len(pending) - Cardinality(settled)
           At(k) == CHOOSE l \in DOMAIN pending :
                      l \notin settled /\ Cardinality({m \in 1 .. l : m \notin settled}) = k
<1>1. /\ Len(pending) \in Nat /\ DOMAIN pending = 1 .. Len(pending) /\ IsFiniteSet(DOMAIN pending)
  BY ListIs DEF PendingOK
<1>2. Cardinality(DOMAIN pending) = Len(pending)
  <2>1. ASSUME NEW l \in Nat PROVE Cardinality(1 .. l) = l BY FS_Interval
  <2> QED BY <1>1, <2>1
<1>3. IsFiniteSet(settled) /\ Cardinality(settled) \in Nat BY <1>1, FS_Subset, FS_CardinalityType
<1>4. /\ IsFiniteSet(S) /\ Cardinality(S) \in Nat /\ Cardinality(S) = n
  <2>1. (DOMAIN pending) \intersect settled = settled OBVIOUS
  <2>2. IsFiniteSet(S) /\ Cardinality(S) = Cardinality(DOMAIN pending) - Cardinality(settled)
    BY <1>1, <2>1, FS_Difference
  <2> QED BY <1>2, <2>2, FS_CardinalityType
<1>5. ASSUME NEW k \in 1 .. n PROVE At(k) \in DOMAIN pending
  <2>1. S \in SUBSET Int BY <1>1
  <2>2. PICK x \in S : Cardinality({y \in S : y <= x}) = k BY <1>4, <2>1, NthIs
  <2>3. {y \in S : y <= x} = {m \in 1 .. x : m \notin settled} BY <1>1
  <2> QED BY <2>2, <2>3
<1>6. pending' = [k \in 1 .. n |-> pending[At(k)]] OBVIOUS
<1> HIDE DEF At, S
<1>7. n \in Nat BY <1>4
<1> HIDE DEF n
<1>8. pending' = [k \in 1 .. n |-> pending'[k]] BY <1>6
<1>9. IsList(pending') /\ DOMAIN pending' = 1 .. n BY <1>7, <1>8, IsAList
<1>10. \A k \in DOMAIN pending' : pending'[k].request # NoRequest
  <2> SUFFICES ASSUME NEW k \in 1 .. n PROVE pending'[k].request # NoRequest BY <1>9
  <2>1. pending'[k] = pending[At(k)] BY <1>6
  <2> QED BY <1>5, <2>1 DEF PendingOK
<1> QED BY <1>9, <1>10 DEF PendingOK

\* The parts of the step that takes a packet in.
TakesIn(i, old, heard, settled, marked) ==
  /\ Sound(old, air[i].bot) /\ Timely(old) /\ Hears(old, heard, i)
  /\ IsMarked(heard, marked, MessageAt(i), pending, settled)
  /\ \A k \in settled : pending[k].request # NoRequest
  /\ air[i].bot \in DOMAIN states => old = states[air[i].bot]
  /\ DOMAIN states' = DOMAIN states \union {air[i].bot} /\ states'[air[i].bot] = Trim(marked, now)
  /\ \A c \in DOMAIN states : c # air[i].bot => states'[c] = Trim(states[c], now)

LEMMA IngestIs ==
  ASSUME AirOK, HeldOK(states), PendingOK, NEW i \in DOMAIN air, NEW old, NEW heard, NEW settled, NEW marked,
         Ingests(i, old, heard, settled, marked)
  PROVE  TakesIn(i, old, heard, settled, marked)
<1> DEFINE b == air[i].bot
           m == MessageAt(i)
<1>1. Sound(old, b) /\ Timely(old) BY NewBotSound DEF Ingests, HeldOK, Holds
<1>2. DOMAIN old = Fields BY <1>1 DEF Sound, IsState
<1>3. Hears(old, heard, i) /\ DOMAIN heard = Fields BY <1>2 DEF Ingests
<1>4. settled \in SUBSET DOMAIN pending /\ marked = Marked(heard, pending, m, settled) BY DEF Ingests
<1>5. settled \in SUBSET Int /\ IsFiniteSet(settled)
  <2>1. IsFiniteSet(DOMAIN pending) /\ DOMAIN pending \subseteq Nat BY ListIs DEF PendingOK
  <2> QED BY <1>4, <2>1, FS_Subset
<1>6. IsMarked(heard, marked, m, pending, settled) BY <1>3, <1>4, <1>5, MarkedIs
<1>7. \A k \in settled : pending[k].request # NoRequest BY <1>4 DEF PendingOK
<1> HIDE DEF b, m
<1>8. DOMAIN states' = DOMAIN states \union {b} /\ states'[b] = Trim(marked, now) BY DEF Ingests, b
<1>9. ASSUME NEW c \in DOMAIN states, c # b PROVE states'[c] = Trim(states[c], now)
  BY <1>9 DEF Ingests, b
<1>10. b \in DOMAIN states => old = states[b] BY DEF Ingests, b
<1> QED BY <1>1, <1>3, <1>6, <1>7, <1>8, <1>9, <1>10 DEF TakesIn, b, m

\* What the phone holds after a packet: of its bot, and of the others.
LEMMA IngestSound ==
  ASSUME MapsOK, HeldOK(states), PendingOK, NEW i \in DOMAIN air, NEW old, NEW heard, NEW settled, NEW marked,
         Ingests(i, old, heard, settled, marked)
  PROVE  /\ DOMAIN states' = DOMAIN states \union {air[i].bot}
         /\ \A c \in DOMAIN states : Follows(states[c], states'[c], c)
         /\ Sound(states'[air[i].bot], air[i].bot) /\ Timely(states'[air[i].bot])
         /\ ~IsAhead(MessageMinutes(MessageAt(i)), now) /\ WithinLimits(states'[air[i].bot], i)
              => Shows(states'[air[i].bot], i)
<1> DEFINE b == air[i].bot
           m == MessageAt(i)
<1>a. AirOK BY DEF MapsOK
<1>1. TakesIn(i, old, heard, settled, marked) BY <1>a, IngestIs
<1>2. /\ Follows(old, states'[b], b)
      /\ ~IsAhead(MessageMinutes(m), now) /\ WithinLimits(states'[b], i) => Shows(states'[b], i)
  BY <1>1, StateFollows DEF TakesIn
<1>3. ASSUME NEW c \in DOMAIN states PROVE Follows(states[c], states'[c], c)
  <2>1. CASE c = b BY <1>1, <1>2, <2>1 DEF TakesIn
  <2>2. CASE c # b
    <3>1. Sound(states[c], c) /\ Timely(states[c]) BY DEF HeldOK, Holds
    <3> QED BY <1>a, <1>1, <2>2, <3>1, TrimFollows DEF TakesIn
  <2> QED BY <2>1, <2>2
<1> QED BY <1>1, <1>2, <1>3 DEF Follows, TakesIn

LEMMA IngestKeeps ==
  ASSUME MapsOK, PhoneInv, NEW i \in DOMAIN air, IsIngest(i)
  PROVE  HeldOK(states') /\ KnownOK(states', known') /\ PendingOK'
<1>1. PICK old, heard, settled, marked : Ingests(i, old, heard, settled, marked) BY DEF IsIngest
<1>p. HeldOK(states) /\ KnownOK(states, known) /\ PendingOK BY DEF PhoneInv
<1>2. /\ DOMAIN states' = DOMAIN states \union {air[i].bot}
      /\ \A c \in DOMAIN states : Follows(states[c], states'[c], c)
      /\ Sound(states'[air[i].bot], air[i].bot) /\ Timely(states'[air[i].bot])
      /\ ~IsAhead(MessageMinutes(MessageAt(i)), now) /\ WithinLimits(states'[air[i].bot], i)
           => Shows(states'[air[i].bot], i)
  BY <1>1, <1>p, IngestSound
<1>3. HeldOK(states')
  <2>1. ASSUME NEW c \in DOMAIN states' PROVE Sound(states'[c], c) /\ Timely(states'[c])
    BY <1>2 DEF Follows
  <2> QED BY <2>1 DEF HeldOK, Holds
<1>4. KnownOK(states', known')
  <2>1. known' = {k \in known \union (IF IsAhead(MessageMinutes(MessageAt(i)), now) THEN {} ELSE {i}) :
                    WithinLimits(states'[air[k].bot], k)}
    BY <1>1 DEF Ingests
  <2>2. ASSUME NEW k \in known'
        PROVE  k \in DOMAIN air /\ \E s : Holds(states', air[k].bot, s) /\ Shows(s, k)
    <3>1. WithinLimits(states'[air[k].bot], k) BY <2>1
    <3>2. CASE k \in known
      <4>1. PICK s : Holds(states, air[k].bot, s) /\ Shows(s, k) BY <1>p, <3>2 DEF KnownOK
      <4>2. k \in DOMAIN air BY <1>p, <3>2 DEF KnownOK
      <4>3. air[k].bot \in DOMAIN states /\ Shows(states[air[k].bot], k) BY <4>1 DEF Holds
      <4>4. Shows(states'[air[k].bot], k) BY <1>2, <3>1, <4>2, <4>3 DEF Follows
      <4>5. Holds(states', air[k].bot, states'[air[k].bot]) BY <1>2, <4>3 DEF Holds
      <4> QED BY <4>2, <4>4, <4>5
    <3>3. CASE k = i /\ ~IsAhead(MessageMinutes(MessageAt(i)), now)
      <4>1. Holds(states', air[i].bot, states'[air[i].bot]) BY <1>2 DEF Holds
      <4> QED BY <1>2, <3>1, <3>3, <4>1
    <3> QED BY <2>1, <3>2, <3>3
  <2> QED BY <2>2 DEF KnownOK
<1>5. PendingOK'
  <2>1. settled \in SUBSET DOMAIN pending BY <1>1 DEF Ingests
  <2> QED BY <1>1, <1>p, <2>1, WaitingIs DEF Ingests
<1> QED BY <1>3, <1>4, <1>5

-----------------------------------------------------------------------------
(* The other steps of the phone *)

Still == UNCHANGED <<now, script, botVars>>

LEMMA StillIs ==
  ASSUME AirInv, Still
  PROVE  AirInv' /\ AirOK' /\ GoesForward /\ MapsOK
<1>1. AirInv' BY AirStays DEF Still
<1>2. AirOK' /\ MapsOK /\ AirOK BY <1>1 DEF AirInv, MapsOK
<1>3. GoesForward BY <1>2 DEF GoesForward, Still, botVars, MessageAt, AirOK
<1> QED BY <1>1, <1>2, <1>3

LEMMA PhoneIngests ==
  ASSUME AirInv, PhoneInv, NEW i \in DOMAIN air, Deliver(i)
  PROVE  AirInv' /\ PhoneInv'
<1>1. Still BY DEF Deliver, Still
<1>2. AirInv' /\ AirOK' /\ GoesForward /\ MapsOK BY <1>1, StillIs
<1>3. stored' = stored /\ saved' = saved BY DEF Deliver
<1>4. HeldOK(states') /\ KnownOK(states', known') /\ PendingOK'
  <2>1. CASE UNCHANGED <<states, pending, known>> BY <2>1 DEF PhoneInv, PendingOK
  <2>2. CASE IsIngest(i) BY <1>2, <2>2, IngestKeeps
  <2> QED BY <2>1, <2>2, DeliverIs
<1> QED BY <1>2, <1>3, <1>4, PhoneLater DEF PhoneInv

LEMMA PhoneSaves ==
  ASSUME AirInv, PhoneInv, Saved
  PROVE  AirInv' /\ PhoneInv'
<1>1. Still BY DEF Saved, Still
<1>2. AirInv' /\ AirOK' /\ GoesForward /\ MapsOK BY <1>1, StillIs
<1>3. /\ states' = states /\ known' = known /\ pending' = pending
      /\ stored' = Snapshot(states) /\ saved' = known
  BY DEF Saved
<1>4. FileOK(FromSnapshot(stored'), saved')
  <2>1. HeldOK(FromSnapshot(Snapshot(states))) /\ KnownOK(FromSnapshot(Snapshot(states)), known)
    BY SavedSound DEF PhoneInv
  <2> QED BY <1>3, <2>1 DEF FileOK, HeldOK
<1> QED BY <1>2, <1>3, <1>4, PhoneLater DEF PhoneInv, PendingOK

LEMMA PhoneReopens ==
  ASSUME AirInv, PhoneInv, Reopen
  PROVE  AirInv' /\ PhoneInv'
<1>1. Still BY DEF Reopen, Still
<1>2. AirInv' /\ AirOK' /\ GoesForward /\ MapsOK BY <1>1, StillIs
<1>3. /\ states' = Load(stored, now) /\ known' = saved /\ pending' = <<>>
      /\ stored' = stored /\ saved' = saved
  BY DEF Reopen
<1>4. HeldOK(states') /\ KnownOK(states', known') BY <1>2, <1>3, LoadSound DEF PhoneInv, MapsOK
<1>5. PendingOK' BY <1>3 DEF PendingOK, IsList, Range
<1> QED BY <1>2, <1>3, <1>4, <1>5, PhoneLater DEF PhoneInv

LEMMA PhoneClears ==
  ASSUME AirInv, PhoneInv, NEW b \in DOMAIN states, Clear(b)
  PROVE  AirInv' /\ PhoneInv'
<1>1. Still BY DEF Clear, Still
<1>2. AirInv' /\ AirOK' /\ GoesForward /\ MapsOK BY <1>1, StillIs
<1>3. /\ states' = Restrict(states, DOMAIN states \ {b}) /\ known' = {i \in known : air[i].bot # b}
      /\ pending' = pending /\ stored' = stored /\ saved' = saved
  BY DEF Clear
<1>4. \A c, s : Holds(states', c, s) <=> Holds(states, c, s) /\ c # b BY <1>3 DEF Holds, Restrict
<1>5. HeldOK(states') BY <1>4 DEF HeldOK, PhoneInv
<1>6. KnownOK(states', known') BY <1>3, <1>4 DEF KnownOK, PhoneInv
<1> QED BY <1>2, <1>3, <1>5, <1>6, PhoneLater DEF PhoneInv, PendingOK

LEMMA AskedIs ==
  ASSUME PendingOK, NEW x, x.request # NoRequest, pending' = Append(pending, x)
  PROVE  PendingOK'
<1>1. GrownBy(pending', pending, x) BY AppendIs DEF PendingOK
<1> QED BY <1>1 DEF GrownBy, PendingOK

LEMMA PhoneAsks ==
  ASSUME AirInv, PhoneInv, NEW i \in DOMAIN script, Ask(i)
  PROVE  AirInv' /\ PhoneInv'
<1>1. Still BY DEF Ask, Still
<1>2. AirInv' /\ AirOK' /\ GoesForward /\ MapsOK BY <1>1, StillIs
<1>3. /\ states' = states /\ known' = known /\ stored' = stored /\ saved' = saved
      /\ pending' = Append(pending, [bot |-> script[i].bot, request |-> script[i].to])
  BY DEF Ask
<1>4. script[i].to # NoRequest
  <2>1. script[i].to.kind # "none" BY <1>2 DEF Ask, MapsOK, AirOK, IsScript
  <2> QED BY <2>1 DEF NoRequest
<1>5. PendingOK' BY <1>3, <1>4, AskedIs DEF PhoneInv
<1> QED BY <1>2, <1>3, <1>5, PhoneLater DEF PhoneInv

LEMMA PhoneAsksParts ==
  ASSUME AirInv, PhoneInv, NEW b \in DOMAIN states, AskParts(b)
  PROVE  AirInv' /\ PhoneInv'
<1>1. Still BY DEF AskParts, Still
<1>2. AirInv' /\ AirOK' /\ GoesForward /\ MapsOK BY <1>1, StillIs
<1>3. /\ states' = states /\ known' = known /\ stored' = stored /\ saved' = saved
      /\ \E parts : pending' = Append(pending, [bot |-> b, request |-> [kind |-> "parts", of |-> parts]])
  BY DEF AskParts
<1>4. PICK parts : pending' = Append(pending, [bot |-> b, request |-> [kind |-> "parts", of |-> parts]])
  BY <1>3
<1>5. [kind |-> "parts", of |-> parts] # NoRequest
  <2>1. [kind |-> "parts", of |-> parts].kind # NoRequest.kind BY DEF NoRequest
  <2> QED BY <2>1
<1>6. PendingOK' BY <1>4, <1>5, AskedIs DEF PhoneInv
<1> QED BY <1>2, <1>3, <1>6, PhoneLater DEF PhoneInv

LEMMA PhoneStays ==
  ASSUME AirInv, PhoneInv, AirInv', GoesForward, UNCHANGED <<states, known, stored, saved, pending>>
  PROVE  PhoneInv'
<1>1. MapsOK /\ AirOK' BY DEF AirInv, MapsOK
<1> QED BY <1>1, PhoneLater DEF PhoneInv, PendingOK

-----------------------------------------------------------------------------
(* The invariant *)

AnswersInv == AirInv /\ PhoneInv /\ upsets \in Nat

LEMMA AnswersStart ==
  ASSUME Init
  PROVE  AnswersInv
<1>1. upsets \in Nat BY DEF Init
<1> QED BY <1>1, AirStarts, PhoneStarts DEF AnswersInv

\* The bots' steps, and the clock's, leave the phone alone.
LEMMA BotsStep ==
  ASSUME AirInv, PhoneInv, Tick \/ Build \/ Send \/ \E i \in DOMAIN pending : Replay(i)
  PROVE  AirInv' /\ PhoneInv' /\ upsets' = upsets
<1>1. UNCHANGED <<phoneVars, upsets>> BY DEF Tick, Build, Send, Replay
<1>2. UNCHANGED <<states, known, stored, saved, pending>> /\ upsets' = upsets BY <1>1 DEF phoneVars
<1>3. AirInv' BY AirTicks, AirBuilds, AirSends, AirReplays
<1>4. now \in Int BY DEF AirInv, MapsOK, AirOK
<1>5. GoesForward
  <2>1. CASE Send
    <3>1. PICK h, m, n : IsSend(h, m, n) BY <2>1, SendIs
    <3>2. /\ DOMAIN air' = DOMAIN air \union {n}
          /\ \A k \in DOMAIN air : air'[k] = air[k] /\ MessageAt(k)' = MessageAt(k)
      BY <3>1, SentGrows
    <3>3. now <= now' /\ script' = script BY <1>4, <2>1 DEF Send
    <3> QED BY <3>2, <3>3 DEF GoesForward
  <2>2. CASE Tick \/ Build \/ \E i \in DOMAIN pending : Replay(i)
    <3>1. script' = script /\ air' = air BY <2>2 DEF Tick, Build, Replay, botVars
    <3>2. now' = now \/ now' = now + 1 BY <2>2 DEF Tick, Build, Replay
    <3>3. now <= now' BY <1>4, <3>2
    <3> QED BY <3>1, <3>3 DEF GoesForward, MessageAt
  <2> QED BY <2>1, <2>2
<1> QED BY <1>2, <1>3, <1>5, PhoneStays

LEMMA AnswersStep ==
  ASSUME AnswersInv, [Next]_vars
  PROVE  AnswersInv'
<1>1. AirInv /\ PhoneInv /\ upsets \in Nat BY DEF AnswersInv
<1>2. upsets' \in Nat
  <2>1. CASE UNCHANGED vars BY <1>1, <2>1 DEF vars
  <2>2. CASE Next
    <3>1. upsets' = upsets \/ upsets' = upsets + 1
      BY <2>2 DEF Next, Tick, Build, Send, Saved, SaveFails, Reopen, Replay, Ask, AskParts, Clear, Deliver, Upset
    <3> QED BY <1>1, <3>1
  <2> QED BY <2>1, <2>2
<1>3. AirInv' /\ PhoneInv'
  <2>1. CASE UNCHANGED vars
    <3>1. Still /\ UNCHANGED <<states, known, stored, saved, pending>> BY <2>1 DEF vars, Still, phoneVars
    <3>2. AirInv' /\ GoesForward BY <1>1, <3>1, StillIs
    <3> QED BY <1>1, <3>1, <3>2, PhoneStays
  <2>2. CASE SaveFails
    <3>1. Still /\ UNCHANGED <<states, known, stored, saved, pending>> BY <2>2 DEF SaveFails, Still
    <3>2. AirInv' /\ GoesForward BY <1>1, <3>1, StillIs
    <3> QED BY <1>1, <3>1, <3>2, PhoneStays
  <2>3. CASE Tick \/ Build \/ Send \/ \E i \in DOMAIN pending : Replay(i) BY <1>1, <2>3, BotsStep
  <2>4. CASE Saved BY <1>1, <2>4, PhoneSaves
  <2>5. CASE Reopen BY <1>1, <2>5, PhoneReopens
  <2>6. CASE \E i \in DOMAIN script : Ask(i) BY <1>1, <2>6, PhoneAsks
  <2>7. CASE \E b \in DOMAIN states : AskParts(b) BY <1>1, <2>7, PhoneAsksParts
  <2>8. CASE \E b \in DOMAIN states : Clear(b) BY <1>1, <2>8, PhoneClears
  <2>9. CASE \E i \in DOMAIN air : Deliver(i) BY <1>1, <2>9, PhoneIngests
  <2> QED BY <2>1, <2>2, <2>3, <2>4, <2>5, <2>6, <2>7, <2>8, <2>9 DEF Next
<1> QED BY <1>2, <1>3 DEF AnswersInv

LEMMA AnswersAlways == Spec => []AnswersInv
<1>1. Init => AnswersInv BY AnswersStart
<1>2. AnswersInv /\ [Next]_vars => AnswersInv' BY AnswersStep
<1> QED BY <1>1, <1>2, PTL DEF Spec

-----------------------------------------------------------------------------
(* What the phone shows *)

\* What a phone holds of a bot, it may hold, and a packet that it knows is shown.
LEMMA KnownIs ==
  ASSUME AnswersInv, NEW b \in DOMAIN states
  PROVE  /\ Sound(states[b], b) /\ Timely(states[b])
         /\ \A type : \A i \in KnownOf(b, type) :
              i \in DOMAIN air /\ MessageAt(i).type = type /\ Shows(states[b], i)
<1>1. HeldOK(states) /\ KnownOK(states, known) BY DEF AnswersInv, PhoneInv
<1>2. Sound(states[b], b) /\ Timely(states[b]) BY <1>1 DEF HeldOK, Holds
<1>3. ASSUME NEW i \in known, air[i].bot = b PROVE i \in DOMAIN air /\ Shows(states[b], i)
  BY <1>1, <1>3 DEF KnownOK, Holds
<1> QED BY <1>2, <1>3 DEF KnownOf

\* Nothing rolls back: of every point and station the newest that was heard of it is
\* shown (WeatherStateReducer, apply), whatever the scripts, the file and the limits are.
THEOREM NewestShown == Spec => []NewestIsShown
<1>1. ASSUME AnswersInv PROVE NewestIsShown
  <2> SUFFICES ASSUME NEW b \in DOMAIN states
               PROVE  /\ \A p \in DOMAIN states[b].forecasts :
                           /\ ~IsAhead(states[b].forecasts[p].issued, now)
                           /\ \A i \in KnownOf(b, "forecast") :
                                MessageAt(i).point = p => MessageAt(i).issued <= states[b].forecasts[p].issued
                      /\ \A s \in DOMAIN states[b].observations :
                           /\ ~IsAhead(states[b].observations[s].timestampMinutes, now)
                           /\ \A i \in KnownOf(b, "observations") :
                                s \in DOMAIN MessageAt(i).stations
                                  => ReportMinutes(MessageAt(i), s) <= states[b].observations[s].timestampMinutes
    BY DEF NewestIsShown
  <2>1. Sound(states[b], b) /\ Timely(states[b]) BY <1>1, KnownIs
  <2>2. ASSUME NEW i \in KnownOf(b, "forecast")
        PROVE  MessageAt(i).point \in DOMAIN states[b].forecasts
                 => MessageAt(i).issued <= states[b].forecasts[MessageAt(i).point].issued
    <3>1. MessageAt(i).type = "forecast" /\ Shows(states[b], i) BY <1>1, KnownIs
    <3> QED BY <2>1, <3>1 DEF Shows, ShowsForecast, Sound
  <2>3. ASSUME NEW i \in KnownOf(b, "observations"), NEW s \in DOMAIN MessageAt(i).stations
        PROVE  ReportMinutes(MessageAt(i), s) <= states[b].observations[s].timestampMinutes
    <3>1. MessageAt(i).type = "observations" /\ Shows(states[b], i) BY <1>1, KnownIs
    <3> QED BY <3>1 DEF Shows, ShowsReadings
  <2> QED BY <2>1, <2>2, <2>3 DEF Timely
<1> QED BY <1>1, AnswersAlways, PTL

\* What was heard of the country is on the map, but for what the limits took
\* (retainAreaSweeps, retainRadarTiles), whatever is lost, late or comes twice.
THEOREM GroundKept == Spec => []GroundIsKept
<1>1. ASSUME AnswersInv PROVE GroundIsKept
  <2>1. ASSUME NEW b \in DOMAIN states, NEW i \in KnownOf(b, "area_sweep")
        PROVE  OnMap(states[b].areaSweeps, i)
    BY <1>1, KnownIs DEF Shows
  <2>2. ASSUME NEW b \in DOMAIN states, NEW i \in KnownOf(b, "radar")
        PROVE  Pictured(states[b].radarTiles, i)
    BY <1>1, KnownIs DEF Shows
  <2> QED BY <2>1, <2>2 DEF GroundIsKept, Pictured
<1> QED BY <1>1, AnswersAlways, PTL

\* No sweep on the map holds packets of two builds, and one that any packet called cut
\* is shown as cut (areaSweepAssembly, spec 17.4), though groups are single bytes.
THEOREM OneBuild == Spec => []OneBuildPerMap
<1>1. ASSUME AnswersInv PROVE OneBuildPerMap
  <2>1. AirOK BY <1>1 DEF AnswersInv, AirInv, MapsOK
  <2>2. ASSUME NEW b \in DOMAIN states, NEW n \in DOMAIN states[b].areaSweeps
        PROVE  SweepOK(states[b].areaSweeps[n], b)
    BY <1>1, KnownIs DEF Sound, SweepsOK
  <2>3. ASSUME NEW b \in DOMAIN states, NEW n \in DOMAIN states[b].areaSweeps,
               NEW i \in DOMAIN states[b].areaSweeps[n].packets, NEW j \in DOMAIN states[b].areaSweeps[n].packets
        PROVE  states[b].areaSweeps[n].packets[i] = states[b].areaSweeps[n].packets[j]
    <3>1. SweepOK(states[b].areaSweeps[n], b) BY <2>2
    <3> QED BY <3>1 DEF SweepOK, Filed, Stems
  <2>4. ASSUME NEW b \in DOMAIN states, NEW n \in DOMAIN states[b].areaSweeps,
               NEW i \in KnownOf(b, "area_sweep"), MessageAt(i).cut,
               Held(states[b].areaSweeps[n].packets, MessageAt(i).idx),
               states[b].areaSweeps[n].packets[MessageAt(i).idx] = MessageAt(i).entries
        PROVE  states[b].areaSweeps[n].wasCut
    <3> DEFINE x == states[b].areaSweeps[n]
    <3>1. i \in DOMAIN air /\ MessageAt(i).type = "area_sweep" BY <1>1, KnownIs
    <3>2. MessageAt(i).entries \in Range(x.packets) BY <2>4 DEF Held, Range
    <3>3. SweepOK(x, b) BY <2>2
    <3> HIDE DEF x
    <3>4. MessageAt(i).cut => x.wasCut BY <2>1, <3>1, <3>2, <3>3, HoldsItsMap
    <3> QED BY <2>4, <3>4 DEF x
  <2> QED BY <2>3, <2>4 DEF OneBuildPerMap
<1> QED BY <1>1, AnswersAlways, PTL

-----------------------------------------------------------------------------
(* What answered this phone *)

\* What a phone that is not closed and not cleared keeps of its own.
KeepsOwn(b) ==
  LET texts == states[b].texts
      forecasts == states[b].forecasts IN
  /\ \A g \in NewestTexts(texts, OwnTexts(texts)) : ~IsReused(b, g) =>
       \E h \in OwnTexts(states'[b].texts) :
         /\ states'[b].texts[h].subject = texts[g].subject
         /\ states'[b].texts[h].lastReceivedAt >= texts[g].lastReceivedAt
  /\ \A p \in ShownForecastPoints(forecasts) :
       \E q \in DOMAIN states'[b].forecasts :
         /\ states'[b].forecasts[q].requestedHere
         /\ states'[b].forecasts[q].receivedAt >= forecasts[p].receivedAt

LEMMA KeepsOwnIf ==
  ASSUME NEW b \in DOMAIN states, Sound(states[b], b), Sound(states'[b], b),
         \A g \in OwnTexts(states[b].texts) : ~IsReused(b, g) => OwnStay(states[b].texts, states'[b].texts, g),
         \A p \in ShownForecastPoints(states[b].forecasts) :
           \E q \in DOMAIN states'[b].forecasts :
             /\ states'[b].forecasts[q].requestedHere
             /\ states[b].forecasts[p].receivedAt <= states'[b].forecasts[q].receivedAt
  PROVE  KeepsOwn(b)
<1> DEFINE old == states[b]
           new == states'[b]
<1>1. /\ AreForecasts(old.forecasts, now) /\ AreTexts(old.texts, now)
      /\ AreForecasts(new.forecasts, now) /\ AreTexts(new.texts, now)
  BY StateParts DEF Sound
<1>2. ASSUME NEW g \in NewestTexts(old.texts, OwnTexts(old.texts)), ~IsReused(b, g)
      PROVE  \E h \in OwnTexts(new.texts) : /\ new.texts[h].subject = old.texts[g].subject
                                            /\ new.texts[h].lastReceivedAt >= old.texts[g].lastReceivedAt
  <2>1. g \in OwnTexts(old.texts) BY DEF NewestTexts
  <2>2. PICK h \in OwnTexts(new.texts) :
          new.texts[h].subject = old.texts[g].subject /\ old.texts[g].lastReceivedAt <= new.texts[h].lastReceivedAt
    BY <1>2, <2>1 DEF OwnStay
  <2>3. g \in DOMAIN old.texts /\ h \in DOMAIN new.texts BY <2>1, <2>2 DEF OwnTexts
  <2>4. old.texts[g].lastReceivedAt \in Int /\ new.texts[h].lastReceivedAt \in Int
    BY <1>1, <2>3, TextFieldsIs DEF AreTexts
  <2> HIDE DEF old, new
  <2>5. new.texts[h].lastReceivedAt >= old.texts[g].lastReceivedAt BY <2>2, <2>4
  <2> QED BY <2>2, <2>5
<1>3. ASSUME NEW p \in ShownForecastPoints(old.forecasts)
      PROVE  \E q \in DOMAIN new.forecasts : /\ new.forecasts[q].requestedHere
                                             /\ new.forecasts[q].receivedAt >= old.forecasts[p].receivedAt
  <2>1. PICK q \in DOMAIN new.forecasts :
          new.forecasts[q].requestedHere /\ old.forecasts[p].receivedAt <= new.forecasts[q].receivedAt
    BY <1>3
  <2>2. p \in DOMAIN old.forecasts BY DEF ShownForecastPoints
  <2>3. old.forecasts[p].receivedAt \in Int /\ new.forecasts[q].receivedAt \in Int
    BY <1>1, <2>1, <2>2 DEF AreForecasts, IsForecast
  <2> HIDE DEF old, new
  <2>4. new.forecasts[q].receivedAt >= old.forecasts[p].receivedAt BY <2>1, <2>3
  <2> QED BY <2>1, <2>4
<1> QED BY <1>2, <1>3 DEF KeepsOwn

LEMMA SameKeepsOwn ==
  ASSUME AnswersInv, states' = states, NEW b \in DOMAIN states
  PROVE  KeepsOwn(b)
<1>1. Sound(states[b], b) BY KnownIs
<1>2. AreForecasts(states[b].forecasts, now) /\ AreTexts(states[b].texts, now) BY <1>1, StateParts DEF Sound
<1>3. ASSUME NEW g \in OwnTexts(states[b].texts) PROVE OwnStay(states[b].texts, states[b].texts, g)
  <2>1. g \in DOMAIN states[b].texts BY DEF OwnTexts
  <2>2. states[b].texts[g].lastReceivedAt \in Int BY <1>2, <2>1, TextFieldsIs DEF AreTexts
  <2>3. states[b].texts[g].lastReceivedAt <= states[b].texts[g].lastReceivedAt BY <2>2
  <2> QED BY <2>3 DEF OwnStay
<1>4. ASSUME NEW p \in ShownForecastPoints(states[b].forecasts)
      PROVE  \E q \in DOMAIN states[b].forecasts :
               /\ states[b].forecasts[q].requestedHere
               /\ states[b].forecasts[p].receivedAt <= states[b].forecasts[q].receivedAt
  <2>1. p \in DOMAIN states[b].forecasts /\ states[b].forecasts[p].requestedHere BY DEF ShownForecastPoints
  <2>2. states[b].forecasts[p].receivedAt \in Int BY <1>2, <2>1 DEF AreForecasts, IsForecast
  <2>3. states[b].forecasts[p].receivedAt <= states[b].forecasts[p].receivedAt BY <2>2
  <2> QED BY <2>1, <2>3
<1> QED BY <1>1, <1>3, <1>4, KeepsOwnIf

LEMMA IngestKeepsOwn ==
  ASSUME AnswersInv, NEW i \in DOMAIN air, IsIngest(i), NEW b \in DOMAIN states
  PROVE  KeepsOwn(b)
<1>1. PICK old, heard, settled, marked : Ingests(i, old, heard, settled, marked) BY DEF IsIngest
<1>2. MapsOK /\ AirOK /\ HeldOK(states) /\ PendingOK BY DEF AnswersInv, AirInv, PhoneInv, MapsOK
<1>3. TakesIn(i, old, heard, settled, marked) BY <1>1, <1>2, IngestIs
<1>4. Sound(states[b], b) BY KnownIs
<1>5. \A c \in DOMAIN states : Follows(states[c], states'[c], c) BY <1>1, <1>2, IngestSound
<1>6. Sound(states'[b], b) BY <1>5 DEF Follows
<1>7. /\ DOMAIN states[b] = Fields /\ AreForecasts(states[b].forecasts, now) /\ AreTexts(states[b].texts, now)
      /\ now \in Int /\ now <= now
  BY <1>2, <1>4, StateParts DEF Sound, AirOK
<1>8. CASE b = air[i].bot
  <2> DEFINE m == MessageAt(i)
  <2>1. /\ old = states[b] /\ states'[b] = Trim(marked, now) /\ IsMarked(heard, marked, m, pending, settled)
        /\ \A k \in settled : pending[k].request # NoRequest
        /\ Agree(old, heard) \/ Stores(old, heard, m, now)
    BY <1>3, <1>8 DEF TakesIn, Hears
  <2>2. TypedMessage(m) BY <1>2, SentIs
  <2> HIDE DEF m
  <2>3. \A g \in OwnTexts(states[b].texts) :
          (m.type = "text" /\ m.group = g => Continues(states[b].texts, m))
            => OwnStay(states[b].texts, states'[b].texts, g)
    BY <1>7, <2>1, <2>2, TextsFollow
  <2>4. GoOn(states[b].forecasts, states'[b].forecasts, now)
    BY <1>7, <2>1, <2>2, ForecastsFollow
  <2>5. ASSUME NEW g, ~IsReused(b, g), m.type = "text", m.group = g PROVE Continues(states[b].texts, m)
    BY <1>8, <2>5 DEF IsReused, m
  <2> QED BY <1>4, <1>6, <2>3, <2>4, <2>5, KeepsOwnIf DEF GoOn
<1>9. CASE b # air[i].bot
  <2>1. states'[b] = Trim(states[b], now) BY <1>3, <1>9 DEF TakesIn
  <2>2. GoOn(states[b].forecasts, states'[b].forecasts, now) BY <1>7, <2>1, TrimmedForecasts
  <2>3. \A g \in OwnTexts(states[b].texts) : OwnStay(states[b].texts, states'[b].texts, g)
    BY <1>7, <2>1, TrimmedTexts
  <2> QED BY <1>4, <1>6, <2>2, <2>3, KeepsOwnIf DEF GoOn
<1> QED BY <1>8, <1>9

\* The newest reply of a subject, and the newest forecast, that answered this phone go
\* only for a newer one that did (pruneTexts, pruneForecasts), however small the limits.
THEOREM OwnAnswersKept == Spec => KeepsOwnAnswers
<1> DEFINE Keeps == upsets' = upsets => \A b \in DOMAIN states : KeepsOwn(b)
<1>1. ASSUME AnswersInv, [Next]_vars, upsets' = upsets, NEW b \in DOMAIN states PROVE KeepsOwn(b)
  <2>1. upsets \in Nat BY <1>1 DEF AnswersInv
  <2>2. ~Upset BY <1>1, <2>1 DEF Upset
  <2>3. CASE states' = states BY <1>1, <2>3, SameKeepsOwn
  <2>4. CASE \E i \in DOMAIN air : IsIngest(i) BY <1>1, <2>4, IngestKeepsOwn
  <2>5. states' = states \/ \E i \in DOMAIN air : IsIngest(i)
    <3>1. CASE UNCHANGED vars BY <3>1 DEF vars, phoneVars
    <3>2. CASE \E i \in DOMAIN air : Deliver(i) BY <3>2, DeliverIs
    <3>3. CASE Tick \/ Build \/ Send \/ \E i \in DOMAIN pending : Replay(i)
      BY <3>3 DEF Tick, Build, Send, Replay, phoneVars
    <3>4. CASE \/ Saved \/ \E i \in DOMAIN script : Ask(i)
               \/ \E c \in DOMAIN states : AskParts(c)
      BY <3>4 DEF Saved, Ask, AskParts
    <3> QED BY <1>1, <2>2, <3>1, <3>2, <3>3, <3>4 DEF Next, SaveFails, Reopen, Clear
  <2> QED BY <2>3, <2>4, <2>5
<1>2. AnswersInv /\ [Next]_vars => Keeps BY <1>1
<1>3. [Keeps]_vars => [upsets' = upsets =>
       \A b \in DOMAIN states :
         LET texts == states[b].texts
             forecasts == states[b].forecasts IN
         /\ \A g \in NewestTexts(texts, OwnTexts(texts)) : ~IsReused(b, g) =>
              \E h \in OwnTexts(states'[b].texts) :
                /\ states'[b].texts[h].subject = texts[g].subject
                /\ states'[b].texts[h].lastReceivedAt >= texts[g].lastReceivedAt
         /\ \A p \in ShownForecastPoints(forecasts) :
              \E q \in DOMAIN states'[b].forecasts :
                /\ states'[b].forecasts[q].requestedHere
                /\ states'[b].forecasts[q].receivedAt >= forecasts[p].receivedAt]_vars
  BY DEF KeepsOwn
<1> HIDE DEF Keeps
<1>4. Spec => [][Keeps]_vars BY <1>2, AnswersAlways, PTL DEF Spec
<1> QED BY <1>3, <1>4, PTL DEF KeepsOwnAnswers

-----------------------------------------------------------------------------
(* What a limit leaves *)

\* The best of a set, in an order.
BestIn(S, r, count) == {x \in S : Cardinality({y \in S : y # x /\ <<y, x>> \in r}) < count}

LEMMA BestAreMany ==
  ASSUME NEW S, IsFiniteSet(S), NEW r, IsOrder(S, r), NEW count \in Nat, count <= Cardinality(S)
  PROVE  IsFiniteSet(BestIn(S, r, count)) /\ count <= Cardinality(BestIn(S, r, count))
<1> DEFINE best == BestIn(S, r, count)
           Nth(n) == CHOOSE x \in S : RankIn(S, r, x) = n
           f == [n \in 1 .. count |-> Nth(n)]
<1>1. Cardinality(S) \in Nat BY FS_CardinalityType
<1>2. \A n \in 1 .. Cardinality(S) : \E x \in S : RankIn(S, r, x) = n BY Ranked DEF AreRanked
<1>3. ASSUME NEW n \in 1 .. count PROVE Nth(n) \in best /\ RankIn(S, r, Nth(n)) = n
  <2>1. \E x \in S : RankIn(S, r, x) = n BY <1>1, <1>2
  <2>2. Nth(n) \in S /\ RankIn(S, r, Nth(n)) = n BY <2>1
  <2>3. {y \in S : y # Nth(n) /\ <<y, Nth(n)>> \in r} = {y \in S : <<y, Nth(n)>> \in r} BY <2>2 DEF IsOrder
  <2>4. {y \in S : <<y, Nth(n)>> \in r} \in SUBSET S OBVIOUS
  <2>5. Cardinality({y \in S : <<y, Nth(n)>> \in r}) \in Nat BY <2>4, FS_Subset, FS_CardinalityType
  <2>6. Cardinality({y \in S : <<y, Nth(n)>> \in r}) + 1 = n BY <2>2 DEF RankIn
  <2> HIDE DEF Nth
  <2>7. Cardinality({y \in S : <<y, Nth(n)>> \in r}) < count BY <2>5, <2>6
  <2> QED BY <2>2, <2>3, <2>7 DEF BestIn
<1> HIDE DEF Nth
<1>4. best \in SUBSET S BY DEF BestIn
<1>5. IsFiniteSet(best) /\ Cardinality(best) \in Nat BY <1>4, FS_Subset, FS_CardinalityType
<1>6. f \in Injection(1 .. count, best)
  <2>1. f \in [1 .. count -> best] BY <1>3
  <2>2. \A m, n \in 1 .. count : f[m] = f[n] => m = n BY <1>3
  <2> QED BY <2>1, <2>2 DEF Injection, IsInjective
<1>7. Cardinality(1 .. count) = count
  <2>1. Cardinality(1 .. count) = IF 1 > count THEN 0 ELSE count - 1 + 1 BY FS_Interval
  <2> QED BY <2>1
<1> HIDE DEF best, f
<1>8. Cardinality(1 .. count) <= Cardinality(best) BY <1>5, <1>6, FS_Injection
<1> QED BY <1>5, <1>7, <1>8 DEF best

\* What is shown and the best of the rest are as many as the limit, if there are enough.
LEMMA LimitIsFull ==
  ASSUME NEW S, IsFiniteSet(S), NEW shown \in SUBSET S, NEW limit \in Nat, limit < Cardinality(S),
         NEW r, IsOrder(S \ shown, r)
  PROVE  limit <= Cardinality(shown \union BestIn(S \ shown, r, Later(0, limit - Cardinality(shown))))
<1> DEFINE rest == S \ shown
           room == Later(0, limit - Cardinality(shown))
           best == BestIn(rest, r, room)
<1>1. /\ IsFiniteSet(shown) /\ Cardinality(shown) \in Nat /\ IsFiniteSet(rest) /\ Cardinality(rest) \in Nat
      /\ Cardinality(S) \in Nat
  BY FS_Subset, FS_Difference, FS_CardinalityType
<1>2. Cardinality(rest) = Cardinality(S) - Cardinality(shown)
  <2>1. Cardinality(rest) = Cardinality(S) - Cardinality(S \cap shown) BY FS_Difference
  <2>2. S \cap shown = shown OBVIOUS
  <2> QED BY <2>1, <2>2
<1> HIDE DEF rest
<1>3. room \in Nat /\ room <= Cardinality(rest) /\ limit <= Cardinality(shown) + room
  BY <1>1, <1>2 DEF Later
<1> HIDE DEF room
<1>4. IsOrder(rest, r) BY DEF rest
<1>5. IsFiniteSet(best) /\ room <= Cardinality(best) BY <1>1, <1>3, <1>4, BestAreMany
<1>6. shown \cap best = {} BY DEF rest, BestIn
<1> HIDE DEF best
<1>7. Cardinality(shown \union best) = Cardinality(shown) + Cardinality(best) - Cardinality({})
  BY <1>1, <1>5, <1>6, FS_Union
<1>8. Cardinality({}) = 0 /\ Cardinality(best) \in Nat BY <1>5, FS_EmptySet, FS_CardinalityType
<1>9. limit <= Cardinality(shown \union best) BY <1>1, <1>3, <1>5, <1>7, <1>8
<1> QED BY <1>9 DEF best, room, rest

\* A limit leaves what is young, or is full.
LeftBy(old, new, young, limit) ==
  \A x \in young : (x \in DOMAIN new /\ new[x] = old[x]) \/ limit <= Cardinality(DOMAIN new)

LEMMA ForecastsLeft ==
  ASSUME NEW state, DOMAIN state = Fields, NEW at \in Int, AreForecasts(state.forecasts, at),
         NEW before \in Int
  PROVE  LeftBy(state.forecasts, PruneForecasts(state, before).forecasts,
                {p \in DOMAIN state.forecasts : state.forecasts[p].receivedAt >= before}, MaxForecasts)
<1> DEFINE f == state.forecasts
           shown == ShownForecastPoints(f)
           young == shown \union {p \in DOMAIN f : f[p].receivedAt >= before}
           Own(p) == f[p].requestedHere
           Before(p, q) ==
             \/ Own(p) /\ ~Own(q)
             \/ Own(p) = Own(q) /\ f[p].receivedAt > f[q].receivedAt
             \/ Own(p) = Own(q) /\ f[p].receivedAt = f[q].receivedAt /\ p < q
           room == Later(0, MaxForecasts - Cardinality(shown))
           r == {x \in (young \ shown) \X (young \ shown) : Before(x[1], x[2])}
           best == BestIn(young \ shown, r, room)
           kept == IF Cardinality(young) <= MaxForecasts THEN young ELSE shown \union best
           new == PruneForecasts(state, before).forecasts
<1>1. \A p \in DOMAIN f : p \in Nat /\ f[p].receivedAt \in Int /\ f[p].requestedHere \in BOOLEAN
  BY DEF AreForecasts, IsForecast
<1>2. shown \subseteq young /\ young \in SUBSET DOMAIN f BY DEF ShownForecastPoints
<1>3. new = Restrict(f, kept)
  <2>1. "forecasts" \in Fields BY DEF Fields
  <2>2. Best(young \ shown, room, Before) = best
    <3>1. \A x, y \in young \ shown : Before(y, x) <=> <<y, x>> \in r OBVIOUS
    <3> HIDE DEF r, Before, young, shown, room
    <3>2. \A x \in young \ shown : {y \in young \ shown : y # x /\ Before(y, x)}
                                     = {y \in young \ shown : y # x /\ <<y, x>> \in r} BY <3>1
    <3> QED BY <3>2 DEF Best, BestIn
  <2> HIDE DEF best
  <2> QED BY <2>1, <2>2 DEF PruneForecasts
<1> HIDE DEF new
<1>4. DOMAIN new = kept /\ \A p \in kept : new[p] = f[p]
  <2>1. kept \subseteq DOMAIN f BY <1>2 DEF BestIn
  <2> HIDE DEF kept
  <2> QED BY <1>3, <2>1 DEF Restrict
<1>5. CASE Cardinality(young) <= MaxForecasts BY <1>4, <1>5 DEF LeftBy, new
<1>6. CASE ~(Cardinality(young) <= MaxForecasts)
  <2>1. IsFiniteSet(young) /\ Cardinality(young) \in Nat BY <1>2, FS_Subset, FS_CardinalityType DEF AreForecasts
  <2>2. IsOrder(young \ shown, r)
    <3>1. \A x, y \in young \ shown : <<x, y>> \in r <=> Before(x, y) OBVIOUS
    <3>2. \A x \in young \ shown : x \in DOMAIN f BY <1>2
    <3> HIDE DEF r, young, shown, f
    <3> QED BY <1>1, <3>1, <3>2 DEF IsOrder
  <2>3. shown \in SUBSET young OBVIOUS
  <2>4. MaxForecasts \in Nat /\ MaxForecasts < Cardinality(young) BY <1>6, <2>1, Constants
  <2> HIDE DEF young, shown, r
  <2>5. MaxForecasts <= Cardinality(shown \union best) BY <2>1, <2>2, <2>3, <2>4, LimitIsFull
  <2>6. DOMAIN new = shown \union best BY <1>4, <1>6
  <2> QED BY <2>5, <2>6 DEF LeftBy, new
<1> QED BY <1>5, <1>6

LEMMA TextsLeft ==
  ASSUME NEW state, DOMAIN state = Fields, NEW at \in Int, AreTexts(state.texts, at),
         NEW before \in Int
  PROVE  LeftBy(state.texts, PruneTexts(state, before).texts,
                {g \in DOMAIN state.texts : state.texts[g].lastReceivedAt >= before}, MaxTexts)
<1> DEFINE f == state.texts
           shown == ShownTextGroups(f)
           young == shown \union {g \in DOMAIN f : f[g].lastReceivedAt >= before}
           Newer(g, h) == \/ f[g].lastReceivedAt > f[h].lastReceivedAt
                          \/ f[g].lastReceivedAt = f[h].lastReceivedAt /\ g < h
           room == Later(0, MaxTexts - Cardinality(shown))
           r == {x \in (young \ shown) \X (young \ shown) : Newer(x[1], x[2])}
           best == BestIn(young \ shown, r, room)
           kept == IF Cardinality(young) <= MaxTexts THEN young ELSE shown \union best
           new == PruneTexts(state, before).texts
<1>1. \A g \in DOMAIN f : g \in Nat /\ f[g].lastReceivedAt \in Int
  BY DEF AreTexts, IsText
<1>2. shown \subseteq young /\ young \in SUBSET DOMAIN f BY DEF ShownTextGroups, NewestTexts, OwnTexts
<1>3. new = Restrict(f, kept)
  <2>1. "texts" \in Fields BY DEF Fields
  <2>2. Best(young \ shown, room, Newer) = best
    <3>1. \A x, y \in young \ shown : Newer(y, x) <=> <<y, x>> \in r OBVIOUS
    <3> HIDE DEF r, Newer, young, shown, room
    <3>2. \A x \in young \ shown : {y \in young \ shown : y # x /\ Newer(y, x)}
                                     = {y \in young \ shown : y # x /\ <<y, x>> \in r} BY <3>1
    <3> QED BY <3>2 DEF Best, BestIn
  <2> HIDE DEF best
  <2> QED BY <2>1, <2>2 DEF PruneTexts
<1> HIDE DEF new
<1>4. DOMAIN new = kept /\ \A g \in kept : new[g] = f[g]
  <2>1. kept \subseteq DOMAIN f BY <1>2 DEF BestIn
  <2> HIDE DEF kept
  <2> QED BY <1>3, <2>1 DEF Restrict
<1>5. CASE Cardinality(young) <= MaxTexts BY <1>4, <1>5 DEF LeftBy, new
<1>6. CASE ~(Cardinality(young) <= MaxTexts)
  <2>1. IsFiniteSet(young) /\ Cardinality(young) \in Nat BY <1>2, FS_Subset, FS_CardinalityType DEF AreTexts
  <2>2. IsOrder(young \ shown, r)
    <3>1. \A x, y \in young \ shown : <<x, y>> \in r <=> Newer(x, y) OBVIOUS
    <3>2. \A x \in young \ shown : x \in DOMAIN f BY <1>2
    <3> HIDE DEF r, young, shown, f
    <3> QED BY <1>1, <3>1, <3>2 DEF IsOrder
  <2>3. shown \in SUBSET young OBVIOUS
  <2>4. MaxTexts \in Nat /\ MaxTexts < Cardinality(young) BY <1>6, <2>1, Constants
  <2> HIDE DEF young, shown, r
  <2>5. MaxTexts <= Cardinality(shown \union best) BY <2>1, <2>2, <2>3, <2>4, LimitIsFull
  <2>6. DOMAIN new = shown \union best BY <1>4, <1>6
  <2> QED BY <2>5, <2>6 DEF LeftBy, new
<1> QED BY <1>5, <1>6

LEMMA ReadingsLeft ==
  ASSUME NEW state, DOMAIN state = Fields, AreReadings(state.observations), NEW cutoff \in Int
  PROVE  LeftBy(state.observations, TrimObservations(state, cutoff).observations,
                {s \in DOMAIN state.observations : state.observations[s].receivedAt >= cutoff}, MaxObservations)
<1> DEFINE f == state.observations
           young == {s \in DOMAIN f : f[s].lastBatchMinutes >= cutoff \/ f[s].receivedAt >= cutoff}
           Before(s, t) ==
             \/ f[s].lastBatchMinutes > f[t].lastBatchMinutes
             \/ f[s].lastBatchMinutes = f[t].lastBatchMinutes
                /\ \/ f[s].receivedAt > f[t].receivedAt
                   \/ f[s].receivedAt = f[t].receivedAt /\ s < t
           r == {x \in young \X young : Before(x[1], x[2])}
           best == BestIn(young, r, MaxObservations)
           kept == IF Cardinality(young) <= MaxObservations THEN young ELSE best
           new == TrimObservations(state, cutoff).observations
<1>1. \A s \in DOMAIN f : s \in Nat /\ f[s].lastBatchMinutes \in Int /\ f[s].receivedAt \in Int
  BY DEF AreReadings, IsReading
<1>2. young \in SUBSET DOMAIN f OBVIOUS
<1>3. new = Restrict(f, kept)
  <2>1. "observations" \in Fields BY DEF Fields
  <2>2. Best(young, MaxObservations, Before) = best
    <3>1. \A x, y \in young : Before(y, x) <=> <<y, x>> \in r OBVIOUS
    <3> HIDE DEF r, Before, young
    <3>2. \A x \in young : {y \in young : y # x /\ Before(y, x)}
                                     = {y \in young : y # x /\ <<y, x>> \in r} BY <3>1
    <3> QED BY <3>2 DEF Best, BestIn
  <2> HIDE DEF best
  <2> QED BY <2>1, <2>2 DEF TrimObservations
<1> HIDE DEF new
<1>4. DOMAIN new = kept /\ \A s \in kept : new[s] = f[s]
  <2>1. kept \subseteq DOMAIN f BY <1>2 DEF BestIn
  <2> HIDE DEF kept
  <2> QED BY <1>3, <2>1 DEF Restrict
<1>5. CASE Cardinality(young) <= MaxObservations BY <1>4, <1>5 DEF LeftBy, new
<1>6. CASE ~(Cardinality(young) <= MaxObservations)
  <2>1. IsFiniteSet(young) /\ Cardinality(young) \in Nat
    BY <1>2, FS_Subset, FS_CardinalityType DEF AreReadings
  <2>2. IsOrder(young, r)
    <3>1. \A x, y \in young : <<x, y>> \in r <=> Before(x, y) OBVIOUS
    <3>2. \A x \in young : x \in DOMAIN f BY <1>2
    <3> HIDE DEF r, young, f
    <3> QED BY <1>1, <3>1, <3>2 DEF IsOrder
  <2>3. MaxObservations \in Nat /\ MaxObservations < Cardinality(young) BY <1>6, <2>1, Constants
  <2> HIDE DEF young, r
  <2>4. MaxObservations <= Cardinality(best) BY <2>1, <2>2, <2>3, BestAreMany
  <2>5. DOMAIN new = best BY <1>4, <1>6
  <2> QED BY <2>4, <2>5 DEF LeftBy, new
<1> QED BY <1>5, <1>6

-----------------------------------------------------------------------------
(* The slots of what was answered *)

\* A slot is of its bot, and says when its answer came and of when it is.
IsAnswer(a, at) == a.receivedAt \in Int /\ a.receivedAt <= at /\ a.contentAsOf \in Int
SlotsOK == \A slot \in DOMAIN lastAnswers : lastAnswers[slot].bot = slot[2] /\ IsAnswer(lastAnswers[slot], now)

\* The slots that a message of a bot fills, where the bot's state is then this.
IsFilled(slot, b, state, m) ==
  \/ /\ m.type = "observations"
     /\ \E s \in DOMAIN m.stations :
          /\ state.observations[s].timestampMinutes = ReportMinutes(m, s)
          /\ slot = <<"station", AnyBot, s>> \/ slot = <<"coverageObservations", b>>
  \/ m.type = "forecast" /\ m.point # UnbundledPoint /\ slot = <<"forecast", AnyBot, m.point>>
  \/ /\ m.type = "area_sweep" /\ (m.idx = 0 \/ ~m.scoped)
     /\ slot = <<"areaSweep", b, IF m.scoped THEN m.scope ELSE National>>
  \/ m.type = "radar" /\ slot = <<"radar", AnyBot, m.tile>>
  \/ m.type = "coverage" /\ slot = <<"coverage", b>>
  \/ /\ m.type = "text" /\ IsCompleteText(state.texts[m.group])
     /\ slot = <<"text", b, state.texts[m.group].request>>

LEMMA FillsIs ==
  ASSUME NEW m, TypedMessage(m), NEW b, NEW held, NEW asked_, NEW slot \in Fills(held, b, m, asked_)
  PROVE  IsFilled(slot, b, held[b], m)
<1>1. m.type \in {"observations", "forecast", "area_sweep", "radar", "text", "coverage", "not_available"}
  BY DEF TypedMessage, FieldsOf
<1>2. CASE m.type = "observations"
  <2> DEFINE reported == {s \in DOMAIN m.stations :
                          held[b].observations[s].timestampMinutes = ReportMinutes(m, s)}
  <2>1. slot \in {<<"station", AnyBot, s>> : s \in reported}
                 \/ (slot = <<"coverageObservations", b>> /\ reported # {})
    BY <1>2 DEF Fills
  <2> QED BY <1>2, <2>1 DEF IsFilled
<1>3. CASE m.type = "forecast"
  <2>1. m.point # UnbundledPoint /\ slot = <<"forecast", AnyBot, m.point>> BY <1>3 DEF Fills
  <2> QED BY <1>3, <2>1 DEF IsFilled
<1>4. CASE m.type = "area_sweep"
  <2>1. (m.idx = 0 \/ ~m.scoped) /\ slot = <<"areaSweep", b, IF m.scoped THEN m.scope ELSE National>>
    BY <1>4 DEF Fills
  <2> QED BY <1>4, <2>1 DEF IsFilled
<1>5. CASE m.type = "radar"
  <2>1. slot = <<"radar", AnyBot, m.tile>> BY <1>5 DEF Fills
  <2> QED BY <1>5, <2>1 DEF IsFilled
<1>6. CASE m.type = "text"
  <2>1. IsCompleteText(held[b].texts[m.group]) /\ slot = <<"text", b, held[b].texts[m.group].request>>
    BY <1>6 DEF Fills
  <2> QED BY <1>6, <2>1 DEF IsFilled
<1>7. CASE m.type = "coverage"
  <2>1. slot = <<"coverage", b>> BY <1>7 DEF Fills
  <2> QED BY <1>7, <2>1 DEF IsFilled
<1>8. CASE m.type = "not_available" BY <1>8 DEF Fills
<1> QED BY <1>1, <1>2, <1>3, <1>4, <1>5, <1>6, <1>7, <1>8

\* What a slot that a message fills says.
LEMMA FilledIs ==
  ASSUME AirOK, NEW i \in DOMAIN air, NEW state, NEW slot, IsFilled(slot, air[i].bot, state, MessageAt(i))
  PROVE  AsOf(i, slot) \in Int /\ slot[2] \in {AnyBot, air[i].bot}
<1> DEFINE m == MessageAt(i)
<1>1. TypedMessage(m) BY SentIs
<1>2. MessageMinutes(m) \in Int BY <1>1 DEF TypedMessage
<1> HIDE DEF m
<1>3. CASE \E s \in DOMAIN m.stations : m.type = "observations" /\ slot = <<"station", AnyBot, s>>
  <2>1. PICK s \in DOMAIN m.stations : m.type = "observations" /\ slot = <<"station", AnyBot, s>> BY <1>3
  <2>2. m.ts \in Int /\ m.stations[s] \in Nat BY <1>1, <2>1 DEF TypedMessage
  <2>3. slot[1] = "station" /\ slot[2] = AnyBot /\ slot[3] = s BY <2>1
  <2>4. AsOf(i, slot) = ReportMinutes(m, s) BY <2>3 DEF AsOf, m
  <2> QED BY <2>2, <2>3, <2>4 DEF ReportMinutes
<1>4. CASE slot[1] # "station" /\ slot[2] \in {AnyBot, air[i].bot}
  <2>1. AsOf(i, slot) = MessageMinutes(m) BY <1>4 DEF AsOf, m
  <2> QED BY <1>2, <1>4, <2>1
<1>5. \/ \E s \in DOMAIN m.stations : m.type = "observations" /\ slot = <<"station", AnyBot, s>>
      \/ slot[1] # "station" /\ slot[2] \in {AnyBot, air[i].bot}
  BY DEF IsFilled, m
<1> QED BY <1>3, <1>4, <1>5

\* A slot after a packet: as it was, or filled.
LEMMA NotedIs ==
  ASSUME AirOK, NEW i \in DOMAIN air, NEW heard, NEW marked, NEW fills, Notes(i, heard, marked, fills),
         NEW slot \in DOMAIN lastAnswers'
  PROVE  \/ slot \in DOMAIN lastAnswers /\ lastAnswers'[slot] = lastAnswers[slot]
         \/ /\ IsFilled(slot, air[i].bot, marked, MessageAt(i))
            /\ ~IsAhead(MessageMinutes(MessageAt(i)), now) /\ WasStored(heard, MessageAt(i))
            /\ lastAnswers'[slot] = [bot |-> slot[2], receivedAt |-> now, contentAsOf |-> AsOf(i, slot)]
<1>1. /\ slot \in DOMAIN lastAnswers \union fills
      /\ lastAnswers'[slot] = IF slot \in fills
                              THEN [bot |-> slot[2], receivedAt |-> now, contentAsOf |-> AsOf(i, slot)]
                              ELSE lastAnswers[slot]
  BY DEF Notes
<1>2. CASE slot \in fills
  <2>1. ~IsAhead(MessageMinutes(MessageAt(i)), now) /\ WasStored(heard, MessageAt(i)) BY <1>2 DEF Notes
  <2>2. PICK requests : fills = Fills(Put(states, air[i].bot, marked), air[i].bot, MessageAt(i), requests)
    BY <1>2 DEF Notes
  <2>3. TypedMessage(MessageAt(i)) BY SentIs
  <2>4. Put(states, air[i].bot, marked)[air[i].bot] = marked BY DEF Put
  <2>5. IsFilled(slot, air[i].bot, marked, MessageAt(i)) BY <1>2, <2>2, <2>3, <2>4, FillsIs
  <2> QED BY <1>1, <1>2, <2>1, <2>5
<1>3. CASE slot \notin fills BY <1>1, <1>3
<1> QED BY <1>2, <1>3

LEMMA SlotsStep ==
  ASSUME AnswersInv, AnswersInv', SlotsOK, [Next]_vars
  PROVE  SlotsOK'
<1>1. AirOK /\ now \in Int /\ now' \in Int BY DEF AnswersInv, AirInv, MapsOK, AirOK
<1>2. ASSUME now <= now', DOMAIN lastAnswers' \subseteq DOMAIN lastAnswers,
             \A slot \in DOMAIN lastAnswers' : lastAnswers'[slot] = lastAnswers[slot]
      PROVE  SlotsOK'
  <2> SUFFICES ASSUME NEW slot \in DOMAIN lastAnswers'
               PROVE  lastAnswers'[slot].bot = slot[2] /\ IsAnswer(lastAnswers'[slot], now')
    BY DEF SlotsOK, IsAnswer
  <2>1. lastAnswers[slot].bot = slot[2] /\ IsAnswer(lastAnswers[slot], now) BY <1>2 DEF SlotsOK
  <2> QED BY <1>1, <1>2, <2>1 DEF IsAnswer
<1>3. CASE UNCHANGED vars
  <2>1. now' = now /\ lastAnswers' = lastAnswers BY <1>3 DEF vars, phoneVars
  <2> QED BY <1>1, <1>2, <2>1
<1>4. CASE \E i \in DOMAIN air : Deliver(i)
  <2>1. PICK i \in DOMAIN air : Deliver(i) BY <1>4
  <2>2. now' = now BY <2>1 DEF Deliver
  <2>3. CASE lastAnswers' = lastAnswers BY <1>1, <1>2, <2>2, <2>3
  <2>4. CASE IsIngest(i)
    <3>1. PICK heard, marked, fills : Notes(i, heard, marked, fills) BY <2>4 DEF IsIngest, IsNoted
    <3> SUFFICES ASSUME NEW slot \in DOMAIN lastAnswers'
                 PROVE  lastAnswers'[slot].bot = slot[2] /\ IsAnswer(lastAnswers'[slot], now')
      BY DEF SlotsOK, IsAnswer
    <3>2. CASE slot \in DOMAIN lastAnswers /\ lastAnswers'[slot] = lastAnswers[slot]
      BY <2>2, <3>2 DEF SlotsOK
    <3>3. CASE /\ IsFilled(slot, air[i].bot, marked, MessageAt(i))
               /\ lastAnswers'[slot] = [bot |-> slot[2], receivedAt |-> now, contentAsOf |-> AsOf(i, slot)]
      <4>1. AsOf(i, slot) \in Int BY <1>1, <3>3, FilledIs
      <4> QED BY <1>1, <2>2, <3>3, <4>1 DEF IsAnswer
    <3> QED BY <1>1, <3>1, <3>2, <3>3, NotedIs
  <2> QED BY <2>1, <2>3, <2>4, DeliverIs
<1>5. CASE Tick
  <2>1. now <= now' /\ lastAnswers' = lastAnswers BY <1>1, <1>5 DEF Tick, phoneVars
  <2> QED BY <1>2, <2>1
<1>6. CASE Build \/ Send \/ \E i \in DOMAIN pending : Replay(i)
  <2>1. now' = now /\ lastAnswers' = lastAnswers BY <1>6 DEF Build, Send, Replay, phoneVars
  <2> QED BY <1>1, <1>2, <2>1
<1>7. CASE \/ Saved \/ SaveFails \/ \E i \in DOMAIN script : Ask(i)
           \/ \E c \in DOMAIN states : AskParts(c)
  <2>1. now' = now /\ lastAnswers' = lastAnswers BY <1>7 DEF Saved, SaveFails, Ask, AskParts
  <2> QED BY <1>1, <1>2, <2>1
<1>8. CASE Reopen
  <2>1. now' = now /\ lastAnswers' = <<>> BY <1>8 DEF Reopen
  <2> QED BY <2>1 DEF SlotsOK
<1>9. CASE \E c \in DOMAIN states : Clear(c)
  <2>1. /\ now' = now
        /\ \E S \in SUBSET DOMAIN lastAnswers : lastAnswers' = Restrict(lastAnswers, S)
    BY <1>9 DEF Clear
  <2>2. /\ DOMAIN lastAnswers' \subseteq DOMAIN lastAnswers
        /\ \A slot \in DOMAIN lastAnswers' : lastAnswers'[slot] = lastAnswers[slot]
    BY <2>1 DEF Restrict
  <2> QED BY <1>1, <1>2, <2>1, <2>2
<1> QED BY <1>3, <1>4, <1>5, <1>6, <1>7, <1>8, <1>9 DEF Next

LEMMA SlotsAlways == Spec => []SlotsOK
<1>1. Init => SlotsOK BY DEF Init, SlotsOK
<1>2. AnswersInv /\ AnswersInv' /\ SlotsOK /\ [Next]_vars => SlotsOK' BY SlotsStep
<1> QED BY <1>1, <1>2, AnswersAlways, PTL DEF Spec

-----------------------------------------------------------------------------
(* What a packet leaves of an answer, before the limits *)

\* No reading goes or gets older, and one that a packet stores has come now.
LEMMA ReadingsGrow ==
  ASSUME NEW old, DOMAIN old = Fields, AreReadings(old.observations), NEW at \in Int,
         NEW m, TypedMessage(m), NEW heard, Agree(old, heard) \/ Stores(old, heard, m, at),
         NEW pending_, NEW settled, NEW marked, IsMarked(heard, marked, m, pending_, settled)
  PROVE  /\ AreReadings(marked.observations)
         /\ \A s \in DOMAIN old.observations :
              /\ s \in DOMAIN marked.observations
              /\ old.observations[s].timestampMinutes <= marked.observations[s].timestampMinutes
              /\ marked.observations[s].receivedAt \in {old.observations[s].receivedAt, at}
         /\ Stores(old, heard, m, at) /\ m.type = "observations" =>
              \A s \in DOMAIN m.stations :
                /\ s \in DOMAIN marked.observations
                /\ marked.observations[s].timestampMinutes = ReportMinutes(m, s) =>
                     marked.observations[s].receivedAt = at
<1> DEFINE f == old.observations
           new == marked.observations
<1>1. new = heard.observations BY DEF IsMarked
<1>2. \A s \in DOMAIN f : f[s].timestampMinutes \in Int BY DEF AreReadings, IsReading
<1>3. Agree(old, heard) => new = f BY <1>1, AgreeIs
<1>4. Stores(old, heard, m, at) /\ m.type # "observations" => new = f BY <1>1 DEF Stores
<1>5. CASE new = f /\ ~(Stores(old, heard, m, at) /\ m.type = "observations") BY <1>2, <1>5
<1>6. CASE Stores(old, heard, m, at) /\ m.type = "observations"
  <2> DEFINE New(s) == [timestampMinutes |-> ReportMinutes(m, s), receivedAt |-> at,
                        lastBatchMinutes |-> LastBatch(f, m, s)]
             Kept(s) == [f[s] EXCEPT !.lastBatchMinutes = LastBatch(f, m, s)]
  <2>1. new = StoreObservations(old, m, at).observations BY <1>1, <1>6 DEF Stores
  <2> HIDE DEF new
  <2>2. /\ AreReadings(new) /\ DOMAIN new = DOMAIN f \union DOMAIN m.stations
        /\ \A s \in DOMAIN f : f[s].timestampMinutes <= new[s].timestampMinutes
    BY <1>6, <2>1, StoredReadings
  <2>3. new = [s \in DOMAIN f \union DOMAIN m.stations |->
                 IF s \notin DOMAIN m.stations THEN f[s]
                 ELSE IF s \in DOMAIN f /\ f[s].timestampMinutes > ReportMinutes(m, s)
                      THEN Kept(s) ELSE New(s)]
    <3>1. "observations" \in Fields BY DEF Fields
    <3> QED BY <2>1, <3>1 DEF StoreObservations, Held
  <2>4. \A s : New(s).receivedAt = at OBVIOUS
  <2>5. \A s \in DOMAIN f : /\ Kept(s).receivedAt = f[s].receivedAt
                            /\ Kept(s).timestampMinutes = f[s].timestampMinutes
    BY DEF AreReadings, IsReading
  <2>6. \A s \in DOMAIN m.stations : ReportMinutes(m, s) \in Int BY <1>6 DEF TypedMessage, ReportMinutes
  <2> HIDE DEF New, Kept, f
  <2>7. ASSUME NEW s \in DOMAIN f PROVE new[s].receivedAt \in {f[s].receivedAt, at}
    <3>1. new[s] \in {f[s], Kept(s), New(s)} BY <2>3
    <3> QED BY <2>4, <2>5, <3>1
  <2>8. ASSUME NEW s \in DOMAIN m.stations, new[s].timestampMinutes = ReportMinutes(m, s)
        PROVE  new[s].receivedAt = at
    <3>1. CASE s \in DOMAIN f /\ f[s].timestampMinutes > ReportMinutes(m, s)
      <4>1. new[s] = Kept(s) BY <2>3, <3>1
      <4> QED BY <1>2, <2>5, <2>6, <2>8, <3>1, <4>1
    <3>2. CASE ~(s \in DOMAIN f /\ f[s].timestampMinutes > ReportMinutes(m, s))
      <4>1. new[s] = New(s) BY <2>3, <3>2
      <4> QED BY <2>4, <4>1
    <3> QED BY <3>1, <3>2
  <2> QED BY <2>2, <2>7, <2>8 DEF f, new
<1> QED BY <1>3, <1>4, <1>5, <1>6

\* No forecast goes or gets older, and one that a packet stores has come now.
LEMMA ForecastsGrow ==
  ASSUME NEW old, DOMAIN old = Fields, NEW at \in Int, AreForecasts(old.forecasts, at),
         NEW m, TypedMessage(m), NEW heard, Agree(old, heard) \/ Stores(old, heard, m, at),
         NEW pending_, NEW settled, NEW marked, IsMarked(heard, marked, m, pending_, settled)
  PROVE  /\ AreForecasts(marked.forecasts, at)
         /\ \A p \in DOMAIN old.forecasts :
              /\ p \in DOMAIN marked.forecasts
              /\ old.forecasts[p].issued <= marked.forecasts[p].issued
              /\ old.forecasts[p].receivedAt <= marked.forecasts[p].receivedAt
         /\ Stores(old, heard, m, at) /\ m.type = "forecast" /\ m.point # UnbundledPoint
              /\ Held(heard.forecasts, m.point) /\ heard.forecasts[m.point].issued = m.issued =>
              /\ m.point \in DOMAIN marked.forecasts
              /\ marked.forecasts[m.point].issued = m.issued /\ marked.forecasts[m.point].receivedAt = at
<1> DEFINE f0 == old.forecasts
           f1 == heard.forecasts
           f2 == marked.forecasts
<1>0. \A p \in DOMAIN f0 : /\ p \in Nat /\ f0[p].issued \in Int /\ f0[p].receivedAt \in Int
  BY DEF AreForecasts, IsForecast
<1>1. AreForecasts(f1, at) /\ \A p \in DOMAIN f0 : /\ p \in DOMAIN f1 /\ f0[p].issued <= f1[p].issued
                                                   /\ f0[p].receivedAt <= f1[p].receivedAt
  <2>1. f1 = f0 => \A p \in DOMAIN f0 : f0[p].issued <= f1[p].issued /\ f0[p].receivedAt <= f1[p].receivedAt
    BY <1>0
  <2>2. Agree(old, heard) => f1 = f0 BY AgreeIs
  <2>3. Stores(old, heard, m, at) /\ m.type # "forecast" => f1 = f0 BY DEF Stores
  <2>4. CASE Stores(old, heard, m, at) /\ m.type = "forecast"
    <3>1. f1 = StoreForecast(old, m, at).forecasts /\ at <= at BY <2>4 DEF Stores
    <3> QED BY <2>4, <3>1, StoredForecasts
  <2> HIDE DEF f0, f1
  <2>5. f1 = f0 => AreForecasts(f1, at) BY DEF f0
  <2> QED BY <2>1, <2>2, <2>3, <2>4, <2>5
<1>2. /\ AreForecasts(f2, at) /\ DOMAIN f2 = DOMAIN f1
      /\ \A p \in DOMAIN f1 : f2[p].issued = f1[p].issued /\ f2[p].receivedAt = f1[p].receivedAt
  <2>1. \/ f2 = f1
        \/ m.point \in DOMAIN f1 /\ f2 = [f1 EXCEPT ![m.point].requestedHere = TRUE]
    BY DEF IsMarked
  <2>2. \A p \in DOMAIN f1 : p \in Nat /\ IsForecast(f1[p], at) BY <1>1 DEF AreForecasts
  <2> HIDE DEF f1, f2
  <2>4. CASE f2 = f1 BY <1>1, <2>4
  <2>5. CASE m.point \in DOMAIN f1 /\ f2 = [f1 EXCEPT ![m.point].requestedHere = TRUE]
    <3>1. DOMAIN f2 = DOMAIN f1 /\ \A p \in DOMAIN f1 : p # m.point => f2[p] = f1[p] BY <2>5
    <3>2. f2[m.point] = [f1[m.point] EXCEPT !.requestedHere = TRUE] BY <2>5
    <3>3. /\ f2[m.point].issued = f1[m.point].issued /\ f2[m.point].receivedAt = f1[m.point].receivedAt
          /\ IsForecast(f2[m.point], at)
      BY <2>2, <2>5, <3>2 DEF IsForecast
    <3>4. AreForecasts(f2, at) BY <1>1, <2>2, <3>1, <3>3 DEF AreForecasts
    <3> QED BY <3>1, <3>3, <3>4
  <2> QED BY <2>1, <2>4, <2>5
<1>3. ASSUME Stores(old, heard, m, at), m.type = "forecast", m.point # UnbundledPoint,
             Held(f1, m.point), f1[m.point].issued = m.issued
      PROVE  f1[m.point].receivedAt = at
  <2>1. f1 = StoreForecast(old, m, at).forecasts BY <1>3 DEF Stores
  <2>2. m.issued \in Int BY <1>3 DEF TypedMessage
  <2>3. CASE HoldsNewerForecast(old, m)
    <3>1. f1 = f0 BY <1>3, <2>1, <2>3 DEF StoreForecast
    <3>2. m.point \in DOMAIN f0 /\ f0[m.point].issued > m.issued BY <2>3 DEF HoldsNewerForecast, Held
    <3> QED BY <1>0, <1>3, <2>2, <3>1, <3>2
  <2>4. CASE ~HoldsNewerForecast(old, m)
    <3> DEFINE x == Forecast(m, at, /\ Held(old.forecasts, m.point)
                                    /\ old.forecasts[m.point].requestedHere)
    <3>1. "forecasts" \in Fields BY DEF Fields
    <3>2. f1 = Put(f0, m.point, x) BY <1>3, <2>1, <2>4, <3>1 DEF StoreForecast
    <3>3. x.receivedAt = at BY DEF Forecast
    <3> HIDE DEF x
    <3>4. f1[m.point] = x BY <3>2 DEF Put
    <3> QED BY <3>3, <3>4
  <2> QED BY <2>3, <2>4
<1> HIDE DEF f0, f1, f2
<1>4. \A p \in DOMAIN f0 : /\ p \in DOMAIN f2 /\ f0[p].issued <= f2[p].issued
                           /\ f0[p].receivedAt <= f2[p].receivedAt
  BY <1>1, <1>2
<1>5. Held(f1, m.point) /\ f1[m.point].issued = m.issued /\ f1[m.point].receivedAt = at =>
        m.point \in DOMAIN f2 /\ f2[m.point].issued = m.issued /\ f2[m.point].receivedAt = at
  BY <1>2 DEF Held
<1> QED BY <1>2, <1>3, <1>4, <1>5 DEF f0, f1, f2

\* A reply that goes on, or becomes another's.
GoesOnAs(x, y) ==
  \/ y.request = x.request /\ y.total = x.total /\ DOMAIN x.chunks \subseteq DOMAIN y.chunks
  \/ \E f \in {"request", "subject", "total"} : y[f] # x[f]

GrewAs(x, y) ==
  \/ y.request = x.request /\ y.total = x.total /\ DOMAIN x.chunks \subseteq DOMAIN y.chunks
  \/ \E f \in {"subject", "total"} : y[f] # x[f]

TakesChunk(texts, new, m, at) ==
  /\ AreTexts(new, at) /\ DOMAIN new = DOMAIN texts \union {m.group}
  /\ new[m.group].lastReceivedAt = at
  /\ \A g \in DOMAIN texts : g # m.group => new[g] = texts[g]
  /\ m.group \in DOMAIN texts => GrewAs(texts[m.group], new[m.group])

\* A packet joins a reply, or makes its group another's.
LEMMA ChunkStored ==
  ASSUME NEW old, DOMAIN old = Fields, NEW at \in Int, AreTexts(old.texts, at), NEW m, TypedMessage(m),
         m.type = "text", NEW new, new = StoreText(old, m, at).texts
  PROVE  TakesChunk(old.texts, new, m, at)
<1> DEFINE f0 == old.texts
           g0 == m.group
           a0 == IF Continues(f0, m) THEN f0[g0] ELSE TextAssembly(m, at)
           a1 == [a0 EXCEPT !.chunks = Put(a0.chunks, m.idx, m.text), !.lastReceivedAt = at,
                            !.wasCut = a0.wasCut \/ m.cut]
<1>0. \A g \in DOMAIN f0 : g \in Nat /\ IsText(f0[g], at) BY DEF AreTexts
<1>1. new = Put(f0, g0, a1)
  <2>1. "texts" \in Fields BY DEF Fields
  <2> QED BY <2>1 DEF StoreText
<1>2. g0 \in Nat BY DEF TypedMessage, Multi
<1>3. DOMAIN a0 = {"subject", "group", "total", "chunks", "lastReceivedAt", "request", "wasCut"}
  BY <1>0, TextFieldsIs DEF Continues, Held, TextAssembly
<1>4. Continues(f0, m) => a0 = f0[g0] OBVIOUS
<1>5. g0 \in DOMAIN f0 /\ ~Continues(f0, m) => a0.subject # f0[g0].subject \/ a0.total # f0[g0].total
  BY DEF Continues, Held, TextAssembly
<1> HIDE DEF a0
<1>6. /\ DOMAIN a1 = DOMAIN a0 /\ a1.lastReceivedAt = at /\ a1.request = a0.request
      /\ a1.subject = a0.subject /\ a1.total = a0.total /\ DOMAIN a0.chunks \subseteq DOMAIN a1.chunks
  BY <1>3 DEF Put
<1> HIDE DEF a1
<1>7. IsText(a1, at) BY <1>3, <1>6 DEF IsText, TextAssembly
<1>8. /\ DOMAIN new = DOMAIN f0 \union {g0} /\ new[g0] = a1
      /\ \A g \in DOMAIN f0 : g # g0 => new[g] = f0[g]
  BY <1>1 DEF Put
<1>9. AreTexts(new, at)
  <2>1. IsFiniteSet(DOMAIN new) BY <1>8, FS_AddElement DEF AreTexts
  <2> QED BY <1>0, <1>2, <1>7, <1>8, <2>1 DEF AreTexts
<1>10. ASSUME g0 \in DOMAIN f0 PROVE GrewAs(f0[g0], new[g0])
  <2>1. CASE Continues(f0, m) BY <1>4, <1>6, <1>8, <2>1 DEF GrewAs
  <2>2. CASE ~Continues(f0, m)
    <3>1. new[g0].subject # f0[g0].subject \/ new[g0].total # f0[g0].total BY <1>5, <1>6, <1>8, <1>10, <2>2
    <3> QED BY <3>1 DEF GrewAs
  <2> QED BY <2>1, <2>2
<1> QED BY <1>6, <1>8, <1>9, <1>10 DEF TakesChunk

LEMMA RepliesGrow ==
  ASSUME NEW old, DOMAIN old = Fields, NEW at \in Int, AreTexts(old.texts, at),
         NEW m, TypedMessage(m), NEW heard, Agree(old, heard) \/ Stores(old, heard, m, at),
         NEW pending_, NEW settled, NEW marked, IsMarked(heard, marked, m, pending_, settled)
  PROVE  /\ AreTexts(marked.texts, at)
         /\ \A g \in DOMAIN old.texts :
              /\ g \in DOMAIN marked.texts /\ GoesOnAs(old.texts[g], marked.texts[g])
              /\ marked.texts[g].lastReceivedAt \in {old.texts[g].lastReceivedAt, at}
         /\ Stores(old, heard, m, at) /\ m.type = "text" =>
              m.group \in DOMAIN marked.texts /\ marked.texts[m.group].lastReceivedAt = at
<1> DEFINE f0 == old.texts
           f1 == heard.texts
           f2 == marked.texts
<1>1. /\ AreTexts(f1, at)
      /\ \A g \in DOMAIN f0 : /\ g \in DOMAIN f1 /\ GrewAs(f0[g], f1[g])
                              /\ f1[g].lastReceivedAt \in {f0[g].lastReceivedAt, at}
      /\ Stores(old, heard, m, at) /\ m.type = "text" =>
           m.group \in DOMAIN f1 /\ f1[m.group].lastReceivedAt = at
  <2>1. CASE f1 = f0 /\ ~(Stores(old, heard, m, at) /\ m.type = "text") BY <2>1 DEF GrewAs
  <2>2. CASE Stores(old, heard, m, at) /\ m.type = "text"
    <3>1. f1 = StoreText(old, m, at).texts BY <2>2 DEF Stores
    <3> HIDE DEF f1
    <3>2. TakesChunk(old.texts, f1, m, at) BY <2>2, <3>1, ChunkStored
    <3>3. \A x : GrewAs(x, x) BY DEF GrewAs
    <3>4. ASSUME NEW g \in DOMAIN f0
          PROVE  /\ g \in DOMAIN f1 /\ GrewAs(f0[g], f1[g])
                 /\ f1[g].lastReceivedAt \in {f0[g].lastReceivedAt, at}
      <4>1. CASE g = m.group BY <3>2, <4>1 DEF TakesChunk
      <4>2. CASE g # m.group BY <3>2, <3>3, <4>2 DEF TakesChunk
      <4> QED BY <4>1, <4>2
    <3> QED BY <3>2, <3>4 DEF TakesChunk
  <2>3. Agree(old, heard) => f1 = f0 BY AgreeIs
  <2>4. Stores(old, heard, m, at) /\ m.type # "text" => f1 = f0 BY DEF Stores
  <2> HIDE DEF f0, f1
  <2> QED BY <2>1, <2>2, <2>3, <2>4
<1>2. /\ AreTexts(f2, at) /\ DOMAIN f2 = DOMAIN f1
      /\ \A g \in DOMAIN f1 : /\ f2[g].lastReceivedAt = f1[g].lastReceivedAt /\ f2[g].subject = f1[g].subject
                              /\ f2[g].total = f1[g].total /\ f2[g].chunks = f1[g].chunks
  <2>1. f2 = f1 \/ \E q : m.group \in DOMAIN f1 /\ f2 = [f1 EXCEPT ![m.group].request = q]
    BY DEF IsMarked
  <2>2. CASE f2 = f1 BY <1>1, <2>2
  <2>3. ASSUME NEW q, m.group \in DOMAIN f1, f2 = [f1 EXCEPT ![m.group].request = q]
        PROVE  /\ AreTexts(f2, at) /\ DOMAIN f2 = DOMAIN f1
               /\ \A g \in DOMAIN f1 :
                    /\ f2[g].lastReceivedAt = f1[g].lastReceivedAt /\ f2[g].subject = f1[g].subject
                    /\ f2[g].total = f1[g].total /\ f2[g].chunks = f1[g].chunks
    <3>1. IsText(f1[m.group], at) BY <1>1, <2>3 DEF AreTexts
    <3>2. /\ DOMAIN f2 = DOMAIN f1 /\ f2[m.group] = [f1[m.group] EXCEPT !.request = q]
          /\ \A g \in DOMAIN f1 : g # m.group => f2[g] = f1[g]
      BY <2>3
    <3> HIDE DEF f1, f2
    <3>3. /\ f2[m.group].subject = f1[m.group].subject /\ f2[m.group].total = f1[m.group].total
          /\ f2[m.group].lastReceivedAt = f1[m.group].lastReceivedAt
          /\ f2[m.group].chunks = f1[m.group].chunks /\ DOMAIN f2[m.group] = DOMAIN f1[m.group]
      BY <3>1, <3>2, TextFieldsIs
    <3>4. IsText(f2[m.group], at) BY <3>1, <3>3 DEF IsText
    <3>5. AreTexts(f2, at) BY <1>1, <3>2, <3>4 DEF AreTexts
    <3> QED BY <3>2, <3>3, <3>5
  <2> QED BY <2>1, <2>2, <2>3
<1> HIDE DEF f0, f1, f2
<1>3. ASSUME NEW g \in DOMAIN f0 PROVE GoesOnAs(f0[g], f2[g])
  <2>1. g \in DOMAIN f1 /\ GrewAs(f0[g], f1[g]) BY <1>1
  <2>2. /\ f2[g].subject = f1[g].subject /\ f2[g].total = f1[g].total /\ f2[g].chunks = f1[g].chunks
    BY <1>2, <2>1
  <2>3. CASE \E f \in {"subject", "total"} : f1[g][f] # f0[g][f]
    <3>1. f2[g].subject # f0[g].subject \/ f2[g].total # f0[g].total BY <2>2, <2>3
    <3> QED BY <3>1 DEF GoesOnAs
  <2>4. CASE /\ f1[g].request = f0[g].request /\ f1[g].total = f0[g].total
             /\ DOMAIN f0[g].chunks \subseteq DOMAIN f1[g].chunks
    <3>1. CASE f2[g].request = f0[g].request BY <2>2, <2>4, <3>1 DEF GoesOnAs
    <3>2. CASE f2[g].request # f0[g].request BY <3>2 DEF GoesOnAs
    <3> QED BY <3>1, <3>2
  <2> QED BY <2>1, <2>3, <2>4 DEF GrewAs
<1>4. \A g \in DOMAIN f0 : g \in DOMAIN f2 /\ f2[g].lastReceivedAt \in {f0[g].lastReceivedAt, at}
  BY <1>1, <1>2
<1>5. Stores(old, heard, m, at) /\ m.type = "text" => m.group \in DOMAIN f2 /\ f2[m.group].lastReceivedAt = at
  BY <1>1, <1>2
<1> QED BY <1>2, <1>3, <1>4, <1>5 DEF f0, f1, f2

\* A sweep no older that is a word on all of these states.
OnGround(sweeps, since, S) ==
  \E n \in DOMAIN sweeps : sweeps[n].builtMinutes >= since /\ \A s \in S : CoversState(sweeps[n], s)
GroundStays(old, new) == \A since \in Int : \A S : OnGround(old, since, S) => OnGround(new, since, S)
GroundOf(m) == IF m.scoped THEN m.scope ELSE National

\* A sweep that a first packet, or one of the whole country, has joined says its ground.
LEMMA SaysItsGround ==
  ASSUME AirOK, NEW i \in DOMAIN air, NEW m, m = MessageAt(i), m.type = "area_sweep",
         m.idx = 0 \/ ~m.scoped, NEW b, NEW y, SweepOK(y, b), m.entries \in Range(y.packets), TakesUp(y, m)
  PROVE  \A s \in GroundOf(m) : CoversState(y, s)
<1>1. y.isScoped = m.scoped BY HoldsItsMap
<1>2. CASE ~m.scoped BY <1>1, <1>2 DEF CoversState
<1>3. CASE m.scoped
  <2>1. y.scopeKnown = TRUE /\ y.scope = m.scope BY <1>3 DEF TakesUp
  <2> QED BY <1>3, <2>1 DEF CoversState, GroundOf
<1> QED BY <1>2, <1>3

LEMMA SaysTheGround ==
  ASSUME NEW x, NEW y, IsSweep(x), IsSweep(y), y = x \/ Says(y, x), NEW s, CoversState(x, s)
  PROVE  CoversState(y, s)
<1>1. x.isScoped \in BOOLEAN /\ y.isScoped \in BOOLEAN BY SweepIs
<1> QED BY <1>1 DEF Says, CoversState

\* A request is noted on some sweeps.
AreNoted(s, t, r, S) == t = [n \in DOMAIN s |-> IF n \in S THEN [s[n] EXCEPT !.request = r] ELSE s[n]]

\* What is noted on sweeps is not what they say.
LEMMA GroundMarked ==
  ASSUME NEW s, NEW b, SweepsOK(s, b), NEW t, t = s \/ \E r, S : AreNoted(s, t, r, S)
  PROVE  /\ Len(t) = Len(s)
         /\ \A since : \A S : OnGround(s, since, S) => OnGround(t, since, S)
<1>1. CASE t = s BY <1>1
<1>2. ASSUME NEW r, NEW S, AreNoted(s, t, r, S)
      PROVE  /\ Len(t) = Len(s)
             /\ \A since : \A T : OnGround(s, since, T) => OnGround(t, since, T)
  <2>1. DOMAIN t = DOMAIN s /\ t = [n \in DOMAIN s |-> t[n]] BY <1>2 DEF AreNoted
  <2>2. IsList(s) BY DEF SweepsOK
  <2>3. IsList(t) BY <2>1, <2>2, ReplacedIs
  <2>4. Len(t) = Len(s) BY <2>1, <2>2, <2>3, ListIs
  <2>5. ASSUME NEW n \in DOMAIN s PROVE Joined(s[n], t[n])
    <3>1. t[n] = s[n] \/ t[n] = [s[n] EXCEPT !.request = r] BY <1>2 DEF AreNoted
    <3>2. SweepOK(s[n], b) BY DEF SweepsOK
    <3>3. CASE t[n] = s[n] BY <3>3 DEF Joined
    <3>4. CASE t[n] = [s[n] EXCEPT !.request = r] BY <3>2, <3>4, MarkedSweep
    <3> QED BY <3>1, <3>3, <3>4
  <2>6. ASSUME NEW since, NEW T, OnGround(s, since, T) PROVE OnGround(t, since, T)
    <3>1. PICK n \in DOMAIN s : s[n].builtMinutes >= since /\ \A x \in T : CoversState(s[n], x)
      BY <2>6 DEF OnGround
    <3>2. t[n].builtMinutes >= since /\ \A x \in T : CoversState(t[n], x) BY <2>5, <3>1 DEF Joined
    <3> QED BY <2>1, <3>2 DEF OnGround
  <2> QED BY <2>4, <2>6
<1> QED BY <1>1, <1>2

\* The ground that a phone has a word on is left, and grows by that of a packet.
LEMMA GroundGrows ==
  ASSUME MapsOK, NEW i \in DOMAIN air, NEW old, DOMAIN old = Fields, SweepsOK(old.areaSweeps, air[i].bot),
         NEW m, m = MessageAt(i), NEW heard, Agree(old, heard) \/ Stores(old, heard, m, now),
         NEW pending_, NEW settled, NEW marked, IsMarked(heard, marked, m, pending_, settled),
         Len(marked.areaSweeps) # MaxAreaSweeps
  PROVE  /\ GroundStays(old.areaSweeps, marked.areaSweeps)
         /\ Stores(old, heard, m, now) /\ m.type = "area_sweep" /\ (m.idx = 0 \/ ~m.scoped) =>
              OnGround(marked.areaSweeps, m.built, GroundOf(m))
<1> DEFINE b == air[i].bot
           s0 == old.areaSweeps
           s1 == heard.areaSweeps
           s2 == marked.areaSweeps
<1>1. /\ SweepsOK(s1, b)
      /\ Len(s1) # MaxAreaSweeps =>
           /\ \A since \in Int : \A S : OnGround(s0, since, S) => OnGround(s1, since, S)
           /\ Stores(old, heard, m, now) /\ m.type = "area_sweep" /\ (m.idx = 0 \/ ~m.scoped) =>
                OnGround(s1, m.built, GroundOf(m))
  <2>1. CASE s1 = s0 /\ ~(Stores(old, heard, m, now) /\ m.type = "area_sweep") BY <2>1
  <2>2. CASE Stores(old, heard, m, now) /\ m.type = "area_sweep"
    <3> DEFINE M == Merged(s0, m, now)
    <3>1. s1 = RetainAreaSweeps(M)
      <4>1. s1 = StoreAreaSweep(old, m, now).areaSweeps BY <2>2 DEF Stores
      <4>2. "areaSweeps" \in Fields BY DEF Fields
      <4> QED BY <4>1, <4>2 DEF StoreAreaSweep
    <3>2. /\ SweepsOK(M, b)
          /\ \A n \in DOMAIN s0 : \E k \in DOMAIN M : Joined(s0[n], M[k])
          /\ \E k \in DOMAIN M : /\ M[k].builtMinutes = m.built /\ m.entries \in Range(M[k].packets)
                                 /\ TakesUp(M[k], m)
      BY <2>2, MergedIs
    <3> HIDE DEF M, s1
    <3>3. AreSweeps(M) BY <3>2 DEF SweepsOK, SweepOK, AreSweeps
    <3>4. /\ AreSweeps(s1) /\ Range(s1) \subseteq Range(M)
          /\ Len(s1) # MaxAreaSweeps => \A k \in DOMAIN M : \E n \in DOMAIN s1 :
               /\ M[k].builtMinutes <= s1[n].builtMinutes
               /\ s1[n] = M[k] \/ Says(s1[n], M[k])
      BY <3>1, <3>3, RetainedSweeps
    <3>5. SweepsOK(s1, b) BY <3>2, <3>4 DEF SweepsOK, AreSweeps, Range
    <3>6. ASSUME Len(s1) # MaxAreaSweeps, NEW since \in Int, NEW S, NEW k \in DOMAIN M,
                 M[k].builtMinutes >= since, \A s \in S : CoversState(M[k], s)
          PROVE  OnGround(s1, since, S)
      <4>1. PICK n \in DOMAIN s1 : /\ M[k].builtMinutes <= s1[n].builtMinutes
                                   /\ s1[n] = M[k] \/ Says(s1[n], M[k])
        BY <3>4, <3>6
      <4>2. IsSweep(M[k]) /\ IsSweep(s1[n]) BY <3>2, <3>5 DEF SweepsOK, SweepOK
      <4>3. \A s \in S : CoversState(s1[n], s) BY <3>6, <4>1, <4>2, SaysTheGround
      <4>4. s1[n].builtMinutes >= since
        <5>1. M[k].builtMinutes \in Int /\ s1[n].builtMinutes \in Int BY <4>2 DEF IsSweep
        <5> QED BY <3>6, <4>1, <5>1
      <4> QED BY <4>3, <4>4 DEF OnGround
    <3>7. ASSUME Len(s1) # MaxAreaSweeps, NEW since \in Int, NEW S, OnGround(s0, since, S)
          PROVE  OnGround(s1, since, S)
      <4>1. PICK n \in DOMAIN s0 : s0[n].builtMinutes >= since /\ \A s \in S : CoversState(s0[n], s)
        BY <3>7 DEF OnGround
      <4>2. PICK k \in DOMAIN M : Joined(s0[n], M[k]) BY <3>2
      <4>3. M[k].builtMinutes >= since /\ \A s \in S : CoversState(M[k], s) BY <4>1, <4>2 DEF Joined
      <4> QED BY <3>6, <3>7, <4>3
    <3>8. ASSUME Len(s1) # MaxAreaSweeps, m.idx = 0 \/ ~m.scoped PROVE OnGround(s1, m.built, GroundOf(m))
      <4>1. PICK k \in DOMAIN M : /\ M[k].builtMinutes = m.built /\ m.entries \in Range(M[k].packets)
                                  /\ TakesUp(M[k], m)
        BY <3>2
      <4>2. SweepOK(M[k], b) BY <3>2 DEF SweepsOK
      <4>3. \A s \in GroundOf(m) : CoversState(M[k], s) BY <2>2, <3>8, <4>1, <4>2, SaysItsGround DEF MapsOK
      <4>4. m.built \in Int BY <2>2, SentIs DEF TypedMessage, MapsOK
      <4>5. M[k].builtMinutes >= m.built BY <4>1, <4>4
      <4> QED BY <3>6, <3>8, <4>3, <4>4, <4>5
    <3> QED BY <3>5, <3>7, <3>8
  <2>3. Agree(old, heard) => s1 = s0 BY AgreeIs
  <2>4. Stores(old, heard, m, now) /\ m.type # "area_sweep" => s1 = s0 BY DEF Stores
  <2> QED BY <2>1, <2>2, <2>3, <2>4
<1>2. s2 = s1 \/ \E r, S : AreNoted(s1, s2, r, S)
  <2>1. \/ s2 = s1
        \/ \E r : s2 = [n \in DOMAIN s1 |-> IF s1[n].group = m.group /\ s1[n].builtMinutes = m.built
                                            THEN [s1[n] EXCEPT !.request = r] ELSE s1[n]]
    BY DEF IsMarked
  <2> HIDE DEF s1, s2
  <2>2. ASSUME NEW r, s2 = [n \in DOMAIN s1 |-> IF s1[n].group = m.group /\ s1[n].builtMinutes = m.built
                                                THEN [s1[n] EXCEPT !.request = r] ELSE s1[n]]
        PROVE  \E S : AreNoted(s1, s2, r, S)
    <3> DEFINE S == {n \in DOMAIN s1 : s1[n].group = m.group /\ s1[n].builtMinutes = m.built}
    <3>1. AreNoted(s1, s2, r, S) BY <2>2 DEF AreNoted
    <3> QED BY <3>1
  <2> QED BY <2>1, <2>2
<1> HIDE DEF s0, s1, s2
<1>3. Len(s2) = Len(s1) /\ \A since : \A S : OnGround(s1, since, S) => OnGround(s2, since, S)
  BY <1>1, <1>2, GroundMarked
<1>4. Len(s1) # MaxAreaSweeps => GroundStays(s0, s2) BY <1>1, <1>3 DEF GroundStays
<1> QED BY <1>1, <1>3, <1>4 DEF s0, s2

HasTile(tiles, tile, since) ==
  \E n \in DOMAIN tiles : tiles[n].tile = tile /\ tiles[n].taken >= since
OldBeside(tiles, since) == \E n \in DOMAIN tiles : tiles[n].taken - since > RadarRetention

\* A picture that is stored is put among the others, which are then looked through.
LEMMA PictureStored ==
  ASSUME NEW old, DOMAIN old = Fields, PastTiles(old.radarTiles, now), NEW m, TypedMessage(m), m.type = "radar",
         now \in Int, NEW new, new = StoreRadar(old, m, now).radarTiles
  PROVE  \/ new = old.radarTiles
         \/ \E T : TakesTile(T, old.radarTiles, StoredTile(m)) /\ new = RetainRadarTiles(T)
<1> DEFINE t == old.radarTiles
           x == StoredTile(m)
           found == {n \in DOMAIN t : t[n].tile = m.tile /\ t[n].taken = m.taken}
           T == IF found = {} THEN <<x>> \o t ELSE [n \in DOMAIN t |-> IF n \in found THEN x ELSE t[n]]
<1>1. CASE \E n \in found : IsCoarserOf(t[n], m) BY <1>1 DEF StoreRadar
<1>2. CASE ~\E n \in found : IsCoarserOf(t[n], m)
  <2>1. new = RetainRadarTiles(T)
    <3>1. "radarTiles" \in Fields BY DEF Fields
    <3> QED BY <1>2, <3>1 DEF StoreRadar, StoredTile
  <2>2. IsTile(x) /\ x.tile = m.tile /\ x.taken = m.taken /\ x.coarse = m.coarse
    BY DEF TypedMessage, StoredTile, IsTile
  <2>3. IsList(t) /\ \A n \in DOMAIN t : IsTile(t[n]) BY DEF PastTiles
  <2>4. \A n \in found : x.coarse => t[n].coarse BY <1>2, <2>2 DEF IsCoarserOf
  <2>5. found = {n \in DOMAIN t : t[n].tile = x.tile /\ t[n].taken = x.taken} BY <2>2
  <2> HIDE DEF x, found
  <2>6. TakesTile(T, t, x) BY <2>2, <2>3, <2>4, <2>5, PlacedTile
  <2> HIDE DEF T
  <2>7. \E Q : TakesTile(Q, t, x) /\ new = RetainRadarTiles(Q) BY <2>1, <2>6
  <2> QED BY <2>7 DEF x
<1> QED BY <1>1, <1>2

\* A picture goes only when it is old beside another, or for the limit.
LEMMA TilesGrow ==
  ASSUME AirOK, NEW i \in DOMAIN air, NEW old, DOMAIN old = Fields, PastTiles(old.radarTiles, now),
         NEW heard, Agree(old, heard) \/ Stores(old, heard, MessageAt(i), now),
         NEW pending_, NEW settled, NEW marked, IsMarked(heard, marked, MessageAt(i), pending_, settled),
         Len(marked.radarTiles) # MaxRadarTiles,
         NEW tile, NEW since \in Int, HasTile(old.radarTiles, tile, since)
  PROVE  HasTile(marked.radarTiles, tile, since) \/ OldBeside(marked.radarTiles, since)
<1> DEFINE m == MessageAt(i)
           t == old.radarTiles
           new == marked.radarTiles
<1>1. new = heard.radarTiles BY DEF IsMarked
<1>2. CASE Agree(old, heard)
  <2>1. new = t BY <1>1, <1>2, AgreeIs
  <2> QED BY <2>1
<1>3. CASE Stores(old, heard, m, now) /\ m.type # "radar"
  <2>1. new = t BY <1>1, <1>3 DEF Stores
  <2> QED BY <2>1
<1>4. CASE Stores(old, heard, m, now) /\ m.type = "radar"
  <2>1. new = StoreRadar(old, m, now).radarTiles BY <1>1, <1>4 DEF Stores
  <2>2. TypedMessage(m) /\ now \in Int BY SentIs DEF AirOK
  <2> HIDE DEF m, new
  <2>3. new = t \/ \E T : TakesTile(T, t, StoredTile(m)) /\ new = RetainRadarTiles(T)
    BY <1>4, <2>1, <2>2, PictureStored
  <2>4. ASSUME NEW T, TakesTile(T, t, StoredTile(m)), new = RetainRadarTiles(T)
        PROVE  HasTile(new, tile, since) \/ OldBeside(new, since)
    <3>1. IsTile(StoredTile(m)) /\ StoredTile(m).tile.zoom >= 0
      BY <1>4, <2>2 DEF TypedMessage, StoredTile, IsTile
    <3>2. IsList(T) /\ \A k \in DOMAIN T : IsTile(T[k]) /\ T[k].tile.zoom >= 0
      <4>1. \A k \in DOMAIN T : T[k] = StoredTile(m) \/ \E n \in DOMAIN t : T[k] = t[n]
        BY <2>4 DEF TakesTile, Range
      <4>2. \A n \in DOMAIN t : IsTile(t[n]) /\ t[n].tile.zoom >= 0 BY DEF PastTiles
      <4> QED BY <2>4, <3>1, <4>1, <4>2 DEF TakesTile
    <3>3. PICK n \in DOMAIN t : t[n].tile = tile /\ t[n].taken >= since BY DEF HasTile
    <3>4. PICK k \in DOMAIN T : T[k].tile = t[n].tile /\ T[k].taken = t[n].taken BY <2>4 DEF TakesTile
    <3>5. /\ Range(new) \subseteq Range(T)
          /\ T[k] \in Range(new) \/ \E l \in DOMAIN new : new[l].taken - T[k].taken > RadarRetention
      BY <2>4, <3>2, RetainedTiles DEF new
    <3>6. CASE T[k] \in Range(new)
      <4>1. PICK l \in DOMAIN new : new[l] = T[k] BY <3>6 DEF Range
      <4> QED BY <3>3, <3>4, <4>1 DEF HasTile
    <3>7. CASE \E l \in DOMAIN new : new[l].taken - T[k].taken > RadarRetention
      <4>1. PICK l \in DOMAIN new : new[l].taken - T[k].taken > RadarRetention BY <3>7
      <4>2. PICK j \in DOMAIN T : new[l] = T[j] BY <3>5 DEF Range
      <4>3. new[l].taken \in Int /\ T[k].taken \in Int BY <3>2, <4>2 DEF IsTile
      <4>4. RadarRetention \in Nat BY Constants
      <4>5. new[l].taken - since > RadarRetention BY <3>3, <3>4, <4>1, <4>3, <4>4
      <4> QED BY <4>5 DEF OldBeside
    <3> QED BY <3>5, <3>6, <3>7
  <2> QED BY <2>3, <2>4 DEF new
<1> QED BY <1>2, <1>3, <1>4

\* What the limits leave of what came since then.
LeavesSince(old, new, since) ==
  /\ new.areaSweeps = old.areaSweeps /\ new.radarTiles = old.radarTiles /\ new.coverage = old.coverage
  /\ LeftBy(old.forecasts, new.forecasts,
            {p \in DOMAIN old.forecasts : old.forecasts[p].receivedAt >= since}, MaxForecasts)
  /\ LeftBy(old.texts, new.texts,
            {g \in DOMAIN old.texts : old.texts[g].lastReceivedAt >= since}, MaxTexts)
  /\ LeftBy(old.observations, new.observations,
            {s \in DOMAIN old.observations : old.observations[s].receivedAt >= since}, MaxObservations)

LEMMA LeavesYoung ==
  ASSUME NEW old, NEW new, NEW young, NEW limit, LeftBy(old, new, young, limit), NEW S \in SUBSET young
  PROVE  LeftBy(old, new, S, limit)
  BY DEF LeftBy

Holdable(state) ==
  /\ DOMAIN state = Fields /\ AreForecasts(state.forecasts, now) /\ AreTexts(state.texts, now)
  /\ AreReadings(state.observations)

\* Who asks again within the window finds what came: the limits keep it longer.
LEMMA TrimLeaves ==
  ASSUME NEW state, now \in Int, Holdable(state), NEW since \in Int, now - since < Window
  PROVE  LeavesSince(state, Trim(state, now), since)
<1> DEFINE new == Trim(state, now)
<1>1. /\ DOMAIN state = Fields /\ AreForecasts(state.forecasts, now) /\ AreTexts(state.texts, now)
      /\ AreReadings(state.observations)
  BY DEF Holdable
<1>2. /\ new.areaSweeps = state.areaSweeps /\ new.radarTiles = state.radarTiles
      /\ new.texts = PruneTexts(state, now - TextRetention).texts
      /\ new.forecasts = PruneForecasts(state, now - ForecastRetention).forecasts
      /\ new.observations = TrimObservations(state, now - ObservationRetention).observations
  BY <1>1, TrimIs
<1>3. new.coverage = state.coverage BY <1>1, CoverageStays
<1>4. /\ TextRetention \in Int /\ since >= now - TextRetention
      /\ ForecastRetention \in Int /\ since >= now - ForecastRetention
      /\ ObservationRetention \in Int /\ since >= now - ObservationRetention
  BY AnswersAssumption, Constants
<1> HIDE DEF new
<1>5. LeftBy(state.forecasts, new.forecasts,
             {p \in DOMAIN state.forecasts : state.forecasts[p].receivedAt >= since}, MaxForecasts)
  <2> DEFINE before == now - ForecastRetention
             S == {p \in DOMAIN state.forecasts : state.forecasts[p].receivedAt >= since}
             young == {p \in DOMAIN state.forecasts : state.forecasts[p].receivedAt >= before}
  <2>1. before \in Int /\ since >= before BY <1>4
  <2>2. \A p \in DOMAIN state.forecasts : state.forecasts[p].receivedAt \in Int
    BY <1>1 DEF AreForecasts, IsForecast
  <2>3. new.forecasts = PruneForecasts(state, before).forecasts BY <1>2
  <2> HIDE DEF before
  <2>4. S \subseteq young BY <2>1, <2>2
  <2>5. LeftBy(state.forecasts, new.forecasts, young, MaxForecasts) BY <1>1, <2>1, <2>3, ForecastsLeft
  <2> HIDE DEF S, young
  <2>6. LeftBy(state.forecasts, new.forecasts, S, MaxForecasts) BY <2>4, <2>5, LeavesYoung
  <2> QED BY <2>6 DEF S
<1>6. LeftBy(state.texts, new.texts,
             {g \in DOMAIN state.texts : state.texts[g].lastReceivedAt >= since}, MaxTexts)
  <2> DEFINE before == now - TextRetention
             S == {g \in DOMAIN state.texts : state.texts[g].lastReceivedAt >= since}
             young == {g \in DOMAIN state.texts : state.texts[g].lastReceivedAt >= before}
  <2>1. before \in Int /\ since >= before BY <1>4
  <2>2. \A g \in DOMAIN state.texts : state.texts[g].lastReceivedAt \in Int
    BY <1>1, TextFieldsIs DEF AreTexts
  <2>3. new.texts = PruneTexts(state, before).texts BY <1>2
  <2> HIDE DEF before
  <2>4. S \subseteq young BY <2>1, <2>2
  <2>5. LeftBy(state.texts, new.texts, young, MaxTexts) BY <1>1, <2>1, <2>3, TextsLeft
  <2> HIDE DEF S, young
  <2>6. LeftBy(state.texts, new.texts, S, MaxTexts) BY <2>4, <2>5, LeavesYoung
  <2> QED BY <2>6 DEF S
<1>7. LeftBy(state.observations, new.observations,
             {s \in DOMAIN state.observations : state.observations[s].receivedAt >= since}, MaxObservations)
  <2> DEFINE before == now - ObservationRetention
             S == {s \in DOMAIN state.observations : state.observations[s].receivedAt >= since}
             young == {s \in DOMAIN state.observations : state.observations[s].receivedAt >= before}
  <2>1. before \in Int /\ since >= before BY <1>4
  <2>2. \A s \in DOMAIN state.observations : state.observations[s].receivedAt \in Int
    BY <1>1 DEF AreReadings, IsReading
  <2>3. new.observations = TrimObservations(state, before).observations BY <1>2
  <2> HIDE DEF before
  <2>4. S \subseteq young BY <2>1, <2>2
  <2>5. LeftBy(state.observations, new.observations, young, MaxObservations) BY <1>1, <2>1, <2>3, ReadingsLeft
  <2> HIDE DEF S, young
  <2>6. LeftBy(state.observations, new.observations, S, MaxObservations) BY <2>4, <2>5, LeavesYoung
  <2> QED BY <2>6 DEF S
<1> QED BY <1>2, <1>3, <1>5, <1>6, <1>7 DEF LeavesSince, new

\* The phone has the answer, or its limit is reached.
HasAnswer(state, slot, a) == HoldsAnswer(state, slot, a) \/ LimitTakes(state, slot, a)

\* The limits leave an answer, or are reached.
LEMMA LeavesAnswer ==
  ASSUME NEW old, NEW new, NEW slot, NEW a, LeavesSince(old, new, a.receivedAt), HoldsAnswer(old, slot, a)
  PROVE  HasAnswer(new, slot, a)
<1>1. CASE slot[1] = "station"
  <2>1. /\ slot[3] \in DOMAIN old.observations
        /\ old.observations[slot[3]].timestampMinutes >= a.contentAsOf
        /\ old.observations[slot[3]].receivedAt >= a.receivedAt
    BY <1>1 DEF HoldsAnswer, Held
  <2>2. \/ slot[3] \in DOMAIN new.observations /\ new.observations[slot[3]] = old.observations[slot[3]]
        \/ MaxObservations <= Cardinality(DOMAIN new.observations)
    BY <2>1 DEF LeavesSince, LeftBy
  <2> QED BY <1>1, <2>1, <2>2 DEF HasAnswer, HoldsAnswer, LimitTakes, Held
<1>2. CASE slot[1] = "coverageObservations"
  <2>1. PICK s \in DOMAIN old.observations : old.observations[s].receivedAt >= a.receivedAt
    BY <1>2 DEF HoldsAnswer
  <2>2. \/ s \in DOMAIN new.observations /\ new.observations[s] = old.observations[s]
        \/ MaxObservations <= Cardinality(DOMAIN new.observations)
    BY <2>1 DEF LeavesSince, LeftBy
  <2> QED BY <1>2, <2>1, <2>2 DEF HasAnswer, HoldsAnswer, LimitTakes
<1>3. CASE slot[1] = "forecast"
  <2>1. /\ slot[3] \in DOMAIN old.forecasts
        /\ old.forecasts[slot[3]].issued >= a.contentAsOf
        /\ old.forecasts[slot[3]].receivedAt >= a.receivedAt
    BY <1>3 DEF HoldsAnswer, Held
  <2>2. \/ slot[3] \in DOMAIN new.forecasts /\ new.forecasts[slot[3]] = old.forecasts[slot[3]]
        \/ MaxForecasts <= Cardinality(DOMAIN new.forecasts)
    BY <2>1 DEF LeavesSince, LeftBy
  <2> QED BY <1>3, <2>1, <2>2 DEF HasAnswer, HoldsAnswer, LimitTakes, Held
<1>4. CASE slot[1] = "radar" BY <1>4 DEF LeavesSince, HasAnswer, HoldsAnswer
<1>5. CASE slot[1] = "areaSweep" BY <1>5 DEF LeavesSince, HasAnswer, HoldsAnswer
<1>6. CASE slot[1] = "text"
  <2>1. PICK g \in DOMAIN old.texts : /\ old.texts[g].request = slot[3] /\ IsCompleteText(old.texts[g])
                                      /\ old.texts[g].lastReceivedAt >= a.receivedAt
    BY <1>6 DEF HoldsAnswer, RepliesOf
  <2>2. \/ g \in DOMAIN new.texts /\ new.texts[g] = old.texts[g]
        \/ MaxTexts <= Cardinality(DOMAIN new.texts)
    BY <2>1 DEF LeavesSince, LeftBy
  <2>3. CASE g \in DOMAIN new.texts /\ new.texts[g] = old.texts[g]
    <3>1. g \in RepliesOf(new, slot, a) BY <2>1, <2>3 DEF RepliesOf
    <3> QED BY <1>6, <3>1 DEF HasAnswer, HoldsAnswer
  <2> QED BY <1>6, <2>2, <2>3 DEF HasAnswer, LimitTakes
<1>7. CASE slot[1] = "coverage" BY <1>7 DEF LeavesSince, HasAnswer, HoldsAnswer
<1>8. CASE slot[1] \notin {"station", "coverageObservations", "forecast", "radar", "areaSweep", "text", "coverage"}
  BY <1>8 DEF HasAnswer, HoldsAnswer
<1> QED BY <1>1, <1>2, <1>3, <1>4, <1>5, <1>6, <1>7, <1>8

\* A packet makes the reply of an answer another's.
TurnsInto(old, marked, slot, a, g) ==
  /\ g \in RepliesOf(old, slot, a) /\ g \in DOMAIN marked.texts
  /\ marked.texts[g].lastReceivedAt >= a.receivedAt
  /\ \E f \in {"request", "subject", "total"} : marked.texts[g][f] # old.texts[g][f]

\* Before the limits of time and number, a packet leaves an answer.
HearsAnswer(old, marked, slot, a) ==
  \/ HoldsAnswer(marked, slot, a)
  \/ slot[1] \in {"areaSweep", "radar"} /\ LimitTakes(marked, slot, a)
  \/ slot[1] = "text" /\ \E g : TurnsInto(old, marked, slot, a, g)

Takes(i, old, heard, marked, pending_, settled) ==
  /\ DOMAIN old = Fields /\ Sound(old, air[i].bot) /\ Timely(old) /\ Hears(old, heard, i)
  /\ IsMarked(heard, marked, MessageAt(i), pending_, settled)
  /\ SaysCoverage(i, old, heard) /\ marked.coverage = heard.coverage

\* What a packet is taken into can be taken on.
LEMMA TakesAre ==
  ASSUME AirOK, NEW i \in DOMAIN air, NEW old, NEW heard, NEW marked, NEW pending_, NEW settled,
         Takes(i, old, heard, marked, pending_, settled)
  PROVE  /\ Holdable(old) /\ Holdable(marked) /\ SweepsOK(old.areaSweeps, air[i].bot)
         /\ PastTiles(old.radarTiles, now) /\ TypedMessage(MessageAt(i)) /\ now \in Int
         /\ Agree(old, heard) \/ Stores(old, heard, MessageAt(i), now)
<1>1. Holdable(old) /\ SweepsOK(old.areaSweeps, air[i].bot) BY StateParts DEF Takes, Sound, Holdable
<1>2. PastTiles(old.radarTiles, now) BY SoundTiles DEF Takes
<1>3. TypedMessage(MessageAt(i)) /\ now \in Int BY SentIs DEF AirOK
<1>4. Agree(old, heard) \/ Stores(old, heard, MessageAt(i), now) BY DEF Takes, Hears
<1>5. IsMarked(heard, marked, MessageAt(i), pending_, settled) /\ DOMAIN old = Fields BY DEF Takes
<1>6. AreForecasts(marked.forecasts, now) BY <1>1, <1>3, <1>4, <1>5, ForecastsGrow DEF Holdable
<1>7. AreTexts(marked.texts, now) BY <1>1, <1>3, <1>4, <1>5, RepliesGrow DEF Holdable
<1>8. AreReadings(marked.observations) BY <1>1, <1>3, <1>4, <1>5, ReadingsGrow DEF Holdable
<1>9. Holdable(marked) BY <1>5, <1>6, <1>7, <1>8 DEF IsMarked, Holdable
<1> QED BY <1>1, <1>2, <1>3, <1>4, <1>9

LEMMA StaysHeard ==
  ASSUME MapsOK, AirOK, NEW i \in DOMAIN air, NEW old, NEW heard, NEW marked, NEW pending_, NEW settled,
         Takes(i, old, heard, marked, pending_, settled),
         NEW slot, NEW a, IsAnswer(a, now), HoldsAnswer(old, slot, a)
  PROVE  HearsAnswer(old, marked, slot, a)
<1> DEFINE m == MessageAt(i)
<1>1. /\ Holdable(old) /\ Holdable(marked) /\ SweepsOK(old.areaSweeps, air[i].bot)
      /\ PastTiles(old.radarTiles, now) /\ TypedMessage(m) /\ now \in Int
      /\ Agree(old, heard) \/ Stores(old, heard, m, now)
  BY TakesAre
<1>2. IsMarked(heard, marked, m, pending_, settled) /\ DOMAIN old = Fields BY DEF Takes
<1>3. a.receivedAt \in Int /\ now >= a.receivedAt /\ a.contentAsOf \in Int BY <1>1 DEF IsAnswer
<1>m. m = MessageAt(i) OBVIOUS
<1> HIDE DEF m
<1>4. CASE slot[1] \in {"station", "coverageObservations"}
  <2>1. \A s \in DOMAIN old.observations :
          /\ s \in DOMAIN marked.observations
          /\ old.observations[s].timestampMinutes <= marked.observations[s].timestampMinutes
          /\ marked.observations[s].receivedAt \in {old.observations[s].receivedAt, now}
    BY <1>1, <1>2, ReadingsGrow DEF Holdable
  <2>2. \A s \in DOMAIN old.observations : old.observations[s].receivedAt >= a.receivedAt
          => marked.observations[s].receivedAt >= a.receivedAt
    BY <1>3, <2>1
  <2>3. \A s \in DOMAIN old.observations : old.observations[s].timestampMinutes >= a.contentAsOf
          => marked.observations[s].timestampMinutes >= a.contentAsOf
    <3>1. \A s \in DOMAIN old.observations : /\ old.observations[s].timestampMinutes \in Int
                                             /\ marked.observations[s].timestampMinutes \in Int
      BY <1>1, <2>1 DEF Holdable, AreReadings, IsReading
    <3> QED BY <1>3, <2>1, <3>1
  <2>4. CASE slot[1] = "station" BY <2>1, <2>2, <2>3, <2>4 DEF HearsAnswer, HoldsAnswer, Held
  <2>5. CASE slot[1] = "coverageObservations" BY <2>1, <2>2, <2>5 DEF HearsAnswer, HoldsAnswer
  <2> QED BY <1>4, <2>4, <2>5
<1>5. CASE slot[1] = "forecast"
  <2>1. \A p \in DOMAIN old.forecasts :
          /\ p \in DOMAIN marked.forecasts
          /\ old.forecasts[p].issued <= marked.forecasts[p].issued
          /\ old.forecasts[p].receivedAt <= marked.forecasts[p].receivedAt
    BY <1>1, <1>2, ForecastsGrow DEF Holdable
  <2>2. \A p \in DOMAIN old.forecasts :
          /\ old.forecasts[p].issued \in Int /\ marked.forecasts[p].issued \in Int
          /\ old.forecasts[p].receivedAt \in Int /\ marked.forecasts[p].receivedAt \in Int
    BY <1>1, <2>1 DEF Holdable, AreForecasts, IsForecast
  <2>3. \A p \in DOMAIN old.forecasts :
          /\ old.forecasts[p].issued >= a.contentAsOf => marked.forecasts[p].issued >= a.contentAsOf
          /\ old.forecasts[p].receivedAt >= a.receivedAt => marked.forecasts[p].receivedAt >= a.receivedAt
    BY <1>3, <2>1, <2>2
  <2> QED BY <1>5, <2>1, <2>3 DEF HearsAnswer, HoldsAnswer, Held
<1>6. CASE slot[1] = "radar"
  <2>1. CASE Len(marked.radarTiles) = MaxRadarTiles BY <1>6, <2>1 DEF HearsAnswer, LimitTakes
  <2>2. CASE Len(marked.radarTiles) # MaxRadarTiles
    <3>1. HasTile(old.radarTiles, slot[3], a.contentAsOf) BY <1>6 DEF HoldsAnswer, HasTile
    <3>2. \/ HasTile(marked.radarTiles, slot[3], a.contentAsOf)
          \/ OldBeside(marked.radarTiles, a.contentAsOf)
      BY <1>1, <1>2, <1>3, <2>2, <3>1, TilesGrow DEF m
    <3> QED BY <1>6, <3>2 DEF HearsAnswer, HoldsAnswer, LimitTakes, HasTile, OldBeside
  <2> QED BY <2>1, <2>2
<1>7. CASE slot[1] = "areaSweep"
  <2>1. CASE Len(marked.areaSweeps) = MaxAreaSweeps BY <1>7, <2>1 DEF HearsAnswer, LimitTakes
  <2>2. CASE Len(marked.areaSweeps) # MaxAreaSweeps
    <3>1. OnGround(old.areaSweeps, a.contentAsOf, slot[3]) BY <1>7 DEF HoldsAnswer, OnGround
    <3>2. GroundStays(old.areaSweeps, marked.areaSweeps) BY <1>1, <1>2, <1>m, <2>2, GroundGrows
    <3>3. OnGround(marked.areaSweeps, a.contentAsOf, slot[3]) BY <1>3, <3>1, <3>2 DEF GroundStays
    <3> QED BY <1>7, <3>3 DEF HearsAnswer, HoldsAnswer, OnGround
  <2> QED BY <2>1, <2>2
<1>8. CASE slot[1] = "text"
  <2>1. PICK g \in DOMAIN old.texts : /\ old.texts[g].request = slot[3] /\ IsCompleteText(old.texts[g])
                                      /\ old.texts[g].lastReceivedAt >= a.receivedAt
    BY <1>8 DEF HoldsAnswer, RepliesOf
  <2>2. /\ g \in DOMAIN marked.texts /\ GoesOnAs(old.texts[g], marked.texts[g])
        /\ marked.texts[g].lastReceivedAt \in {old.texts[g].lastReceivedAt, now}
    BY <1>1, <1>2, RepliesGrow DEF Holdable
  <2>3. marked.texts[g].lastReceivedAt >= a.receivedAt BY <1>3, <2>1, <2>2
  <2>4. CASE /\ marked.texts[g].request = old.texts[g].request /\ marked.texts[g].total = old.texts[g].total
             /\ DOMAIN old.texts[g].chunks \subseteq DOMAIN marked.texts[g].chunks
    <3>1. IsCompleteText(marked.texts[g]) BY <2>1, <2>4 DEF IsCompleteText, MissingIndexes
    <3>2. g \in RepliesOf(marked, slot, a) BY <2>1, <2>2, <2>3, <2>4, <3>1 DEF RepliesOf
    <3> QED BY <1>8, <3>2 DEF HearsAnswer, HoldsAnswer
  <2>5. CASE \E f \in {"request", "subject", "total"} : marked.texts[g][f] # old.texts[g][f]
    <3>1. g \in RepliesOf(old, slot, a) BY <2>1 DEF RepliesOf
    <3>2. TurnsInto(old, marked, slot, a, g) BY <2>2, <2>3, <2>5, <3>1 DEF TurnsInto
    <3> QED BY <1>8, <3>2 DEF HearsAnswer
  <2> QED BY <2>2, <2>4, <2>5 DEF GoesOnAs
<1>9. CASE slot[1] = "coverage" BY <1>9 DEF HearsAnswer, HoldsAnswer, Takes, SaysCoverage
<1>10. CASE slot[1] \notin {"station", "coverageObservations", "forecast", "radar", "areaSweep", "text", "coverage"}
  BY <1>10 DEF HearsAnswer, HoldsAnswer
<1> QED BY <1>4, <1>5, <1>6, <1>7, <1>8, <1>9, <1>10

\* A packet leaves an answer, makes its reply another's, or its limit is reached.
LEMMA PacketLeaves ==
  ASSUME MapsOK, AirOK, NEW i \in DOMAIN air, NEW old, NEW heard, NEW marked, NEW pending_, NEW settled,
         Takes(i, old, heard, marked, pending_, settled), NEW new, new = Trim(marked, now),
         NEW slot, NEW a, IsAnswer(a, now), now - a.receivedAt < Window, HoldsAnswer(old, slot, a)
  PROVE  HasAnswer(new, slot, a) \/ PassesOn(old, new, slot, a)
<1>1. HearsAnswer(old, marked, slot, a) BY StaysHeard
<1>2. Holdable(marked) /\ now \in Int BY TakesAre
<1>3. LeavesSince(marked, new, a.receivedAt) BY <1>2, TrimLeaves DEF IsAnswer
<1>4. CASE HoldsAnswer(marked, slot, a) BY <1>3, <1>4, LeavesAnswer
<1>5. CASE slot[1] \in {"areaSweep", "radar"} /\ LimitTakes(marked, slot, a)
  <2>1. LimitTakes(new, slot, a) BY <1>3, <1>5 DEF LeavesSince, LimitTakes
  <2> QED BY <2>1 DEF HasAnswer
<1>6. CASE slot[1] = "text" /\ \E g : TurnsInto(old, marked, slot, a, g)
  <2>1. PICK g : TurnsInto(old, marked, slot, a, g) BY <1>6
  <2>2. \/ g \in DOMAIN new.texts /\ new.texts[g] = marked.texts[g]
        \/ MaxTexts <= Cardinality(DOMAIN new.texts)
    BY <1>3, <2>1 DEF TurnsInto, LeavesSince, LeftBy
  <2>3. CASE g \in DOMAIN new.texts /\ new.texts[g] = marked.texts[g]
    BY <1>6, <2>1, <2>3 DEF TurnsInto, PassesOn
  <2>4. CASE MaxTexts <= Cardinality(DOMAIN new.texts) BY <1>6, <2>4 DEF HasAnswer, LimitTakes
  <2> QED BY <2>2, <2>3, <2>4
<1> QED BY <1>1, <1>4, <1>5, <1>6 DEF HearsAnswer

\* A slot is filled with what is held, or its limit is reached.
LEMMA FilledIsHeld ==
  ASSUME MapsOK, AirOK, NEW i \in DOMAIN air, NEW old, NEW heard, NEW marked, NEW pending_, NEW settled,
         Takes(i, old, heard, marked, pending_, settled), NEW new, new = Trim(marked, now),
         ~IsAhead(MessageMinutes(MessageAt(i)), now), WasStored(heard, MessageAt(i)),
         NEW slot, IsFilled(slot, air[i].bot, marked, MessageAt(i)), NEW a,
         a = [bot |-> slot[2], receivedAt |-> now, contentAsOf |-> AsOf(i, slot)], now - a.receivedAt < Window
  PROVE  HasAnswer(new, slot, a)
<1> DEFINE m == MessageAt(i)
<1>1. /\ Holdable(old) /\ Holdable(marked) /\ SweepsOK(old.areaSweeps, air[i].bot) /\ TypedMessage(m)
      /\ now \in Int
  BY TakesAre
<1>2. IsMarked(heard, marked, m, pending_, settled) /\ DOMAIN old = Fields BY DEF Takes
<1>3. Stores(old, heard, m, now) BY DEF Takes, Hears
<1>4. a.receivedAt = now /\ a.contentAsOf = AsOf(i, slot) /\ AsOf(i, slot) \in Int BY FilledIs
<1>5. LeavesSince(marked, new, a.receivedAt) BY <1>1, <1>4, TrimLeaves
<1>6. slot[1] # "station" => a.contentAsOf = MessageMinutes(m) BY <1>4 DEF AsOf
<1>7. slot[1] = "station" => a.contentAsOf = ReportMinutes(m, slot[3]) BY <1>4 DEF AsOf
<1>m. m = MessageAt(i) /\ IsFilled(slot, air[i].bot, marked, m) /\ WasStored(heard, m) OBVIOUS
<1> HIDE DEF m
<1>8. HoldsAnswer(marked, slot, a) => HasAnswer(new, slot, a) BY <1>5, LeavesAnswer
<1>9. ASSUME NEW s \in DOMAIN m.stations, m.type = "observations",
             marked.observations[s].timestampMinutes = ReportMinutes(m, s),
             slot = <<"station", AnyBot, s>> \/ slot = <<"coverageObservations", air[i].bot>>
      PROVE  HoldsAnswer(marked, slot, a)
  <2>1. s \in DOMAIN marked.observations /\ marked.observations[s].receivedAt = now
    BY <1>1, <1>2, <1>3, <1>9, ReadingsGrow DEF Holdable
  <2>2. marked.observations[s].timestampMinutes \in Int BY <1>1, <2>1 DEF Holdable, AreReadings, IsReading
  <2>3. CASE slot = <<"station", AnyBot, s>>
    <3>1. slot[1] = "station" /\ slot[3] = s BY <2>3
    <3> HIDE <2>3
    <3>2. /\ marked.observations[s].timestampMinutes >= a.contentAsOf
          /\ marked.observations[s].receivedAt >= a.receivedAt
      BY <1>1, <1>4, <1>7, <1>9, <2>1, <2>2, <3>1
    <3> QED BY <2>1, <3>1, <3>2 DEF HoldsAnswer, Held
  <2>4. CASE slot = <<"coverageObservations", air[i].bot>>
    <3>1. slot[1] = "coverageObservations" BY <2>4
    <3>2. marked.observations[s].receivedAt >= a.receivedAt BY <1>1, <1>4, <2>1
    <3> QED BY <2>1, <3>1, <3>2 DEF HoldsAnswer
  <2> QED BY <1>9, <2>3, <2>4
<1>10. ASSUME m.type = "forecast", m.point # UnbundledPoint, slot = <<"forecast", AnyBot, m.point>>
       PROVE  HoldsAnswer(marked, slot, a)
  <2>1. Held(heard.forecasts, m.point) /\ heard.forecasts[m.point].issued = m.issued
    BY <1>m, <1>10 DEF WasStored
  <2>2. /\ m.point \in DOMAIN marked.forecasts
        /\ marked.forecasts[m.point].issued = m.issued /\ marked.forecasts[m.point].receivedAt = now
    BY <1>1, <1>2, <1>3, <1>10, <2>1, ForecastsGrow DEF Holdable
  <2>3. slot[1] = "forecast" /\ slot[3] = m.point BY <1>10
  <2>4. a.contentAsOf = m.issued /\ m.issued \in Int BY <1>1, <1>6, <1>10, <2>3 DEF MessageMinutes, TypedMessage
  <2>5. marked.forecasts[m.point].issued >= a.contentAsOf /\ marked.forecasts[m.point].receivedAt >= a.receivedAt
    BY <1>1, <1>4, <2>2, <2>4
  <2> QED BY <2>2, <2>3, <2>5 DEF HoldsAnswer, Held
<1>11. ASSUME m.type = "area_sweep", m.idx = 0 \/ ~m.scoped, slot = <<"areaSweep", air[i].bot, GroundOf(m)>>
       PROVE  HasAnswer(new, slot, a)
  <2>1. slot[1] = "areaSweep" /\ slot[3] = GroundOf(m) BY <1>11
  <2>2. CASE Len(marked.areaSweeps) = MaxAreaSweeps
    BY <1>5, <2>1, <2>2 DEF LeavesSince, HasAnswer, LimitTakes
  <2>3. CASE Len(marked.areaSweeps) # MaxAreaSweeps
    <3>1. OnGround(marked.areaSweeps, m.built, GroundOf(m))
      BY <1>1, <1>2, <1>3, <1>m, <1>11, <2>3, GroundGrows
    <3>2. a.contentAsOf = m.built BY <1>6, <1>11, <2>1 DEF MessageMinutes
    <3> QED BY <1>8, <2>1, <3>1, <3>2 DEF HoldsAnswer, OnGround
  <2> QED BY <2>2, <2>3
<1>12. ASSUME m.type = "radar", slot = <<"radar", AnyBot, m.tile>> PROVE HoldsAnswer(marked, slot, a)
  <2>1. PICK n \in DOMAIN heard.radarTiles :
          heard.radarTiles[n].tile = m.tile /\ heard.radarTiles[n].taken = m.taken
    BY <1>m, <1>12 DEF WasStored
  <2>2. marked.radarTiles = heard.radarTiles BY <1>2 DEF IsMarked
  <2>3. slot[1] = "radar" /\ slot[3] = m.tile BY <1>12
  <2>4. a.contentAsOf = m.taken /\ m.taken \in Int BY <1>1, <1>6, <1>12, <2>3 DEF MessageMinutes, TypedMessage
  <2>5. heard.radarTiles[n].taken >= a.contentAsOf BY <2>1, <2>4
  <2> QED BY <2>1, <2>2, <2>3, <2>5 DEF HoldsAnswer
<1>13. ASSUME m.type = "coverage", slot = <<"coverage", air[i].bot>> PROVE HoldsAnswer(marked, slot, a)
  <2>1. heard.coverage # NoCoverage BY <1>m, <1>13 DEF Takes, SaysCoverage
  <2>2. marked.coverage # NoCoverage BY <2>1 DEF Takes
  <2>3. slot[1] = "coverage" BY <1>13
  <2> QED BY <2>2, <2>3 DEF HoldsAnswer
<1>14. ASSUME m.type = "text", IsCompleteText(marked.texts[m.group]),
              slot = <<"text", air[i].bot, marked.texts[m.group].request>>
       PROVE  HoldsAnswer(marked, slot, a)
  <2>1. m.group \in DOMAIN marked.texts /\ marked.texts[m.group].lastReceivedAt = now
    BY <1>1, <1>2, <1>3, <1>14, RepliesGrow DEF Holdable
  <2>2. slot[1] = "text" /\ slot[3] = marked.texts[m.group].request BY <1>14
  <2>3. marked.texts[m.group].lastReceivedAt >= a.receivedAt BY <1>1, <1>4, <2>1
  <2>4. m.group \in RepliesOf(marked, slot, a) BY <1>14, <2>1, <2>2, <2>3 DEF RepliesOf
  <2> QED BY <2>2, <2>4 DEF HoldsAnswer
<1> QED BY <1>m, <1>8, <1>9, <1>10, <1>11, <1>12, <1>13, <1>14 DEF IsFilled, GroundOf

\* What Deliver(i) takes in, of its bot.
LEMMA IngestTakes ==
  ASSUME AnswersInv, AirOK, NEW i \in DOMAIN air, NEW old, NEW heard, NEW settled, NEW marked,
         Ingests(i, old, heard, settled, marked), IsNoted(i, old, heard, marked)
  PROVE  /\ TakesIn(i, old, heard, settled, marked) /\ Takes(i, old, heard, marked, pending, settled)
<1>1. TakesIn(i, old, heard, settled, marked) BY IngestIs DEF AnswersInv, PhoneInv
<1>2. DOMAIN old = Fields BY <1>1, StateParts DEF TakesIn, Sound
<1>3. marked.coverage = heard.coverage
  <2>1. DOMAIN heard = Fields /\ marked = Marked(heard, pending, MessageAt(i), settled) BY <1>2 DEF Ingests
  <2> QED BY <2>1, CoverageStays
<1>4. SaysCoverage(i, old, heard) BY <1>2 DEF IsNoted
<1> QED BY <1>1, <1>2, <1>3, <1>4 DEF TakesIn, Takes

\* A slot after a step: what it says is still there, or it is filled with what is.
StaysAnswered(slot, a) ==
  IF slot \in DOMAIN lastAnswers /\ lastAnswers[slot] = a
  THEN \A b \in SlotBots(slot) :
         HoldsAnswer(states[b], slot, a)
           => HasAnswer(states'[b], slot, a) \/ PassesOn(states[b], states'[b], slot, a)
  ELSE \E b \in SlotBots(slot)' : HasAnswer(states'[b], slot, a)

LEMMA IngestAnswers ==
  ASSUME AnswersInv, SlotsOK, NEW i \in DOMAIN air, IsIngest(i), NEW slot \in DOMAIN lastAnswers', NEW a,
         a = lastAnswers'[slot], now - a.receivedAt < Window
  PROVE  StaysAnswered(slot, a)
<1>1. MapsOK /\ AirOK /\ now \in Int BY DEF AnswersInv, AirInv, MapsOK, AirOK
<1>2. PICK old, heard, settled, marked :
        Ingests(i, old, heard, settled, marked) /\ IsNoted(i, old, heard, marked)
  BY DEF IsIngest
<1>3. TakesIn(i, old, heard, settled, marked) /\ Takes(i, old, heard, marked, pending, settled)
  BY <1>1, <1>2, IngestTakes
<1>4. PICK fills : Notes(i, heard, marked, fills) BY <1>2 DEF IsNoted
<1>5. CASE slot \in DOMAIN lastAnswers /\ lastAnswers[slot] = a
  <2>1. IsAnswer(a, now) BY <1>5 DEF SlotsOK
  <2>2. ASSUME NEW b \in DOMAIN states, HoldsAnswer(states[b], slot, a)
        PROVE  HasAnswer(states'[b], slot, a) \/ PassesOn(states[b], states'[b], slot, a)
    <3>1. CASE b = air[i].bot
      <4>1. old = states[b] /\ states'[b] = Trim(marked, now) BY <1>3, <3>1 DEF TakesIn
      <4> QED BY <1>1, <1>3, <2>1, <2>2, <4>1, PacketLeaves
    <3>2. CASE b # air[i].bot
      <4>1. states'[b] = Trim(states[b], now) BY <1>3, <3>2 DEF TakesIn
      <4>2. Holdable(states[b]) BY KnownIs, StateParts DEF Sound, Holdable
      <4>3. LeavesSince(states[b], states'[b], a.receivedAt) BY <1>1, <2>1, <4>1, <4>2, TrimLeaves DEF IsAnswer
      <4> QED BY <2>2, <4>3, LeavesAnswer
    <3> QED BY <3>1, <3>2
  <2>3. SlotBots(slot) \subseteq DOMAIN states BY DEF SlotBots
  <2> QED BY <1>5, <2>2, <2>3 DEF StaysAnswered
<1>6. CASE ~(slot \in DOMAIN lastAnswers /\ lastAnswers[slot] = a)
  <2>1. /\ IsFilled(slot, air[i].bot, marked, MessageAt(i))
        /\ ~IsAhead(MessageMinutes(MessageAt(i)), now) /\ WasStored(heard, MessageAt(i))
        /\ a = [bot |-> slot[2], receivedAt |-> now, contentAsOf |-> AsOf(i, slot)]
    BY <1>1, <1>4, <1>6, NotedIs
  <2>2. states'[air[i].bot] = Trim(marked, now) /\ air[i].bot \in DOMAIN states' BY <1>3 DEF TakesIn
  <2>3. HasAnswer(states'[air[i].bot], slot, a) BY <1>1, <1>3, <2>1, <2>2, FilledIsHeld
  <2>4. slot[2] \in {AnyBot, air[i].bot} BY <1>1, <2>1, FilledIs
  <2>5. air[i].bot \in SlotBots(slot)' BY <2>2, <2>4 DEF SlotBots
  <2> QED BY <1>6, <2>3, <2>5 DEF StaysAnswered
<1> QED BY <1>5, <1>6

\* A step that leaves what is held of a slot's bots leaves its answer.
LEMMA SameAnswers ==
  ASSUME NEW slot \in DOMAIN lastAnswers, NEW a, a = lastAnswers[slot],
         \A b \in SlotBots(slot) : states'[b] = states[b]
  PROVE  StaysAnswered(slot, a)
  BY DEF StaysAnswered, HasAnswer

LEMMA AnswersStay ==
  ASSUME AnswersInv, SlotsOK, [Next]_vars, NEW slot \in DOMAIN lastAnswers', NEW a,
         a = lastAnswers'[slot], now' - a.receivedAt < Window
  PROVE  StaysAnswered(slot, a)
<1>1. CASE states' = states /\ lastAnswers' = lastAnswers BY <1>1, SameAnswers
<1>2. CASE \E i \in DOMAIN air : Deliver(i)
  <2>1. PICK i \in DOMAIN air : Deliver(i) BY <1>2
  <2>2. now' = now BY <2>1 DEF Deliver
  <2>3. CASE IsIngest(i) BY <2>2, <2>3, IngestAnswers
  <2> QED BY <1>1, <2>1, <2>3, DeliverIs
<1>3. CASE \E c \in DOMAIN states : Clear(c)
  <2>1. PICK c \in DOMAIN states : Clear(c) BY <1>3
  <2>2. /\ states' = Restrict(states, DOMAIN states \ {c})
        /\ lastAnswers' = Restrict(lastAnswers, {s \in DOMAIN lastAnswers : lastAnswers[s].bot \notin {c, AnyBot}})
    BY <2>1 DEF Clear
  <2>3. /\ slot \in DOMAIN lastAnswers /\ lastAnswers'[slot] = lastAnswers[slot]
        /\ lastAnswers[slot].bot \notin {c, AnyBot}
    BY <2>2 DEF Restrict
  <2>4. slot[2] \notin {c, AnyBot} BY <2>3 DEF SlotsOK
  <2>5. \A b \in SlotBots(slot) : states'[b] = states[b] BY <2>2, <2>4 DEF SlotBots, Restrict
  <2> QED BY <2>3, <2>5, SameAnswers
<1>4. CASE Reopen BY <1>4 DEF Reopen
<1>5. CASE UNCHANGED vars BY <1>1, <1>5 DEF vars, phoneVars
<1>6. CASE Tick \/ Build \/ Send \/ \E i \in DOMAIN pending : Replay(i)
  BY <1>1, <1>6 DEF Tick, Build, Send, Replay, phoneVars
<1>7. CASE \/ Saved \/ SaveFails \/ \E i \in DOMAIN script : Ask(i)
           \/ \E c \in DOMAIN states : AskParts(c)
  BY <1>1, <1>7 DEF Saved, SaveFails, Ask, AskParts
<1> QED BY <1>2, <1>3, <1>4, <1>5, <1>6, <1>7 DEF Next

\* What the phone turns a tap away with, it has (#recordAnswer): a slot is filled with
\* what is held, and within the window no packet, however late, and no retention takes
\* it; only a limit that is reached does, or a packet that makes a reply another's.
THEOREM AnswersHeld == Spec => AnsweredIsHeld
<1> DEFINE Stay == \A slot \in DOMAIN lastAnswers' :
                     now' - lastAnswers'[slot].receivedAt < Window => StaysAnswered(slot, lastAnswers'[slot])
<1>1. AnswersInv /\ SlotsOK /\ [Next]_vars => Stay BY AnswersStay
<1>2. [Stay]_vars =>
        [\A slot \in DOMAIN lastAnswers' :
           LET answer == lastAnswers'[slot]
               Has(b) == HoldsAnswer(states'[b], slot, answer) \/ LimitTakes(states'[b], slot, answer)
           IN now' - answer.receivedAt < Window =>
                IF slot \in DOMAIN lastAnswers /\ lastAnswers[slot] = answer
                THEN \A b \in SlotBots(slot) :
                       HoldsAnswer(states[b], slot, answer)
                         => Has(b) \/ PassesOn(states[b], states'[b], slot, answer)
                ELSE \E b \in SlotBots(slot)' : Has(b)]_vars
  BY DEF StaysAnswered, HasAnswer
<1> HIDE DEF Stay
<1>3. Spec => [][Stay]_vars BY <1>1, AnswersAlways, SlotsAlways, PTL DEF Spec
<1> QED BY <1>2, <1>3, PTL DEF AnsweredIsHeld
=============================================================================
