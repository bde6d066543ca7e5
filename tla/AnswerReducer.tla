--------------------------- MODULE AnswerReducer ---------------------------
(***************************************************************************)
(* WeatherStateReducer.js: what a phone makes of a bot's answers and          *)
(* broadcasts other than warnings, cancels and digests, which               *)
(* WeatherStateReducer has; and what it keeps of them (WeatherService.trim).  *)
(* Times are minutes.                                                       *)
(***************************************************************************)
EXTENDS WeatherBotState

CONSTANTS
  SeqModulus, AheadLimit, ReorderWindow, DuplicateWindow, DuplicateWindowReset,
  FutureTolerance,          \* futureTolerance, 15 min
  MaxAreaSweeps,            \* maxAreaSweeps, 8
  MaxRadarTiles,            \* maxRadarTiles, 40
  RadarRetention,           \* radarRetentionMinutes, 3 h
  MaxUnbundled,             \* maxUnbundledForecasts, 12
  TextRetention, MaxTexts,                    \* 48 h, 24
  ForecastRetention, MaxForecasts,            \* 48 h, 24
  ObservationRetention, MaxObservations       \* 48 h, 64

ASSUME ReducerAssumption ==
  {SeqModulus, AheadLimit, ReorderWindow, DuplicateWindow, DuplicateWindowReset, FutureTolerance,
   MaxAreaSweeps, MaxRadarTiles, RadarRetention, MaxUnbundled, TextRetention, MaxTexts,
   ForecastRetention, MaxForecasts, ObservationRetention, MaxObservations} \subseteq Nat

Stream == INSTANCE WeatherStateReducer
            WITH Warnings <- {}, DigestMargin <- 0, CancelRetention <- 0, ReorderRecency <- 0

\* A bot nobody has heard yet.
NewBot ==
  LET stream == Stream!NewState IN
  [f \in DOMAIN stream \union DOMAIN NewAnswers |->
     IF f \in DOMAIN stream THEN stream[f] ELSE NewAnswers[f]]

Later(a, b) == IF a >= b THEN a ELSE b

\* The `count` best of S, where `Before` is a strict order.
Best(S, count, Before(_, _)) ==
  {x \in S : Cardinality({y \in S : y # x /\ Before(y, x)}) < count}

-----------------------------------------------------------------------------
(* Texts *)

\* A different subject or number of chunks under the same group is a new reply.
Continues(held, chunk) ==
  /\ Held(held, chunk.group)
  /\ held[chunk.group].subject = chunk.subject /\ held[chunk.group].total = chunk.total

StoreText(state, chunk, receivedAt) ==
  LET assembly == IF Continues(state.texts, chunk) THEN state.texts[chunk.group]
                  ELSE TextAssembly(chunk, receivedAt)
  IN [state EXCEPT !.texts = Put(state.texts, chunk.group,
        [assembly EXCEPT !.chunks = Put(assembly.chunks, chunk.idx, chunk.text),
                         !.lastReceivedAt = receivedAt,
                         !.wasCut = assembly.wasCut \/ chunk.cut])]

\* The replies a screen can show: of each subject the newest, and the newest
\* that answered this phone.
NewestTexts(texts, groups) ==
  {g \in groups : \A h \in groups \ {g} :
     texts[h].subject = texts[g].subject =>
       \/ texts[h].lastReceivedAt < texts[g].lastReceivedAt
       \/ texts[h].lastReceivedAt = texts[g].lastReceivedAt /\ g < h}
OwnTexts(texts) == {g \in DOMAIN texts : texts[g].request # NoRequest}
ShownNewestTexts(texts) == NewestTexts(texts, DOMAIN texts)                         \* mutation
ShownTextGroups(texts) ==
  NewestTexts(texts, DOMAIN texts) \union NewestTexts(texts, OwnTexts(texts))

PruneTexts(state, receivedBefore) ==
  LET texts == state.texts
      shown == ShownTextGroups(texts)
      young == shown \union {g \in DOMAIN texts : texts[g].lastReceivedAt >= receivedBefore}
      Newer(g, h) == \/ texts[g].lastReceivedAt > texts[h].lastReceivedAt
                     \/ texts[g].lastReceivedAt = texts[h].lastReceivedAt /\ g < h
      room == Later(0, MaxTexts - Cardinality(shown))
      kept == IF Cardinality(young) <= MaxTexts THEN young
              ELSE shown \union Best(young \ shown, room, Newer)
  IN [state EXCEPT !.texts = Restrict(texts, kept)]

-----------------------------------------------------------------------------
(* Area sweeps *)

ByBuild(lhs, rhs) ==
  \/ lhs.builtMinutes > rhs.builtMinutes
  \/ lhs.builtMinutes = rhs.builtMinutes
     /\ \/ lhs.lastReceivedAt > rhs.lastReceivedAt
        \/ lhs.lastReceivedAt = rhs.lastReceivedAt /\ lhs.group < rhs.group

SaysAnyScope(newer, sweep) ==                                           \* mutation
  ~newer.isScoped \/ (sweep.isScoped /\ sweep.scope \subseteq newer.scope)
\* A newer sweep that says all a sweep says: of the country, or of its states.
Says(newer, sweep) ==
  \/ ~newer.isScoped
  \/ sweep.isScoped /\ newer.scopeKnown /\ sweep.scopeKnown /\ sweep.scope \subseteq newer.scope

RetainAreaSweeps(sweeps) ==
  LET before == Sorting(sweeps, ByBuild)
      kept == {i \in DOMAIN sweeps :
                 \A j \in DOMAIN sweeps : <<j, i>> \in before => ~Says(sweeps[j], sweeps[i])}
  IN AtMost(InOrder(sweeps, kept, before), MaxAreaSweeps)

OfGroup(one, sweep) == one.group = sweep.group                              \* mutation
\* The assembly a packet belongs to: two builds never share one.
OfBuild(one, sweep) ==
  one.group = sweep.group /\ one.builtMinutes = sweep.built /\ one.total = sweep.total

WithSweepPacket(assembly, sweep, receivedAt) ==
  [assembly EXCEPT
    !.packets = Put(assembly.packets, sweep.idx, sweep.entries), !.lastReceivedAt = receivedAt,
    !.wasCut = assembly.wasCut \/ sweep.cut,
    !.includesAdvisories = assembly.includesAdvisories \/ sweep.advisories,
    !.isScoped = assembly.isScoped \/ sweep.scoped,
    !.scopeKnown = assembly.scopeKnown \/ sweep.idx = 0,
    !.scope = IF sweep.scoped /\ sweep.idx = 0 THEN sweep.scope ELSE assembly.scope]

\* The packet joins the first sweep it belongs to, or starts one of its own.
Merged(sweeps, sweep, receivedAt) ==
  LET found == {i \in DOMAIN sweeps : OfBuild(sweeps[i], sweep)}
      first == CHOOSE i \in found : \A j \in found : i <= j
  IN IF found = {} THEN <<WithSweepPacket(AreaSweepAssembly(sweep, receivedAt), sweep, receivedAt)>> \o sweeps
     ELSE [sweeps EXCEPT ![first] = WithSweepPacket(sweeps[first], sweep, receivedAt)]
StoreAreaSweep(state, sweep, receivedAt) ==
  [state EXCEPT !.areaSweeps = RetainAreaSweeps(Merged(state.areaSweeps, sweep, receivedAt))]

-----------------------------------------------------------------------------
(* Radar *)

ByPicture(lhs, rhs) ==
  \/ lhs.taken > rhs.taken
  \/ lhs.taken = rhs.taken
     /\ \/ lhs.receivedAt > rhs.receivedAt
        \/ lhs.receivedAt = rhs.receivedAt /\ lhs.tile.square < rhs.tile.square

\* The bot's clock is the newest picture held.
RetainRadarTiles(tiles) ==
  LET kept == KeptTiles(tiles)
      fresh == {i \in kept : \A j \in kept : tiles[j].taken - tiles[i].taken <= RadarRetention}
  IN AtMost(InOrder(tiles, fresh, Sorting(tiles, ByPicture)), MaxRadarTiles)

\* The coarse half of a picture held fine.
IsCoarserOf(held, radar) == radar.coarse /\ ~held.coarse

StoreRadar(state, radar, receivedAt) ==
  LET tiles == state.radarTiles
      found == {i \in DOMAIN tiles : tiles[i].tile = radar.tile /\ tiles[i].taken = radar.taken}
      stored == [tile |-> radar.tile, taken |-> radar.taken, coarse |-> radar.coarse,
                 receivedAt |-> receivedAt]
  IN IF \E i \in found : IsCoarserOf(tiles[i], radar) THEN state
     ELSE [state EXCEPT !.radarTiles = RetainRadarTiles(
             IF found = {} THEN <<stored>> \o tiles
             ELSE [i \in DOMAIN tiles |-> IF i \in found THEN stored ELSE tiles[i]])]

-----------------------------------------------------------------------------
(* Forecasts *)

RetainUnbundledForecasts(held) ==
  LET Newer(k, l) == held[k].receivedAt > held[l].receivedAt
      kept == IF Cardinality(DOMAIN held) <= MaxUnbundled THEN DOMAIN held
              ELSE Best(DOMAIN held, MaxUnbundled, Newer)
  IN Restrict(held, kept)

Forecast(message, receivedAt, requestedHere) ==
  [issued |-> message.issued, of |-> message.of, receivedAt |-> receivedAt,
   requestedHere |-> requestedHere]

NoForecastIsNewer(state, message) == FALSE                                  \* mutation
HoldsNewerForecast(state, message) ==
  Held(state.forecasts, message.point) /\ state.forecasts[message.point].issued > message.issued

StoreForecast(state, message, receivedAt) ==
  IF message.point = UnbundledPoint
  THEN [state EXCEPT !.unbundledForecasts = RetainUnbundledForecasts(
          Put(state.unbundledForecasts, Unasked, Forecast(message, receivedAt, FALSE)))]
  ELSE IF HoldsNewerForecast(state, message) THEN state
  ELSE [state EXCEPT !.forecasts = Put(state.forecasts, message.point,
          Forecast(message, receivedAt,
            /\ Held(state.forecasts, message.point)
            /\ state.forecasts[message.point].requestedHere))]

\* The newest forecast this phone asked for, which is its place's own.
ShownForecastPoints(forecasts) ==
  LET own == {p \in DOMAIN forecasts : forecasts[p].requestedHere} IN
  {p \in own : \A q \in own \ {p} :
     \/ forecasts[q].receivedAt < forecasts[p].receivedAt
     \/ forecasts[q].receivedAt = forecasts[p].receivedAt /\ q < p}

PruneForecasts(state, receivedBefore) ==
  LET forecasts == state.forecasts
      shown == ShownForecastPoints(forecasts)
      young == shown \union {p \in DOMAIN forecasts : forecasts[p].receivedAt >= receivedBefore}
      Own(p) == forecasts[p].requestedHere
      Before(p, q) ==
        \/ Own(p) /\ ~Own(q)
        \/ Own(p) = Own(q) /\ forecasts[p].receivedAt > forecasts[q].receivedAt
        \/ Own(p) = Own(q) /\ forecasts[p].receivedAt = forecasts[q].receivedAt /\ p < q
      room == Later(0, MaxForecasts - Cardinality(shown))
      kept == IF Cardinality(young) <= MaxForecasts THEN young
              ELSE shown \union Best(young \ shown, room, Before)
  IN [state EXCEPT !.forecasts = Restrict(forecasts, kept)]

-----------------------------------------------------------------------------
(* Readings *)

\* A station's own report time.
ReportMinutes(batch, station) == batch.ts - batch.stations[station]

\* More than one station is the bot's scheduled report, of its area.
LastBatch(held, batch, station) ==
  LET before == IF Held(held, station) THEN held[station].lastBatchMinutes ELSE Never IN
  IF Cardinality(DOMAIN batch.stations) > 1 THEN Later(batch.ts, before) ELSE before

StoreObservations(state, batch, receivedAt) ==
  LET held == state.observations
      New(s) == [timestampMinutes |-> ReportMinutes(batch, s), receivedAt |-> receivedAt,
                 lastBatchMinutes |-> LastBatch(held, batch, s)]
      Kept(s) == [held[s] EXCEPT !.lastBatchMinutes = LastBatch(held, batch, s)]
  IN [state EXCEPT !.observations =
        [s \in DOMAIN held \union DOMAIN batch.stations |->
           IF s \notin DOMAIN batch.stations THEN held[s]
           ELSE IF Held(held, s) /\ held[s].timestampMinutes > ReportMinutes(batch, s)
                THEN Kept(s) ELSE New(s)]]

TrimObservations(state, cutoff) ==
  LET held == state.observations
      young == {s \in DOMAIN held : held[s].lastBatchMinutes >= cutoff \/ held[s].receivedAt >= cutoff}
      Before(s, t) ==
        \/ held[s].lastBatchMinutes > held[t].lastBatchMinutes
        \/ held[s].lastBatchMinutes = held[t].lastBatchMinutes
           /\ \/ held[s].receivedAt > held[t].receivedAt
              \/ held[s].receivedAt = held[t].receivedAt /\ s < t
      kept == IF Cardinality(young) <= MaxObservations THEN young
              ELSE Best(young, MaxObservations, Before)
  IN [state EXCEPT !.observations = Restrict(held, kept)]

\* trim(), after every message.
Trim(state, now) ==
  TrimObservations(PruneForecasts(PruneTexts(state, now - TextRetention), now - ForecastRetention),
                   now - ObservationRetention)

-----------------------------------------------------------------------------
(* One packet *)

\* A statement has no time of its own, and yields to one that is held.
StoreCoverage(state, message, receivedAt, isOutOfOrder) ==
  IF isOutOfOrder /\ state.coverage # NoCoverage THEN state
  ELSE [state EXCEPT !.coverage = [says |-> message.says, receivedAt |-> receivedAt]]

\* messageMinutes(): what a message says of its own time.
MessageMinutes(message) ==
  CASE message.type = "observations" -> message.ts
    [] message.type = "forecast"     -> message.issued
    [] message.type = "area_sweep"   -> message.built
    [] message.type = "radar"        -> message.taken
    [] OTHER                         -> Never

IsAhead(minutes, now) == minutes > now + FutureTolerance

Store(state, message, receivedAt, isOutOfOrder) ==
  CASE message.type = "text"         -> StoreText(state, message, receivedAt)
    [] message.type = "area_sweep"   -> StoreAreaSweep(state, message, receivedAt)
    [] message.type = "radar"        -> StoreRadar(state, message, receivedAt)
    [] message.type = "forecast"     -> StoreForecast(state, message, receivedAt)
    [] message.type = "observations" -> StoreObservations(state, message, receivedAt)
    [] message.type = "coverage"     -> StoreCoverage(state, message, receivedAt, isOutOfOrder)
    [] OTHER                         -> state

IsDuplicate(before, packet, receivedAt) == Stream!IsCopy(before, packet, receivedAt)

Apply(before, packet, receivedAt) ==
  LET state == Stream!Accept(before, packet, receivedAt)
      isOutOfOrder == Stream!Place(before, packet.seq, receivedAt) = "behind"
  IN IF IsDuplicate(before, packet, receivedAt) THEN before
     ELSE IF IsAhead(MessageMinutes(packet.message), receivedAt) THEN state
     ELSE Store(state, packet.message, receivedAt, isOutOfOrder)

\* Whether it was stored, and not turned away as older or ahead of its time.
WasStored(state, message) ==
  CASE message.type = "area_sweep" ->
         \E i \in DOMAIN state.areaSweeps : /\ OfBuild(state.areaSweeps[i], message)
                                            /\ Held(state.areaSweeps[i].packets, message.idx)
    [] message.type = "radar" ->
         \E i \in DOMAIN state.radarTiles :
           /\ state.radarTiles[i].tile = message.tile /\ state.radarTiles[i].taken = message.taken
           /\ state.radarTiles[i].coarse = message.coarse
    [] message.type = "forecast" /\ message.point # UnbundledPoint ->
         Held(state.forecasts, message.point) /\ state.forecasts[message.point].issued = message.issued
    [] OTHER -> TRUE

\* dropFutureTimes(): what a state file holds that is ahead of the clock.
DropFutureTimes(state, now) ==
  LET Past(stored) == ~IsAhead(stored.issued, now)
      sweeps == {i \in DOMAIN state.areaSweeps : ~IsAhead(state.areaSweeps[i].builtMinutes, now)}
      tiles == {i \in DOMAIN state.radarTiles : ~IsAhead(state.radarTiles[i].taken, now)}
      readings == state.observations
      stations == {s \in DOMAIN readings : ~IsAhead(readings[s].timestampMinutes, now)}
  IN [state EXCEPT
       !.observations =
         [s \in stations |-> IF IsAhead(readings[s].lastBatchMinutes, now)
                             THEN [readings[s] EXCEPT !.lastBatchMinutes = Never] ELSE readings[s]],
       !.forecasts = RestrictValues(state.forecasts, Past),
       !.unbundledForecasts = RestrictValues(state.unbundledForecasts, Past),
       !.areaSweeps = Those(state.areaSweeps, sweeps),
       !.radarTiles = Those(state.radarTiles, tiles)]
=============================================================================
