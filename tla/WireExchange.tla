---------------------------- MODULE WireExchange ----------------------------
(***************************************************************************)
(* The two codecs talking: the bot's builders turn what it holds into      *)
(* packets, the phone's decoder reads them one by one, perhaps not to the  *)
(* last, and the bot reads the phone's requests.  What the bot is asked to *)
(* say comes from Jobs, its counter from Counters: a restart may leave the *)
(* counter anywhere, so any value may come first.  Reading a packet        *)
(* depends on no other packet, so the order they come in is left to the    *)
(* modules that put the answers together.                                  *)
(***************************************************************************)
EXTENDS RadarLattice

CONSTANTS
  Jobs,       \* what may be said: [kind |-> ..., ...]
  Counters,   \* the values the bot's u8 counter may have
  Bot         \* the bot's identifier

VARIABLES
  job,        \* what is being said, or None
  air,        \* its packets, in the order they were made
  heard       \* what was read of the packets received so far, in that order

vars == <<job, air, heard>>

App == INSTANCE AppWire

MaxWarningsPerRequest == 6
LetterW == RequestLetter(<<119>>)

\* `>w`, `>w` with an identity and `>w` with one UGC code: the identified
\* warnings of the bot's area or those asked about, the newest first, as
\* updates.  The areas asked about, or else the bot's own, are kept when a
\* warning is too large.  Every warning tried takes a number of the counter.
AnswerWarnings(seq, j) ==
  LET Wanted(w) == /\ HasIdentity(w)
                   /\ CASE j.asked = "all" -> ToSet(w.ugcs) \cap j.own # {}
                        [] j.asked = "one" -> <<w.event, w.office, w.etn>> = j.identity
                        [] j.asked = "area" -> Contains(w.ugcs, j.area)
      Newer(v, w) == Known(v.onset_min, 0) > Known(w.onset_min, 0)
      wanted == SelectSeq(j.active, Wanted)
      tried == UpTo(SortSeq(wanted, Newer), MaxWarningsPerRequest)
      keep == IF j.asked = "area" THEN {j.area} ELSE j.own
      messages == [i \in DOMAIN tried |->
                     WarningMessage((seq + i - 1) % 256, Bot, tried[i], TRUE, keep)]
      IsSent(packet) == packet # Refused
      last == (seq + Len(tried)) % 256
  IN IF j.asked = "unreadable" THEN <<EncodeNotAvailable(seq, Bot, LetterW, 1)>>
     ELSE IF j.asked # "all" /\ wanted = <<>>
     THEN <<EncodeNotAvailable(seq, Bot, LetterW, 0)>>
     ELSE SelectSeq(messages, IsSent)
            \o (IF j.asked # "all" THEN <<>>
                ELSE <<DigestMessage(last, Bot, wanted, j.now, j.health, j.source)>>)

\* The area in force: a build that raises keeps the last good one.
AreaInForce(j) ==
  LET before == BuildFromConfig(j.before)
      good == IF j.before = None \/ Blocked(before) THEN None ELSE before
  IN Reloaded(good, IF j.raises THEN None ELSE BuildFromConfig(j.settings))

\* What the code does with a job: the builder of its kind.
Packets(j, seq) ==
  LET one(packet) == IF packet = Refused THEN <<>> ELSE <<packet>>
  IN CASE j.kind = "warning" ->
            one(WarningMessage(seq, Bot, j.warning, j.update, j.keep))
       [] j.kind = "ask" -> AnswerWarnings(seq, j)
       [] j.kind = "cancel" -> one(EncodeCancel(seq, Bot, j.cancel))
       [] j.kind = "digest" ->
            one(DigestMessage(seq, Bot, j.active, j.now, j.health, j.source))
       [] j.kind = "obs" ->
            one(ObsMessage(seq, Bot, j.now, j.reports, j.stations, ObsMaxAgeMin,
                           j.source))
       [] j.kind = "station" ->
            one(StationObsMessage(seq, Bot, j.now, j.reports, j.icao, j.others,
                                  j.source))
       [] j.kind = "forecast" -> one(ForecastMessage(seq, Bot, j.forecast))
       [] j.kind = "coverage" -> one(CoverageMessage(seq, Bot, j.coverage))
       [] j.kind = "sweep" ->
            AreaSweepMessages(seq, Bot, j.active, j.advisories, j.now, j.scope,
                              j.source)
       [] j.kind = "text" -> TextMessages(seq, Bot, j.subject, j.text, j.source)
       [] j.kind = "refusal" ->
            one(EncodeNotAvailable(seq, Bot, RequestLetter(j.word), j.reason))
       [] j.kind = "radar" -> one(RadarMessage(seq, Bot, j.tile))
       [] j.kind = "area" ->
            one(ScheduledStatement(seq, Bot, AreaInForce(j), j.settings))
              \o one(ScheduledDigest((seq + 1) % 256, Bot, AreaInForce(j), j.active, j.now))
       [] j.kind = "look" -> RadarAnswer(seq, Bot, j.ask, j.frames, j.now)
       [] j.kind = "request" -> one(App!EncodeRequest(j.request))

Init ==
  /\ job = None
  /\ air = <<>>
  /\ heard = <<>>

Say(j) ==
  /\ job = None
  /\ job' = j
  /\ \E seq \in Counters : air' = Packets(j, seq)
  /\ heard' = <<>>

\* The phone reads what the bot says, the bot what is requested.
Hear ==
  /\ Len(heard) < Len(air)
  /\ LET packet == air[Len(heard) + 1]
     IN heard' = Append(heard, IF job.kind = "request" THEN Decode(packet)
                             ELSE App!Decode(packet))
  /\ UNCHANGED <<job, air>>

\* The packets that were not heard are lost.
FallSilent ==
  /\ job # None
  /\ job' = None
  /\ air' = <<>>
  /\ heard' = <<>>

Next ==
  \/ \E j \in Jobs : Say(j)
  \/ Hear
  \/ FallSilent

Spec == Init /\ [][Next]_vars

-----------------------------------------------------------------------------
(* What the hearer makes of it. *)

Messages == ToSet(heard)
Latest == heard[Len(heard)]
AllHeard == job # None /\ Len(heard) = Len(air)

Near(a, b, d) == a - b \in (-d)..d
AreasOf(runs) == UNION {{[state |-> runs[i].state, county |-> runs[i].county,
                          number |-> n] :
                         n \in runs[i].start..(runs[i].start + runs[i].run - 1)} :
                        i \in DOMAIN runs}
KnownAreas(ugcs) == {u \in ToSet(ugcs) : u.state # None}

-----------------------------------------------------------------------------
(* Warnings. *)

WarningMeans(m, w, update) ==
  /\ <<m.event, m.office, m.etn, m.expires_min, m.tornado, m.flood_source,
       m.flood_damage, m.hail_qin, m.wind_mph, m.source, m.update>>
     = <<w.event, w.office, w.etn, w.expires_min, w.tornado, w.flood_source,
         w.flood_damage, w.hail_qin, w.wind_mph, w.source, update>>
  /\ m.issued_min # None <=> w.issued_min # None
  /\ m.issued_min # None => \/ m.issued_min = w.issued_min
                            \/ w.expires_min - w.issued_min > 65535
  /\ m.begins_min # None => m.begins_min = w.onset_min
  \* An outline is the warning's own, no vertex off by half a thousandth.
  /\ m.polygon # None =>
       /\ \A i \in DOMAIN m.polygon : \E v \in ToSet(w.vertices) :
            \A axis \in 1..2 : Near(m.polygon[i][axis], v[axis], 5)
       /\ m.polygon[1] = w.vertices[1]
  /\ m.areas # None => AreasOf(m.areas) \subseteq KnownAreas(w.ugcs)

\* Nothing the reader was promised to see first is dropped for something else.
WarningKeepsFirst(m, w, keep) ==
  LET told == IF m.areas = None THEN {} ELSE AreasOf(m.areas)
  IN /\ m.polygon # None \/ m.areas # None
     /\ told # {} /\ told \cap keep = {} => keep \cap KnownAreas(w.ugcs) = {}

-----------------------------------------------------------------------------
(* Digests, observations and forecasts. *)

Identified == {i \in DOMAIN job.active : HasIdentity(job.active[i])}
NameOf(w) == <<w.event, w.office, w.etn>>

DigestMeans(m) ==
  /\ m.now_min = job.now
  /\ \A e \in ToSet(m.entries) : \E i \in Identified :
       /\ NameOf(job.active[i]) = NameOf(e)
       /\ e.expires_min =
            IF job.active[i].expires_min < job.now THEN job.now
            ELSE IF job.active[i].expires_min - job.now > 65535 THEN job.now + 65535
            ELSE job.active[i].expires_min

\* What a full digest leaves out expires no sooner than what it lists.
DigestKeepsSoonest(m) ==
  LET told == {NameOf(e) : e \in ToSet(m.entries)}
      isTold(i) == NameOf(job.active[i]) \in told
  IN /\ Cardinality(Identified) <= MaxDigestEntries => \A i \in Identified : isTold(i)
     /\ \A i, j \in Identified : isTold(i) /\ ~isTold(j) =>
          job.active[i].expires_min <= job.active[j].expires_min

\* A reading is the station's newest, its time within six minutes.
ReadingMeans(m, s) ==
  LET r == job.reports[s.station]
  IN /\ r # None
     /\ <<s.temp_f, s.dewpoint_f, s.wind_mph, s.visibility_mi, s.humidity_pct>>
        = <<r.temp_f, r.dewpoint_f, r.wind_mph, r.visibility_mi, r.humidity_pct>>
     /\ s.gust_mph = Known(r.gust_mph, 0) /\ s.feels_delta_f = Known(r.feels_delta_f, 0)
     /\ s.sky = Known(r.sky, 15)
     /\ s.pressure \in {r.pressure, None}
     /\ r.wind_dir_deg # None =>
          \E turn \in -1..1 :
            Near(90 * s.wind_dir, 4 * (r.wind_dir_deg - 360 * turn), 45)
     /\ s.age_min # None
     /\ Near(60 * (m.ts_min - s.age_min), r.at, 360)

\* What does not fit is the farthest of the stations that could report.
BatchKeepsNearest(m) ==
  LET told == {m.stations[i].station : i \in DOMAIN m.stations}
      fresh(s) == job.reports[s] # None
                  /\ job.now - job.reports[s].at <= 60 * ObsMaxAgeMin
  IN \A i, j \in DOMAIN job.stations :
       /\ i < j /\ fresh(job.stations[i]) /\ job.stations[j] \in told
       => job.stations[i] \in told

\* One station was asked for: its own report, or a neighbour's no farther than
\* any other that has one as fresh.
AnswersForStation(m) ==
  LET s == m.stations[1].station
      fresh(t) == job.reports[t] # None
                  /\ job.now - job.reports[t].at <= 60 * ObsMaxAgeMin
  IN /\ Len(m.stations) = 1
     /\ fresh(job.icao) => s = job.icao
     /\ s # job.icao =>
          \E o \in ToSet(job.others) :
            /\ o.station = s /\ o.km <= ObsSubstituteKm
            /\ \A t \in ToSet(job.others) :
                 fresh(t.station) => fresh(s) /\ o.km <= t.km

ForecastMeans(m) ==
  LET f == job.forecast
      dateOf(i) == f.issued_date + m.first_period \div 2 + i - 1
  IN /\ <<m.point, m.issued_min>> = <<f.point, f.issued_min>>
     /\ \A i \in DOMAIN m.periods : \E d \in ToSet(f.daily) :
          /\ d.date = dateOf(i)
          /\ <<d.high_f, d.low_f, d.pop_pct, d.sky, d.thunder, d.fog>>
             = <<m.periods[i].high_f, m.periods[i].low_f, m.periods[i].pop_pct,
                 m.periods[i].sky, m.periods[i].thunder, m.periods[i].fog>>
          /\ Near(m.periods[i].wind_mph, d.wind_mph, 2)

-----------------------------------------------------------------------------
(* `>w`: every message is about what was asked for, and a refusal means there *)
(* is nothing about it.                                                       *)

AskedAbout ==
  {i \in Identified :
     CASE job.asked = "all" -> ToSet(job.active[i].ugcs) \cap job.own # {}
       [] job.asked = "one" -> NameOf(job.active[i]) = job.identity
       [] job.asked = "area" -> Contains(job.active[i].ugcs, job.area)
       [] OTHER -> FALSE}

AnswersAsk(m) ==
  CASE m.type = 1 ->
         \E i \in AskedAbout :
           /\ WarningMeans(m, job.active[i], TRUE)
           /\ WarningKeepsFirst(m, job.active[i],
                IF job.asked = "area" THEN {job.area} ELSE job.own)
    [] m.type = 3 -> {NameOf(e) : e \in ToSet(m.entries)}
                     = {NameOf(job.active[i]) : i \in AskedAbout}
    [] m.type = 7 -> AskedAbout = {} /\ m.request_code = LetterW

\* Six at most: those that are left out began no later than any that is sent.
AskKeepsNewest ==
  LET warnings == {m \in Messages : m.type = 1}
      told == {i \in AskedAbout : \E m \in warnings : NameOf(m) = NameOf(job.active[i])}
  IN warnings # {} =>
       \A i \in told, k \in AskedAbout \ told :
         Known(job.active[k].onset_min, 0) <= Known(job.active[i].onset_min, 0)

-----------------------------------------------------------------------------
(* Coverage, sweeps, texts and radar. *)

CoverageMeans(m) ==
  LET c == job.coverage
      told == AreasOf(m.areas)
      runs == AreasFromUgcs(c.zones)
  IN /\ told \subseteq KnownAreas(c.zones)
     /\ ToSet(m.offices) \subseteq ToSet(c.offices)
     /\ m.radius_km > 0 => c.zones # <<>> /\ c.center = <<m.lat, m.lon>>
     /\ m.zones_cut <=> told # KnownAreas(c.zones)
     /\ m.offices_cut <=> ToSet(m.offices) # ToSet(c.offices)

\* The runs that were dropped are no larger than the ones that were kept.
CoverageKeepsLargest(m) ==
  \A r \in ToSet(AreasFromUgcs(job.coverage.zones)) :
    r \notin ToSet(m.areas) => \A k \in ToSet(m.areas) : r.run <= k.run

EventsAt(m, u) ==
  {m.entries[i].event : i \in {k \in DOMAIN m.entries :
     /\ m.entries[k].state = u.state /\ m.entries[k].county = u.county
     /\ u.number \in m.entries[k].start..(m.entries[k].start + m.entries[k].run - 1)}}

\* The events that may be drawn over an area: of the worst rank there is.
WorstAt(u) ==
  LET allowed == IF job.advisories THEN {"W", "A", "Y", "S"} ELSE {"W", "A"}
      over == {i \in DOMAIN job.active : /\ job.active[i].sig \in allowed
                                         /\ job.active[i].event # 0
                                         /\ Contains(job.active[i].ugcs, u)}
      worst == {i \in over : \A k \in over : ~Outranks(job.active[k], job.active[i])}
  IN {job.active[i].event : i \in worst}

SweepAreas == {u \in UNION {KnownAreas(job.active[i].ugcs) : i \in DOMAIN job.active} :
                 /\ WorstAt(u) # {}
                 /\ job.scope = <<>> \/ Contains(job.scope, u.state)
                 /\ u.number <= MaxSweepStart}

SweepMeans(m) ==
  \A u \in AreasOf(m.entries) :
    /\ Cardinality(EventsAt(m, u)) = 1
    /\ u \in SweepAreas
    /\ EventsAt(m, u) \subseteq WorstAt(u)

\* When every packet of a sweep was heard, what is missing is less severe than
\* everything drawn, and every packet says that something is.
SweepTellsCut ==
  LET drawn == UNION {AreasOf(m.entries) : m \in Messages}
      rank(u) == LET e == CHOOSE e \in WorstAt(u) : TRUE IN SweepSigRank(SigOf(e))
      missing == SweepAreas \ drawn
  IN /\ \A m \in Messages : m.cut <=> missing # {}
     /\ \A m \in Messages : m.total = Len(air)
     /\ {m.idx : m \in Messages} = 0..(Len(air) - 1)
     /\ Cardinality({m.group : m \in Messages}) <= 1
     /\ \A u \in missing, v \in drawn : rank(u) >= rank(v)
     /\ UNION {ToSet(m.scope) : m \in Messages} = ToSet(job.scope)
     /\ job.scope # <<>> => air # <<>>

\* When every chunk of a text was heard it reads as the text, up to where the
\* message says it was cut.
TextReads ==
  LET chunk(k) == CHOOSE m \in Messages : m.idx = k - 1
      whole == FlattenSeq([k \in 1..Len(air) |-> chunk(k).text])
      given == Encoded(job.text)
  IN /\ {m.idx : m \in Messages} = 0..(Len(air) - 1)
     /\ \A m \in Messages : m.total = Len(air) /\ m.subject = job.subject
     /\ Cardinality({m.group : m \in Messages}) = 1
     /\ IsPrefix(whole, given)
     /\ \A m \in Messages : m.cut <=> whole # given

\* No echo is hidden and none is moved, and what the picture does not reach
\* is never drawn dry.
RadarMeans(m) ==
  LET t == job.tile
      n == Len(m.rows)
      scale == RadarGrid \div n
      under(r, c) == {<<y, x>> : y \in (scale * (r - 1) + 1)..(scale * r),
                                 x \in (scale * (c - 1) + 1)..(scale * c)}
      reached(r, c) == t.bounds = None \/ Inside(t.bounds, r, c)
      shown(r, c) == m.bounds = None \/ Inside(m.bounds, r, c)
  IN /\ <<m.south, m.west, m.zoom, m.taken_min, m.product>>
        = <<t.south, t.west, t.zoom, t.taken_min, t.product>>
     /\ \A r, c \in 1..n : shown(r, c) =>
          /\ \A q \in under(r, c) : /\ reached(q[1], q[2])
                                    /\ t.rows[q[1]][q[2]] <= m.rows[r][c]
          /\ \E q \in under(r, c) : t.rows[q[1]][q[2]] = m.rows[r][c]
     /\ \A r, c \in 1..n : ~shown(r, c) =>
          /\ m.rows[r][c] = 0
          /\ \E q \in under(r, c) : ~reached(q[1], q[2])

-----------------------------------------------------------------------------
(* The area and the radar answer. *)

AreaMeans(m) ==
  LET c == AreaInForce(job)
  IN CASE m.type = 8 -> /\ AreasOf(m.areas) \subseteq c.zones
                        /\ m.radius_km > 0 => <<m.lat, m.lon, m.radius_km>> = c.center \o <<c.radius>>
       [] m.type = 3 -> {NameOf(e) : e \in ToSet(m.entries)} =
                          {NameOf(w) : w \in {v \in ToSet(job.active) : InCoverage(v, c)}}

SquareOf(m) == [south |-> m.south, west |-> m.west, zoom |-> m.zoom]

\* The shown cell under the middle of a pixel, or None.
CellUnder(m, frame, pixel) ==
  LET cell == TileSpan(m.zoom) \div Len(m.rows)
      lat == frame.north - (pixel[1] * frame.px - frame.px \div 2)
      lon == frame.west + (pixel[2] * frame.px - frame.px \div 2)
      at == <<(m.south * Degree + TileSpan(m.zoom) - lat) \div cell + 1,
              (lon - m.west * Degree) \div cell + 1>>
  IN IF LevelAt(m, lat, lon) = None THEN None ELSE at

\* The tile of the place, well inside it, dated as it was taken; an echo of
\* two pixels in one cell is drawn, and over the place the phone reads what
\* the bot would say, or the strongest beside it when the tile is coarse.
LookMeans(m) ==
  LET lat == CoordinateText(job.ask.lat)
      lon == CoordinateText(job.ask.lon)
      span == TileSpan(m.zoom)
      frame == job.frames[m.product + 1]
      file == CHOOSE f \in ToSet(frame.files) : TakenOf(f) = m.taken_min
      cut == CutTile(file, frame, SquareOf(m))
      strong == {p \in (DOMAIN file.levels) \X (DOMAIN file.levels[1]) :
                   file.levels[p[1]][p[2]] >= 2}
  IN IF m.type = 7 THEN m.request_code = RequestLetter(WordRadar)
     ELSE /\ SquareOf(m) = Containing(lat, lon, job.ask.zoom)
          /\ lat - m.south * Degree >= span \div 4 /\ North(SquareOf(m)) - lat >= span \div 4
          /\ lon - m.west * Degree >= span \div 4 /\ m.west * Degree + span - lon >= span \div 4
          /\ m.taken_min = file.taken
          /\ \A p, q \in strong :
               LET at == CellUnder(m, frame, p)
               IN p # q /\ at # None /\ at = CellUnder(m, frame, q) =>
                    m.rows[at[1]][at[2]] >= Least({file.levels[p[1]][p[2]], file.levels[q[1]][q[2]]})
          /\ LET read == LevelAt(m, lat, lon)
                 said == LevelHere(cut, lat, lon)
             IN IF Len(m.rows) = RadarGrid THEN read = said
                ELSE read # None => said # None /\ read >= said

\* A loop is of one product, oldest first and ten minutes apart, with nothing
\* the phone held; no picture at all means no whole and fresh one there was.
LoopRuns ==
  LET m == heard
      FreshOver(frame) ==
        /\ frame.calibrated /\ Newest(frame) # None /\ Newest(frame).lines
        /\ job.now - Newest(frame).taken <= MaxAgeMin
        /\ CoveredPart(frame, Containing(CoordinateText(job.ask.lat),
                                         CoordinateText(job.ask.lon), job.ask.zoom)) = 10000
  IN IF m[1].type = 7
     THEN m[1].reason = 0 => \A i \in DOMAIN job.frames : ~FreshOver(job.frames[i])
     ELSE /\ \A i \in 1..(Len(m) - 1) :
               /\ m[i].product = m[i + 1].product
               /\ m[i].taken_min + RadarLoopMinSpacingMin <= m[i + 1].taken_min
          /\ Latest.taken_min - m[1].taken_min <= RadarLoopWindowMin
          /\ job.ask.held # None =>
               \A i \in DOMAIN m : (m[i].taken_min % 1440) \notin job.ask.held

Means(m) ==
  CASE job.kind = "warning" -> WarningMeans(m, job.warning, job.update)
    [] job.kind = "ask" -> AnswersAsk(m)
    [] job.kind = "cancel" -> /\ NameOf(m) = NameOf(job.cancel)
                              /\ m.reason = job.cancel.reason
    [] job.kind = "digest" -> DigestMeans(m)
    [] job.kind \in {"obs", "station"} ->
         \A i \in DOMAIN m.stations : ReadingMeans(m, m.stations[i])
    [] job.kind = "forecast" -> ForecastMeans(m)
    [] job.kind = "coverage" -> CoverageMeans(m)
    [] job.kind = "sweep" -> SweepMeans(m)
    [] job.kind = "text" -> m.subject = job.subject
    [] job.kind = "refusal" -> m.request_code = RequestLetter(job.word)
    [] job.kind = "radar" -> RadarMeans(m)
    [] job.kind = "area" -> AreaMeans(m)
    [] job.kind = "look" -> LookMeans(m)
    [] job.kind = "request" -> <<m.sender, m.ts, m.text>> =
         <<job.request.sender, job.request.ts, job.request.text>>

(* A packet that is heard says what the sender was given: the warning, the
   outline within half a thousandth of a degree and without drift, only areas
   that were named, times as they were, every reading of the station it is
   shown for and dated within six minutes, the day a forecast period is of,
   the worst event over an area, no radar echo hidden and nothing unseen drawn
   dry; and a radar answer is the square of the place asked about, dated as the
   picture was taken.  v5_builders.py and v5.py against MeshWXDecoder.js. *)
HeardAsMeant ==
  heard # <<>> => Latest # Unread /\ Means(Latest)

Keeps(m) ==
  CASE job.kind = "warning" -> WarningKeepsFirst(m, job.warning, job.keep)
    [] job.kind = "digest" -> DigestKeepsSoonest(m)
    [] job.kind = "obs" -> BatchKeepsNearest(m)
    [] job.kind = "station" -> AnswersForStation(m)
    [] job.kind = "coverage" -> CoverageKeepsLargest(m)
    [] OTHER -> TRUE

\* Whatever can be said at all gets a packet: the limits never leave nothing.
SaysSomething ==
  CASE job.kind = "warning" ->
         \/ air # <<>>
         \/ Len(job.warning.vertices) < 3 /\ KnownAreas(job.warning.ugcs) = {}
    [] job.kind = "obs" ->
         \/ air # <<>>
         \/ \A i \in DOMAIN UpTo(job.stations, MaxStations) :
              LET r == job.reports[job.stations[i]]
              IN r = None \/ job.now - r.at > 60 * ObsMaxAgeMin
    [] job.kind = "radar" ->
         \/ air # <<>>
         \/ ~\E r, c \in 1..RadarCoarseGrid : \A y \in {2 * r - 1, 2 * r},
                                                  x \in {2 * c - 1, 2 * c} :
               job.tile.bounds = None \/ Inside(job.tile.bounds, y, x)
    [] job.kind \in {"digest", "cancel", "text", "refusal"} -> air # <<>>
    [] OTHER -> TRUE

(* What the wire has no room for is the least of what there is to say, and
   the reader is told: an outline is thinned before the reader's own counties
   go, a digest keeps what expires soonest, a batch the nearest stations, a
   coverage the largest runs, a sweep the worst alerts, a text its beginning,
   and no limit leaves nothing at all of a message; what is missing is missing
   exactly when the packets say so. *)
CutsAreTold ==
  /\ job # None => SaysSomething
  /\ heard # <<>> => Keeps(Latest)
  /\ AllHeard /\ job.kind = "ask" => AskKeepsNewest
  /\ AllHeard /\ job.kind = "sweep" => SweepTellsCut
  /\ AllHeard /\ job.kind = "text" => TextReads
  /\ AllHeard /\ job.kind = "look" => LoopRuns

(* The two decoders agree on every packet the bot makes, the phone's encoder
   makes the same packet of what was read, and no packet is longer than the
   radio sends (a digest may be three bytes longer). *)
BothReadAlike ==
  heard # <<>> =>
    LET packet == air[Len(heard)]
    IN /\ Latest = IF job.kind = "request" THEN App!Decode(packet) ELSE Decode(packet)
       /\ App!Encode(Latest) = packet
       /\ Len(packet) <= IF job.kind = "digest" THEN 160 ELSE MaxSend

\* The latest statement of the area that was heard.
Statement == LET stated == {m \in Messages : m.type = 8}
             IN IF stated = {} THEN None ELSE CHOOSE m \in stated : TRUE

(* The phone and the bot mean one area.  By a complete statement the phone
   takes a digest to speak for a storm (where there is a circle and no whole
   state) and for a product that names zones exactly when the bot would list
   it, so an absence ends what is over and never what was fetched for another
   place; a product that names counties is never left standing because the
   phone thought it elsewhere; and a place is called outside only when the bot
   would list no zone product over it and no storm at it.  coverage.py against
   touchesCoverage (WeatherStateReducer.js) and verdict (WeatherCoverage.js). *)
OneArea ==
  AllHeard /\ job.kind = "area" /\ air # <<>> =>
    LET c == AreaInForce(job)
        isStated == Statement # None /\ IsComplete(Statement)
        IsExact(w) == IF IsStorm(w) THEN c.radius > 0 /\ c.states = {}
                      ELSE \A u \in ToSet(w.ugcs) : ~u.county
    IN /\ \A w \in ToSet(job.active) :
            /\ isStated /\ IsExact(w) => (DigestSpeaksFor(w, Statement) <=> InCoverage(w, c))
            /\ ~IsStorm(w) /\ InCoverage(w, c) => DigestSpeaksFor(w, Statement)
       /\ Statement # None =>
            \A p \in DOMAIN Places :
              LET at == Places[p].at
                  zones == CodesAt(at) \cap ZoneCodes
                  storm == [south |-> at[1], north |-> at[1], west |-> at[2], east |-> at[2]]
              IN Verdict(Statement, at, 0) = "outside" =>
                   ~CoversAny(c, zones, FALSE) /\ ~CoversOutline(c, storm)

(* The answer to a radar request is the square the phone waits for: the phone
   names the tile from the coordinate before the answer comes (WeatherRadar.js
   ask, WeatherRequest.js reply), the bot from the coordinate in the request.
   MCTieJobs break it (README, Divergences). *)
TileIsNamed ==
  job # None /\ job.kind = "look" =>
    \A m \in Messages :
      m.type = 11 => SquareOf(m) = Containing(job.ask.lat, job.ask.lon, job.ask.zoom)
=============================================================================
