---------------------------- MODULE WireBuilders ----------------------------
(***************************************************************************)
(* protocol/v5_builders.py: from what the bot's store holds to packets.    *)
(* The wire's limits are met here: a warning sheds detail until it fits,   *)
(* a batch its farthest station, a coverage its shortest runs, a sweep its *)
(* least severe areas, a text its tail, a radar tile its fineness.         *)
(*                                                                         *)
(* A UGC code is [state, county, number], its state None when index.json   *)
(* does not list it; an office or a station it does not list is None.      *)
(* Text is a sequence of Unicode code points.                              *)
(***************************************************************************)
EXTENDS BotWire

CONSTANT SigOf(_)    \* the significance of an event code, from index.json

ObsMaxAgeMin == 120
ObsStaleMaxAgeMin == 720
ObsSubstituteKm == 40

UpTo(seq, n) == SubSeq(seq, 1, IF Len(seq) < n THEN Len(seq) ELSE n)
Largest(ns) == CHOOSE n \in ns : \A m \in ns : m <= n

\* u8 counter of the bot's own messages.
NextSeq(seq) == (seq + 1) % 256

-----------------------------------------------------------------------------
(* Warnings. *)

\* No number, no event code or an office without an index: never sent.
HasIdentity(w) == w.etn # None /\ w.event # 0 /\ w.office # None

BeginsMin(w) ==
  IF w.onset_min = None \/ w.issued_min = None THEN None
  ELSE IF w.onset_min > w.issued_min THEN w.onset_min ELSE None

\* n of the points, evenly spaced, the first and the last among them.
Decimate(points, n) ==
  IF Len(points) <= n THEN points
  ELSE [i \in 1..n |-> points[1 + Nearest((i - 1) * (Len(points) - 1), n - 1)]]

\* mutation: the runs stay in wire order
RunsAsGiven(areas, keep) == areas

\* The runs that name a code of `keep` first, each group in wire order.
RunsFirst(areas, keep) ==
  LET Touches(r) == \E u \in keep : /\ u.state = r.state /\ u.county = r.county
                                    /\ u.number \in r.start..(r.start + r.run - 1)
      Misses(r) == ~Touches(r)
  IN SelectSeq(areas, Touches) \o SelectSeq(areas, Misses)

WireOrder(a, b) ==
  \/ a.state < b.state
  \/ a.state = b.state /\ Num(a.county) < Num(b.county)
  \/ a.state = b.state /\ a.county = b.county /\ a.start < b.start

\* The first of the packets that could be made.
FirstMade(packets) ==
  LET made == {i \in DOMAIN packets : packets[i] # Refused}
  IN IF made = {} THEN Refused ELSE packets[CHOOSE i \in made : \A j \in made : i <= j]

\* The outlines and runs to try, from all there is to no outline at all.
Attempts(polygon, ranked) ==
  LET areas(n) == SortSeq(UpTo(ranked, n), WireOrder)
  IN << <<UpTo(polygon, 30), areas(30)>>,
        <<Decimate(polygon, 16), areas(30)>>,
        <<Decimate(polygon, 16), areas(12)>>,
        <<Decimate(polygon, 10), areas(6)>>,
        <<Decimate(polygon, 8), <<>> >>,
        << <<>>, areas(30)>> >>

\* A warning with the outline and the runs of each attempt.
WarningPackets(seq, bot, w, update, attempts) ==
  LET OrNone(list) == IF list = <<>> THEN None ELSE list
  IN [i \in DOMAIN attempts |->
        IF attempts[i] = << <<>>, <<>> >> THEN Refused
        ELSE EncodeWarning(seq, bot,
               [event |-> w.event, office |-> w.office, etn |-> w.etn % 65536,
                expires_min |-> w.expires_min, tornado |-> w.tornado,
                flood_source |-> w.flood_source, flood_damage |-> w.flood_damage,
                hail_qin |-> w.hail_qin, wind_mph |-> w.wind_mph,
                update |-> update, issued_min |-> w.issued_min,
                begins_min |-> BeginsMin(w), source |-> w.source,
                polygon |-> OrNone(attempts[i][1]),
                areas |-> OrNone(attempts[i][2])])]

\* The first of the attempts that fits one packet.
WarningMessage(seq, bot, w, update, keep) ==
  LET polygon == IF Len(w.vertices) < 3 THEN <<>> ELSE w.vertices
      attempts == Attempts(polygon, RunsFirst(AreasFromUgcs(w.ugcs), keep))
  IN IF ~HasIdentity(w) THEN Refused
     ELSE FirstMade(WarningPackets(seq, bot, w, update, attempts))

\* The identified warnings that expire soonest, up to a full digest.
DigestMessage(seq, bot, active, now, feedHealth, source) ==
  LET Soonest(a, b) == a.expires_min < b.expires_min
      sorted == SortSeq(active, Soonest)
  IN EncodeDigest(seq, bot,
       [now_min |-> now, feed_health |-> feedHealth, source |-> source,
        entries |-> UpTo(SelectSeq(sorted, HasIdentity), MaxDigestEntries)])

\* Minutes since the newest product of the home offices, in fours.
FeedHealth(now, newest) ==
  IF newest = None THEN 255 ELSE Clamp((now - newest) \div 4, 0, 255)

-----------------------------------------------------------------------------
(* Observations.  `reports[station]` is the newest METAR, its fields and    *)
(* `at`, the second it was taken, or None.                                 *)

Row(station, report) ==
  LET pressure == report.pressure
  IN [report EXCEPT !.pressure =
        IF pressure # None /\ pressure - 2900 \notin 0..254 THEN None
        ELSE pressure] @@ [station |-> station, age |-> None]

\* What of the rows is sent fits one packet, or is Refused.
ObsBatch(seq, bot, sent, reports, newest, source) ==
  EncodeObs(seq, bot,
    [ts_min |-> newest \div 60, source |-> source,
     stations |-> [i \in DOMAIN sent |->
       [Row(sent[i], reports[sent[i]]) EXCEPT !.age = newest - reports[sent[i]].at]]])

\* The rows with their own ages, but for the farthest when the ages do not fit
\* beside a full batch, and for those the age nibble cannot date honestly.
LargestBatch(seq, bot, rows, reports, maxAgeMin, source) ==
  LET newestOf(list) == Largest({reports[list[i]].at : i \in DOMAIN list})
      Honest(s) == \/ maxAgeMin <= ObsMaxAgeMin
                   \/ newestOf(rows) - reports[s].at < 60 * 145
      sent(n) == UpTo(SelectSeq(rows, Honest), n)
      batches == [n \in DOMAIN rows |->
        LET size == Len(rows) + 1 - n
        IN ObsBatch(seq, bot, sent(size), reports, newestOf(sent(size)), source)]
  IN FirstMade(batches)

\* The stations, nearest first, or Refused when none has a report.
ObsMessage(seq, bot, now, reports, stations, maxAgeMin, source) ==
  LET Reports(s) ==
        /\ reports[s] # None
        /\ now - reports[s].at <= 60 * maxAgeMin
        /\ EncodeObs(0, 0, [ts_min |-> 0, stations |-> <<Row(s, reports[s])>>,
                            source |-> 0]) # Refused
  IN LargestBatch(seq, bot, SelectSeq(UpTo(stations, MaxStations), Reports), reports,
                  maxAgeMin, source)

\* `>o ICAO`: the station's own report, else the nearest neighbour's; the
\* same walk again for reports that are no longer fresh.  `others` are the
\* listed stations, [station, km].
StationObsMessage(seq, bot, now, reports, icao, others, source) ==
  LET Nearer(a, b) == a.km < b.km
      IsNear(o) == o.station # icao /\ o.km <= ObsSubstituteKm
      near == SortSeq(SelectSeq(others, IsNear), Nearer)
      walk == <<icao>> \o [i \in DOMAIN near |-> near[i].station]
      answer(age) == FirstMade([i \in DOMAIN walk |->
                       ObsMessage(seq, bot, now, reports, <<walk[i]>>, age, source)])
  IN FirstMade(<<answer(ObsMaxAgeMin), answer(ObsStaleMaxAgeMin)>>)

-----------------------------------------------------------------------------
(* Forecast: the days of the nearest point, and the day the product was     *)
(* issued there.  A day after a missing one is dropped.                    *)

ForecastMessage(seq, bot, f) ==
  LET consecutive == {i \in DOMAIN f.daily :
                        f.daily[i].date - f.daily[1].date = i - 1}
      days == UpTo(f.daily, Cardinality(consecutive))
  IN IF f.daily = <<>> THEN Refused
     ELSE EncodeForecast(seq, bot,
            [point |-> f.point, issued_min |-> f.issued_min, source |-> f.source,
             first_period |-> 2 * Clamp(f.daily[1].date - f.issued_date, 0, 365),
             periods |-> UpTo(days, MaxPeriods)])

-----------------------------------------------------------------------------
(* Coverage: the centre or None, the radius, the covered zones and the      *)
(* offices that serve them.                                                *)

CoverageMessage(seq, bot, c) ==
  LET Smaller(a, b) == a < b
      allOffices == SortedOnce(c.offices, Smaller)
      runs == AreasFromUgcs(c.zones)
      zonesCut == Len(runs) > MaxCoverageRuns
      \* The runs of most zones, the first in wire order among equals.
      bigger(k) == {o \in DOMAIN runs : \/ runs[o].run > runs[k].run
                                        \/ runs[o].run = runs[k].run /\ o < k}
      IsKept(k) == Cardinality(bigger(k)) < MaxCoverageRuns
      kept == SelectSeq([k \in DOMAIN runs |-> k], IsKept)
      areas == [n \in DOMAIN kept |-> runs[kept[n]]]
      radius == IF c.center = None \/ c.zones = <<>> THEN 0
                ELSE Clamp(c.radius_km, 0, 65535)
      center == IF c.center = None THEN <<0, 0>> ELSE c.center
  IN IF c.center = None /\ areas = <<>> THEN Refused
     ELSE EncodeCoverage(seq, bot,
            [lat |-> center[1], lon |-> center[2], radius_km |-> radius,
             stations |-> IF radius = 0 THEN 0 ELSE 12,
             offices |-> UpTo(allOffices, MaxCoverageOffices), areas |-> areas,
             zones_cut |-> zonesCut,
             offices_cut |-> Len(allOffices) > MaxCoverageOffices])

-----------------------------------------------------------------------------
(* Area sweep: the active warnings as runs of areas, most severe first.     *)

SweepSigRank(sig) == CASE sig = "W" -> 0 [] sig = "A" -> 1
                       [] sig = "Y" -> 2 [] OTHER -> 3

\* How a warning competes for an area: the more severe, then the newer.
Outranks(v, w) ==
  \/ SweepSigRank(v.sig) < SweepSigRank(w.sig)
  \/ SweepSigRank(v.sig) = SweepSigRank(w.sig) /\ v.onset_min > w.onset_min

SweepEntries(active, advisories) ==
  LET allowed == IF advisories THEN {"W", "A", "Y", "S"} ELSE {"W", "A"}
      eligible == {i \in DOMAIN active : active[i].sig \in allowed
                                         /\ active[i].event # 0}
      IsSwept(u) == u.state # None /\ u.number <= MaxSweepStart
      areas == Joined([i \in DOMAIN active |->
        IF i \in eligible THEN SelectSeq(active[i].ugcs, IsSwept) ELSE <<>>])
      sorted == SortedOnce(areas, AreaOrder)
      \* The event of an area: of the first of those nothing over it outranks.
      best == [k \in DOMAIN sorted |->
        LET over == {i \in eligible : Contains(active[i].ugcs, sorted[k])}
            top == {i \in over : \A j \in over : ~Outranks(active[j], active[i])}
        IN active[CHOOSE i \in top : \A j \in top : i <= j].event]
      following == {k \in 2..Len(sorted) : /\ NextTo(sorted[k - 1], sorted[k])
                                           /\ best[k] = best[k - 1]}
      starts == RunStarts(Len(sorted), following, MaxSweepRun)
      runs == [r \in DOMAIN starts |->
        [event |-> best[starts[r]], state |-> sorted[starts[r]].state,
         county |-> sorted[starts[r]].county, start |-> sorted[starts[r]].number,
         run |-> RunLength(starts, r, Len(sorted))]]
      key(e) == <<SweepSigRank(SigOf(e.event)), e.state, e.start, Num(e.county)>>
      Severer(e, f) == \E k \in 1..4 : /\ key(e)[k] < key(f)[k]
                                       /\ \A j \in 1..(k - 1) : key(e)[j] = key(f)[j]
  IN SortSeq(runs, Severer)

\* Scoped to states when some are named; nothing to say is no packet.
AreaSweepMessages(seq, bot, active, advisories, built, scope, source) ==
  LET InScope(e) == scope = <<>> \/ Contains(scope, e.state)
      entries == SelectSeq(SweepEntries(active, advisories), InScope)
      cut == Len(entries) > MaxSweepEntries - Len(scope)
  IN SweepPackets(seq, bot, built, entries, cut, advisories, source, scope)

-----------------------------------------------------------------------------
(* Text. *)

Utf8(codePoint) ==
  IF codePoint < 128 THEN <<codePoint>>
  ELSE IF codePoint < 2048 THEN <<192 + (codePoint \div 64), 128 + (codePoint % 64)>>
  ELSE <<224 + (codePoint \div 4096), 128 + ((codePoint \div 64) % 64),
         128 + (codePoint % 64)>>

Encoded(text) == Joined([i \in DOMAIN text |-> Utf8(text[i])])

Fits(text) == Len(Chunks(Encoded(text))) <= MaxTextChunks

Space == 32
SentenceEnds == {33, 46, 63}

\* Trimmed to eight chunks: at the last sentence that fits, else at the last
\* word, else anywhere.
FitText(text) ==
  LET longest[range \in Seq(0..Len(text))] ==
        LET low == range[1]
            high == range[2]
            mid == (low + high + 1) \div 2
        IN IF low = high THEN low
           ELSE IF Fits(SubSeq(text, 1, mid)) THEN longest[<<mid, high>>]
           ELSE longest[<<low, mid - 1>>]
      end == longest[<<0, Len(text)>>]
      sentences == {i \in 1..end : text[i] \in SentenceEnds /\ text[i + 1] = Space}
      words == {i \in 0..end : text[i + 1] = Space}
      keep == IF sentences # {} THEN Largest(sentences)
              ELSE IF words # {} THEN Largest(words) ELSE end
      stripped == {i \in 0..keep : i = 0 \/ text[i] # Space}
  IN IF Fits(text) THEN [body |-> text, cut |-> FALSE]
     ELSE [body |-> SubSeq(text, 1, Largest(stripped)), cut |-> TRUE]

TextMessages(seq, bot, subject, text, source) ==
  LET fit == FitText(text)
  IN TextChunks(seq, bot, subject, Encoded(fit.body), source, fit.cut)

\* The letter a refusal names its request by: the first of the word, but `x`
\* for `radar`, whose `r` is `rain`'s.
WordRadar == <<114, 97, 100, 97, 114>>

RequestLetter(word) ==
  IF word = WordRadar THEN 120 ELSE IF word = <<>> THEN 63 ELSE word[1]

-----------------------------------------------------------------------------
(* Radar. *)

\* Bounds of the fine grid as bounds of the coarse one: a coarse cell is
\* known only when all four cells under it are.
CoarseBounds(b) ==
  LET out == <<(b[1] + 1) \div 2, (b[2] - 1) \div 2,
               (b[3] + 1) \div 2, (b[4] - 1) \div 2>>
  IN IF out[1] <= out[2] /\ out[3] <= out[4] THEN out ELSE None

RadarMessage(seq, bot, tile) ==
  LET fine == EncodeRadar(seq, bot, tile)
      bounds == IF tile.bounds = None THEN None ELSE CoarseBounds(tile.bounds)
      coarse == RadarCoarsen(tile.rows)
      rows == IF bounds = None THEN coarse
              ELSE [r \in 1..RadarCoarseGrid |-> [c \in 1..RadarCoarseGrid |->
                      IF Inside(bounds, r, c) THEN coarse[r][c] ELSE 0]]
  IN IF fine # Refused THEN fine
     ELSE IF tile.bounds # None /\ bounds = None THEN Refused
     ELSE EncodeRadar(seq, bot, [tile EXCEPT !.rows = rows, !.bounds = bounds])
=============================================================================
