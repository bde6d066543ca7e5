------------------------------ MODULE BotWire ------------------------------
(***************************************************************************)
(* The bot's wire codec, protocol/v5.py: one encoder and one decoder per   *)
(* message type.  An encoder is given what the builders give it and        *)
(* returns a packet, or Refused where v5.py raises ValueError.  A decoder  *)
(* returns a record with the names of the code's dictionary, or Unread.    *)
(*                                                                         *)
(* Coordinates are integers in units of 0.0001 degree and pressures in     *)
(* hundredths of an inch, the resolutions of the wire; a temperature or a  *)
(* wind speed is the integer the METAR gives.                              *)
(***************************************************************************)
EXTENDS WireFields

MaxData == 165
MaxSend == 157
MaxTextBytes == MaxSend - 8
MaxTextChunks == 8
PolygonSizes == 3..30
MaxAreaRuns == 30
MaxDigestEntries == 25
MaxStations == 13
MaxPeriods == 14
MaxCoverageOffices == 22
MaxCoverageRuns == 30
MaxRequestText == 40
MinRequestSize == 15
MaxSweepPackets == 8
MaxSweepEntriesPerPacket == 36
MaxSweepEntries == MaxSweepPackets * MaxSweepEntriesPerPacket
MaxSweepRun == 64
MaxSweepStart == 1023
MaxSweepScopeStates == 15
RadarGrid == 32
RadarCoarseGrid == 16
MaxRadarZoom == 3
MaxRadarProduct == 63
LettersUnder256 == 0..255

Source(flags) == flags \div 4
Flags(source, low, next) == Num(low) + 2 * Num(next) + 4 * source

WindDirNibble(degrees) ==
  IF degrees = None THEN 0 ELSE Nearest(2 * degrees, 45) % 16

Header(seq, bot, type, flags) ==
  <<U(1, seq), U(2, bot), U(1, 16 * type + flags)>>

DecodeHeader(p) ==
  [seq |-> p[1], bot |-> UAt(p, 1, 2),
   type |-> p[4] \div 16, flags |-> p[4] % 16]

-----------------------------------------------------------------------------
(* Warning (type 1). *)

\* mutation: deltas between the vertices as given
DeltasOfGiven(polygon) ==
  Each(Len(polygon) - 1, LAMBDA i :
    [axis \in 1..2 |-> S(2, Nearest(polygon[i + 1][axis] - polygon[i][axis], 10))])

\* The fields of the vertices after the first.  A delta is taken against the
\* vertex a decoder has reconstructed, so that rounding never adds up.
PolygonDeltas(polygon) ==
  LET rebuilt[i \in DOMAIN polygon] ==
        IF i = 1 THEN polygon[1]
        ELSE LET last == rebuilt[i - 1]
                 near(axis) ==
                   last[axis] + 10 * Nearest(polygon[i][axis] - last[axis], 10)
             IN <<near(1), near(2)>>
  IN Each(Len(polygon) - 1, LAMBDA i :
       [axis \in 1..2 |->
          S(2, (rebuilt[i + 1][axis] - rebuilt[i][axis]) \div 10)])

EncodePolygon(polygon) ==
  <<U(1, Len(polygon)), S(3, polygon[1][1]), S(3, polygon[1][2])>>
    \o PolygonDeltas(polygon)

EncodeAreas(areas) ==
  <<U(1, Len(areas))>>
    \o Each(Len(areas), LAMBDA i :
         <<Field(1, 0, 255, 128 * Num(areas[i].county) + areas[i].state),
           U(2, areas[i].start), Field(1, 1, 255, areas[i].run)>>)

EncodeWarning(seq, bot, w) ==
  LET before(time) == Clamp(w.expires_min - time, 0, 65535)
      hasIssued == w.issued_min # None
      hasBegins == /\ hasIssued
                   /\ w.begins_min # None
                   /\ w.begins_min > w.issued_min
                   /\ before(w.begins_min) \in 1..(before(w.issued_min) - 1)
      hasPolygon == w.polygon # None
      hasAreas == w.areas # None
  IN IF \/ hasPolygon /\ Len(w.polygon) \notin PolygonSizes
        \/ hasAreas /\ Len(w.areas) \notin 1..MaxAreaRuns
     THEN Refused
     ELSE Sent(
       Header(seq, bot, 1, Flags(w.source, w.update, hasIssued))
       \o <<U(1, w.event), U(1, w.office), U(2, w.etn), U(4, w.expires_min),
            U(1, 64 * w.tornado + 16 * w.flood_source + 4 * w.flood_damage
                 + 2 * Num(hasPolygon) + Num(hasAreas)),
            U(1, w.hail_qin), U(1, w.wind_mph)>>
       \o (IF hasPolygon THEN EncodePolygon(w.polygon) ELSE <<>>)
       \o (IF hasAreas THEN EncodeAreas(w.areas) ELSE <<>>)
       \o (IF hasIssued THEN <<U(2, before(w.issued_min))>> ELSE <<>>)
       \o (IF hasBegins THEN <<U(2, before(w.begins_min))>> ELSE <<>>),
       MaxSend)

\* A block that is read from `at` and ends before `next`.
Absent(at) == [ok |-> TRUE, value |-> None, next |-> at]
CutOff == [ok |-> FALSE, value |-> None, next |-> 0]

DecodePolygon(p, at) ==
  LET n == p[at + 1]
      vertex[i \in 1..n] ==
        IF i = 1 THEN <<SAt(p, at + 1, 3), SAt(p, at + 4, 3)>>
        ELSE LET here == at + 7 + 4 * (i - 2)
                 last == vertex[i - 1]
             IN <<last[1] + 10 * SAt(p, here, 2),
                  last[2] + 10 * SAt(p, here + 2, 2)>>
  IN IF Len(p) < at + 1 \/ Len(p) < at + 7 + 4 * (n - 1)
     THEN CutOff
     ELSE [ok |-> TRUE, value |-> [i \in 1..n |-> vertex[i]],
           next |-> at + 7 + 4 * (n - 1)]

DecodeAreas(p, at) ==
  LET k == p[at + 1]
      run(i) == LET here == at + 1 + 4 * (i - 1)
                IN [state |-> p[here + 1] % 128, county |-> Bit(p[here + 1], 7),
                    start |-> UAt(p, here + 1, 2), run |-> p[here + 4]]
  IN IF Len(p) < at + 1 \/ Len(p) < at + 1 + 4 * k
     THEN CutOff
     ELSE [ok |-> TRUE, value |-> [i \in 1..k |-> run(i)],
           next |-> at + 1 + 4 * k]

\* The two times after the blocks and what is before them.
WarningOf(p, h, polygon, areas) ==
  LET tags == p[13]
      expires == UAt(p, 8, 4)
      hasIssued == Bit(h.flags, 1)
      issuedBefore == UAt(p, areas.next, 2)
      beginsBefore == UAt(p, areas.next + 2, 2)
      hasBegins == /\ hasIssued
                   /\ Len(p) >= areas.next + 4
                   /\ beginsBefore \in 1..(issuedBefore - 1)
  IN IF ~areas.ok \/ (hasIssued /\ Len(p) < areas.next + 2) THEN Unread
     ELSE h @@ [event |-> p[5], office |-> p[6], etn |-> UAt(p, 6, 2),
                expires_min |-> expires,
                tornado |-> tags \div 64, flood_source |-> (tags \div 16) % 4,
                flood_damage |-> (tags \div 4) % 4,
                hail_qin |-> p[14], wind_mph |-> p[15],
                update |-> Bit(h.flags, 0), source |-> Source(h.flags),
                polygon |-> polygon.value, areas |-> areas.value,
                issued_min |-> IF hasIssued THEN expires - issuedBefore ELSE None,
                begins_min |-> IF hasBegins THEN expires - beginsBefore ELSE None]

DecodeWarning(p, h) ==
  LET polygon == IF Bit(p[13], 1) THEN DecodePolygon(p, 15) ELSE Absent(15)
      AreasAfter(block) == IF ~block.ok THEN CutOff
                           ELSE IF Bit(p[13], 0) THEN DecodeAreas(p, block.next)
                           ELSE Absent(block.next)
  IN IF Len(p) < 15 THEN Unread ELSE WarningOf(p, h, polygon, AreasAfter(polygon))

-----------------------------------------------------------------------------
(* Cancel (type 2): the whole flags nibble is the reason.                  *)

EncodeCancel(seq, bot, c) ==
  Sent(Header(seq, bot, 2, c.reason)
       \o <<U(1, c.event), U(1, c.office), U(2, c.etn)>>, MaxSend)

DecodeCancel(p, h) ==
  IF Len(p) < 8 THEN Unread
  ELSE h @@ [event |-> p[5], office |-> p[6], etn |-> UAt(p, 6, 2),
             reason |-> h.flags]

-----------------------------------------------------------------------------
(* Digest (type 3): the one message allowed past MaxSend.                  *)

EncodeDigest(seq, bot, d) ==
  LET entry(i) ==
        LET e == d.entries[i]
        IN <<U(1, e.event), U(1, e.office), U(2, e.etn),
             U(2, Clamp(e.expires_min - d.now_min, 0, 65535))>>
  IN IF Len(d.entries) > MaxDigestEntries THEN Refused
     ELSE Sent(Header(seq, bot, 3, 4 * d.source)
               \o <<U(4, d.now_min), U(1, d.feed_health), U(1, Len(d.entries))>>
               \o Each(Len(d.entries), entry), MaxData)

DecodeDigest(p, h) ==
  LET now == UAt(p, 4, 4)
      entry(i) == LET at == 10 + 6 * (i - 1)
                  IN [event |-> p[at + 1], office |-> p[at + 2],
                      etn |-> UAt(p, at + 2, 2),
                      expires_min |-> now + UAt(p, at + 4, 2)]
  IN IF Len(p) < 10 \/ Len(p) < 10 + 6 * p[10] THEN Unread
     ELSE h @@ [now_min |-> now, feed_health |-> p[9],
                entries |-> [i \in 1..p[10] |-> entry(i)],
                source |-> Source(h.flags)]

-----------------------------------------------------------------------------
(* Observations (type 4).  A station's age is in seconds here, as the      *)
(* builder computes it; the wire has ten-minute steps, the station of odd  *)
(* number (counted from 1) in the low half of its byte.                    *)

AgeNibble(seconds) == Clamp((Nearest(seconds, 60) + 5) \div 10, 0, 15)

EncodeAges(stations) ==
  LET nibble(i) == IF i > Len(stations) THEN 0 ELSE AgeNibble(stations[i].age)
  IN [b \in 1..((Len(stations) + 1) \div 2) |->
        U(1, nibble(2 * b - 1) + 16 * nibble(2 * b))]

EncodeStation(s) ==
  <<U(2, s.station), S(1, Known(s.temp_f, -128)), S(1, Known(s.dewpoint_f, -128)),
    U(1, 16 * WindDirNibble(s.wind_dir_deg) + Known(s.sky, 15)),
    U(1, Known(s.wind_mph, 255)), U(1, Known(s.gust_mph, 0)),
    U(1, Known(s.visibility_mi, 255)),
    IF s.pressure = None THEN U(1, 255) ELSE Field(1, 0, 254, s.pressure - 2900),
    U(1, Known(s.humidity_pct, 255)), S(1, Known(s.feels_delta_f, 0))>>

EncodeObs(seq, bot, o) ==
  LET n == Len(o.stations)
      aged == {i \in 1..n : o.stations[i].age # None}
      allAged == aged = 1..n
  IN IF n \notin 1..MaxStations \/ (aged # {} /\ ~allAged) THEN Refused
     ELSE Sent(Header(seq, bot, 4, Flags(o.source, allAged, FALSE))
               \o <<U(4, o.ts_min), U(1, n)>>
               \o Each(n, LAMBDA i : EncodeStation(o.stations[i]))
               \o (IF allAged THEN EncodeAges(o.stations) ELSE <<>>), MaxSend)

DecodeObs(p, h) ==
  LET n == p[9]
      base == 9 + 11 * n
      aged == Bit(h.flags, 0)
      age(i) == 10 * (IF i % 2 = 1 THEN p[base + (i + 1) \div 2] % 16
                      ELSE p[base + i \div 2] \div 16)
      station(i) ==
        LET at == 9 + 11 * (i - 1)
        IN [station |-> UAt(p, at, 2),
            temp_f |-> KnownUnless(SAt(p, at + 2, 1), -128),
            dewpoint_f |-> KnownUnless(SAt(p, at + 3, 1), -128),
            wind_dir |-> p[at + 5] \div 16, sky |-> p[at + 5] % 16,
            wind_mph |-> KnownUnless(p[at + 6], 255), gust_mph |-> p[at + 7],
            visibility_mi |-> KnownUnless(p[at + 8], 255),
            pressure |-> IF p[at + 9] = 255 THEN None ELSE 2900 + p[at + 9],
            humidity_pct |-> KnownUnless(p[at + 10], 255),
            feels_delta_f |-> SAt(p, at + 10, 1),
            age_min |-> IF aged THEN age(i) ELSE None]
  IN IF \/ Len(p) < 9 \/ Len(p) < base
        \/ aged /\ Len(p) < base + (n + 1) \div 2
     THEN Unread
     ELSE h @@ [ts_min |-> UAt(p, 4, 4),
                stations |-> [i \in 1..n |-> station(i)],
                source |-> Source(h.flags)]

-----------------------------------------------------------------------------
(* Forecast (type 5). *)

EncodePeriod(d) ==
  <<S(1, Known(d.high_f, 127)), S(1, Known(d.low_f, 127)),
    U(1, Known(d.pop_pct, 255)),
    U(1, Known(d.sky, 15) + 16 * Num(d.thunder) + 32 * Num(d.wintry)
         + 64 * Num(d.windy) + 128 * Num(d.fog)),
    U(1, 16 * WindDirNibble(d.wind_dir_deg)
         + (IF d.wind_mph = None THEN 0
            ELSE Clamp(Nearest(d.wind_mph, 5), 0, 15)))>>

EncodeForecast(seq, bot, f) ==
  IF Len(f.periods) \notin 1..MaxPeriods THEN Refused
  ELSE Sent(Header(seq, bot, 5, 4 * f.source)
            \o <<U(2, f.point), U(4, f.issued_min), U(1, f.first_period),
                 U(1, Len(f.periods))>>
            \o Each(Len(f.periods), LAMBDA i : EncodePeriod(f.periods[i])),
            MaxSend)

DecodeForecast(p, h) ==
  LET n == p[12]
      period(i) ==
        LET at == 12 + 5 * (i - 1)
        IN [high_f |-> KnownUnless(SAt(p, at, 1), 127),
            low_f |-> KnownUnless(SAt(p, at + 1, 1), 127),
            pop_pct |-> KnownUnless(p[at + 3], 255),
            sky |-> p[at + 4] % 16,
            thunder |-> Bit(p[at + 4], 4), wintry |-> Bit(p[at + 4], 5),
            windy |-> Bit(p[at + 4], 6), fog |-> Bit(p[at + 4], 7),
            wind_dir |-> p[at + 5] \div 16, wind_mph |-> 5 * (p[at + 5] % 16)]
  IN IF Len(p) < 12 \/ Len(p) < 12 + 5 * n THEN Unread
     ELSE h @@ [point |-> UAt(p, 4, 2), issued_min |-> UAt(p, 6, 4),
                first_period |-> p[11],
                periods |-> [i \in 1..n |-> period(i)],
                source |-> Source(h.flags)]

-----------------------------------------------------------------------------
(* Coverage (type 8). *)

EncodeCoverage(seq, bot, c) ==
  IF \/ Len(c.offices) > MaxCoverageOffices
     \/ Len(c.areas) > MaxCoverageRuns
  THEN Refused
  ELSE Sent(Header(seq, bot, 8, Flags(0, c.zones_cut, c.offices_cut))
            \o <<S(3, c.lat), S(3, c.lon), U(2, c.radius_km), U(1, c.stations),
                 U(1, Len(c.offices))>>
            \o Raw(c.offices) \o EncodeAreas(c.areas), MaxSend)

DecodeCoverage(p, h) ==
  LET n == p[14]
      areas == DecodeAreas(p, 14 + n)
  IN IF Len(p) < 14 \/ Len(p) < 14 + n \/ ~areas.ok THEN Unread
     ELSE h @@ [lat |-> SAt(p, 4, 3), lon |-> SAt(p, 7, 3),
                radius_km |-> UAt(p, 10, 2), stations |-> p[13],
                offices |-> SubSeq(p, 15, 14 + n), areas |-> areas.value,
                zones_cut |-> Bit(h.flags, 0), offices_cut |-> Bit(h.flags, 1)]

-----------------------------------------------------------------------------
(* Text (type 6): a text is its UTF-8 bytes.                               *)

EncodeText(seq, bot, t) ==
  IF \/ t.total \notin 1..MaxTextChunks
     \/ t.idx \notin 0..(t.total - 1)
     \/ Len(t.text) > MaxTextBytes
  THEN Refused
  ELSE Sent(Header(seq, bot, 6, Flags(t.source, t.cut, FALSE))
            \o <<U(1, t.subject), U(1, t.group), U(1, t.idx), U(1, t.total)>>
            \o Raw(t.text), MaxSend)

\* The chunks of a text: each as long as it may be and ending where a code
\* point ends.
Chunks(text) ==
  LET ends(from) == {e \in (from + 1)..(from + MaxTextBytes) :
                       \/ e = Len(text)
                       \/ e < Len(text) /\ ~IsTail(text[e + 1])}
      pieces[from \in 0..Len(text)] ==
        IF from = Len(text) THEN <<>>
        ELSE LET end == CHOOSE e \in ends(from) : \A o \in ends(from) : o <= e
             IN <<SubSeq(text, from + 1, end)>> \o pieces[end]
  IN IF text = <<>> THEN <<text>> ELSE pieces[0]

TextChunks(seqStart, bot, subject, text, source, cut) ==
  LET parts == Chunks(text)
      chunk(i) == [subject |-> subject, group |-> seqStart, idx |-> i - 1,
                   total |-> Len(parts), text |-> parts[i],
                   source |-> source, cut |-> cut]
  IN IF Len(parts) > MaxTextChunks THEN Refused
     ELSE [i \in DOMAIN parts |->
             EncodeText((seqStart + i - 1) % 256, bot, chunk(i))]

DecodeText(p, h) ==
  IF Len(p) < 8 \/ ~IsUtf8(After(p, 8)) THEN Unread
  ELSE h @@ [subject |-> p[5], group |-> p[6], idx |-> p[7], total |-> p[8],
             text |-> After(p, 8), cut |-> Bit(h.flags, 0),
             source |-> Source(h.flags)]

-----------------------------------------------------------------------------
(* Not available (type 7) and Request (type 9), the only message a bot     *)
(* receives.  A letter is its code; `>` is 62.                             *)

EncodeNotAvailable(seq, bot, letter, reason) ==
  IF letter \notin LettersUnder256 THEN Refused
  ELSE Sent(Header(seq, bot, 7, 0) \o <<U(1, letter), U(1, reason)>>, MaxSend)

DecodeNotAvailable(p, h) ==
  IF Len(p) < 6 THEN Unread
  ELSE h @@ [request_code |-> p[5], reason |-> p[6]]

DecodeRequest(p, h) ==
  LET text == After(p, 14)
  IN IF \/ Len(p) < MinRequestSize
        \/ Len(text) > MaxRequestText
        \/ ~IsUtf8(text)
        \/ text[1] # 62
     THEN Unread
     ELSE h @@ [sender |-> SubSeq(p, 5, 10), ts |-> UAt(p, 10, 4),
                text |-> text]

-----------------------------------------------------------------------------
(* Area sweep (type 10). *)

EncodeSweepEntry(e) ==
  <<U(1, e.event), Field(1, 0, 255, 2 * e.state + Num(e.county)),
    U(2, e.start + 1024 * (e.run - 1))>>

EncodeAreaSweep(seq, bot, a) ==
  LET scopeEntry(state) == [event |-> 0, state |-> state, county |-> FALSE,
                            start |-> 0, run |-> 1]
      entries == [i \in DOMAIN a.scope |-> scopeEntry(a.scope[i])] \o a.entries
  IN IF \/ a.total \notin 1..MaxSweepPackets
        \/ a.idx \notin 0..(a.total - 1)
        \/ Len(a.scope) > MaxSweepScopeStates
        \/ Len(entries) > MaxSweepEntriesPerPacket
        \/ \E i \in DOMAIN entries : \/ entries[i].state \notin 0..127
                                     \/ entries[i].start \notin 0..MaxSweepStart
                                     \/ entries[i].run \notin 1..MaxSweepRun
     THEN Refused
     ELSE Sent(Header(seq, bot, 10, Flags(a.source, a.cut, a.advisories))
               \o <<U(4, a.built_min), U(1, a.group), U(1, a.idx),
                    U(1, a.total + 128 * Num(a.scoped \/ a.scope # <<>>))>>
               \o Each(Len(entries), LAMBDA i : EncodeSweepEntry(entries[i])),
               MaxSend)

\* An ordered list of runs as packets: the scope rides on the first, and what
\* is past the room is dropped, which every packet says.
SweepPackets(seqStart, bot, built, entries, cut, advisories, source, scope) ==
  LET room == MaxSweepEntries - Len(scope)
      kept == SubSeq(entries, 1, IF Len(entries) > room THEN room
                                 ELSE Len(entries))
      first == MaxSweepEntriesPerPacket - Len(scope)
      total == 1 + (Clamp(Len(kept) - first, 0, MaxSweepEntries)
                    + MaxSweepEntriesPerPacket - 1)
                   \div MaxSweepEntriesPerPacket
      from(i) == IF i = 1 THEN 1 ELSE first + 36 * (i - 2) + 1
      upTo(i) == LET end == first + 36 * (i - 1)
                 IN IF end > Len(kept) THEN Len(kept) ELSE end
      packet(i) == [built_min |-> built, group |-> seqStart, idx |-> i - 1,
                    total |-> total, entries |-> SubSeq(kept, from(i), upTo(i)),
                    cut |-> cut \/ Len(entries) > room,
                    advisories |-> advisories, source |-> source,
                    scope |-> IF i = 1 THEN scope ELSE <<>>,
                    scoped |-> scope # <<>>]
  IN IF entries = <<>> /\ scope = <<>> THEN <<>>
     ELSE [i \in 1..total |->
             EncodeAreaSweep((seqStart + i - 1) % 256, bot, packet(i))]

DecodeAreaSweep(p, h) ==
  LET n == (Len(p) - 11) \div 4
      entry(i) == LET at == 11 + 4 * (i - 1)
                      packed == UAt(p, at + 2, 2)
                  IN [event |-> p[at + 1], state |-> p[at + 2] \div 2,
                      county |-> Bit(p[at + 2], 0),
                      start |-> packed % 1024, run |-> packed \div 1024 + 1]
      all == [i \in 1..n |-> entry(i)]
      lead == CHOOSE k \in 0..n :
                /\ \A i \in 1..k : all[i].event = 0
                /\ k = n \/ all[k + 1].event # 0
  IN IF Len(p) < 11 THEN Unread
     ELSE h @@ [built_min |-> UAt(p, 4, 4), group |-> p[9], idx |-> p[10],
                total |-> p[11] % 16, scoped |-> Bit(p[11], 7),
                scope |-> [i \in 1..lead |-> all[i].state],
                entries |-> SubSeq(all, lead + 1, n),
                cut |-> Bit(h.flags, 0), advisories |-> Bit(h.flags, 1),
                source |-> Source(h.flags)]

-----------------------------------------------------------------------------
(* Radar (type 11): a grid of levels 0..3, north row first, as a quadtree. *)

RadarCoarsen(rows) ==
  LET level(r, c) == {rows[y][x] : y \in {2 * r - 1, 2 * r},
                                   x \in {2 * c - 1, 2 * c}}
      n == Len(rows) \div 2
  IN [r \in 1..n |-> [c \in 1..n |->
        CHOOSE m \in level(r, c) : \A l \in level(r, c) : l <= m]]

TwoBits(level) == <<level \div 2, level % 2>>

RECURSIVE RadarNode(_, _, _, _)
RadarNode(rows, r, c, size) ==
  LET half == size \div 2
      uniform == \A y \in r..(r + size - 1), x \in c..(c + size - 1) :
                    rows[y][x] = rows[r][c]
  IN IF size = 1 THEN TwoBits(rows[r][c])
     ELSE IF uniform THEN <<0>> \o TwoBits(rows[r][c])
     ELSE <<1>> \o FlattenSeq([k \in 1..4 |->
                     RadarNode(rows, IF k <= 2 THEN r ELSE r + half,
                               IF k \in {1, 3} THEN c ELSE c + half, half)])

RadarPack(rows) == BytesOfBits(RadarNode(rows, 1, 1, Len(rows)))

Inside(bounds, r, c) ==
  r - 1 \in bounds[1]..bounds[2] /\ c - 1 \in bounds[3]..bounds[4]

EncodeRadar(seq, bot, t) ==
  LET size == Len(t.rows)
      partial == t.bounds # None
  IN IF \/ t.zoom \notin 0..MaxRadarZoom
        \/ t.product \notin 0..MaxRadarProduct
        \/ t.south \notin -90..90
        \/ t.west \notin -180..179
        \/ partial /\ \/ ~(0 <= t.bounds[1] /\ t.bounds[1] <= t.bounds[2]
                           /\ t.bounds[2] < size)
                      \/ ~(0 <= t.bounds[3] /\ t.bounds[3] <= t.bounds[4]
                           /\ t.bounds[4] < size)
                      \/ \E r, c \in 1..size : /\ t.rows[r][c] # 0
                                               /\ ~Inside(t.bounds, r, c)
     THEN Refused
     ELSE Sent(Header(seq, bot, 11, Flags(t.source, size = RadarCoarseGrid, partial))
               \o <<U(4, t.taken_min), S(1, t.south), S(2, t.west),
                    U(1, 4 * t.product + t.zoom)>>
               \o (IF partial THEN Raw(t.bounds) ELSE <<>>)
               \o Raw(RadarPack(t.rows)), MaxSend)

\* One node of the tree from bit `at`: its cells and the bit after it, or
\* none where the bits run out.
RECURSIVE RadarUnpack(_, _, _)
RadarUnpack(bits, at, size) ==
  LET half == size \div 2
      leaf(from) == IF Len(bits) < from + 1 THEN CutOff
                    ELSE [ok |-> TRUE, next |-> from + 2,
                          value |-> [r \in 1..size |-> [c \in 1..size |->
                                       2 * bits[from] + bits[from + 1]]]]
      Child(read, k) == IF read[k].ok
                        THEN Append(read, RadarUnpack(bits, read[k].next, half))
                        ELSE Append(read, CutOff)
      \* North-west, north-east, south-west and south-east, after the start.
      Rows(read) ==
        IF ~read[5].ok THEN CutOff
        ELSE [ok |-> TRUE, next |-> read[5].next,
              value |-> [r \in 1..size |->
                IF r <= half THEN read[2].value[r] \o read[3].value[r]
                ELSE read[4].value[r - half] \o read[5].value[r - half]]]
  IN IF size = 1 THEN leaf(at)
     ELSE IF Len(bits) < at THEN CutOff
     ELSE IF bits[at] = 0 THEN leaf(at + 1)
     ELSE Rows(FoldLeft(Child, <<Absent(at + 1)>>, <<1, 2, 3, 4>>))

DecodeRadar(p, h) ==
  LET coarse == Bit(h.flags, 0)
      partial == Bit(h.flags, 1)
      size == IF coarse THEN RadarCoarseGrid ELSE RadarGrid
      bounds == SubSeq(p, 13, 16)
      tree == RadarUnpack(BitsOf(After(p, IF partial THEN 16 ELSE 12)), 1, size)
  IN IF \/ Len(p) < IF partial THEN 17 ELSE 13
        \/ partial /\ ~(/\ bounds[1] <= bounds[2] /\ bounds[2] < size
                        /\ bounds[3] <= bounds[4] /\ bounds[4] < size)
        \/ ~tree.ok
     THEN Unread
     ELSE h @@ [taken_min |-> UAt(p, 4, 4), south |-> SAt(p, 8, 1),
                west |-> SAt(p, 9, 2), zoom |-> p[12] % 4,
                product |-> p[12] \div 4, coarse |-> coarse,
                bounds |-> IF partial THEN bounds ELSE None,
                rows |-> tree.value, source |-> Source(h.flags)]

-----------------------------------------------------------------------------

Decode(p) ==
  LET h == DecodeHeader(p)
  IN IF Len(p) < 4 THEN Unread
     ELSE CASE h.type = 1 -> DecodeWarning(p, h)
            [] h.type = 2 -> DecodeCancel(p, h)
            [] h.type = 3 -> DecodeDigest(p, h)
            [] h.type = 4 -> DecodeObs(p, h)
            [] h.type = 5 -> DecodeForecast(p, h)
            [] h.type = 6 -> DecodeText(p, h)
            [] h.type = 7 -> DecodeNotAvailable(p, h)
            [] h.type = 8 -> DecodeCoverage(p, h)
            [] h.type = 9 -> DecodeRequest(p, h)
            [] h.type = 10 -> DecodeAreaSweep(p, h)
            [] h.type = 11 -> DecodeRadar(p, h)
            [] OTHER -> h

\* Which of n sorted areas begin a run: those that do not follow the area
\* before them, and those that would make the run longer than its limit.
RunStarts(n, following, limit) ==
  LET begins[i \in 1..n] ==
        \/ i \notin following
        \/ /\ i > limit
           /\ (i - limit + 1)..i \subseteq following
           /\ begins[i - limit]
      Begins(i) == begins[i]
  IN SelectSeq([i \in 1..n |-> i], Begins)

\* The length of the k-th of these runs.
RunLength(starts, k, n) ==
  (IF k = Len(starts) THEN n + 1 ELSE starts[k + 1]) - starts[k]

AreaOrder(u, v) ==
  \/ u.state < v.state
  \/ u.state = v.state /\ Num(u.county) < Num(v.county)
  \/ u.state = v.state /\ u.county = v.county /\ u.number < v.number

NextTo(u, v) ==
  u.state = v.state /\ u.county = v.county /\ v.number = u.number + 1

\* UGC codes, here [state |-> the state's index or None, county, number], as
\* runs of consecutive numbers in wire order.  A code of no known state is
\* left out; a run stops at 255 numbers.
AreasFromUgcs(ugcs) ==
  LET IsKnown(u) == u.state # None
      sorted == SortedOnce(SelectSeq(ugcs, IsKnown), AreaOrder)
      following == {i \in 2..Len(sorted) : NextTo(sorted[i - 1], sorted[i])}
      starts == RunStarts(Len(sorted), following, 255)
  IN [k \in DOMAIN starts |->
        [state |-> sorted[starts[k]].state, county |-> sorted[starts[k]].county,
         start |-> sorted[starts[k]].number,
         run |-> RunLength(starts, k, Len(sorted))]]
=============================================================================
