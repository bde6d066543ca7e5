------------------------------ MODULE AppWire ------------------------------
(***************************************************************************)
(* The phone's wire codec: MeshWXDecoder.js, written apart from the bot's, *)
(* and MeshWXEncoder.js, which the phone uses for its requests and the     *)
(* repository's tests for everything else.  Decode gives the object of a   *)
(* packet, Encode the packet of a decoded object.                          *)
(*                                                                         *)
(* Where the code returns an error this returns Unread or Refused; the     *)
(* units are those of BotWire.                                             *)
(***************************************************************************)
EXTENDS WireFields

MaxData == 165
MaxTextBytes == 157
MaxTextChunks == 8
PolygonSizes == 3..30
MaxAreaRuns == 30
MaxDigestEntries == 25
MaxStations == 14
MaxPeriods == 14
MaxCoverageOffices == 24
MaxRequestTextBytes == 40
MaxSweepPackets == 8
MaxSweepEntries == 38
MaxSweepScopeStates == 15
RadarGrid == 32
RadarCoarseGrid == 16

\* Type 2 spends its whole nibble on a reason and states no source.
DataSource(h) == IF h.type = 2 THEN 0 ELSE h.flags \div 4

HeaderOf(p) ==
  [seq |-> p[1], bot |-> UAt(p, 1, 2),
   type |-> p[4] \div 16, flags |-> p[4] % 16]

-----------------------------------------------------------------------------
(* Decoding.  A block is what was read and the offset after it, or Short.  *)

Short == [next |-> -1]
IsShort(block) == block.next = -1
NoBlock(at) == [value |-> None, next |-> at]

DecodeAreas(p, at) ==
  LET count == p[at + 1]
      end == at + 1 + 4 * count
  IN IF Len(p) < at + 1 \/ Len(p) < end THEN Short
     ELSE [next |-> end,
           value |-> [i \in 1..count |->
             LET cursor == at + 4 * i - 3
             IN [state |-> p[cursor + 1] % 128, county |-> Bit(p[cursor + 1], 7),
                 start |-> UAt(p, cursor + 1, 2), run |-> p[cursor + 4]]]]

\* The walk adds whole thousandths to the anchor: nothing is rounded.
DecodePolygon(p, at) ==
  LET count == p[at + 1]
      end == at + 7 + 4 * (count - 1)
      point[i \in 0..(count - 1)] ==
        IF i = 0 THEN <<SAt(p, at + 1, 3), SAt(p, at + 4, 3)>>
        ELSE LET cursor == at + 3 + 4 * i
                 last == point[i - 1]
             IN <<last[1] + 10 * SAt(p, cursor, 2),
                  last[2] + 10 * SAt(p, cursor + 2, 2)>>
  IN IF Len(p) < at + 1 \/ Len(p) < end THEN Short
     ELSE [next |-> end, value |-> [i \in 1..count |-> point[i - 1]]]

\* What follows the blocks, with what was read before them.
AfterBlocks(p, h, polygon, areas) ==
  LET tags == p[13]
      expires == UAt(p, 8, 4)
      end == areas.next
      isIssued == Bit(h.flags, 1)
      issuedBefore == UAt(p, end, 2)
      beginsBefore == UAt(p, end + 2, 2)
  IN IF IsShort(areas) \/ (isIssued /\ Len(p) < end + 2) THEN Unread
     ELSE h @@ [event |-> p[5], office |-> p[6], etn |-> UAt(p, 6, 2),
                expires_min |-> expires,
                tornado |-> (tags \div 64) % 4,
                flood_source |-> (tags \div 16) % 4,
                flood_damage |-> (tags \div 4) % 4,
                hail_qin |-> p[14], wind_mph |-> p[15],
                update |-> Bit(h.flags, 0), source |-> DataSource(h),
                polygon |-> polygon.value, areas |-> areas.value,
                issued_min |-> IF isIssued THEN expires - issuedBefore ELSE None,
                begins_min |-> IF /\ isIssued
                                  /\ Len(p) >= end + 4
                                  /\ beginsBefore > 0
                                  /\ beginsBefore < issuedBefore
                               THEN expires - beginsBefore ELSE None]

DecodeWarning(p, h) ==
  LET polygon == IF Bit(p[13], 1) THEN DecodePolygon(p, 15) ELSE NoBlock(15)
      Areas(block) == IF IsShort(block) THEN Short
                      ELSE IF Bit(p[13], 0) THEN DecodeAreas(p, block.next)
                      ELSE NoBlock(block.next)
  IN IF Len(p) < 15 THEN Unread ELSE AfterBlocks(p, h, polygon, Areas(polygon))

DecodeCancel(p, h) ==
  IF Len(p) < 8 THEN Unread
  ELSE h @@ [event |-> p[5], office |-> p[6], etn |-> UAt(p, 6, 2),
             reason |-> h.flags]

DecodeDigest(p, h) ==
  LET now == UAt(p, 4, 4)
      at(i) == 10 + 6 * (i - 1)
  IN IF Len(p) < 10 \/ Len(p) < 10 + 6 * p[10] THEN Unread
     ELSE h @@ [now_min |-> now, feed_health |-> p[9], source |-> DataSource(h),
                entries |-> [i \in 1..p[10] |->
                  [event |-> p[at(i) + 1], office |-> p[at(i) + 2],
                   etn |-> UAt(p, at(i) + 2, 2),
                   expires_min |-> now + UAt(p, at(i) + 4, 2)]]]

DecodeObservations(p, h) ==
  LET count == p[9]
      end == 9 + 11 * count
      isAged == Bit(h.flags, 0)
      ageByte(i) == p[end + (i - 1) \div 2 + 1]
      age(i) == IF i % 2 = 1 THEN ageByte(i) % 16 ELSE ageByte(i) \div 16
      station(at) ==
        [station |-> UAt(p, at, 2),
         temp_f |-> KnownUnless(SAt(p, at + 2, 1), -128),
         dewpoint_f |-> KnownUnless(SAt(p, at + 3, 1), -128),
         wind_dir |-> p[at + 5] \div 16, sky |-> p[at + 5] % 16,
         wind_mph |-> KnownUnless(p[at + 6], 255), gust_mph |-> p[at + 7],
         visibility_mi |-> KnownUnless(p[at + 8], 255),
         pressure |-> IF p[at + 9] = 255 THEN None ELSE 2900 + p[at + 9],
         humidity_pct |-> KnownUnless(p[at + 10], 255),
         feels_delta_f |-> SAt(p, at + 10, 1)]
  IN IF \/ Len(p) < 9 \/ Len(p) < end
        \/ isAged /\ Len(p) < end + (count + 1) \div 2
     THEN Unread
     ELSE h @@ [ts_min |-> UAt(p, 4, 4), source |-> DataSource(h),
                stations |-> [i \in 1..count |->
                  station(9 + 11 * (i - 1))
                    @@ [age_min |-> IF isAged THEN 10 * age(i) ELSE None]]]

DecodeForecast(p, h) ==
  LET count == p[12]
      period(at) ==
        [high_f |-> KnownUnless(SAt(p, at, 1), 127),
         low_f |-> KnownUnless(SAt(p, at + 1, 1), 127),
         pop_pct |-> KnownUnless(p[at + 3], 255), sky |-> p[at + 4] % 16,
         thunder |-> Bit(p[at + 4], 4), wintry |-> Bit(p[at + 4], 5),
         windy |-> Bit(p[at + 4], 6), fog |-> Bit(p[at + 4], 7),
         wind_dir |-> p[at + 5] \div 16, wind_mph |-> (p[at + 5] % 16) * 5]
  IN IF Len(p) < 12 \/ Len(p) < 12 + 5 * count THEN Unread
     ELSE h @@ [point |-> UAt(p, 4, 2), issued_min |-> UAt(p, 6, 4),
                first_period |-> p[11], source |-> DataSource(h),
                periods |-> [i \in 1..count |-> period(12 + 5 * (i - 1))]]

DecodeText(p, h) ==
  IF Len(p) < 8 \/ ~IsUtf8(After(p, 8)) THEN Unread
  ELSE h @@ [subject |-> p[5], group |-> p[6], idx |-> p[7], total |-> p[8],
             text |-> After(p, 8), cut |-> Bit(h.flags, 0),
             source |-> DataSource(h)]

DecodeNotAvailable(p, h) ==
  IF Len(p) < 6 THEN Unread ELSE h @@ [request_code |-> p[5], reason |-> p[6]]

DecodeCoverage(p, h) ==
  LET officesEnd == 14 + p[14]
      areas == DecodeAreas(p, officesEnd)
  IN IF Len(p) < 14 \/ Len(p) < officesEnd \/ IsShort(areas) THEN Unread
     ELSE h @@ [lat |-> SAt(p, 4, 3), lon |-> SAt(p, 7, 3),
                radius_km |-> UAt(p, 10, 2), stations |-> p[13],
                offices |-> SubSeq(p, 15, officesEnd), areas |-> areas.value,
                zones_cut |-> Bit(h.flags, 0), offices_cut |-> Bit(h.flags, 1)]

\* Neither the first letter nor the length of the text is checked here.
DecodeRequest(p, h) ==
  IF Len(p) < 14 \/ ~IsUtf8(After(p, 14)) THEN Unread
  ELSE h @@ [sender |-> SubSeq(p, 5, 10), ts |-> UAt(p, 10, 4),
             text |-> After(p, 14)]

\* The walk that lifts the leading entries of event 0 out as the scope.
DecodeAreaSweep(p, h) ==
  LET count == (Len(p) - 11) \div 4
      at(i) == 11 + 4 * (i - 1)
      isLeading(i) == \A j \in 1..i : p[at(j) + 1] = 0
      leading == {i \in 1..count : isLeading(i)}
      scoped == Cardinality(leading)
      entry(i) == [event |-> p[at(i) + 1], state |-> p[at(i) + 2] \div 2,
                   county |-> Bit(p[at(i) + 2], 0),
                   start |-> UAt(p, at(i) + 2, 2) % 1024,
                   run |-> UAt(p, at(i) + 2, 2) \div 1024 + 1]
  IN IF Len(p) < 11 THEN Unread
     ELSE h @@ [built_min |-> UAt(p, 4, 4), group |-> p[9], idx |-> p[10],
                total |-> p[11] % 16, scoped |-> Bit(p[11], 7),
                scope |-> [i \in 1..scoped |-> p[at(i) + 2] \div 2],
                entries |-> [i \in 1..(count - scoped) |-> entry(scoped + i)],
                cut |-> Bit(h.flags, 0), advisories |-> Bit(h.flags, 1),
                source |-> DataSource(h)]

RECURSIVE RadarCells(_, _, _)
RadarCells(bits, at, span) ==
  LET half == span \div 2
      take(from) == 2 * bits[from] + bits[from + 1]
      level(from) == IF from + 1 > Len(bits) THEN Short
                     ELSE [next |-> from + 2,
                           value |-> [r \in 1..span |-> [c \in 1..span |-> take(from)]]]
      Kid(before, k) == IF IsShort(before[k]) THEN Append(before, Short)
                        ELSE Append(before, RadarCells(bits, before[k].next, half))
      Whole(kids) ==
        IF IsShort(kids[5]) THEN Short
        ELSE [next |-> kids[5].next,
              value |-> [r \in 1..span |-> [c \in 1..span |->
                LET quarter == 2 + 2 * Num(r > half) + Num(c > half)
                IN kids[quarter].value[r - half * Num(r > half)][c - half * Num(c > half)]]]]
  IN IF span = 1 THEN level(at)
     ELSE IF at > Len(bits) THEN Short
     ELSE IF bits[at] = 0 THEN level(at + 1)
     ELSE Whole(FoldLeft(Kid, <<[next |-> at + 1]>>, <<1, 2, 3, 4>>))

BoundsValid(b, size) ==
  /\ 0 <= b[1] /\ b[1] <= b[2] /\ b[2] < size
  /\ 0 <= b[3] /\ b[3] <= b[4] /\ b[4] < size

\* mutation: the last row and column are left out
BoundsHalfOpen(b, r, c) == b[1] <= r /\ r < b[2] /\ b[3] <= c /\ c < b[4]

BoundsContain(b, r, c) == r \in b[1]..b[2] /\ c \in b[3]..b[4]

DecodeRadar(p, h) ==
  LET isCoarse == Bit(h.flags, 0)
      isPartial == Bit(h.flags, 1)
      size == IF isCoarse THEN RadarCoarseGrid ELSE RadarGrid
      offset == IF isPartial THEN 16 ELSE 12
      bounds == IF isPartial THEN SubSeq(p, 13, 16) ELSE None
      cells == RadarCells(BitsOf(After(p, offset)), 1, size)
  IN IF \/ Len(p) < offset + 1
        \/ isPartial /\ ~BoundsValid(bounds, size)
        \/ IsShort(cells)
     THEN Unread
     ELSE h @@ [taken_min |-> UAt(p, 4, 4), south |-> SAt(p, 8, 1),
                west |-> SAt(p, 9, 2), zoom |-> p[12] % 4,
                product |-> p[12] \div 4, coarse |-> isCoarse,
                bounds |-> bounds, rows |-> cells.value,
                source |-> DataSource(h)]

Decode(p) ==
  LET h == HeaderOf(p)
  IN IF Len(p) < 4 THEN Unread
     ELSE CASE h.type = 1 -> DecodeWarning(p, h)
            [] h.type = 2 -> DecodeCancel(p, h)
            [] h.type = 3 -> DecodeDigest(p, h)
            [] h.type = 4 -> DecodeObservations(p, h)
            [] h.type = 5 -> DecodeForecast(p, h)
            [] h.type = 6 -> DecodeText(p, h)
            [] h.type = 7 -> DecodeNotAvailable(p, h)
            [] h.type = 8 -> DecodeCoverage(p, h)
            [] h.type = 9 -> DecodeRequest(p, h)
            [] h.type = 10 -> DecodeAreaSweep(p, h)
            [] h.type = 11 -> DecodeRadar(p, h)
            [] OTHER -> h

-----------------------------------------------------------------------------
(* Encoding a decoded object: the header, then the body of its type, which *)
(* is Refused when a count is wrong.                                       *)

WriteHeader(m, flags) ==
  <<U(1, m.seq), U(2, m.bot), U(1, 16 * m.type + flags)>>

SourceBits(m) == 4 * m.source

\* `fields`, unless the object has a wrong count.
Counted(ok, fields) == IF ok THEN Sent(fields, MaxData) ELSE Refused

EncodePolygon(polygon) ==
  LET previous[i \in DOMAIN polygon] ==
        IF i = 1 THEN polygon[1]
        ELSE LET last == previous[i - 1]
                 near(axis) ==
                   last[axis] + 10 * Nearest(polygon[i][axis] - last[axis], 10)
             IN <<near(1), near(2)>>
      delta(i, axis) == Nearest(polygon[i][axis] - previous[i - 1][axis], 10)
  IN <<U(1, Len(polygon)), S(3, polygon[1][1]), S(3, polygon[1][2])>>
       \o Each(Len(polygon) - 1, LAMBDA i :
            <<S(2, delta(i + 1, 1)), S(2, delta(i + 1, 2))>>)

EncodeAreas(areas) ==
  <<U(1, Len(areas))>>
    \o Each(Len(areas), LAMBDA i :
         <<Field(1, 0, 255, areas[i].state + 128 * Num(areas[i].county)),
           U(2, areas[i].start), Field(1, 1, 255, areas[i].run)>>)

EncodeWarning(m) ==
  LET before(time) == Clamp(m.expires_min - time, 0, 65535)
      isIssued == m.issued_min # None
      begins == IF isIssued /\ m.begins_min # None
                THEN before(m.begins_min) ELSE 0
  IN Counted(/\ m.polygon = None \/ Len(m.polygon) \in PolygonSizes
             /\ m.areas = None \/ Len(m.areas) \in 1..MaxAreaRuns,
       WriteHeader(m, Num(m.update) + 2 * Num(isIssued) + SourceBits(m))
       \o <<U(1, m.event), U(1, m.office), U(2, m.etn), U(4, m.expires_min),
            U(1, 64 * m.tornado + 16 * m.flood_source + 4 * m.flood_damage
                 + 2 * Num(m.polygon # None) + Num(m.areas # None)),
            U(1, m.hail_qin), U(1, m.wind_mph)>>
       \o (IF m.polygon = None THEN <<>> ELSE EncodePolygon(m.polygon))
       \o (IF m.areas = None THEN <<>> ELSE EncodeAreas(m.areas))
       \o (IF isIssued THEN <<U(2, before(m.issued_min))>> ELSE <<>>)
       \o (IF begins > 0 /\ begins < before(m.issued_min)
           THEN <<U(2, begins)>> ELSE <<>>))

EncodeCancel(m) ==
  Sent(WriteHeader(m, m.reason)
       \o <<U(1, m.event), U(1, m.office), U(2, m.etn)>>, MaxData)

EncodeDigest(m) ==
  Counted(Len(m.entries) <= MaxDigestEntries,
    WriteHeader(m, SourceBits(m))
    \o <<U(4, m.now_min), U(1, m.feed_health), U(1, Len(m.entries))>>
    \o Each(Len(m.entries), LAMBDA i :
         <<U(1, m.entries[i].event), U(1, m.entries[i].office),
           U(2, m.entries[i].etn),
           U(2, Clamp(m.entries[i].expires_min - m.now_min, 0, 65535))>>))

AgeNibble(minutes) == Clamp((minutes + 5) \div 10, 0, 15)

EncodeAges(stations) ==
  LET slot(b) == {i \in DOMAIN stations : (i - 1) \div 2 = b - 1}
  IN [b \in 1..((Len(stations) + 1) \div 2) |->
        U(1, MapThenSumSet(LAMBDA i :
               AgeNibble(stations[i].age_min) * (IF i % 2 = 1 THEN 1 ELSE 16),
               slot(b)))]

EncodeObservations(m) ==
  LET n == Len(m.stations)
      known == Cardinality({i \in 1..n : m.stations[i].age_min # None})
      fields(s) ==
        <<U(2, s.station), S(1, Known(s.temp_f, -128)),
          S(1, Known(s.dewpoint_f, -128)), U(1, 16 * s.wind_dir + s.sky),
          U(1, Known(s.wind_mph, 255)), U(1, s.gust_mph),
          U(1, Known(s.visibility_mi, 255)),
          IF s.pressure = None THEN U(1, 255)
          ELSE Field(1, 0, 254, s.pressure - 2900),
          U(1, Known(s.humidity_pct, 255)), S(1, s.feels_delta_f)>>
  IN Counted(n \in 1..MaxStations /\ known \in {0, n},
       WriteHeader(m, Num(known = n) + SourceBits(m))
       \o <<U(4, m.ts_min), U(1, n)>>
       \o Each(n, LAMBDA i : fields(m.stations[i]))
       \o (IF known = n THEN EncodeAges(m.stations) ELSE <<>>))

EncodeForecast(m) ==
  LET fields(d) ==
        <<S(1, Known(d.high_f, 127)), S(1, Known(d.low_f, 127)),
          U(1, Known(d.pop_pct, 255)),
          U(1, d.sky + 16 * Num(d.thunder) + 32 * Num(d.wintry)
               + 64 * Num(d.windy) + 128 * Num(d.fog)),
          U(1, 16 * d.wind_dir + Clamp(Nearest(d.wind_mph, 5), 0, 15))>>
  IN Counted(Len(m.periods) \in 1..MaxPeriods,
       WriteHeader(m, SourceBits(m))
       \o <<U(2, m.point), U(4, m.issued_min), U(1, m.first_period),
            U(1, Len(m.periods))>>
       \o Each(Len(m.periods), LAMBDA i : fields(m.periods[i])))

EncodeCoverage(m) ==
  Counted(/\ Len(m.offices) <= MaxCoverageOffices
          /\ Len(m.areas) <= MaxAreaRuns,
    WriteHeader(m, Num(m.zones_cut) + 2 * Num(m.offices_cut))
    \o <<S(3, m.lat), S(3, m.lon), U(2, m.radius_km), U(1, m.stations),
         U(1, Len(m.offices))>>
    \o Raw(m.offices) \o EncodeAreas(m.areas))

EncodeText(m) ==
  Counted(/\ m.total \in 1..MaxTextChunks
          /\ m.idx < m.total
          /\ Len(m.text) <= MaxTextBytes,
    WriteHeader(m, Num(m.cut) + SourceBits(m))
    \o <<U(1, m.subject), U(1, m.group), U(1, m.idx), U(1, m.total)>>
    \o Raw(m.text))

EncodeNotAvailable(m) ==
  Sent(WriteHeader(m, 0) \o <<U(1, m.request_code), U(1, m.reason)>>, MaxData)

EncodeRequest(m) ==
  Counted(/\ Len(m.sender) = 6
          /\ Len(m.text) \in 2..MaxRequestTextBytes
          /\ m.text[1] = 62,
    WriteHeader(m, 0) \o Raw(m.sender) \o <<U(4, m.ts)>> \o Raw(m.text))

EncodeAreaSweep(m) ==
  LET n == Len(m.scope)
  IN Counted(/\ m.total \in 1..MaxSweepPackets
             /\ m.idx < m.total
             /\ n <= MaxSweepScopeStates
             /\ n + Len(m.entries) <= MaxSweepEntries,
       WriteHeader(m, Num(m.cut) + 2 * Num(m.advisories) + SourceBits(m))
       \o <<U(4, m.built_min), U(1, m.group), U(1, m.idx),
            U(1, m.total + 128 * Num(m.scoped))>>
       \o Each(n, LAMBDA i :
            <<U(1, 0), Field(1, 0, 254, 2 * m.scope[i]), U(2, 0)>>)
       \o Each(Len(m.entries), LAMBDA i :
            LET e == m.entries[i]
            IN <<U(1, e.event), Field(1, 0, 255, 2 * e.state + Num(e.county)),
                 U(2, e.start + 1024 * (e.run - 1))>>))

RECURSIVE PackRadarCells(_, _, _, _)
PackRadarCells(rows, row, col, size) ==
  LET half == size \div 2
      first == rows[row][col]
      isUniform == \A y \in row..(row + size - 1) :
                     \A x \in col..(col + size - 1) : rows[y][x] = first
      level == <<first \div 2, first % 2>>
  IN CASE size = 1 -> level
       [] size > 1 /\ isUniform -> <<0>> \o level
       [] OTHER -> <<1>> \o Joined([q \in 1..4 |->
                     PackRadarCells(rows, row + half * ((q - 1) \div 2),
                                    col + half * ((q - 1) % 2), half)])

EncodeRadar(m) ==
  LET size == Len(m.rows)
      isPartial == m.bounds # None
  IN Counted(isPartial => /\ BoundsValid(m.bounds, size)
                          /\ \A r, c \in 1..size :
                               \/ m.rows[r][c] = 0
                               \/ BoundsContain(m.bounds, r - 1, c - 1),
       WriteHeader(m, Num(size = RadarCoarseGrid) + 2 * Num(isPartial)
                      + SourceBits(m))
       \o <<U(4, m.taken_min), S(1, m.south), S(2, m.west),
            U(1, 4 * m.product + m.zoom)>>
       \o (IF isPartial THEN Raw(m.bounds) ELSE <<>>)
       \o Raw(BytesOfBits(PackRadarCells(m.rows, 1, 1, size))))

Encode(m) ==
  CASE m.type = 1 -> EncodeWarning(m)
    [] m.type = 2 -> EncodeCancel(m)
    [] m.type = 3 -> EncodeDigest(m)
    [] m.type = 4 -> EncodeObservations(m)
    [] m.type = 5 -> EncodeForecast(m)
    [] m.type = 6 -> EncodeText(m)
    [] m.type = 7 -> EncodeNotAvailable(m)
    [] m.type = 8 -> EncodeCoverage(m)
    [] m.type = 9 -> EncodeRequest(m)
    [] m.type = 10 -> EncodeAreaSweep(m)
    [] m.type = 11 -> EncodeRadar(m)
    [] OTHER -> Refused
=============================================================================
