--------------------------- MODULE MCWireExchange ---------------------------
(***************************************************************************)
(* What the two sides are given to say.  The limits are the code's own;    *)
(* each family crosses the cases its builder tells apart: a warning that   *)
(* fits whole and one that must be thinned at every step, a digest, batch, *)
(* coverage, sweep and text on both sides of their limit, a radar tile     *)
(* that packs fine, coarse and not at all; an operator's settings of every  *)
(* kind, right and wrong, with warnings about the edge of the area they    *)
(* make; and radar pictures in time, late, damaged and misread.            *)
(***************************************************************************)
EXTENDS WireExchange

Texas == 43
Oklahoma == 36
Now == 29300000

Zone(state, n) == [state |-> state, county |-> FALSE, number |-> n]
County(state, n) == [state |-> state, county |-> TRUE, number |-> n]
Nowhere == [state |-> None, county |-> TRUE, number |-> 3]

\* A county run, and n zones no two of which are neighbours, out of order.
Together(n) == [k \in 1..n |-> County(Texas, 200 + k)]
Scattered(n) == [k \in 1..n |-> Zone(Oklahoma, 2 * (n + 1 - k))]

\* n vertices on two lines, each delta ending in a half of what the wire
\* carries, so that rounding would add up if it could.
Outline(n) == [i \in 1..n |-> <<305000 + 1205 * i, -978005 + 3015 * (i % 2)>>]

MCSigOf(event) == CASE event = 1 -> "W" [] event = 2 -> "A" [] event = 3 -> "Y"
                    [] OTHER -> "S"

MCWarningJobs ==
  {[kind |-> "warning", update |-> up, keep |-> keep,
    warning |-> [event |-> ev, office |-> 32, etn |-> 42, expires_min |-> Now,
                 tornado |-> 2, flood_source |-> 1, flood_damage |-> 2,
                 hail_qin |-> 4, wind_mph |-> 60, source |-> 1,
                 issued_min |-> times[1], onset_min |-> times[2],
                 vertices |-> Outline(n), ugcs |-> ugcs]] :
     up \in {TRUE}, ev \in {1}, n \in {0, 2, 4, 17, 30, 33},
     times \in {<<None, None>>, <<Now - 60, Now - 60>>, <<Now - 600, Now - 30>>,
                <<Now - 70000, Now - 66000>>},
     ugcs \in {<<>>, Together(3) \o <<Nowhere>>, Together(2) \o Scattered(13),
               Together(300) \o Scattered(33)},
     keep \in {{}, {Zone(Oklahoma, 66), County(Texas, 240)}}}

\* Seven warnings, two of them over one county, the last with no number.
MCAskJobs ==
  {[kind |-> "ask", asked |-> asked, now |-> Now, health |-> 3, source |-> 1,
    own |-> {County(Texas, 440), Zone(Oklahoma, 66)}, area |-> area,
    identity |-> <<1, 34, 42>>,
    active |-> [i \in 1..9 |->
      [event |-> IF i = 8 THEN 0 ELSE 1, office |-> 30 + i, etn |-> IF i = 9 THEN None ELSE 42,
       expires_min |-> Now + 10 * i, tornado |-> 0, flood_source |-> 0, flood_damage |-> 0,
       hail_qin |-> 0, wind_mph |-> 0, source |-> 1, issued_min |-> Now - 100,
       onset_min |-> IF i = 2 THEN None ELSE Now - 50 + 7 * ((i * i) % 9),
       vertices |-> Outline(i + n),
       ugcs |-> IF i = 6 THEN Scattered(33) ELSE <<County(Texas, 420 + 5 * i), County(Texas, 440)>>]]] :
     asked \in {"all", "one", "area", "unreadable"}, n \in {0, 20},
     area \in {County(Texas, 450), Zone(Oklahoma, 2), Zone(Texas, 1)}}

MCNamed(i, expires) ==
  [event |-> 1 + (i % 3), office |-> IF i = 7 THEN None ELSE i, etn |-> 100 + i,
   expires_min |-> expires]

MCDigestJobs ==
  {[kind |-> "digest", now |-> Now, health |-> FeedHealth(Now, newest), source |-> 3,
    active |-> [i \in 1..n |-> MCNamed(i, Now + step * (40 - i))]] :
     n \in {0, 6, 25, 26, 30}, step \in {-1, 20, 2000},
     newest \in {None, Now - 9, Now - 5000}}

MCReport(i, at) ==
  [at |-> at, temp_f |-> IF i = 3 THEN None ELSE 40 - 7 * i, dewpoint_f |-> 20 - i,
   wind_dir_deg |-> IF i = 5 THEN None ELSE 37 * i, sky |-> IF i = 4 THEN None ELSE i % 8,
   wind_mph |-> IF i = 2 THEN None ELSE 3 * i, gust_mph |-> IF i = 1 THEN 35 ELSE None,
   visibility_mi |-> 10, humidity_pct |-> 5 * i,
   pressure |-> CASE i = 1 -> 2992 [] i = 2 -> 2880 [] i = 6 -> None [] OTHER -> 3000 + i,
   feels_delta_f |-> IF i = 9 THEN None ELSE i - 5]

\* Reports up to two hours old, spread by `step` seconds; none for station 8.
MCReports(now, first, step) ==
  [s \in 1..14 |-> IF s = 8 THEN None ELSE MCReport(s, now - first - step * s)]

MCObsNow == 1758000000

MCObsJobs ==
  {[kind |-> "obs", now |-> MCObsNow, source |-> 2, stations |-> [i \in 1..n |-> i],
    reports |-> MCReports(MCObsNow, first, step)] :
     n \in {1, 8, 12, 13, 14}, first \in {0, 200, 7500}, step \in {0, 121, 457, 630}}

MCStationJobs ==
  {[kind |-> "station", now |-> MCObsNow, source |-> 2, icao |-> own,
    others |-> [s \in 1..8 |-> [station |-> s, km |-> km * s]],
    reports |-> MCReports(MCObsNow, first, step)] :
     own \in {2, 8}, km \in {4, 12, 30}, first \in {0, 6000, 40000},
     step \in {300, 3000}}

MCForecastJobs ==
  {[kind |-> "forecast",
    forecast |-> [point |-> 312, issued_min |-> Now, issued_date |-> 20348, source |-> 1,
      daily |-> [i \in 1..n |->
        [date |-> 20348 + late + i - (IF i > gap THEN 0 ELSE 1),
         high_f |-> IF i = 2 THEN None ELSE 90 - i, low_f |-> 60 - 20 * i,
         pop_pct |-> IF i = 3 THEN None ELSE 10 * i, sky |-> i % 8,
         thunder |-> i = 2, wintry |-> i = 4, windy |-> FALSE, fog |-> i = 1,
         wind_dir_deg |-> None, wind_mph |-> 5 * i]]]] :
     n \in {0, 1, 5, 7}, late \in {0, 1}, gap \in {2, 9}}

MCCoverageJobs ==
  {[kind |-> "coverage",
    coverage |-> [center |-> center, radius_km |-> radius, offices |-> Reverse([i \in 1..offices |-> i]),
                  zones |-> zones]] :
     center \in {None, <<302700, -977400>>}, radius \in {0, 120, 70000},
     offices \in {0, 2, 22, 23},
     zones \in {<<>>, Together(4) \o <<Nowhere>>, Scattered(30),
                Scattered(31) \o Together(3), Scattered(40) \o Together(260)}}

\* A warning on a stretch of counties, a newer watch and an advisory over part
\* of them, and n separate zones for them to be crowded by.
MCSweepJobs ==
  {[kind |-> "sweep", now |-> Now, source |-> 1, advisories |-> all, scope |-> scope,
    active |->
      << [event |-> 2, sig |-> "A", onset_min |-> 20, ugcs |-> Together(5)],
         [event |-> 1, sig |-> "W", onset_min |-> 10, ugcs |-> Together(2)],
         [event |-> 1, sig |-> "W", onset_min |-> 90,
          ugcs |-> <<County(Texas, 203), Nowhere, Zone(Texas, 1024)>>],
         [event |-> 3, sig |-> "Y", onset_min |-> 99,
          ugcs |-> Scattered(n) \o Together(70)],
         [event |-> 2, sig |-> "A", onset_min |-> 5, ugcs |-> Scattered(2)] >>] :
     all \in {FALSE, TRUE}, scope \in {<<>>, <<Texas>>, <<Oklahoma, Texas>>, <<7>>},
     n \in {0, 34, 36, 283, 290}}

\* Words of four letters between spaces, a sentence end now and then, or one
\* long word of two-byte letters.
MCText(n, style) ==
  [i \in 1..n |->
     IF style = "letters" THEN IF i % 3 = 0 THEN 233 ELSE 97
     ELSE IF i % 5 = 0 THEN Space
     ELSE IF style = "sentences" /\ i % 100 = 99 THEN 46 ELSE 98]

MCTextJobs ==
  {[kind |-> "text", subject |-> 4, source |-> 1, text |-> MCText(n, style)] :
     n \in {1, 149, 150, 300, 1192, 1193}, style \in {"letters"}}
  \cup
  {[kind |-> "text", subject |-> 1, source |-> 2, text |-> MCText(n, style)] :
     n \in {140, 1191, 1200, 1500}, style \in {"words", "sentences"}}

\* A field of one level with patches of the others: few, or one in every cell
\* of a checkerboard, which no tree makes small.
MCRows(pattern, bounds) ==
  [r \in 1..32 |-> [c \in 1..32 |->
     IF bounds # None /\ ~Inside(bounds, r, c) THEN 0
     ELSE CASE pattern = "dry" -> 0
            [] pattern = "storm" -> IF r \in 9..12 /\ c \in 17..20 THEN 3
                                    ELSE IF r \in 5..16 /\ c \in 9..24 THEN 1 ELSE 0
            [] pattern = "noise" -> (r + 2 * c + (r * c) \div 3) % 4
            [] pattern = "spots" -> IF r % 4 = 1 /\ c % 2 = 1 THEN 2 ELSE 0]]

MCRadarJobs ==
  {[kind |-> "radar",
    tile |-> [south |-> 29, west |-> -99, zoom |-> 1, product |-> 5, source |-> 1,
              taken_min |-> Now, bounds |-> bounds, rows |-> MCRows(pattern, bounds)]] :
     pattern \in {"dry", "storm", "noise", "spots"},
     bounds \in {None, <<0, 31, 3, 31>>, <<7, 30, 0, 16>>, <<4, 4, 0, 31>>}}

\* Six zones by four of thirty kilometres, two states side by side, two
\* offices one above the other; the counties lie ten kilometres to the east.
MCSquare(k, east, county) ==
  LET row == (k - 1) \div 6
      col == (k - 1) % 6
      south == 1000 + 30 * row
      west == 2000 + 30 * col + east
  IN [code |-> [state |-> IF col < 3 THEN Texas ELSE Oklahoma, county |-> county, number |-> k],
      shape |-> [at |-> <<south + 15, west + 15>>, office |-> 1 + row \div 2,
                 box |-> [south |-> south, north |-> south + 30, west |-> west,
                          east |-> west + 30]]]
MCSquares == {MCSquare(k, 0, FALSE) : k \in 1..24} \cup {MCSquare(k, 10, TRUE) : k \in 1..24}
MCShapes == [u \in {q.code : q \in MCSquares} |-> (CHOOSE q \in MCSquares : q.code = u).shape]

MCPlaces ==
  [home |-> [at |-> <<1047, 2052>>, ambiguous |-> FALSE],
   next |-> [at |-> <<1101, 2141>>, ambiguous |-> FALSE],
   far |-> [at |-> <<1013, 2172>>, ambiguous |-> FALSE],
   many |-> [at |-> <<1017, 2141>>, ambiguous |-> TRUE]]

MCSettings(cities, states, offices, radius, mode) ==
  [cities |-> cities, states |-> states, offices |-> offices, radius |-> radius, mode |-> mode]
MCSet == {MCSettings(cities, states, offices, radius, mode) :
            cities \in {<<>>, <<"home">>, <<"home", "next">>, <<"many", "next">>, <<"lost">>},
            states \in {{}, {Oklahoma}, {7}}, offices \in {{}, {2}}, radius \in {0, 40},
            mode \in {"", "national"}}

MCOutlined(i, ugcs, outline) == MCNamed(i, Now + 20 * i) @@ [ugcs |-> ugcs, outline |-> outline]
MCBox(south, west, km) == [south |-> south, north |-> south + km, west |-> west, east |-> west + km]
MCHere(k, county) == MCSquare(k, 0, county).code

\* Storms about the edge of the circle with the counties they cross, products
\* of zones and of counties in it, by it and far from it.
MCActive ==
  {<<MCOutlined(1, <<MCHere(3, TRUE), MCHere(9, TRUE)>>, MCBox(1020, 2091, 9)),
     MCOutlined(2, <<MCHere(3, TRUE)>>, MCBox(1002, 2077, 9)),
     MCOutlined(3, <<MCHere(8, FALSE)>>, None),
     MCOutlined(4, <<MCHere(17, FALSE), MCHere(11, FALSE)>>, None),
     MCOutlined(5, <<MCHere(9, TRUE)>>, None),
     MCOutlined(6, <<MCHere(12, TRUE), MCHere(18, TRUE)>>, None)>>,
   <<MCOutlined(8, <<MCHere(24, TRUE)>>, MCBox(1100, 2150, 12)),
     MCOutlined(9, <<>>, MCBox(1030, 2040, 30)),
     MCOutlined(10, <<MCHere(23, TRUE), MCHere(24, TRUE)>>, None),
     MCOutlined(11, <<MCHere(1, FALSE)>>, None),
     MCOutlined(12, <<MCHere(2, TRUE)>>, None),
     MCOutlined(13, <<MCHere(13, FALSE), MCHere(14, TRUE)>>, None)>>}

MCAreaJobs ==
  {[kind |-> "area", before |-> None, raises |-> FALSE, settings |-> s, active |-> active,
    now |-> Now] : s \in MCSet, active \in MCActive}
  \cup
  {[kind |-> "area", before |-> s, raises |-> TRUE, settings |-> s, active |-> active,
    now |-> Now] :
     s \in {MCSettings(cities, {}, {}, 40, "") : cities \in {<<"home">>, <<"many">>}},
     active \in MCActive}

\* A picture of the whole region in quarter degrees and one of a part in
\* twentieths, with a core, a lone light pixel, a map line that hides a stripe
\* and a legend that hides a block.
MCEcho(y, x, shift) ==
  IF x \in 20..21 \/ (y \in 40..44 /\ x \in 2..8) THEN -1
  ELSE IF y \in 13..16 /\ x \in (23 + shift)..(27 + shift) THEN IF y = 14 THEN 3 ELSE 2
  ELSE IF y \in 8..30 /\ x \in 14..34 THEN IF (y + x) % 7 = 0 THEN 0 ELSE 1
  ELSE IF y = 4 /\ x = 40 THEN 1
  ELSE 0
MCLevels(height, width, shift) == [y \in 1..height |-> [x \in 1..width |-> MCEcho(y, x, shift)]]

\* Pictures a quarter of an hour apart, the newest `age` minutes old, received
\* twelve minutes later; the stamp of the second is misread as hours off.
MCFiles(height, width, age, count, lost) ==
  [i \in 1..count |->
     LET taken == Now - age - 15 * (i - 1) - (IF i = 3 THEN 6 ELSE 0)
     IN [taken |-> taken, received |-> taken + (IF i = 4 THEN 40 ELSE 12),
         printed |-> CASE i = 2 -> (taken + 600) % 1440 [] i = 5 -> None [] OTHER -> taken % 1440,
         header |-> IF i = 4 THEN None ELSE taken % 720,
         readable |-> i \notin lost, lines |-> TRUE, levels |-> MCLevels(height, width, i)]]

MCFrame(north, south, west, east, px, calibrated, files) ==
  [north |-> north, south |-> south, west |-> west, east |-> east, px |-> px,
   calibrated |-> calibrated, files |-> files]

\* Of the whole region, and of a part of it with its own edges.
MCWide(calibrated, age, count, lost) ==
  MCFrame(340000, 260000, -1040000, -920000, 2500, calibrated, MCFiles(32, 48, age, count, lost))
MCPart(west, age) ==
  MCFrame(318000, 287000, west, west + 24000, 500, TRUE, MCFiles(62, 48, age, 6, {}))

MCFrames == {<<MCWide(TRUE, 20, 2, {1}), MCPart(-992000, 20)>>,
             <<MCWide(FALSE, 5, 1, {}), MCPart(-981300, 13)>>,
             <<MCWide(TRUE, 10, 3, {1, 2}), MCPart(-992000, 70)>>,
             <<MCWide(TRUE, 58, 5, {1, 2, 3})>>}

\* A picture too ragged for the fine grid of a tile.
MCRagged ==
  LET levels == [y \in 1..62 |-> [x \in 1..48 |-> (y + 2 * x + (y * x) \div 3) % (IF y \in 25..34 THEN 4 ELSE 2)]]
      frame == MCPart(-992000, 20)
  IN [frame EXCEPT !.files = [i \in 1..2 |-> [frame.files[i] EXCEPT !.levels = levels]]]

MCLook(frames, at, zoom, held) ==
  [kind |-> "look", now |-> Now, frames |-> frames,
   ask |-> [lat |-> at[1], lon |-> at[2], zoom |-> zoom, held |-> held]]
MCLookJobs ==
  {MCLook(frames, at, zoom, held) :
     frames \in MCFrames, at \in {<<302711, -977394>>, <<305000, -975000>>}, zoom \in {0, 1, 3},
     held \in {None, {}, {(Now - 20) % 1440}}}
  \cup
  {MCLook(<<MCRagged>>, <<302711, -977394>>, 0, held) : held \in {None, 0..1439}}

\* A place within fifty metres south of the middle between two squares.
MCTieJobs ==
  {[kind |-> "look", now |-> Now, frames |-> <<MCPart(-992000, 20)>>,
    ask |-> [lat |-> lat, lon |-> -977394, zoom |-> 0, held |-> held]] :
     lat \in 304996..304999, held \in {None, {}}}

MCRequestJobs ==
  {[kind |-> "request",
    request |-> [type |-> 9, seq |-> 7, bot |-> bot, flags |-> 0,
                 sender |-> <<1, 2, 250, 4, 5, 6>>, ts |-> MCObsNow,
                 text |-> <<62>> \o [i \in 1..n |-> 97 + (i % 20)]]] :
     bot \in {65535, 513}, n \in {0, 1, 5, 39, 40}}

MCJobs ==
  MCWarningJobs \cup MCAskJobs \cup MCDigestJobs \cup MCObsJobs \cup MCStationJobs
  \cup MCForecastJobs \cup MCCoverageJobs \cup MCSweepJobs \cup MCTextJobs
  \cup MCRadarJobs \cup MCRequestJobs \cup MCAreaJobs \cup MCLookJobs
  \cup {[kind |-> "cancel", cancel |-> [event |-> 1, office |-> 32, etn |-> 65535,
                                        reason |-> reason]] : reason \in 0..2}
  \cup {[kind |-> "refusal", word |-> word, reason |-> 4] :
          word \in {WordRadar, <<114, 97>>, <<>>, <<97>>}}
=============================================================================
