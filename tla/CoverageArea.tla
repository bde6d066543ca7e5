---------------------------- MODULE CoverageArea ----------------------------
(***************************************************************************)
(* The bot's area, and the phone's reading of it.  protocol/coverage.py    *)
(* builds the area from the operator's settings and fails closed;          *)
(* warnings.py judges by it what the digest lists; MeshWXCoverage,         *)
(* WeatherStateReducer.js and WeatherCoverage.js judge, by the statement   *)
(* of the area alone, what the digest speaks for and what lies outside.    *)
(*                                                                         *)
(* The land is a plane in whole kilometres, a point <<lat, lon>>; an       *)
(* outline, a zone and a county are boxes.  Map projections and the names  *)
(* a place may be written with are left out.                               *)
(***************************************************************************)
EXTENDS WireBuilders

CONSTANTS
  Shapes,   \* where a zone or county lies: [at, box, office] of its UGC code
  Places    \* what a home city may name: [at, ambiguous] of the name

ZoneCodes == {u \in DOMAIN Shapes : ~u.county}
CountyCodes == {u \in DOMAIN Shapes : u.county}
KnownStates == {u.state : u \in ZoneCodes}
KnownOffices == {Shapes[u].office : u \in ZoneCodes}

Aside(x, low, high) == IF x < low THEN low - x ELSE IF x > high THEN x - high ELSE 0
IsWithin(p, q, km) == (p[1] - q[1])^2 + (p[2] - q[2])^2 <= km^2
BoxReaches(box, p, km) ==
  Aside(p[1], box.south, box.north)^2 + Aside(p[2], box.west, box.east)^2 <= km^2
BoxesMeet(a, b) == /\ a.south <= b.north /\ b.south <= a.north
                   /\ a.west <= b.east /\ b.west <= a.east
CodesAt(p) == {u \in DOMAIN Shapes : BoxReaches(Shapes[u].box, p, 0)}

-----------------------------------------------------------------------------
(* Coverage.  `errors` and an area left empty by the settings block it.     *)

NoArea == [zones |-> {}, counties |-> {}, states |-> {}, offices |-> {}, center |-> None,
           radius |-> 0, errors |-> FALSE, national |-> FALSE]

IsPlace(name) == name \in DOMAIN Places /\ ~Places[name].ambiguous

\* The codes whose outline meets the circle.
WithinRadius(codes, center, radius) ==
  IF center = None \/ radius = 0 THEN {}
  ELSE {u \in codes : BoxReaches(Shapes[u].box, center, radius)}

\* A county is an office's when its inside point lies in one of its zones.
CountiesOfOffices(offices) ==
  {u \in CountyCodes :
     \E z \in CodesAt(Shapes[u].at) \cap ZoneCodes : Shapes[z].office \in offices}

FromSources(cities, states, offices, center, radius) ==
  LET ofCities == UNION {CodesAt(Places[c].at) : c \in cities}
      OfState(codes) == {u \in codes : u.state \in states}
  IN [NoArea EXCEPT
        !.zones = (ofCities \cap ZoneCodes) \union WithinRadius(ZoneCodes, center, radius)
                    \union OfState(ZoneCodes)
                    \union {u \in ZoneCodes : Shapes[u].office \in offices},
        !.counties = (ofCities \cap CountyCodes) \union WithinRadius(CountyCodes, center, radius)
                       \union OfState(CountyCodes) \union CountiesOfOffices(offices),
        !.states = states, !.offices = offices, !.center = center,
        !.radius = IF center = None THEN 0 ELSE radius]

\* The circle is the first city's, never that of the one that came next.
BuildFromConfig(s) ==
  LET good == {i \in DOMAIN s.cities : IsPlace(s.cities[i])}
      center == IF 1 \in good THEN Places[s.cities[1]].at ELSE None
      errors == \/ s.mode \notin {"", "area", "national"}
                \/ good # DOMAIN s.cities
                \/ ~(s.states \subseteq KnownStates)
                \/ ~(s.offices \subseteq KnownOffices)
  IN IF s.mode = "national"
     THEN [NoArea EXCEPT !.center = center, !.errors = errors, !.national = TRUE]
     ELSE [FromSources({s.cities[i] : i \in good}, s.states \cap KnownStates,
                       s.offices \cap KnownOffices, center, s.radius)
             EXCEPT !.errors = errors]

Blocked(c) == c.errors \/ (c.zones = {} /\ ~c.national)

\* A build that raises (None) keeps the last good area; without one nothing
\* is sent.
Reloaded(good, built) ==
  CASE built # None -> built
    [] built = None /\ good # None -> good
    [] OTHER -> [NoArea EXCEPT !.errors = TRUE]

-----------------------------------------------------------------------------
(* What is in the area.  A warning has `ugcs`, and an outline or None.      *)

IsStorm(w) == w.outline # None

\* mutation: the counties a storm's outline crosses count as its area
CoversAnyCounty(c, ugcs, byCounty) ==
  c.zones = {} \/ \E u \in ugcs : u \in c.zones \union c.counties \/ u.state \in c.states

CoversAny(c, ugcs, byCounty) ==
  \/ c.zones = {}
  \/ \E u \in ugcs : \/ u \in c.zones
                     \/ byCounty /\ u \in c.counties
                     \/ u.state \in c.states

CoversOutline(c, outline) ==
  \/ c.zones = {}
  \/ IF c.center # None /\ c.radius > 0 THEN BoxReaches(outline, c.center, c.radius)
     ELSE \E u \in c.zones : BoxesMeet(Shapes[u].box, outline)

InCoverage(w, c) ==
  \/ w.ugcs # <<>> /\ CoversAny(c, ToSet(w.ugcs), ~IsStorm(w))
  \/ IsStorm(w) /\ CoversOutline(c, w.outline)

\* extract_active_warnings: an empty area filters nothing.
InForceHere(active, c) ==
  LET IsHere(w) == InCoverage(w, c)
  IN IF c.zones = {} THEN active ELSE SelectSeq(active, IsHere)

-----------------------------------------------------------------------------
(* The scheduled statement of the area; the resolver's home and the set      *)
(* radius stand in for a centre and a radius it has not.                     *)

HomeOf(s) == IF s.cities # <<>> /\ s.cities[1] \in DOMAIN Places
             THEN Places[s.cities[1]].at ELSE None

InAnyOrder(set) ==
  LET Place(e, seq) == <<e>> \o seq
  IN FoldSet(Place, <<>>, set)

CoverageFacts(c, s) ==
  [center |-> IF c.center # None THEN c.center ELSE HomeOf(s),
   radius_km |-> IF c.radius > 0 THEN c.radius ELSE s.radius,
   zones |-> InAnyOrder(c.zones),
   offices |-> InAnyOrder({Shapes[u].office : u \in c.zones} \union c.offices)]

\* Not while the area is blocked: it would state one the bot is not serving.
ScheduledStatement(seq, bot, c, s) ==
  IF Blocked(c) THEN Refused ELSE CoverageMessage(seq, bot, CoverageFacts(c, s))

ScheduledDigest(seq, bot, c, active, now) ==
  IF Blocked(c) THEN Refused
  ELSE DigestMessage(seq, bot, InForceHere(active, c), now, 0, 1)

-----------------------------------------------------------------------------
(* The phone: a statement is a decoded Coverage, or None before one came.   *)

CountyReachKm == 25
AreaReachKm == 25

Centre(m) == IF <<m.lat, m.lon, m.radius_km>> = <<0, 0, 0>> THEN None ELSE <<m.lat, m.lon>>
HasCircle(m) == Centre(m) # None /\ m.radius_km > 0
CircleContains(m, p) == HasCircle(m) /\ IsWithin(p, Centre(m), m.radius_km)
IsComplete(m) == ~m.zones_cut /\ ~m.offices_cut
HasNoAreaFilter(m) == m.offices = <<>> /\ m.areas = <<>> /\ IsComplete(m)

Stated(m) == {u \in ZoneCodes : \E i \in DOMAIN m.areas :
                /\ <<m.areas[i].state, m.areas[i].county>> = <<u.state, u.county>>
                /\ u.number \in m.areas[i].start..(m.areas[i].start + m.areas[i].run - 1)}

\* By the stated runs; an outline by the circle; a county by its centre.
\* Counties on a storm's warning are only those its outline crosses.
TouchesCoverage(w, m) ==
  LET counties == IF IsStorm(w) THEN {} ELSE {u \in ToSet(w.ugcs) : u.county}
      centres == {Shapes[u].at : u \in Stated(m)}
      reach == m.radius_km + CountyReachKm
  IN \/ HasNoAreaFilter(m)
     \/ ToSet(w.ugcs) \cap Stated(m) # {}
     \/ IF IsStorm(w)
        THEN IF HasCircle(m) THEN BoxReaches(w.outline, Centre(m), m.radius_km)
             ELSE \E p \in centres : BoxReaches(w.outline, p, AreaReachKm)
        ELSE \E u \in counties :
               \/ HasCircle(m) /\ IsWithin(Shapes[u].at, Centre(m), reach)
               \/ \E p \in centres : IsWithin(Shapes[u].at, p, AreaReachKm)

\* Whether the absence of a warning from the bot's digest ends it.
DigestSpeaksFor(w, m) == m = None \/ ~IsComplete(m) \/ TouchesCoverage(w, m)

\* A place with an uncertainty, against one statement.
Verdict(m, p, km) ==
  LET codes == {u \in DOMAIN Shapes : BoxReaches(Shapes[u].box, p, km)}
  IN IF HasNoAreaFilter(m) \/ CircleContains(m, p) \/ codes \cap Stated(m) # {} THEN "inside"
     ELSE IF ~IsComplete(m) \/ m.areas = <<>> \/ codes = {} THEN "unknown"
     ELSE "outside"
=============================================================================
