-------------------------- MODULE MCWeatherAnswers --------------------------
(* Instances of WeatherAnswers for TLC: short scripts of one or two bots, and *)
(* a state file of an older release.                                          *)
EXTENDS WeatherAnswers, TLC

Square(n) == [square |-> n, zoom |-> 0]
Text(idx, total, subject, reply) ==
  [type |-> "text", idx |-> idx, total |-> total, subject |-> subject, cut |-> idx = 0, text |-> reply]
Sweep(idx, total, scoped, scope, name) ==
  [type |-> "area_sweep", idx |-> idx, total |-> total, scoped |-> scoped,
   scope |-> IF idx = 0 THEN scope ELSE {}, cut |-> name = "usa1", advisories |-> FALSE, entries |-> name]
Radar(n, age, coarse) == [type |-> "radar", tile |-> Square(n), age |-> age, coarse |-> coarse]
ForecastOf(point, of, age) == [type |-> "forecast", point |-> point, of |-> of, age |-> age]
Batch(stations, age) == [type |-> "observations", stations |-> stations, age |-> age]
Coverage == [type |-> "coverage", says |-> [complete |-> TRUE, areas |-> {"TXC453"}]]
No(letter) == [type |-> "not_available", letter |-> letter]

Others(bot, packets) == [bot |-> bot, own |-> FALSE, to |-> NoRequest, packets |-> packets]
Ours(bot, kind, of, packets) ==
  [bot |-> bot, own |-> TRUE, to |-> [kind |-> kind, of |-> of], packets |-> packets]

KAUS == 1
KATT == 2
KGTU == 3
B == "b1"
C == "b2"

Sweeps ==
  <<Ours(B, "areaSweep", {}, <<Sweep(0, 2, FALSE, {}, "usa1"), Sweep(1, 2, FALSE, {}, "usa1")>>),
    Others(B, <<Sweep(0, 1, TRUE, {"TX"}, "tx")>>),
    Others(B, <<Sweep(0, 1, FALSE, {}, "usa2")>>)>>
Scoped ==
  <<Others(B, <<Sweep(0, 2, TRUE, {"OK"}, "ok"), Sweep(1, 2, TRUE, {"OK"}, "ok")>>),
    Ours(B, "areaSweep", {"TX"}, <<Sweep(0, 1, TRUE, {"TX"}, "tx")>>)>>
Wider ==
  <<Ours(B, "areaSweep", {"TX"}, <<Sweep(0, 1, TRUE, {"TX"}, "tx")>>),
    Others(B, <<Sweep(0, 1, TRUE, {"TX", "OK"}, "txok")>>)>>
Pictures ==
  <<Others(B, <<Radar(1, 0, TRUE)>>), Ours(B, "radar", "home", <<Radar(1, 0, FALSE)>>),
    Others(C, <<Radar(1, 1, FALSE), Radar(2, 2, FALSE)>>), Others(C, <<Radar(1, -3, FALSE)>>)>>
Readings ==
  <<Others(B, <<Batch((KAUS :> 0 @@ KATT :> 2), 0)>>), Ours(B, "observation", KAUS, <<Batch(KAUS :> 0, 0)>>),
    Others(C, <<Batch(KATT :> 1, 0)>>), Others(B, <<Batch(KAUS :> 0 @@ KGTU :> 1, -3)>>)>>
Points ==
  <<Others(B, <<ForecastOf(101, "a", 1)>>), Ours(B, "forecast", 102, <<ForecastOf(102, "b", 1)>>),
    Others(B, <<ForecastOf(102, "b", 0), ForecastOf(103, "c", 0)>>), Others(B, <<ForecastOf(102, "b", 2)>>)>>
Places ==
  <<Ours(B, "forecastAt", "a", <<ForecastOf(UnbundledPoint, "a", 0)>>), Others(B, <<Coverage>>),
    Ours(B, "forecastForPlace", "town", <<No("f")>>)>>
Texts ==
  <<Ours(B, "metar", "KAUS", <<Text(0, 1, 5, "metarKAUS")>>), Others(B, <<Text(0, 1, 5, "tafKAUS")>>),
    Ours(B, "rainfall", "TX", <<Text(0, 2, 4, "rainTX"), Text(1, 2, 4, "rainTX")>>)>>
Fresh == [version |-> 0, bots |-> <<>>]
\* A sweep of its own, a bot-chosen forecast among the points, numbers without
\* fingerprints, a detail tile and a picture from the future.
Old ==
  [version |-> FormatVersion,
   bots |-> [b1 |->
     [lastSeq |-> 5, recentSeqs |-> <<4, 5>>, lastHeardAt |-> 9,
      forecasts |-> (UnbundledPoint :> [issued |-> 9, of |-> "a", receivedAt |-> 9, requestedHere |-> FALSE]),
      areaSweep |-> [builtMinutes |-> 9, group |-> 0, total |-> 2, packets |-> (1 :> "usa0"),
                     lastReceivedAt |-> 9, wasCut |-> FALSE, includesAdvisories |-> FALSE,
                     isScoped |-> FALSE, scopeKnown |-> TRUE, scope |-> {}, request |-> NoRequest],
      observations |-> (KAUS :> [timestampMinutes |-> 15, receivedAt |-> 9, lastBatchMinutes |-> 15]),
      radarTiles |-> <<[tile |-> Square(1), taken |-> 15, coarse |-> FALSE, receivedAt |-> 9],
                       [tile |-> [square |-> 1, zoom |-> -1], taken |-> 9, coarse |-> FALSE, receivedAt |-> 9]>>]]]
Cased(scripts, file) == {[script |-> s, file |-> file] : s \in scripts}
MainCases == Cased({Sweeps, Scoped, Wider, Pictures, Readings, Points, Places, Texts}, Fresh)
             \union Cased({Wider}, Old)

MCTileOf == [home |-> Square(1)]
MCLiesIn == [rainTX |-> [TX |-> {0, 1}], rainOK |-> [OK |-> {0}], metarKAUS |-> <<>>, tafKAUS |-> <<>>]
MCLeadOf ==
  [metarKAUS |-> [opens |-> "metar", station |-> "KAUS"], tafKAUS |-> [opens |-> "taf", station |-> "KAUS"]]
MCNear == [stations |-> {<<KAUS, KATT>>}, points |-> {<<102, 103>>}, coordinates |-> {<<"a", 101>>}]
=============================================================================
