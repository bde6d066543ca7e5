------------------------- MODULE MCWeatherRequests -------------------------
(* Instances of WeatherRequests for TLC: one tick is five seconds.          *)
EXTENDS WeatherRequests

\* Two taps on one bot: the forecast of a point and the alerts of an area.
MCBotOf == [r \in Requests |-> "b1"]
MCKindOf == [r \in Requests |-> IF r = "r1" THEN "forecast" ELSE "alerts"]
MCBots == {"b1"}

MCKinds == {"forecast", "alerts"}
MCLetterOf == [k \in Kinds |-> IF k = "forecast" THEN "f" ELSE "w"]
MCAnyBotKinds == {"forecast"}
MCAlertKinds == {"alerts"}

\* One message of each effect: a duplicate has none whatever else it is, and
\* a part of an answer differs from it only when heard live.
Effects == {m \in AllMessages :
  /\ m.duplicate => m.type = "answer" /\ m.kind = "alerts" /\ ~m.backlog
  /\ m.type = "partial" => ~m.backlog}
=============================================================================
