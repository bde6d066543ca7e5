--------------------------- MODULE AnswerPairing ---------------------------
(***************************************************************************)
(* WeatherRequest.js: what a phone can ask a bot, the letter a refusal names *)
(* it by, and the answer that settles it.  A request is its kind and what it *)
(* is about: a station, a point, a state, an identity, a coordinate, the      *)
(* states of a sweep (a set), or a group and the indexes wanted of it.  The   *)
(* text of a request is left to BotWire.                                     *)
(*                                                                           *)
(* Which message answers which request (WeatherService.js, WeatherTextMatch), *)
(* what is noted on an answer this phone asked for, and the slots that keep a *)
(* phone from asking for what the channel has just carried.                   *)
(* A text chunk is the reply it is cut from; LiesIn says in which chunks of    *)
(* a reply a word lies.                                                     *)
(***************************************************************************)
EXTENDS AnswerReducer

CONSTANTS
  TileOf,        \* MeshWXRadarTile.containing: the tile of a coordinate
  Whatever,      \* an answer of a kind, about whatever
  LiesIn,        \* reply -> word -> the chunks it lies in
  LeadOf,        \* reply -> its first words: what it opens as, and the station it names
  NamedAreas,    \* identity -> the names of the areas of the warning held, {} for none
  EventName,     \* identity -> the words for its event
  Near           \* by kind, pairs of a place asked for and one near enough to stand in for it

-----------------------------------------------------------------------------
(* What a request expects *)

\* The text subjects of the requests that are answered with text.
SubjectOf ==
  [warningText |-> 0, forecastDiscussion |-> 1, spaceWeather |-> 2, stormReports |-> 3,
   rainfall |-> 4, metar |-> 5, taf |-> 5, hazardousOutlook |-> 6]

\* The first letter of each request's words.
FirstLetter ==
  [digest |-> "d", activeWarnings |-> "w", warning |-> "w", warningsTouching |-> "w",
   warningText |-> "w", observations |-> "o", observation |-> "o", homeForecast |-> "f",
   forecast |-> "f", forecastForPlace |-> "f", forecastAt |-> "f", forecastDiscussion |-> "a",
   spaceWeather |-> "s", stormReports |-> "s", rainfall |-> "r", metar |-> "m", taf |-> "t",
   hazardousOutlook |-> "h", coverage |-> "c", areaSweep |-> "w", parts |-> "p",
   radar |-> "r", radarLoop |-> "r"]

\* A refusal names no argument, so radar has a letter of its own.
RequestLetter(request) ==
  IF request.kind \in {"radar", "radarLoop"} THEN "x" ELSE FirstLetter[request.kind]

\* expectedReply(): the kind of answer and what it must be about.
ExpectedReply(request) ==
  CASE request.kind \in DOMAIN SubjectOf -> [kind |-> "text", of |-> SubjectOf[request.kind]]
    [] request.kind = "observation"      -> [kind |-> "observations", of |-> request.of]
    [] request.kind = "observations"     -> [kind |-> "observations", of |-> Whatever]
    [] request.kind = "forecast"         -> [kind |-> "forecast", of |-> request.of]
    [] request.kind \in {"homeForecast", "forecastForPlace", "forecastAt"}
                                         -> [kind |-> "forecast", of |-> Whatever]
    [] request.kind = "parts"            -> [kind |-> "parts", of |-> request.of.group]
    [] request.kind \in {"radar", "radarLoop"} -> [kind |-> "radar", of |-> TileOf[request.of]]
    [] request.kind = "activeWarnings"   -> [kind |-> "warnings", of |-> Whatever]
    [] OTHER                             -> [kind |-> request.kind, of |-> request.of]

\* What is not about one bot's area or one bot's choice settles whoever sends it.
AcceptsAnswerFromAnyBot(request) ==
  request.kind \in {"forecast", "forecastDiscussion", "stormReports", "rainfall", "metar", "taf",
                    "observation", "warning", "spaceWeather", "radar", "radarLoop"}

-----------------------------------------------------------------------------
(* The words of a reply *)

\* A missing chunk joins nothing: a word is there when all of it is.
ContainsWord(assembly, word) ==
  \E reply \in DOMAIN LiesIn :
    /\ word \in DOMAIN LiesIn[reply]
    /\ \A i \in LiesIn[reply][word] : Held(assembly.chunks, i) /\ assembly.chunks[i] = reply

\* leadWords(): of the first chunk, once it has come.
LeadIs(assembly, opens, station) ==
  /\ Held(assembly.chunks, 0)
  /\ LeadOf[assembly.chunks[0]].opens = opens /\ LeadOf[assembly.chunks[0]].station = station

\* WeatherTextMatch.matches()
TextMatches(request, assembly) ==
  CASE request.kind \in {"metar", "taf"} -> LeadIs(assembly, request.kind, request.of)
    [] request.kind = "warningText" ->
         /\ Held(assembly.chunks, 0)
         /\ LeadOf[assembly.chunks[0]].opens = EventName[request.of]
         /\ \/ NamedAreas[request.of] = {}
            \/ \E name \in NamedAreas[request.of] : ContainsWord(assembly, name)
    [] request.kind \in {"stormReports", "rainfall"} -> ContainsWord(assembly, request.of)
    [] OTHER -> TRUE

-----------------------------------------------------------------------------
(* Whether a message is the answer *)

\* reply(): of the kind asked for, and about what was asked or, from the bot
\* that was asked, about something that stands in for it.
Reply(message, expected, fromAddressedBot) ==
  CASE expected.kind = "warnings"     -> message.type \in {"warning", "digest"}
    [] expected.kind = "warning"      -> message.type = "warning" /\ message.id = expected.of
    [] expected.kind = "warningsTouching" ->
         /\ message.type = "warning"
         /\ expected.of \in message.areas \/ (fromAddressedBot /\ message.mayBeCut)
    [] expected.kind = "observations" ->
         /\ message.type = "observations"
         /\ \/ expected.of = Whatever
            \/ expected.of \in DOMAIN message.stations
            \/ /\ fromAddressedBot /\ Cardinality(DOMAIN message.stations) = 1
               /\ \E s \in DOMAIN message.stations : <<expected.of, s>> \in Near.stations
    [] expected.kind = "forecast"     ->
         /\ message.type = "forecast"
         /\ \/ expected.of = Whatever
            \/ message.point = expected.of
            \/ fromAddressedBot /\ message.point = UnbundledPoint
            \/ fromAddressedBot /\ <<expected.of, message.point>> \in Near.points
    [] expected.kind = "text"         -> message.type = "text" /\ message.subject = expected.of
    [] expected.kind = "areaSweep"    -> message.type = "area_sweep"
    [] expected.kind = "radar"        -> message.type = "radar" /\ message.tile = expected.of
    [] expected.kind = "parts"        ->
         /\ message.type \in {"area_sweep", "text"} /\ fromAddressedBot
         /\ message.group = expected.of
    [] OTHER                          -> message.type = expected.kind

\* #answers(): `state` is the sender's, with the message stored.
Answers(state, message, request, fromAddressedBot) ==
  /\ Reply(message, ExpectedReply(request), fromAddressedBot)
  /\ request.kind = "parts" => message.idx \in request.of.indexes
  /\ request.kind = "forecastAt" =>
       /\ fromAddressedBot
       /\ message.point = UnbundledPoint \/ <<request.of, message.point>> \in Near.coordinates
  /\ message.type = "text" /\ request.kind \notin {"parts", "forecastAt"} =>
       /\ Held(state.texts, message.group)
       /\ TextMatches(request, state.texts[message.group])

-----------------------------------------------------------------------------
(* What is noted on the answer *)

\* A forecast of the bot's choice goes to the first coordinate that asked for one.
FileForecast(state, message, pending, settled) ==
  LET unbundled == state.unbundledForecasts
      own == [unbundled[Unasked] EXCEPT !.requestedHere = TRUE]
      Asked(kind) == {i \in settled : pending[i].request.kind = kind}
      first == CHOOSE i \in Asked("forecastAt") : \A j \in Asked("forecastAt") : i <= j
  IN CASE message.point # UnbundledPoint ->
            IF settled # {} /\ Held(state.forecasts, message.point)
            THEN [state EXCEPT !.forecasts[message.point].requestedHere = TRUE] ELSE state
       [] ~Held(unbundled, Unasked) -> state
       [] Asked("forecastAt") # {} ->
            [state EXCEPT !.unbundledForecasts = RetainUnbundledForecasts(
               Put(Restrict(unbundled, DOMAIN unbundled \ {Unasked}), pending[first].request.of, own))]
       [] Asked("forecastForPlace") # {} ->
            [state EXCEPT !.unbundledForecasts = Put(unbundled, Unasked, own)]
       [] OTHER -> state

\* #markAnswered() for each request settled, in their order: the last one names the
\* answer.  A part fills a hole, and makes nothing this phone's.
Marked(state, pending, message, settled) ==
  LET named == {i \in settled : pending[i].request.kind # "parts"}
      request == pending[CHOOSE i \in named : \A j \in named : j <= i].request
  IN CASE message.type = "forecast" -> FileForecast(state, message, pending, settled)
       [] message.type = "text" /\ named # {} /\ Held(state.texts, message.group) ->
            [state EXCEPT !.texts[message.group].request = request]
       [] message.type = "area_sweep" /\ named # {} ->
            [state EXCEPT !.areaSweeps =
               [i \in DOMAIN state.areaSweeps |->
                  IF /\ state.areaSweeps[i].group = message.group
                     /\ state.areaSweeps[i].builtMinutes = message.built
                  THEN [state.areaSweeps[i] EXCEPT !.request = request] ELSE state.areaSweeps[i]]]
       [] OTHER -> state

\* A refusal settles the oldest request with its letter, of the bot that refuses.
Refused(pending, message, bot) ==
  LET named == {i \in DOMAIN pending : /\ pending[i].bot = bot
                                       /\ RequestLetter(pending[i].request) = message.letter}
  IN {i \in named : \A j \in named : i <= j}

\* #settlePending(): the pending requests, in the order they were asked, that a
\* stored message settles.
Settled(state, pending, message, bot) ==
  IF message.type = "not_available" THEN Refused(pending, message, bot)
  ELSE {i \in DOMAIN pending :
          /\ pending[i].bot = bot \/ AcceptsAnswerFromAnyBot(pending[i].request)
          /\ Answers(state, message, pending[i].request, pending[i].bot = bot)}

-----------------------------------------------------------------------------
(* What the channel has just carried *)

AnyBot == "*"
National == {"*"}

\* The slots a live message fills, once stored and settled: any bot's answer
\* about a thing, or one bot's answer about itself.  `asked` is what it settled.
Fills(states, bot, message, asked) ==
  LET kinds == {r.kind : r \in asked} IN
  CASE message.type = "digest" -> {<<"digest", bot>>, <<"activeWarnings", bot>>}
    [] message.type = "warning" ->
         {<<"activeWarnings", bot>>, <<"warning", AnyBot, message.id>>}
         \union {<<"warningsTouching", bot, ugc>> : ugc \in message.areas}
         \union {<<"warningsTouching", bot, r.of>> : r \in {q \in asked : q.kind = "warningsTouching"}}
    [] message.type = "observations" ->
         LET stored == {s \in DOMAIN message.stations :
                          states[bot].observations[s].timestampMinutes = ReportMinutes(message, s)}
         IN {<<"station", AnyBot, s>> : s \in stored}
            \union (IF stored # {} /\ (Cardinality(DOMAIN message.stations) > 1 \/ "observations" \in kinds)
                    THEN {<<"coverageObservations", bot>>} ELSE {})
    [] message.type = "forecast" /\ message.point # UnbundledPoint ->
         {<<"forecast", AnyBot, message.point>>}
    [] message.type = "area_sweep" /\ (message.idx = 0 \/ ~message.scoped) ->
         {<<"areaSweep", bot, IF message.scoped THEN message.scope ELSE National>>}
    [] message.type = "radar" ->
         IF \E b \in DOMAIN states : \E i \in DOMAIN states[b].radarTiles :
              states[b].radarTiles[i].tile = message.tile /\ states[b].radarTiles[i].taken > message.taken
         THEN {} ELSE {<<"radar", AnyBot, message.tile>>}
    [] message.type = "coverage" -> {<<"coverage", bot>>}
    [] message.type = "text" ->
         LET assembly == states[bot].texts[message.group] IN
         IF assembly.request # NoRequest /\ IsCompleteText(assembly)
         THEN {<<"text", bot, assembly.request>>} ELSE {}
    [] OTHER -> {}

\* A list speaks for an area unless the bot has stated all of its ground, without it.
ListSpeaksFor(state, ugc) ==
  \/ state.coverage = NoCoverage
  \/ ~state.coverage.says.complete
  \/ ugc \in state.coverage.says.areas

\* #answerSlots(): the slots a request looks in before it is sent.
AnswerSlots(states, request, bot) ==
  CASE request.kind \in {"digest", "activeWarnings", "coverage"} -> {<<request.kind, bot>>}
    [] request.kind = "observations" -> {<<"coverageObservations", bot>>}
    [] request.kind = "observation"  -> {<<"station", AnyBot, request.of>>}
    [] request.kind = "forecast"     -> {<<"forecast", AnyBot, request.of>>}
    [] request.kind = "warning"      -> {<<"warning", AnyBot, request.of>>}
    [] request.kind = "warningsTouching" ->
         {<<"warningsTouching", bot, request.of>>}
         \union (IF bot \notin DOMAIN states \/ ListSpeaksFor(states[bot], request.of)
                 THEN {<<"digest", bot>>} ELSE {})
    [] request.kind \in DOMAIN SubjectOf -> {<<"text", bot, request>>}
    [] request.kind = "areaSweep"    ->
         {<<"areaSweep", bot, National>>}
         \union (IF request.of = {} THEN {} ELSE {<<"areaSweep", bot, request.of>>})
    [] request.kind = "radar"        -> {<<"radar", AnyBot, TileOf[request.of]>>}
    [] OTHER                         -> {}
=============================================================================
