--------------------------- MODULE WeatherAnswers ---------------------------
(***************************************************************************)
(* The answers of bots to this phone and to others, and what the phone makes *)
(* of them (WeatherService.ingest with its reducer, its pairing, its trim      *)
(* and its state file): packets are lost, late, reordered and repeated, missing *)
(* parts are asked for again, and the app is closed at any moment.             *)
(*                                                                          *)
(* A script says what the bots build, in order, and for whom.  How a request   *)
(* gets to its bot is WeatherRequests' part: here it is pending from the tap on. *)
(***************************************************************************)
EXTENDS AnswerPairing

CONSTANTS
  Cases,           \* what the bots build, a sequence of [bot, own, to, packets], and the
                   \* state file that an earlier release has left: [script, file]
  Window,          \* the five minutes of the answer slots
  PartsKept,       \* how long the bot keeps the packets of an answer, 10 min
  MeshDelay,       \* how late the mesh delivers; what is later waited in the radio's queue
  MaxDelay, PacketsPerTick, StartTime, MaxTime, MaxUpsets, MaxReplays   \* bounds

VARIABLES
  now, script,
  built,           \* how many answers of the script are built
  outgoing,        \* the packets of one answer that are still to go out
  nextSeq,         \* bot -> its next seq
  air,             \* what went out: [bot, packet, at]
  states, lastAnswers, pending,     \* WeatherService's
  asked,           \* the answers of the script that this phone asked for
  saving,          \* persist() is waiting for the store
  stored,          \* the store's blob
  known, saved,    \* history: the packets stored when they came, until the limits take
                   \* what they say, and those of them in the blob
  upsets, replays  \* counters of the bounds

botVars == <<built, outgoing, nextSeq, air>>
phoneVars == <<states, lastAnswers, pending, asked, saving, stored, known, saved>>
vars == <<now, script, botVars, phoneVars, upsets, replays>>

ASSUME AnswersAssumption ==
  /\ {Window, PartsKept, MeshDelay, MaxDelay, PacketsPerTick, MaxTime, MaxUpsets, MaxReplays} \subseteq Nat
  /\ StartTime \in 0 .. MaxTime /\ PacketsPerTick < SeqModulus
  /\ \A kept \in {TextRetention, ForecastRetention, ObservationRetention} : Window <= kept

Multi == {"text", "area_sweep"}
NoPackets == [bot |-> Never, group |-> Never, left |-> <<>>]
BotsOf(s) == {s[i].bot : i \in DOMAIN s}

-----------------------------------------------------------------------------
(* The state file *)

FormatVersion == 1
Snapshot(held) == [version |-> FormatVersion, bots |-> held]
FromSnapshot(blob) ==
  IF blob.version # FormatVersion THEN <<>>
  ELSE [b \in DOMAIN blob.bots |-> Decode(blob.bots[b], NewBot)]

ReadBack(blob, at) == FromSnapshot(blob)                                     \* mutation
\* #loadIfNeededUnlocked()
Load(blob, at) ==
  LET held == FromSnapshot(blob) IN [b \in DOMAIN held |-> DropFutureTimes(held[b], at)]

-----------------------------------------------------------------------------
(* What may be in a script and in a file *)

FieldsOf ==
  [observations |-> {"stations", "age"}, forecast |-> {"point", "of", "age"},
   area_sweep |-> {"idx", "total", "scoped", "scope", "cut", "advisories", "entries"},
   radar |-> {"tile", "age", "coarse"}, text |-> {"idx", "total", "subject", "cut", "text"},
   coverage |-> {"says"}, not_available |-> {"letter"}]
IsSaid(m) ==
  /\ m.type \in DOMAIN FieldsOf /\ DOMAIN m = FieldsOf[m.type] \union {"type"}
  /\ "age" \in DOMAIN m => m.age \in Int
  /\ m.type \in Multi => {m.idx, m.total} \subseteq Nat
  /\ m.type = "observations" =>
       IsFiniteSet(DOMAIN m.stations) /\ \A s \in DOMAIN m.stations : {s, m.stations[s]} \subseteq Nat
  /\ m.type = "forecast" => m.point \in Nat
  /\ m.type = "area_sweep" => {m.scoped, m.cut, m.advisories} \subseteq BOOLEAN
  /\ m.type = "radar" => m.tile.square \in Int /\ m.tile.zoom \in Nat /\ m.coarse \in BOOLEAN

IsList(seq) == seq \in Seq(Range(seq))
Maps(s) == {p \in UNION {Range(s[a].packets) : a \in DOMAIN s} : p.type = "area_sweep"}

\* The entries of a map's packet stand for what its bot put on the map: an answer is
\* one map, sent from its first packet on, and packets of one map agree.
IsScript(s) ==
  /\ IsList(s)
  /\ \A a \in DOMAIN s :
       /\ s[a].own => s[a].to.kind # "none"
       /\ IsList(s[a].packets) /\ \A p \in Range(s[a].packets) : IsSaid(p)
       /\ \A p, q \in Range(s[a].packets) :
            p.type = "area_sweep" =>
              q.type = "area_sweep" /\ q.entries = p.entries /\ s[a].packets[1].idx = 0
  /\ \A p, q \in Maps(s) : p.entries = q.entries =>
       /\ p.cut = q.cut /\ p.scoped = q.scoped
       /\ p.idx = 0 /\ q.idx = 0 => p.scope = q.scope

IsForecast(f, at) ==
  /\ DOMAIN f = {"issued", "of", "receivedAt", "requestedHere"}
  /\ {f.issued, f.receivedAt} \subseteq Int /\ f.receivedAt <= at /\ f.requestedHere \in BOOLEAN
IsReading(r) ==
  /\ DOMAIN r = {"timestampMinutes", "receivedAt", "lastBatchMinutes"}
  /\ {r.timestampMinutes, r.receivedAt, r.lastBatchMinutes} \subseteq Int
IsText(t, at) ==
  /\ DOMAIN t = DOMAIN TextAssembly([subject |-> 0, group |-> 0, total |-> 0], 0)
  /\ t.lastReceivedAt \in Int /\ t.lastReceivedAt <= at
IsSweep(x) ==
  /\ DOMAIN x = DOMAIN AreaSweepAssembly([built |-> 0, group |-> 0, total |-> 0, scoped |-> FALSE], 0)
  /\ {x.builtMinutes, x.group, x.lastReceivedAt} \subseteq Int
  /\ {x.wasCut, x.includesAdvisories, x.isScoped, x.scopeKnown} \subseteq BOOLEAN
IsTile(x) ==
  /\ DOMAIN x = {"tile", "taken", "coarse", "receivedAt"}
  /\ {x.taken, x.receivedAt, x.tile.square, x.tile.zoom} \subseteq Int /\ x.coarse \in BOOLEAN
\* What a phone holds of a bot, received by `at`.
IsHeld(state, at) ==
  /\ \A f \in {"forecasts", "observations", "texts"} : IsFiniteSet(DOMAIN state[f])
  /\ \A p \in DOMAIN state.forecasts : p \in Nat /\ IsForecast(state.forecasts[p], at)
  /\ \A s \in DOMAIN state.observations : s \in Nat /\ IsReading(state.observations[s])
  /\ \A g \in DOMAIN state.texts : g \in Nat /\ IsText(state.texts[g], at)
  /\ IsList(state.areaSweeps) /\ \A x \in Range(state.areaSweeps) : IsSweep(x)
  /\ IsList(state.radarTiles) /\ \A x \in Range(state.radarTiles) : IsTile(x)

\* A file has the maps of earlier days, each of one build; its pictures are a list.
IsFile(file, s) ==
  \A b \in DOMAIN FromSnapshot(file) :
    LET state == FromSnapshot(file)[b] IN
    /\ IsHeld(state, StartTime) /\ IsList(FieldOr(file.bots[b], "radarTiles", <<>>))
    /\ \A x \in Range(state.areaSweeps) :
         /\ x.builtMinutes < StartTime
         /\ \A k, l \in DOMAIN x.packets : x.packets[k] = x.packets[l]
         /\ \A k \in DOMAIN x.packets : \A p \in Maps(s) : x.packets[k] # p.entries

ASSUME CasesAssumption ==
  \A case \in Cases : IsScript(case.script) /\ IsFile(case.file, case.script)

Init ==
  /\ now = StartTime
  /\ \E case \in Cases : script = case.script /\ stored = case.file
  /\ built = 0 /\ outgoing = NoPackets /\ nextSeq = [b \in BotsOf(script) |-> 0] /\ air = <<>>
  /\ states = Load(stored, StartTime)
  /\ lastAnswers = <<>> /\ pending = <<>> /\ asked = {} /\ saving = FALSE
  /\ known = {} /\ saved = {} /\ upsets = 0 /\ replays = 0

-----------------------------------------------------------------------------
(* The bots.  What they do meanwhile does not depend on a save, which is over   *)
(* within the minute, so no step but the app's end comes between.               *)

\* A message says its own time, by its bot's clock.
Dated(message) ==
  CASE message.type = "observations" -> Put(message, "ts", now - message.age)
    [] message.type = "forecast"     -> Put(message, "issued", now - message.age)
    [] message.type = "area_sweep"   -> Put(message, "built", now)
    [] message.type = "radar"        -> Put(message, "taken", now - message.age)
    [] OTHER                         -> message

Build ==
  /\ ~saving /\ outgoing.left = <<>> /\ built < Len(script)
  /\ LET answer == script[built + 1] IN
       /\ answer.own => built + 1 \in asked
       /\ outgoing' = [bot |-> answer.bot, group |-> Never,
                       left |-> [i \in DOMAIN answer.packets |-> Dated(answer.packets[i])]]
  /\ built' = built + 1
  /\ UNCHANGED <<now, script, nextSeq, air, phoneVars, upsets, replays>>

SentThisTick == Cardinality({i \in DOMAIN air : air[i].at = now})

\* The group of an answer is the seq its first packet went out with.
Send ==
  /\ ~saving /\ outgoing.left # <<>> /\ SentThisTick < PacketsPerTick
  /\ LET b == outgoing.bot
         first == Head(outgoing.left)
         group == IF outgoing.group = Never THEN nextSeq[b] ELSE outgoing.group
         message == IF first.type \in Multi /\ "group" \notin DOMAIN first
                    THEN Put(first, "group", group) ELSE first
     IN /\ air' = Append(air, [bot |-> b, packet |-> [seq |-> nextSeq[b], message |-> message],
                               at |-> now])
        /\ outgoing' = [outgoing EXCEPT !.group = group, !.left = Tail(outgoing.left)]
        /\ nextSeq' = [nextSeq EXCEPT ![b] = (nextSeq[b] + 1) % SeqModulus]
  /\ UNCHANGED <<now, script, built, phoneVars, upsets, replays>>

\* A `>part`: the same packets again, under new seqs.
Replay(i) ==
  /\ ~saving /\ outgoing.left = <<>> /\ replays < MaxReplays /\ replays' = replays + 1
  /\ pending[i].request.kind = "parts"
  /\ LET wanted == pending[i].request.of
         cached == {k \in DOMAIN air :
                      /\ air[k].bot = pending[i].bot /\ now - air[k].at <= PartsKept
                      /\ air[k].packet.message.type \in Multi
                      /\ air[k].packet.message.group = wanted.group
                      /\ air[k].packet.message.idx \in wanted.indexes}
         indexes == {air[k].packet.message.idx : k \in cached}
         Nth(n) == CHOOSE x \in indexes : Cardinality({y \in indexes : y <= x}) = n
         Cached(x) == CHOOSE k \in cached : air[k].packet.message.idx = x
     IN /\ cached # {}
        /\ outgoing' = [bot |-> pending[i].bot, group |-> wanted.group,
                        left |-> [n \in 1 .. Cardinality(indexes) |->
                                    air[Cached(Nth(n))].packet.message]]
  /\ UNCHANGED <<now, script, built, nextSeq, air, phoneVars, upsets>>

Tick ==
  /\ ~saving /\ now < MaxTime /\ now' = now + 1
  /\ UNCHANGED <<script, botVars, phoneVars, upsets, replays>>

-----------------------------------------------------------------------------
(* The phone *)

AnsweredRecently(request, bot) ==
  \E slot \in AnswerSlots(states, request, bot) \intersect DOMAIN lastAnswers :
    now - lastAnswers[slot].receivedAt < Window

\* A tap: nothing goes out for what has just been received.
Ask(i) ==
  /\ ~saving /\ script[i].own /\ i \notin asked
  /\ ~AnsweredRecently(script[i].to, script[i].bot)
  /\ asked' = asked \union {i}
  /\ pending' = Append(pending, [bot |-> script[i].bot, request |-> script[i].to])
  /\ UNCHANGED <<now, script, botVars, states, lastAnswers, saving, stored, known, saved, upsets, replays>>

\* The offer under an answer with a hole.
PartsMissing(b) ==
  {[group |-> g, indexes |-> MissingIndexes(states[b].texts[g].chunks, states[b].texts[g].total)] :
     g \in DOMAIN states[b].texts}
  \union {[group |-> s.group, indexes |-> MissingIndexes(s.packets, s.total)] :
            s \in Range(states[b].areaSweeps)}
AskParts(b) ==
  /\ ~saving /\ replays < MaxReplays /\ \A i \in DOMAIN pending : pending[i].request.kind # "parts"
  /\ \E parts \in PartsMissing(b) :
       /\ parts.indexes # {}
       /\ pending' = Append(pending, [bot |-> b, request |-> [kind |-> "parts", of |-> parts]])
  /\ UNCHANGED <<now, script, botVars, states, lastAnswers, asked, saving, stored, known, saved, upsets, replays>>

IsLive(i) == now - air[i].at <= MeshDelay

MessageAt(i) == air[i].packet.message
KnownOf(b, type) == {i \in known : air[i].bot = b /\ MessageAt(i).type = type}

\* The states a sweep packet's sweep is about: its first packet says.
ScopeOf(i) ==
  LET first == {j \in DOMAIN air : /\ air[j].bot = air[i].bot /\ MessageAt(j).type = "area_sweep"
                                   /\ MessageAt(j).entries = MessageAt(i).entries /\ MessageAt(j).idx = 0}
  IN UNION {MessageAt(j).scope : j \in first}

\* A sweep no older says all that a packet says, and it if it is of another.
OnMap(sweeps, i) ==
  \E n \in DOMAIN sweeps :
    /\ sweeps[n].builtMinutes >= MessageAt(i).built
    /\ \/ MessageAt(i).entries \in Range(sweeps[n].packets)
       \/ ~sweeps[n].isScoped
       \/ MessageAt(i).scoped /\ \A s \in ScopeOf(i) : CoversState(sweeps[n], s)
\* The picture is held, and as fine.
HasPicture(tiles, i) ==
  \E n \in DOMAIN tiles :
    /\ tiles[n].tile = MessageAt(i).tile /\ tiles[n].taken = MessageAt(i).taken
    /\ tiles[n].coarse => MessageAt(i).coarse

\* What a packet says was not taken by a limit.
WithinLimits(state, i) ==
  LET message == MessageAt(i) IN
  CASE message.type = "forecast" /\ message.point # UnbundledPoint ->
         Held(state.forecasts, message.point)
    [] message.type = "observations" -> DOMAIN message.stations \subseteq DOMAIN state.observations
    [] message.type = "area_sweep" ->
         Len(state.areaSweeps) = MaxAreaSweeps => OnMap(state.areaSweeps, i)
    [] message.type = "radar" ->
         Len(state.radarTiles) = MaxRadarTiles => HasPicture(state.radarTiles, i)
    [] OTHER -> TRUE

\* A packet that is taken in: stored, paired, noted, trimmed, and then saved.
Ingest(i, before) ==
  LET b == air[i].bot
      message == air[i].packet.message
      applied == Apply(before, air[i].packet, now)
      heard == [applied EXCEPT !.lastLiveHeardAt = IF IsLive(i) THEN now ELSE applied.lastLiveHeardAt]
      settled == Settled(heard, pending, message, b)
      held == Put(states, b, Marked(heard, pending, message, settled))
      isAnswer == IsLive(i) /\ ~IsAhead(MessageMinutes(message), now) /\ WasStored(heard, message)
      fills == IF isAnswer THEN Fills(held, b, message, {pending[k].request : k \in settled}) ELSE {}
      Waits(k) == k \notin settled
      AsOf(slot) == IF slot[1] = "station" THEN ReportMinutes(message, slot[3]) ELSE MessageMinutes(message)
      trimmed == [c \in DOMAIN held |-> Trim(held[c], now)]
      new == IF IsAhead(MessageMinutes(message), now) THEN {} ELSE {i}
  IN /\ states' = trimmed
     /\ pending' = [k \in 1 .. Len(pending) - Cardinality(settled) |->
                      pending[CHOOSE l \in DOMAIN pending :
                                Waits(l) /\ Cardinality({m \in 1 .. l : Waits(m)}) = k]]
     /\ lastAnswers' = [slot \in DOMAIN lastAnswers \union fills |->
                          IF slot \in fills THEN [bot |-> slot[2], receivedAt |-> now, contentAsOf |-> AsOf(slot)]
                          ELSE lastAnswers[slot]]
     /\ known' = {k \in known \union new : WithinLimits(trimmed[air[k].bot], k)}
     /\ saving' = TRUE

Deliver(i) ==
  /\ ~saving /\ now - air[i].at <= MaxDelay
  /\ LET b == air[i].bot
         before == IF b \in DOMAIN states THEN states[b] ELSE NewBot
     IN IF IsDuplicate(before, air[i].packet, now)
        THEN UNCHANGED <<states, pending, lastAnswers, known, saving>>
        ELSE Ingest(i, before)
  /\ UNCHANGED <<now, script, botVars, asked, stored, saved, upsets, replays>>

Saved ==
  /\ saving /\ saving' = FALSE
  /\ stored' = Snapshot(states) /\ saved' = known
  /\ UNCHANGED <<now, script, botVars, states, lastAnswers, pending, asked, known, upsets, replays>>

Upset == upsets < MaxUpsets /\ upsets' = upsets + 1

\* A cache that cannot be written is still a cache.
SaveFails ==
  /\ Upset /\ saving /\ saving' = FALSE
  /\ UNCHANGED <<now, script, botVars, states, lastAnswers, pending, asked, stored, known, saved, replays>>

\* The app is closed, and opened again.
Reopen ==
  /\ Upset
  /\ states' = Load(stored, now) /\ lastAnswers' = <<>> /\ pending' = <<>> /\ saving' = FALSE
  /\ known' = saved
  /\ UNCHANGED <<now, script, botVars, asked, stored, saved, replays>>

\* clearState()
Clear(b) ==
  /\ Upset /\ ~saving /\ b \in DOMAIN states
  /\ states' = Restrict(states, DOMAIN states \ {b}) /\ saving' = TRUE
  /\ lastAnswers' = Restrict(lastAnswers, {s \in DOMAIN lastAnswers : lastAnswers[s].bot \notin {b, AnyBot}})
  /\ known' = {i \in known : air[i].bot # b}
  /\ UNCHANGED <<now, script, botVars, pending, asked, stored, saved, replays>>

Next ==
  \/ Tick \/ Build \/ Send \/ Saved \/ SaveFails \/ Reopen
  \/ \E i \in DOMAIN pending : Replay(i)
  \/ \E i \in DOMAIN script : Ask(i)
  \/ \E b \in DOMAIN states : AskParts(b) \/ Clear(b)
  \/ \E i \in DOMAIN air : Deliver(i)

Spec == Init /\ [][Next]_vars
-----------------------------------------------------------------------------
(* Properties *)

\* A map is of one moment (WeatherBotState.js:320, spec 17.4): no assembly holds
\* packets of two builds, and a sweep that any packet called cut is shown as cut.
OneBuildPerMap ==
  \A b \in DOMAIN states : \A n \in DOMAIN states[b].areaSweeps :
    LET sweep == states[b].areaSweeps[n] IN
    /\ \A i, j \in DOMAIN sweep.packets : sweep.packets[i] = sweep.packets[j]
    /\ \A i \in KnownOf(b, "area_sweep") :
         MessageAt(i).cut /\ Held(sweep.packets, MessageAt(i).idx)
           /\ sweep.packets[MessageAt(i).idx] = MessageAt(i).entries => sweep.wasCut

\* A sweep goes only when a newer one says all it says, a picture only when it
\* is old, a fine picture never for a coarse one (reducer:640-651, 1284): what the
\* phone has heard of the country is on its map, as new as it heard it, but for
\* what the limits took.
GroundIsKept ==
  \A b \in DOMAIN states :
    /\ \A i \in KnownOf(b, "area_sweep") : OnMap(states[b].areaSweeps, i)
    /\ \A i \in KnownOf(b, "radar") :
         \/ HasPicture(states[b].radarTiles, i)
         \/ \E n \in DOMAIN states[b].radarTiles :
              states[b].radarTiles[n].taken - MessageAt(i).taken > RadarRetention

\* Nothing rolls back (reducer, apply): what is shown of a point or a station is
\* the newest the phone has heard of it since it holds it, however late the rest
\* comes and however often the app is closed, and a message from ahead of its time
\* never stands for the newest.
NewestIsShown ==
  \A b \in DOMAIN states :
    /\ \A p \in DOMAIN states[b].forecasts :
         /\ ~IsAhead(states[b].forecasts[p].issued, now)
         /\ \A i \in KnownOf(b, "forecast") :
              MessageAt(i).point = p => MessageAt(i).issued <= states[b].forecasts[p].issued
    /\ \A s \in DOMAIN states[b].observations :
         /\ ~IsAhead(states[b].observations[s].timestampMinutes, now)
         /\ \A i \in KnownOf(b, "observations") :
              s \in DOMAIN MessageAt(i).stations
                => ReportMinutes(MessageAt(i), s) <= states[b].observations[s].timestampMinutes

\* The bots whose answer a slot can be.
SlotBots(slot) == IF slot[2] = AnyBot THEN DOMAIN states ELSE {slot[2]} \intersect DOMAIN states

\* A phone that knows this of a bot has the answer of a slot, as new as the slot says.
RepliesOf(state, slot, answer) ==
  {g \in DOMAIN state.texts : /\ state.texts[g].request = slot[3] /\ IsCompleteText(state.texts[g])
                              /\ state.texts[g].lastReceivedAt >= answer.receivedAt}
HoldsAnswer(state, slot, answer) ==
  CASE slot[1] = "station" ->
         /\ Held(state.observations, slot[3])
         /\ state.observations[slot[3]].timestampMinutes >= answer.contentAsOf
         /\ state.observations[slot[3]].receivedAt >= answer.receivedAt
    [] slot[1] = "coverageObservations" ->
         \E s \in DOMAIN state.observations : state.observations[s].receivedAt >= answer.receivedAt
    [] slot[1] = "forecast" ->
         /\ Held(state.forecasts, slot[3])
         /\ state.forecasts[slot[3]].issued >= answer.contentAsOf
         /\ state.forecasts[slot[3]].receivedAt >= answer.receivedAt
    [] slot[1] = "radar" ->
         \E n \in DOMAIN state.radarTiles :
           state.radarTiles[n].tile = slot[3] /\ state.radarTiles[n].taken >= answer.contentAsOf
    [] slot[1] = "areaSweep" ->
         \E n \in DOMAIN state.areaSweeps :
           /\ state.areaSweeps[n].builtMinutes >= answer.contentAsOf
           /\ \A s \in slot[3] : CoversState(state.areaSweeps[n], s)
    [] slot[1] = "text" -> RepliesOf(state, slot, answer) # {}
    [] slot[1] = "coverage" -> state.coverage # NoCoverage
    [] OTHER -> TRUE

\* The limit of what the slot is about is reached, or the picture is old beside another.
LimitTakes(state, slot, answer) ==
  CASE slot[1] \in {"station", "coverageObservations"} ->
         MaxObservations <= Cardinality(DOMAIN state.observations)
    [] slot[1] = "forecast" -> MaxForecasts <= Cardinality(DOMAIN state.forecasts)
    [] slot[1] = "radar" ->
         \/ Len(state.radarTiles) = MaxRadarTiles
         \/ \E n \in DOMAIN state.radarTiles :
              state.radarTiles[n].taken - answer.contentAsOf > RadarRetention
    [] slot[1] = "areaSweep" -> Len(state.areaSweeps) = MaxAreaSweeps
    [] slot[1] = "text" -> MaxTexts <= Cardinality(DOMAIN state.texts)
    [] OTHER -> FALSE

\* A packet makes the reply another's: under its group, or of another request.
PassesOn(old, new, slot, answer) ==
  /\ slot[1] = "text"
  /\ \E g \in RepliesOf(old, slot, answer) \intersect DOMAIN new.texts :
       \E f \in {"request", "subject", "total"} : new.texts[g][f] # old.texts[g][f]

\* What the phone turns a tap away with, it has (#recordAnswer): a slot is filled
\* with what is held, and while it counts what it says stays held, as new as it
\* says and however late the rest comes, but for the limits and for a reply
\* that becomes another's.
AnsweredIsHeld ==
  [][\A slot \in DOMAIN lastAnswers' :
       LET answer == lastAnswers'[slot]
           Has(b) == HoldsAnswer(states'[b], slot, answer) \/ LimitTakes(states'[b], slot, answer)
       IN now' - answer.receivedAt < Window =>
            IF slot \in DOMAIN lastAnswers /\ lastAnswers[slot] = answer
            THEN \A b \in SlotBots(slot) :
                   HoldsAnswer(states[b], slot, answer)
                     => Has(b) \/ PassesOn(states[b], states'[b], slot, answer)
            ELSE \E b \in SlotBots(slot)' : Has(b)]_vars

\* The group byte of a reply has come round to another reply.
IsReused(b, group) ==
  \E i \in DOMAIN air : /\ air[i].bot = b /\ MessageAt(i).type = "text" /\ MessageAt(i).group = group
                        /\ ~Continues(states[b].texts, MessageAt(i))

\* What a screen shows outlives the limits (pruneTexts, pruneForecasts): but for
\* closing the app and clearing the bot, the newest reply of a subject and the
\* newest forecast that answered this phone go only for a newer one that did.
KeepsOwnAnswers ==
  [][upsets' = upsets =>
       \A b \in DOMAIN states :
         LET texts == states[b].texts
             forecasts == states[b].forecasts IN
         /\ \A g \in NewestTexts(texts, OwnTexts(texts)) : ~IsReused(b, g) =>
              \E h \in OwnTexts(states'[b].texts) :
                /\ states'[b].texts[h].subject = texts[g].subject
                /\ states'[b].texts[h].lastReceivedAt >= texts[g].lastReceivedAt
         /\ \A p \in ShownForecastPoints(forecasts) :
              \E q \in DOMAIN states'[b].forecasts :
                /\ states'[b].forecasts[q].requestedHere
                /\ states'[b].forecasts[q].receivedAt >= forecasts[p].receivedAt]_vars
=============================================================================
