-------------------------- MODULE WeatherBotState --------------------------
(***************************************************************************)
(* WeatherBotState.js: what a phone holds of one bot besides its warnings,   *)
(* as records, and how the records read back from a state file of this or an *)
(* older release.  A dictionary is a function on the keys it holds.  Where   *)
(* the bot had a product from and the label of a request are left out.       *)
(***************************************************************************)
EXTENDS Integers, Sequences, FiniteSets, Functions

Never == -1
NoRequest == [kind |-> "none"]
NoCoverage == [receivedAt |-> Never]

\* A point the bot chose, with no index in the bundle (0xFFFF), and the slot of
\* the forecast for a question nobody here asked.
UnbundledPoint == 65535
Unasked == "?"

Held(dictionary, key) == key \in DOMAIN dictionary
Put(dictionary, key, value) ==
  [k \in DOMAIN dictionary \union {key} |-> IF k = key THEN value ELSE dictionary[k]]

\* Those members of a sequence that stand at the places `kept`, in the order that
\* `before`, a set of pairs of places, puts them in; and as they stand.
InOrder(seq, kept, before) ==
  LET Rank(i) == Cardinality({j \in kept : <<j, i>> \in before}) + 1
  IN [n \in 1 .. Cardinality(kept) |-> seq[CHOOSE i \in kept : Rank(i) = n]]
Those(seq, kept) == InOrder(seq, kept, {p \in kept \X kept : p[1] < p[2]})
\* Sorting keeps what `Before` does not tell apart as it stands.
Sorting(seq, Before(_, _)) ==
  {p \in (DOMAIN seq) \X (DOMAIN seq) :
     \/ Before(seq[p[1]], seq[p[2]])
     \/ ~Before(seq[p[2]], seq[p[1]]) /\ p[1] < p[2]}
AtMost(seq, limit) == SubSeq(seq, 1, IF Len(seq) <= limit THEN Len(seq) ELSE limit)

NewAnswers ==
  [observations |-> <<>>, forecasts |-> <<>>, unbundledForecasts |-> <<>>, texts |-> <<>>,
   coverage |-> NoCoverage, areaSweeps |-> <<>>, radarTiles |-> <<>>, lastLiveHeardAt |-> Never]

-----------------------------------------------------------------------------
(* Answers of several packets *)

TextAssembly(chunk, receivedAt) ==
  [subject |-> chunk.subject, group |-> chunk.group, total |-> chunk.total, chunks |-> <<>>,
   lastReceivedAt |-> receivedAt, request |-> NoRequest, wasCut |-> FALSE]

\* The scope of a scoped sweep is known from its first packet on.
AreaSweepAssembly(sweep, receivedAt) ==
  [builtMinutes |-> sweep.built, group |-> sweep.group, total |-> sweep.total, packets |-> <<>>,
   lastReceivedAt |-> receivedAt, wasCut |-> FALSE, includesAdvisories |-> FALSE,
   isScoped |-> sweep.scoped, scopeKnown |-> ~sweep.scoped, scope |-> {}, request |-> NoRequest]

MissingIndexes(parts, total) == (0 .. total - 1) \ DOMAIN parts
IsCompleteText(assembly) ==
  assembly.total > 0 /\ MissingIndexes(assembly.chunks, assembly.total) = {}

\* Whether a sweep is a word on a state at all.
CoversState(assembly, state) ==
  ~assembly.isScoped \/ (assembly.scopeKnown /\ state \in assembly.scope)

\* All but the detail tiles, of a level that was tried and removed.
IsKeptTile(stored) == stored.tile.zoom >= 0
KeptTiles(tiles) == {i \in DOMAIN tiles : IsKeptTile(tiles[i])}

-----------------------------------------------------------------------------
(* Reading a state file *)

\* A field an older release did not write reads as its default.
FieldOr(json, field, default) == IF field \in DOMAIN json THEN json[field] ELSE default

\* decode(): one sweep under `areaSweep` before a bot could hold several; a
\* bot-chosen forecast under the sentinel point before it had a slot; bare
\* numbers of the last messages before they had fingerprints.
Decode(json, new) ==
  LET forecasts == FieldOr(json, "forecasts", <<>>)
      stranded == Held(forecasts, UnbundledPoint)
      unbundled == FieldOr(json, "unbundledForecasts", <<>>)
  IN [f \in DOMAIN new |->
        CASE f = "forecasts" -> Restrict(forecasts, DOMAIN forecasts \ {UnbundledPoint})
          [] f = "unbundledForecasts" ->
               IF stranded /\ ~Held(unbundled, Unasked)
               THEN Put(unbundled, Unasked, forecasts[UnbundledPoint]) ELSE unbundled
          [] f = "areaSweeps" /\ "areaSweeps" \notin DOMAIN json ->
               IF "areaSweep" \in DOMAIN json THEN <<json.areaSweep>> ELSE <<>>
          [] f = "recentMessages" /\ "recentMessages" \notin DOMAIN json ->
               [i \in DOMAIN FieldOr(json, "recentSeqs", <<>>) |->
                  [seq |-> json.recentSeqs[i], message |-> [type |-> "unknown"]]]
          [] f = "radarTiles" ->
               LET tiles == FieldOr(json, f, <<>>) IN Those(tiles, KeptTiles(tiles))
          [] OTHER -> FieldOr(json, f, new[f])]
=============================================================================
