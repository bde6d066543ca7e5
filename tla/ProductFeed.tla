---------------------------- MODULE ProductFeed ----------------------------
(***************************************************************************)
(* How the bot comes to hold the products it answers from (emwin/fetcher.py *)
(* and main.py's refresh): a source polls its feed, NOAA's bundles with a   *)
(* cache file behind them or the dish's directory, lets the fill take what  *)
(* is late, and hands its copies to the weather store.  The bot may crash   *)
(* at any await, a write may fail or be torn, any request may fail.         *)
(*                                                                          *)
(* Time counts polls.  A bundle always holds products besides those of the  *)
(* script, so none is empty; the dish's files stay on its disk.             *)
(***************************************************************************)
EXTENDS ActiveWarnings, ProductFill

CONSTANTS
  Scripts,                    \* what NWS issues, and when the feed airs it
  Sources,                    \* which feeds: "internet", "sdr"
  HourWindow, PollWindow,     \* what the two bundles hold
  HourEvery,                  \* how often the hour's is taken regardless
  MaxBackoff,
  FeedKeysKept,
  CompactFactor, CompactSlack,
  Horizon, MaxFaults,         \* bounds: time, and what goes wrong
  FirstStarts                 \* when the bot is first started

ASSUME FeedAssumption ==
  /\ Sources \subseteq {"internet", "sdr"}
  /\ {HourWindow, PollWindow, HourEvery, MaxBackoff, FeedKeysKept, CompactFactor,
      CompactSlack, Horizon, MaxFaults} \union FirstStarts \subseteq Nat
  /\ WarningAge <= FeedKeysKept

VARIABLES
  now, script, source, faults,
  phase,     \* "down", "idle", "taken" (the feed was asked), "filled"
  ready,     \* the backlog is loaded: the store is kept
  held,      \* the source's copies, in the order they came
  feed,      \* what it knows the feed brought
  fill,      \* the internet fill
  net,       \* the internet source's polling
  cache,     \* what it knows of its file
  file,      \* the file: its lines, and whether it ends mid-line
  seen,      \* the dish source's names never looked at again
  kept,      \* the files the fill wrote for it: [copy, written]
  store,     \* the weather store
  since      \* history: what is issued from here on has been listed

vars == <<now, script, source, faults, phase, ready, held, feed, fill, net, cache, file,
          seen, kept, store, since>>

Torn == [center |-> "torn"]     \* a line that cannot be read
NothingListed == [from |-> Never, last |-> Never, whole |-> FALSE]
NewNet(next) == [hour |-> None, refetch |-> FALSE, refusals |-> 0, next |-> next]
NewCache == [unsaved |-> <<>>, lines |-> 0, loaded |-> FALSE, dirty |-> FALSE, torn |-> FALSE]

Init ==
  /\ now \in FirstStarts /\ faults = 0 /\ phase = "down" /\ ready = FALSE
  /\ script \in Scripts
  /\ source \in Sources
  /\ held = <<>> /\ feed = NewFeed /\ fill = NewFill /\ net = NewNet(now) /\ cache = NewCache
  /\ file = [lines |-> <<>>, torn |-> FALSE]
  /\ seen = {} /\ kept = <<>> /\ store = <<>> /\ since = NothingListed

Issued == LET IsOut(p) == p.at <= now IN SelectSeq(script, IsOut)
Aired(from) ==
  LET IsAired(p) == p.aired # Never /\ p.aired <= now /\ p.aired >= from
  IN SelectSeq(script, IsAired)

-----------------------------------------------------------------------------
(* The feed's own products (_FillHost) *)

\* _feed_saw, of a copy that is no late duplicate.
FeedSaw(known, copy, arrived) ==
  [known EXCEPT !.keys = IF KeyOfName(copy) = <<>> THEN @ ELSE (KeyOfName(copy) :> arrived) @@ @,
                !.picture = IF IsPicture(copy.of) /\ copy.of.at > @ THEN copy.of.at ELSE @]
FeedRead(known, copy) == [known EXCEPT !.reports = NewestReports(@, copy.reports)]

ForgetFeed(known) ==
  [known EXCEPT !.keys = [k \in {j \in DOMAIN @ : @[j] >= now - FeedKeysKept} |-> @[k]],
                !.reports = [s \in {r \in DOMAIN @ : @[r] >= now - FeedKeysKept} |-> @[s]]]

-----------------------------------------------------------------------------
(* NOAA's bundles *)

HourIsDue == net.refetch \/ net.hour = None \/ now - net.hour >= HourEvery
Bundle(hour) ==
  LET IsText(p) == ~IsPicture(p)
  IN SelectSeq(Aired(now - (IF hour THEN HourWindow ELSE PollWindow)), IsText)

\* _take: what is neither held, nor expired, nor a late copy of what the fill took.
Take(sofar, p) ==
  LET copy == FeedCopy(p)
  IN IF \/ IsHeld(Name(copy), sofar.held) \/ IsExpired(p, now)
        \/ IsDuplicate(fill, copy)
     THEN sofar
     ELSE [held |-> Append(sofar.held, copy), new |-> Append(sofar.new, copy),
           feed |-> FeedRead(FeedSaw(sofar.feed, copy, now), copy)]

Backoff(refusals) == IF 2 ^ refusals > MaxBackoff THEN MaxBackoff ELSE 2 ^ refusals

Mishap(happens) == /\ happens => faults < MaxFaults
                   /\ faults' = IF happens THEN faults + 1 ELSE faults

\* poll_once up to the fill: a failed fetch is made good by the hour's bundle.
\* Who polls is refused (403, 429, 5xx) backs off, until a bundle comes whole.
FetchBundle(answer) ==
  /\ source = "internet" /\ phase = "idle" /\ now >= net.next
  /\ Mishap(answer # "ok")
  /\ LET hour == HourIsDue
         result == FoldLeft(Take, [held |-> held, new |-> <<>>, feed |-> feed], Bundle(hour))
     IN IF answer = "ok"
        THEN /\ held' = result.held /\ feed' = result.feed
             /\ cache' = [cache EXCEPT !.unsaved = @ \o result.new]
             /\ net' = [net EXCEPT !.refusals = 0,
                                   !.hour = IF hour THEN now ELSE @,
                                   !.refetch = IF hour THEN FALSE ELSE @]
        ELSE /\ net' = [net EXCEPT !.refetch = TRUE,
                                   !.refusals = IF answer = "refused" THEN @ + 1 ELSE @]
             /\ UNCHANGED <<held, feed, cache>>
  /\ phase' = "taken"
  /\ UNCHANGED <<now, script, source, ready, fill, file, seen, kept, store, since>>

-----------------------------------------------------------------------------
(* The dish's directory *)

\* One file of a folder, in scan's order of tests.  `young`: the files still
\* being written.  The fill's folder comes first.
ScanFile(sofar, entry, young) ==
  LET copy == entry.copy
      dish == copy.center = "KWIN"
      over == [sofar EXCEPT !.seen = @ \union {Name(copy)}]
      known == IF dish THEN over ELSE [over EXCEPT !.fill = Restore(@, copy, now)]
      read == [known EXCEPT !.held = Append(@, copy)]
  IN IF Name(copy) \in sofar.seen THEN sofar
     ELSE IF IsPicture(copy.of)
     THEN IF dish THEN [over EXCEPT !.feed = FeedSaw(@, copy, now)] ELSE sofar
     ELSE IF IsExpired(copy.of, now) THEN over
     ELSE IF Name(copy) \in young
     THEN IF dish THEN sofar
          ELSE [sofar EXCEPT !.fill = Restore(@, [copy EXCEPT !.reports = {}], now)]
     ELSE IF dish /\ IsDuplicate(sofar.fill, copy) THEN over
     ELSE IF dish THEN [read EXCEPT !.feed = FeedRead(FeedSaw(@, copy, entry.written), copy)]
     ELSE read

Folders ==
  LET aired == Aired(0)
  IN kept \o [i \in DOMAIN aired |-> [copy |-> FeedCopy(aired[i]), written |-> aired[i].aired]]

Scan(young) ==
  /\ source = "sdr" /\ phase = "idle" /\ now >= net.next
  /\ LET Read(sofar, entry) == ScanFile(sofar, entry, young)
         result == FoldLeft(Read, [held |-> held, feed |-> feed, fill |-> fill, seen |-> seen],
                            Folders)
     IN /\ held' = Unexpired(result.held, now)
        /\ feed' = ForgetFeed(result.feed)
        /\ fill' = result.fill
        /\ seen' = result.seen
  /\ ready' = TRUE
  /\ phase' = IF ready THEN "taken" ELSE "idle"      \* start() scans and no more
  /\ UNCHANGED <<now, script, source, faults, net, cache, file, kept, store, since>>

-----------------------------------------------------------------------------
(* The fill's turn *)

\* fill_take: nothing held twice; a picture is a file only.
New(copies) ==
  LET IsNew(copy) == ~IsHeld(Name(copy), held) IN SelectSeq(copies, IsNew)
Texts(copies) ==
  LET IsText(copy) == ~IsPicture(copy.of) IN SelectSeq(copies, IsText)

\* A listing that goes through leaves nothing unlisted since the one before,
\* when that one was not too long ago.
Listing(fault) ==
  [from |-> IF fault.part = "list" THEN since.from
            ELSE IF ~fill.listedOnce THEN now - FirstLookback
            ELSE IF since.last < now - ListWindow THEN now - ListWindow ELSE since.from,
   last |-> IF fault.part = "list" THEN since.last ELSE now,
   whole |-> fault = NoFault]

FillPoll(fault, writes) ==
  /\ phase = "taken"
  /\ Mishap(fault # NoFault \/ ~writes)
  /\ LET result == Poll(fill, feed, Issued, now, source = "sdr", fault)
         new == New(result.copies)
     IN /\ fill' = result.fill
        /\ since' = Listing(fault)
        /\ IF source = "internet"
           THEN /\ writes
                /\ held' = Unexpired(held \o new, now)
                /\ cache' = [cache EXCEPT !.unsaved = @ \o new]
                /\ feed' = ForgetFeed(feed)
                /\ phase' = "filled"
                /\ UNCHANGED <<net, seen, kept>>
           ELSE /\ writes \/ new # <<>>
                /\ held' = held \o Texts(new)
                /\ kept' = IF writes
                           THEN kept \o [i \in DOMAIN new |-> [copy |-> new[i], written |-> now]]
                           ELSE kept
                /\ seen' = seen \union {Name(new[i]) : i \in DOMAIN new}
                /\ net' = [net EXCEPT !.next = now + 1]
                /\ phase' = "idle"
                /\ UNCHANGED <<feed, cache>>
  /\ UNCHANGED <<now, script, source, ready, file, store>>

-----------------------------------------------------------------------------
(* The cache file of the internet source: a journal *)

MustCompact ==
  /\ cache.loaded
  /\ cache.dirty \/ cache.lines + Len(cache.unsaved) > CompactFactor * Len(held) + CompactSlack

\* mutation: no line end after a torn line
AppendedAfterTorn(lines, whole, tears) ==
  LET written == SubSeq(lines, IF file.torn THEN 2 ELSE 1, whole)
  IN [lines |-> file.lines \o written \o (IF tears THEN <<Torn>> ELSE <<>>),
      torn |-> tears \/ (file.torn /\ whole = 0)]

\* An append.  After a torn line known of, a line end comes first; else the
\* first line is lost in the torn one.  `whole` lines are written, and perhaps
\* a piece of the next.
Appended(lines, whole, tears) ==
  LET lost == IF file.torn /\ ~cache.torn THEN 1 ELSE 0
      written == SubSeq(lines, 1 + lost, whole)
  IN [lines |-> file.lines \o written \o (IF tears THEN <<Torn>> ELSE <<>>),
      torn |-> tears \/ (file.torn /\ whole = 0)]

Rewritten(lines) == [lines |-> lines, torn |-> FALSE]

Write == IF MustCompact THEN Rewritten(held)
         ELSE IF cache.unsaved = <<>> THEN file
         ELSE Appended(cache.unsaved, Len(cache.unsaved), FALSE)

NextPoll(polling) ==
  [polling EXCEPT !.next = now + (IF polling.refusals = 0 THEN 1 ELSE Backoff(polling.refusals))]

\* _persist, and the end of the poll.
Persist ==
  /\ phase = "filled"
  /\ file' = Write
  /\ cache' = [cache EXCEPT !.unsaved = <<>>,
                            !.lines = IF MustCompact THEN Len(held) ELSE @ + Len(cache.unsaved),
                            !.dirty = FALSE,
                            !.torn = IF MustCompact \/ cache.unsaved # <<>> THEN FALSE ELSE @]
  /\ phase' = "idle" /\ ready' = TRUE
  /\ net' = NextPoll(net)
  /\ UNCHANGED <<now, script, source, faults, held, feed, fill, seen, kept, store, since>>

\* The write fails: what is still held is kept for the next, a rewrite.
PersistFails(whole, tears) ==
  /\ phase = "filled"
  /\ MustCompact \/ cache.unsaved # <<>>
  /\ Mishap(TRUE)
  /\ IF MustCompact THEN whole = 0 /\ ~tears /\ file' = file
     ELSE whole < Len(cache.unsaved) /\ file' = Appended(cache.unsaved, whole, tears)
  /\ LET IsLive(copy) == IsHeld(Name(copy), held)
     IN cache' = [cache EXCEPT !.unsaved = SelectSeq(@, IsLive), !.dirty = cache.loaded,
                               !.torn = IF MustCompact THEN @ ELSE FALSE]
  /\ phase' = "idle" /\ ready' = TRUE
  /\ net' = NextPoll(net)
  /\ UNCHANGED <<now, script, source, held, feed, fill, seen, kept, store, since>>

\* _load_cache, line by line: what is torn, expired or there already is skipped.
LoadLine(sofar, line) ==
  IF line = Torn THEN sofar
  ELSE IF IsExpired(line.of, now) \/ IsHeld(Name(line), sofar.held) THEN sofar
  ELSE IF line.center = "KWIN"
  THEN [sofar EXCEPT !.held = Append(@, line),
                     !.feed = FeedRead(FeedSaw(@, line, now), line)]
  ELSE [sofar EXCEPT !.held = Append(@, line), !.fill = Restore(@, line, now)]

Loaded == FoldLeft(LoadLine, [held |-> <<>>, feed |-> NewFeed, fill |-> NewFill], file.lines)

\* start(): the cache file, and a first poll at once.  A file that cannot be
\* read is never rewritten.
Start(reads) ==
  /\ phase = "down"
  /\ Mishap(~reads)
  /\ ~reads => source = "internet"
  /\ LET loads == reads /\ source = "internet"
     IN /\ held' = IF loads THEN Loaded.held ELSE <<>>
        /\ feed' = IF loads THEN Loaded.feed ELSE NewFeed
        /\ fill' = IF loads THEN Loaded.fill ELSE NewFill
        /\ cache' = IF loads
                    THEN [NewCache EXCEPT !.lines = Len(file.lines), !.loaded = TRUE,
                                          !.torn = file.torn]
                    ELSE NewCache
  /\ net' = NewNet(now)
  /\ phase' = "idle"
  /\ UNCHANGED <<now, script, source, ready, file, seen, kept, store, since>>

-----------------------------------------------------------------------------
(* Going down *)

Forgotten ==
  /\ held' = <<>> /\ feed' = NewFeed /\ fill' = NewFill /\ net' = NewNet(0)
  /\ cache' = NewCache /\ seen' = {} /\ store' = <<>> /\ since' = NothingListed
  /\ phase' = "down" /\ ready' = FALSE

\* stop(): a poll is cut short, and what it left unsaved is written.
Stop ==
  /\ phase # "down" /\ Mishap(TRUE)
  /\ file' = IF cache.unsaved # <<>> \/ cache.dirty THEN Write ELSE file
  /\ Forgotten
  /\ UNCHANGED <<now, script, source, kept>>

\* A crash, perhaps in an append: a rewrite leaves the old file or the new one.
Crash(whole, tears) ==
  /\ phase # "down" /\ Mishap(TRUE)
  /\ whole + (IF tears THEN 1 ELSE 0) <= (IF phase = "filled" /\ ~MustCompact THEN Len(cache.unsaved) ELSE 0)
  /\ file' = IF whole > 0 \/ tears THEN Appended(cache.unsaved, whole, tears) ELSE file
  /\ Forgotten
  /\ UNCHANGED <<now, script, source, kept>>

-----------------------------------------------------------------------------
(* The weather store, and the clock *)

\* ingest: by name, and with a retention of its own.
Ingested ==
  LET IsNew(copy) == ~IsHeld(Name(copy), store)
  IN Unexpired(store \o SelectSeq(held, IsNew), now)

\* _refresh_store: a source that holds nothing changes nothing.
Refresh ==
  /\ ready /\ held # <<>>
  /\ store' = Ingested /\ store' # store
  /\ UNCHANGED <<now, script, source, faults, phase, ready, held, feed, fill, net, cache,
                 file, seen, kept, since>>

\* A poll due is not put off, nor is a refresh.
Tick ==
  /\ now < Horizon
  /\ phase = "down" => faults > 0
  /\ phase # "down" => /\ phase = "idle" /\ now < net.next
                       /\ held # <<>> => store = Ingested
  /\ now' = now + 1
  /\ UNCHANGED <<script, source, faults, phase, ready, held, feed, fill, net, cache, file,
                 seen, kept, store, since>>

Faults == {NoFault} \union [part : {"list", "fetch", "obs"}, after : 0 .. 1]
            \union {[part |-> "radar", after |-> 0]}
\* Files written within two seconds of a scan: the dish's, or those the fill wrote
\* just before a restart, by the time of the next scan (30 s) old enough.
Young == {Name(Folders[i].copy) :
            i \in {k \in DOMAIN Folders : /\ Folders[k].written = now
                                          /\ ready => Folders[k].copy.center = "KWIN"}}

Next ==
  \/ \E reads \in BOOLEAN : Start(reads)
  \/ \E answer \in {"ok", "failed", "refused"} : FetchBundle(answer)
  \/ \E young \in SUBSET Young : Scan(young)
  \/ \E fault \in Faults, writes \in BOOLEAN : FillPoll(fault, writes)
  \/ Persist
  \/ \E whole \in 0 .. 1, tears \in BOOLEAN : PersistFails(whole, tears)
  \/ Refresh
  \/ Stop
  \/ \E whole \in 0 .. 1, tears \in BOOLEAN : Crash(whole, tears)
  \/ Tick

Spec == Init /\ [][Next]_vars

-----------------------------------------------------------------------------
(* Properties *)

IsWaiting(p) == Contains(fill.pending, p)
Alone(p) == \A i \in DOMAIN script : KeyOf(script[i]) = KeyOf(p) => script[i] = p

\* A poll has just gone through, and p is one it had to see to.
Answered == phase # "down" /\ since.whole /\ since.last = now
IsOwed(p) ==
  /\ Answered /\ p.type \in FillTypes /\ p.served /\ Alone(p)
  /\ p.at <= now - Grace(p.type) /\ p.at >= since.from /\ ~IsExpired(p, now)

\* The bot holds one copy of a product, the feed's or the fill's, in whatever
\* order the two come and whatever restarts between them: no forecast or warning
\* is read twice (fill.py "is a duplicate, and the source drops it").
OneCopy ==
  \A i, j \in DOMAIN held :
    i # j /\ ~IsAirport(held[i].of) => held[i].of.id # held[j].of.id

\* After a poll with no failure, a product NWS has issued and the feed has not
\* brought within its grace is held, or waits behind a poll's worth of others;
\* and of every station the newest report past its grace is held.  Failed
\* listings, failed fetches, refused bundles and restarts lose nothing as long as
\* listings come within their window (fill.py's "one rule").
TakenInTime ==
  /\ \A i \in DOMAIN script :
       LET p == script[i]
       IN IsOwed(p) =>
            \/ \E k \in DOMAIN held : held[k].of = p
            \/ /\ IsWaiting(p)
               /\ Cardinality({j \in DOMAIN script \ {i} :
                     KeyOf(script[j]) \in DOMAIN fill.filled \/ ~script[j].served}) >= FetchPerPoll
  /\ Answered =>
       \A i \in {j \in DOMAIN script : IsAirport(script[j]) /\ script[j].at <= now - OtherGrace
                                         /\ script[j].at >= now - ObsWindow} :
         \A r \in script[i].reports :
           r[1] \in Stations => \E k \in DOMAIN held : \E q \in held[k].reports :
                                  q[1] = r[1] /\ q[2] >= r[2]

\* What the internet source holds is on its file, or about to be: a restart reads
\* it back whatever write was torn before (fetcher.py "A line torn by a crash is
\* skipped at load").  It holds once the file has been read.
FileHasWhatIsHeld ==
  source = "internet" /\ cache.loaded =>
    \A i \in DOMAIN held : Contains(cache.unsaved, held[i]) \/ Contains(file.lines, held[i])

\* Every VTEC line NWS has issued on an event in a zone, in the order of issue.
StatementsOn(e, z) ==
  UNION {UNION {{[of |-> script[i], until |-> seg.until, line |-> seg.vtec[k]] :
                   k \in {m \in DOMAIN seg.vtec : seg.vtec[m].event = e}} :
                  seg \in {s \in ToSet(script[i].segs) : z \in s.zones}} :
          i \in {j \in DOMAIN script : script[j].at <= now}}
EventsOf == UNION {{line.event : line \in Lines(script[i])} : i \in DOMAIN script}
ZonesOf == UNION {Area(script[i]) : i \in DOMAIN script}
EndOf(s) == IF s.line.ends # None THEN s.line.ends
            ELSE (IF s.until # None THEN s.until ELSE s.of.at) + UfnGrace

\* The list of warnings says of an event in a zone what NWS's latest statement
\* says, however late, in whatever order and by whatever way the statements came:
\* it is there until the end that statement names (a day past the time the next is
\* due, when it names none), and gone once a statement has ended it.  No alert
\* reissued for a zone is listed there twice.
ListFollowsNws ==
  LET list == Extract(store, now)
      listed(e, z) == {w \in list : w.kind = "event" /\ w.what = e /\ z \in w.zones}
  IN /\ ready /\ (held # <<>> => store = Ingested) =>
          \A e \in EventsOf, z \in ZonesOf :
            \A s \in StatementsOn(e, z) :
              /\ \A t \in StatementsOn(e, z) : t # s => t.of.at < s.of.at
              /\ \A t \in StatementsOn(e, z) : t.of.parses
              /\ IsOwed(s.of) /\ ~IsWaiting(s.of)
              => IF s.line.action \in ActiveActions /\ EndOf(s) > now
                 THEN \E w \in listed(e, z) : w.ends >= EndOf(s) /\ (s.line.ends = None => w.ufn)
                 ELSE listed(e, z) = {}
     /\ \A v, w \in list :
          v.kind = "plain" /\ w.kind = "plain" /\ v.zones \cap w.zones # {} =>
            v = w \/ "AQA" \notin {v.what[2], w.what[2]} \/ v.what[1] # w.what[1]
=============================================================================
