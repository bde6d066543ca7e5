----------------------------- MODULE ProductFill -----------------------------
(***************************************************************************)
(* emwin/fill.py: what the feed has not brought within its grace is taken   *)
(* from NWS.  The fill is a record; what its host knows of the feed comes   *)
(* in as another (`keys`: key to arrival, `reports`: station to time,       *)
(* `picture`: the newest picture's time).  Requests may fail: `fault` says  *)
(* where.  The counts and the spells shown on the status pages are left     *)
(* out, as are the AWIPS ids a copy is named by.                            *)
(***************************************************************************)
EXTENDS EmwinProducts, TLC

CONSTANTS
  ListWindow,      \* how far back a listing looks, and the first one
  FirstLookback,
  FetchPerPoll,    \* texts fetched in one poll
  ObsWindow,       \* how far back an airport file is read
  ObsPerPoll,
  RadarGrace,
  Keep,            \* how long what was decided is remembered
  FilledKept,      \* and what was taken
  Stations         \* the bot's station table

ASSUME FillAssumption ==
  /\ {ListWindow, FirstLookback, FetchPerPoll, ObsWindow, ObsPerPoll, RadarGrace, Keep,
      FilledKept} \subseteq Nat
  /\ OtherGrace < ListWindow /\ ListWindow <= FirstLookback /\ FirstLookback < Keep
  /\ WarningAge <= FilledKept

NewFeed == [keys |-> <<>>, reports |-> <<>>, picture |-> None]
NewFill ==
  [filled |-> <<>>, decided |-> <<>>, pending |-> <<>>, listedOnce |-> FALSE,
   reports |-> <<>>, readFiles |-> {}, pictureSeen |-> None]

NoFault == [part |-> "none", after |-> 0]
Has(feed, p) == KeyOf(p) \in DOMAIN feed.keys

-----------------------------------------------------------------------------
(* What the feed tells it, and what an earlier run left *)

IsDuplicate(fill, copy) == KeyOfName(copy) # <<>> /\ KeyOfName(copy) \in DOMAIN fill.filled

\* mutation: its key is not known taken
RestoreReportsOnly(fill, copy, now) ==
  [fill EXCEPT !.reports = NewestReports(@, copy.reports)]
Restore(fill, copy, now) ==
  [fill EXCEPT !.filled = IF KeyOfName(copy) = <<>> THEN @ ELSE (KeyOfName(copy) :> now) @@ @,
               !.reports = NewestReports(@, copy.reports)]

-----------------------------------------------------------------------------
(* Text products *)

IsInTime(feed, p) == feed.keys[KeyOf(p)] - p.at <= Grace(p.type)

\* _listed: an item of the listing, unless its key is known already.
Listed(fill, feed, p) ==
  LET k == KeyOf(p)
      waits(item) == KeyOf(item) = k
      decide(how) == [fill EXCEPT !.decided = (k :> [at |-> p.at, how |-> how]) @@ @]
  IN IF k \in DOMAIN fill.decided \/ SelectSeq(fill.pending, waits) # <<>> THEN fill
     ELSE IF k \in DOMAIN fill.filled THEN decide("fill")
     ELSE IF Has(feed, p) THEN decide(IF IsInTime(feed, p) THEN "feed" ELSE "late")
     ELSE [fill EXCEPT !.pending = Append(@, p)]

\* mutation: a first listing looks no further back than the next ones
InLastWindow(fill, issued, now) ==
  LET IsListed(p) == p.type \in FillTypes /\ p.at >= now - ListWindow
  IN SelectSeq(issued, IsListed)

\* What NWS lists: every product of the types the bot reads, oldest first.
InListing(fill, issued, now) ==
  LET since == now - (IF fill.listedOnce THEN ListWindow ELSE FirstLookback)
      IsListed(p) == p.type \in FillTypes /\ p.at >= since
  IN SelectSeq(issued, IsListed)

\* The products whose grace is up: warnings first, the newest first.
Due(pending, now) ==
  LET IsUp(p) == now - p.at >= Grace(p.type)
      IsWarning(p) == p.type \in WarningFillTypes
      IsOther(p) == ~IsWarning(p)
      Newer(p, q) == p.at > q.at
      sorted(s) == SortSeq(s, Newer)
      up == SelectSeq(pending, IsUp)
  IN sorted(SelectSeq(up, IsWarning)) \o sorted(SelectSeq(up, IsOther))

\* _decide.  A request that fails ends the poll's fetching: what came is taken,
\* the rest waits.  What NWS has withdrawn, or cannot be read, is let go.
Decide(fill, feed, now, fault) ==
  LET IsWaiting(p) == ~Has(feed, p)
      IsHere(p) == Has(feed, p)
      here == SelectSeq(fill.pending, IsHere)
      due == UpTo(Due(SelectSeq(fill.pending, IsWaiting), now), FetchPerPoll)
      got == IF fault.part = "fetch" THEN UpTo(due, fault.after) ELSE due
      IsServed(p) == p.served
      taken == SelectSeq(got, IsServed)
      Waits(p) == ~Has(feed, p) /\ ~Contains(got, p)
      keysOf(s) == {KeyOf(s[i]) : i \in DOMAIN s}
      arrived == [k \in keysOf(here) |->
                    LET p == CHOOSE q \in ToSet(here) : KeyOf(q) = k
                    IN [at |-> p.at, how |-> IF IsInTime(feed, p) THEN "feed" ELSE "late"]]
      fetched == [k \in keysOf(taken) |-> [at |-> k[3], how |-> "fill"]]
  IN [fill |-> [fill EXCEPT !.pending = SelectSeq(@, Waits),
                            !.filled = [k \in keysOf(taken) |-> now] @@ @,
                            !.decided = arrived @@ fetched @@ @],
      copies |-> [i \in DOMAIN taken |-> FillCopy(taken[i])]]
Forget(fill, now) ==
  LET recent(known, TimeOf(_), age) ==
        [k \in {j \in DOMAIN known : TimeOf(known[j]) >= now - age} |-> known[k]]
      Itself(t) == t
      Issued(d) == d.at
      IsRecent(p) == p.at >= now - Keep
  IN [fill EXCEPT !.decided = recent(@, Issued, Keep), !.filled = recent(@, Itself, FilledKept),
                  !.pending = SelectSeq(@, IsRecent)]

\* _text: a listing that fails ends the part; what it listed so far is kept.
Text(fill, feed, issued, now, fault) ==
  LET listing == InListing(fill, issued, now)
      heard == IF fault.part = "list" THEN UpTo(listing, fault.after) ELSE listing
      Note(known, p) == Listed(known, feed, p)
      listed == FoldLeft(Note, fill, heard)
      decided == Decide([listed EXCEPT !.listedOnce = TRUE], feed, now, fault)
  IN IF fault.part = "list" THEN [fill |-> listed, copies |-> <<>>]
     ELSE [decided EXCEPT !.fill = Forget(@, now)]

-----------------------------------------------------------------------------
(* Airport reports: NWS's files, each read once when its grace is up *)

ObsFiles(fill, issued, now) ==
  LET IsReady(p) == /\ IsAirport(p) /\ p.at >= now - ObsWindow
                    /\ p.at <= now - OtherGrace /\ p.id \notin fill.readFiles
      ready == SelectSeq(issued, IsReady)
  IN SubSeq(ready, IF Len(ready) > ObsPerPoll THEN Len(ready) - ObsPerPoll + 1 ELSE 1, Len(ready))

\* Of a file: the reports of stations the bot knows that neither the feed nor
\* the fill has anything as new for.
Missed(fill, feed, p) ==
  {r \in p.reports : /\ r[1] \in Stations
                     /\ ReportOf(feed.reports, r[1]) < r[2]
                     /\ ReportOf(fill.reports, r[1]) < r[2]}

\* The files are read one by one: a failure costs that file only.
Obs(fill, feed, issued, now, fault) ==
  LET files == ObsFiles(fill, issued, now)
      Read(sofar, i) ==
        LET p == files[i]
            reports == Missed(sofar.fill, feed, p)
        IN IF fault.part = "obs" /\ i = fault.after THEN sofar
           ELSE [fill |-> [sofar.fill EXCEPT !.readFiles = @ \union {p.id},
                                             !.reports = NewestReports(@, reports)],
                 copies |-> IF reports = {} THEN sofar.copies
                            ELSE Append(sofar.copies, Collective(p, reports))]
      result == FoldLeftDomain(Read, [fill |-> fill, copies |-> <<>>], files)
      old(known) == {s \in DOMAIN known : known[s] < now - Keep}
  IN IF fault.part = "obs" /\ fault.after = 0 THEN [fill |-> fill, copies |-> <<>>]   \* no listing
     ELSE [result EXCEPT !.fill.reports = [s \in DOMAIN @ \ old(@) |-> @[s]]]

-----------------------------------------------------------------------------
(* Radar: the web's picture while the feed's newest is too old *)

Radar(fill, feed, issued, now, fault) ==
  LET pictures == SelectSeq(issued, IsPicture)
      web == pictures[Len(pictures)]
      nothing == [fill |-> fill, copies |-> <<>>]
  IN IF \/ pictures = <<>> \/ fault.part = "radar"
        \/ feed.picture # None /\ feed.picture >= now - RadarGrace
        \/ fill.pictureSeen = web.at                       \* 304
        \/ feed.picture # None /\ web.at <= feed.picture
     THEN nothing
     ELSE [fill |-> [fill EXCEPT !.pictureSeen = web.at], copies |-> <<Picture(web)>>]

\* poll: one part that fails does not stop the others.
Poll(fill, feed, issued, now, hasRadar, fault) ==
  LET text == Text(fill, feed, issued, now, fault)
      obs == Obs(text.fill, feed, issued, now, fault)
      radar == IF hasRadar THEN Radar(obs.fill, feed, issued, now, fault)
               ELSE [fill |-> obs.fill, copies |-> <<>>]
  IN [fill |-> radar.fill, copies |-> text.copies \o obs.copies \o radar.copies]
=============================================================================
