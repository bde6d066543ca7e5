--------------------------- MODULE ActiveWarnings ---------------------------
(***************************************************************************)
(* protocol/vtec_events.py: what is in force, from a replay of every held   *)
(* product in the order of issue.  A segment names zones and carries VTEC   *)
(* lines [event, action, ends]; ends = None is 000000T0000Z, "until further *)
(* notice".  An event is a set of zones, each with its own end.             *)
(*                                                                          *)
(* protocol/warnings.py: the active warnings, read out of a store: the VTEC *)
(* events in force, the statements without VTEC, and what is left of the    *)
(* products the parser refuses.  An entry has its area, its end and whether *)
(* that end was invented; wording, polygons and storm tags are left out.    *)
(***************************************************************************)
EXTENDS EmwinProducts, TLC

CONSTANTS
  UfnGrace,      \* how long a zone without an end outlives its segment's UGC expiry
  DayLength,     \* polls in a day
  DefaultLife    \* what an unreadable product without an end is given

ASSUME UfnGraceAssumption == UfnGrace \in Nat

-----------------------------------------------------------------------------
(* The replay of VTEC lines *)

ActiveActions == {"NEW", "CON", "EXT", "EXA", "EXB", "COR", "ROU"}
ClearActions == {"CAN", "EXP", "UPG"}

NewEvent == [zones |-> <<>>, said |-> FALSE, issued |-> None]

MaxOf(times) == CHOOSE t \in times : \A u \in times : u <= t

AsTheyCame(copies) == copies     \* mutation: no sort

\* A stable sort by time of issue: copies of one minute stay as they came.
ByIssue(copies) ==
  LET Place(sorted, copy) ==
        LET Before(c) == c.of.at <= copy.of.at
            After(c) == c.of.at > copy.of.at
        IN SelectSeq(sorted, Before) \o <<copy>> \o SelectSeq(sorted, After)
  IN FoldLeft(Place, <<>>, copies)

\* One VTEC line of a segment of a product issued at `valid`.
ApplyLine(events, valid, seg, line) ==
  LET event == IF line.event \in DOMAIN events THEN events[line.event] ELSE NewEvent
      state == IF line.ends # None THEN [ends |-> line.ends, ufn |-> FALSE]
               ELSE [ends |-> (IF seg.until # None THEN seg.until ELSE valid) + UfnGrace,
                     ufn |-> TRUE]
      cleared == [event EXCEPT !.zones = [z \in DOMAIN @ \ seg.zones |-> @[z]]]
      stated == [zones |-> [z \in seg.zones |-> state] @@ event.zones, said |-> TRUE,
                 issued |-> IF event.issued = None \/ line.action = "NEW"
                            THEN valid ELSE event.issued]
  IN (line.event :> (CASE line.action \in ClearActions -> cleared
                       [] line.action \in ActiveActions -> stated
                       [] OTHER -> event)) @@ events

ApplySegment(events, valid, seg) ==
  LET Line(known, line) == ApplyLine(known, valid, seg, line)
  IN IF seg.zones = {} THEN events ELSE FoldLeft(Line, events, seg.vtec)

Replay(copies) ==
  LET Product(events, copy) ==
        LET Segment(known, seg) == ApplySegment(known, copy.of.at, seg)
        IN FoldLeft(Segment, events, copy.of.segs)
  IN FoldLeft(Product, <<>>, ByIssue(copies))

ActiveZones(event, now) == {z \in DOMAIN event.zones : event.zones[z].ends > now}
UntilFurtherNotice(event, now) == \E z \in ActiveZones(event, now) : event.zones[z].ufn
KeptUntil(event, now) == MaxOf({event.zones[z].ends : z \in ActiveZones(event, now)})

\* The events with a zone in force, and an active statement read.
ActiveEvents(events, now) ==
  {e \in DOMAIN events : events[e].said /\ ActiveZones(events[e], now) # {}}

-----------------------------------------------------------------------------
(* What a product says *)

NonVtecTypes == {"SPS", "AQA"}
WarningProductTypes == WarningFillTypes    \* those of EmwinProducts

Lines(p) == UNION {{p.segs[i].vtec[k] : k \in DOMAIN p.segs[i].vtec} : i \in DOMAIN p.segs}
Area(p) == UNION {p.segs[i].zones : i \in DOMAIN p.segs}
Statement(p) == <<p.office, p.type, p.at>>

-----------------------------------------------------------------------------
(* A product the parser refuses: the regular expressions, on its own *)

\* The invented end is the hour two hours on, of the same day.
InventedEnd(now) == (now - (now % DayLength)) + ((now + DefaultLife) % DayLength)

FallbackEntry(p, now) ==
  LET lines == [i \in DOMAIN p.segs |-> p.segs[i].vtec]
      first == FlattenSeq(lines)
      stated == IF first = <<>> THEN None ELSE first[1].ends
      ends == IF stated # None THEN stated ELSE InventedEnd(now)
  IN IF \/ \E line \in Lines(p) : line.action \in ClearActions
        \/ Area(p) = {}
        \/ ends <= now
     THEN {}
     ELSE {[kind |-> "unread", what |-> Statement(p), zones |-> Area(p), ends |-> ends,
            estimated |-> stated = None, ufn |-> FALSE]}

-----------------------------------------------------------------------------
(* VTEC events *)

EventEntry(e, event, now) ==
  [kind |-> "event", what |-> e, zones |-> ActiveZones(event, now),
   ends |-> KeptUntil(event, now),
   estimated |-> UntilFurtherNotice(event, now), ufn |-> UntilFurtherNotice(event, now)]

-----------------------------------------------------------------------------
(* Statements without VTEC, newest first: one entry a statement, and of air  *)
(* quality alerts only the area that no newer one names                      *)

NothingSaid == [seen |-> {}, claimed |-> {}, entries |-> {}]

\* `claimed` holds <<office, zone>> of the alerts read so far.
PlainSegment(sofar, p, seg, now) ==
  LET supersedes == p.type = "AQA"
      left == {z \in seg.zones : <<p.office, z>> \notin sofar.claimed}
      zones == IF supersedes THEN left ELSE seg.zones
      claimed == IF supersedes THEN [sofar EXCEPT !.claimed = @ \union {<<p.office, z>> : z \in seg.zones}]
                 ELSE sofar
      entry == [kind |-> "plain", what |-> Statement(p), zones |-> zones, ends |-> seg.until,
                estimated |-> FALSE, ufn |-> FALSE]
  IN IF seg.vtec # <<>> THEN sofar
     ELSE IF \/ supersedes /\ seg.ended
             \/ zones = {} \/ seg.until = None \/ seg.until <= now
             \/ Statement(p) \in sofar.seen
     THEN claimed
     ELSE [claimed EXCEPT !.seen = @ \union {Statement(p)}, !.entries = @ \union {entry}]

\* The newest first, and copies of one minute as they came.
NewestFirst(copies) ==
  LET Place(sorted, copy) ==
        LET Before(c) == c.of.at >= copy.of.at
            After(c) == c.of.at < copy.of.at
        IN SelectSeq(sorted, Before) \o <<copy>> \o SelectSeq(sorted, After)
  IN FoldLeft(Place, <<>>, copies)

PlainEntries(copies, now) ==
  LET IsPlain(copy) == copy.of.type \in NonVtecTypes
      Product(sofar, copy) ==
        LET Segment(known, seg) == PlainSegment(known, copy.of, seg, now)
        IN FoldLeft(Segment, sofar, copy.of.segs)
  IN FoldLeft(Product, NothingSaid, NewestFirst(SelectSeq(copies, IsPlain))).entries

-----------------------------------------------------------------------------

\* extract_active_warnings: what a reply and the broadcaster are given.
Extract(store, now) ==
  LET IsWarning(copy) == copy.of.type \in WarningProductTypes
      products == SelectSeq(store, IsWarning)
      Parsed(copy) == copy.of.parses
      parsed == SelectSeq(products, Parsed)
      events == Replay(parsed)
  IN UNION {FallbackEntry(products[i].of, now) : i \in {j \in DOMAIN products : ~products[j].of.parses}}
       \union {EventEntry(e, events[e], now) : e \in ActiveEvents(events, now)}
       \union PlainEntries(parsed, now)
=============================================================================
