--------------------------- MODULE EmwinProducts ---------------------------
(***************************************************************************)
(* The NWS products the bot reads, the copies of them it may come to hold,  *)
(* and how long each kind is kept.  A product is a record: its AWIPS type,  *)
(* its WMO heading, office and minute of issue (the three the bot matches   *)
(* copies by), when the feed airs it (Never: it does not), whether NWS's    *)
(* server still serves its text, whether the parser reads it, its segments  *)
(* and, of an airport file, the reports in it.  Times count polls.          *)
(***************************************************************************)
EXTENDS Integers, Sequences, FiniteSets, SequencesExt

CONSTANTS
  WarningGrace, OtherGrace,     \* how long the fill waits for the feed
  WarningAge, LsrAge, OtherAge  \* how long a kind of product is kept

ASSUME RetentionAssumption ==
  /\ {WarningGrace, OtherGrace, WarningAge, LsrAge, OtherAge} \subseteq Nat
  /\ WarningGrace <= OtherGrace /\ OtherAge <= LsrAge /\ LsrAge <= WarningAge

Never == -1
None == -1

WarningTypes ==
  {"TOR", "SVR", "SVS", "SPS", "FFW", "FFS", "FLW", "FLS", "FFA", "WSW", "NPW", "CFW",
   "WCN", "HLS", "TCV", "TSU", "AQA"}
WarningFillTypes == WarningTypes \union {"SWO"}
FillTypes == WarningFillTypes \union {"AFD", "ZFP", "PFM", "SFT", "RWR", "LSR", "CLI"}

MaxAge(type) ==
  CASE type \in WarningTypes \union {"PFM"} -> WarningAge
    [] type = "LSR" -> LsrAge
    [] OTHER -> OtherAge
IsExpired(product, now) == product.at < now - MaxAge(product.type)
Grace(type) == IF type \in WarningFillTypes THEN WarningGrace ELSE OtherGrace

-----------------------------------------------------------------------------
(* Copies: the feed's own (KWIN), what the fill made of NWS's text (NWSA),   *)
(* of an airport file (NWSF: the reports it took) and a radar picture (NWSR) *)

FeedCopy(p) == [of |-> p, center |-> "KWIN", reports |-> p.reports]
FillCopy(p) == [of |-> p, center |-> "NWSA", reports |-> {}]
Collective(p, reports) == [of |-> p, center |-> "NWSF", reports |-> reports]
Picture(p) == [of |-> p, center |-> "NWSR", reports |-> {}]

\* The file name says the product and who made this copy of it.
Name(copy) == <<copy.of.id, copy.center>>
IsHeld(name, copies) == \E i \in DOMAIN copies : Name(copies[i]) = name

IsPicture(p) == p.type = "RAD"
IsAirport(p) == p.type = "SAH"
KeyOf(p) == <<p.heading, p.office, p.at>>
\* key_of_name: a radar picture's name has none, a collective has its own.
KeyOfName(copy) ==
  IF IsPicture(copy.of) THEN <<>>
  ELSE IF copy.center = "NWSF" THEN <<"SAUS99", "NWSF", copy.of.at>>
  ELSE KeyOf(copy.of)

\* station_times: the newest time of each station, over what was known of it.
NewestReports(known, reports) ==
  LET stations == {r[1] : r \in reports}
      times(s) == {r[2] : r \in {q \in reports : q[1] = s}}
                    \union (IF s \in DOMAIN known THEN {known[s]} ELSE {})
  IN [s \in stations \union DOMAIN known |->
        IF s \notin stations THEN known[s]
        ELSE CHOOSE t \in times(s) : \A u \in times(s) : u <= t]
ReportOf(known, station) == IF station \in DOMAIN known THEN known[station] ELSE None

Unexpired(copies, now) ==
  LET Lives(copy) == ~IsExpired(copy.of, now) IN SelectSeq(copies, Lives)
UpTo(s, n) == SubSeq(s, 1, IF Len(s) < n THEN Len(s) ELSE n)
=============================================================================
