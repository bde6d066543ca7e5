------------------------ MODULE WeatherStateReducer ------------------------
(***************************************************************************)
(* WeatherStateReducer.js: what a phone makes of one packet of a bot.  Pure  *)
(* operators on the bot's state as the phone keeps it (WeatherBotState.js),  *)
(* for warnings, cancels and digests; other messages only move the           *)
(* sequence numbers.  The phone's clock is the bot's, a list covers every    *)
(* warning of the bot, and no list is cut.                                   *)
(***************************************************************************)
EXTENDS Integers, Sequences, FiniteSets

CONSTANTS
  Warnings,
  SeqModulus,         \* 256
  AheadLimit,         \* 128: the furthest ahead a packet may be
  ReorderWindow,      \* reorderWindow, 32
  DuplicateWindow,    \* duplicateWindow, 16
  DuplicateWindowReset,     \* duplicateWindowReset, 6 h
  DigestMargin,       \* digestMargin, 2 min
  CancelRetention,    \* recentCancelRetention, 1 h
  ReorderRecency      \* reorderRecency, 10 min

Never == -1
NotHeld == [version |-> 0, receivedAt |-> Never, seq |-> 0]

\* A bot nobody has heard yet.
NewState ==
  [lastSeq |-> Never, recentMessages |-> <<>>, lastHeardAt |-> Never,
   warnings |-> [w \in Warnings |-> NotHeld], recentCancels |-> [w \in Warnings |-> Never],
   digest |-> Never, missingFromDigest |-> {}, needsDigest |-> FALSE, gapDetectedAt |-> Never]

Holds(state, w) == state.warnings[w] # NotHeld
Later(a, b) == IF a >= b THEN a ELSE b

-----------------------------------------------------------------------------
(* Where a packet falls *)

Forward(from, to) == (to - from) % SeqModulus

PositionTwoIsNext(forward) ==                                \* mutation
  CASE forward \in 1 .. 2                       -> "next"
    [] forward \in 3 .. AheadLimit            -> "ahead"
    [] forward >= SeqModulus - ReorderWindow  -> "behind"
    [] OTHER                                  -> "restart"
\* position()
Position(forward) ==
  CASE forward = 1                            -> "next"
    [] forward \in 2 .. AheadLimit            -> "ahead"
    [] forward >= SeqModulus - ReorderWindow  -> "behind"
    [] OTHER                                  -> "restart"

IsLongSilence(state, receivedAt) ==
  state.lastHeardAt # Never /\ receivedAt - state.lastHeardAt > DuplicateWindowReset

Place(state, seq, receivedAt) ==
  IF state.lastSeq = Never THEN "first"
  ELSE LET forward == Forward(state.lastSeq, seq) IN
       IF IsLongSilence(state, receivedAt) /\ forward # 1 THEN "ahead" ELSE Position(forward)

Seen(state, receivedAt) == IF IsLongSilence(state, receivedAt) THEN <<>> ELSE state.recentMessages
\* A state file of an earlier release kept no fingerprints: there the number decides.
IsCopy(state, packet, receivedAt) ==
  \E i \in 1 .. Len(Seen(state, receivedAt)) :
    LET seen == Seen(state, receivedAt)[i] IN
    seen.seq = packet.seq /\ seen.message \in {[type |-> "unknown"], packet.message}

LastOf(seq, count) == SubSeq(seq, Later(1, Len(seq) - count + 1), Len(seq))

\* A gap is marked whenever the packet is not the next one; its time only rises.
Accept(state, packet, receivedAt) ==
  LET place == Place(state, packet.seq, receivedAt)
      seen == IF place = "restart" THEN <<>> ELSE Seen(state, receivedAt)
      isGap == place \in {"ahead", "behind", "restart"}
  IN [state EXCEPT
       !.lastSeq = IF place = "behind" THEN state.lastSeq ELSE packet.seq,
       !.recentMessages = LastOf(Append(seen, packet), DuplicateWindow),
       !.lastHeardAt = Later(state.lastHeardAt, receivedAt),
       !.recentCancels = [w \in Warnings |-> IF receivedAt - state.recentCancels[w] < CancelRetention
                                             THEN state.recentCancels[w] ELSE Never],
       !.needsDigest = state.needsDigest \/ isGap,
       !.gapDetectedAt = IF isGap THEN Later(state.gapDetectedAt, receivedAt) ELSE state.gapDetectedAt]

-----------------------------------------------------------------------------
(* What it says *)

RollsBackCancelled(state, id, seq, receivedAt) == state.recentCancels[id] # Never    \* mutation
\* wouldRollBack(): of a warning that comes out of order.
WouldRollBack(state, id, seq, receivedAt) ==
  \/ state.recentCancels[id] # Never
  \/ /\ Holds(state, id)
     /\ Forward(seq, state.warnings[id].seq) \in 1 .. ReorderWindow
     /\ receivedAt - state.warnings[id].receivedAt < ReorderRecency

StoreWarning(state, warning, seq, receivedAt) ==
  [state EXCEPT
    !.warnings[warning.id] = [version |-> warning.version, receivedAt |-> receivedAt, seq |-> seq],
    !.missingFromDigest = state.missingFromDigest \ {warning.id}]

RemoveWarning(state, cancel, receivedAt) ==
  [state EXCEPT
    !.warnings[cancel.id] = NotHeld, !.recentCancels[cancel.id] = receivedAt,
    !.missingFromDigest = state.missingFromDigest \ {cancel.id}]

\* What an older list says is ignored; a list ends what it does not name, if
\* that was heard before it, and closes a gap that was noticed before it.
SpeaksBefore(digest) == digest.built - DigestMargin
EndedBy(state, digest) ==
  {w \in Warnings \ digest.listed :
     Holds(state, w) /\ state.warnings[w].receivedAt < SpeaksBefore(digest)}
ClosesOlderGap(state, digest) == state.gapDetectedAt <= digest.built     \* mutation
ClosesGap(state, digest) ==
  state.gapDetectedAt = Never \/ state.gapDetectedAt < SpeaksBefore(digest)
ApplyDigest(state, digest) ==
  IF digest.built < state.digest THEN state
  ELSE [state EXCEPT
         !.warnings = [w \in Warnings |-> IF w \in EndedBy(state, digest) THEN NotHeld
                                          ELSE state.warnings[w]],
         !.missingFromDigest = {w \in digest.listed : ~Holds(state, w)},
         !.digest = digest.built,
         !.needsDigest = state.needsDigest /\ ~ClosesGap(state, digest),
         !.gapDetectedAt = IF ClosesGap(state, digest) THEN Never ELSE state.gapDetectedAt]

\* apply()
Apply(before, packet, receivedAt) ==
  LET state == Accept(before, packet, receivedAt)
      message == packet.message
      isOutOfOrder == Place(before, packet.seq, receivedAt) = "behind"
  IN IF IsCopy(before, packet, receivedAt) THEN before
     ELSE CASE message.type = "warning" ->
                 IF isOutOfOrder /\ WouldRollBack(state, message.id, packet.seq, receivedAt) THEN state
                 ELSE StoreWarning(state, message, packet.seq, receivedAt)
            [] message.type = "cancel" -> RemoveWarning(state, message, receivedAt)
            [] message.type = "digest" -> ApplyDigest(state, message)
            [] OTHER -> state
=============================================================================
