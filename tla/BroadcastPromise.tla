-------------------------- MODULE BroadcastPromise --------------------------
(***************************************************************************)
(* What a client may rely on of one bot's data channel, whatever its        *)
(* scheduler does inside: every message is what the bot's products said     *)
(* when it was built, waits in some task's batch, and goes out once, under  *)
(* the next number.  After a start the bot may have only part of its        *)
(* products, and what it says of a warning then may be wrong.  A restart    *)
(* forgets what waited and skips at most a batch's numbers.  Only a state   *)
(* file torn by a write in the middle of a batch may repeat them.           *)
(***************************************************************************)
EXTENDS Integers, Sequences, FiniteSets

CONSTANTS
  Warnings,        \* identities (event, office, number)
  Tasks,           \* what sends: the schedule, the answers to requests
  SeqModulus,      \* 256
  PartsPerAnswer,  \* packets of a long answer
  MaxBatch,        \* messages of the longest batch
  MaxVersion, MaxTime      \* bounds

ASSUME PromiseAssumption ==
  /\ IsFiniteSet(Warnings)
  /\ SeqModulus \in Nat \ {0} /\ PartsPerAnswer \in Nat /\ MaxBatch \in Nat
  /\ MaxVersion \in Nat /\ MaxTime \in Nat

VARIABLES
  now,
  active,          \* the version of each warning in force, 0 if none
  over,            \* and how one ended
  issued,          \* the last version of each that was issued
  whole,           \* the bot has all its products, or only some yet
  spoiled,         \* the warnings of which it said something else than all of them do
  batch,           \* what each task has built and not sent
  nextSeq,
  air,             \* the packets transmitted, in order
  torn             \* the state file was written in the middle of a batch

vars == <<now, active, over, issued, whole, spoiled, batch, nextSeq, air, torn>>

\* What the bot may take for the warnings in force.
Stores ==
  IF whole THEN {active}
  ELSE {held \in [Warnings -> 0 .. MaxVersion] :
          \A w \in Warnings : held[w] <= issued[w] /\ (over[w] = "ranOut" => held[w] = 0)}

Listed(held) == {w \in Warnings : held[w] # 0}
WarningMessage(w, held) == [type |-> "warning", id |-> w, version |-> held[w]]
CancelMessage(w) == [type |-> "cancel", id |-> w]
DigestMessage(held) == [type |-> "digest", listed |-> Listed(held), built |-> now]
StartingUp == [type |-> "starting up"]
PartMessages == {[type |-> "part", index |-> i] : i \in 1 .. PartsPerAnswer}

\* What there is to say now, with these in force.  A warning that ended early is
\* cancelled, once if nothing wrong was said of it.
Cancelled(w) == \E i \in 1 .. Len(air) : air[i].message = CancelMessage(w)
Missing(held) == {w \in Warnings : held[w] = 0 /\ (over[w] = "early" \/ active[w] # 0)}
Sayable(held) ==
  {WarningMessage(w, held) : w \in Listed(held)}
  \cup {CancelMessage(w) : w \in {v \in Missing(held) :
                                   Cancelled(v) => v \in spoiled \/ held[v] # active[v]}}
  \cup {DigestMessage(held)}

\* The messages of a batch: some of these, or the parts of a long answer.
Batches(held) ==
  {b \in (SUBSET Sayable(held)) \cup {PartMessages} : b # {} /\ Cardinality(b) <= MaxBatch}

\* The warnings a batch says something wrong of.
Wrong(b, held) ==
  {w \in Warnings : held[w] # active[w] /\ {WarningMessage(w, held), CancelMessage(w)} \cap b # {}}

Packet(m) == [seq |-> nextSeq, message |-> m]

Init ==
  /\ now = 0
  /\ active = [w \in Warnings |-> 0] /\ over = [w \in Warnings |-> "no"]
  /\ issued = active /\ whole = FALSE /\ spoiled = {}
  /\ batch = [t \in Tasks |-> {}]
  /\ nextSeq = SeqModulus - 1 /\ air = <<>> /\ torn = FALSE

Tick ==
  /\ now < MaxTime /\ now' = now + 1
  /\ UNCHANGED <<active, over, issued, whole, spoiled, batch, nextSeq, air, torn>>

\* A warning is issued or changes, and one that ended never comes back.
Issue(w) ==
  /\ over[w] = "no" /\ active[w] < MaxVersion
  /\ active' = [active EXCEPT ![w] = active[w] + 1] /\ issued' = [issued EXCEPT ![w] = active'[w]]
  /\ UNCHANGED <<now, over, whole, spoiled, batch, nextSeq, air, torn>>

\* It is ended early, or runs out.
End(w, how) ==
  /\ \/ active[w] # 0
     \/ how = "ranOut" /\ over[w] = "early"
  /\ active' = [active EXCEPT ![w] = 0] /\ over' = [over EXCEPT ![w] = how]
  /\ UNCHANGED <<now, issued, whole, spoiled, batch, nextSeq, air, torn>>

\* The bot has the last of its products.
Complete ==
  /\ ~whole /\ whole' = TRUE
  /\ UNCHANGED <<now, active, over, issued, spoiled, batch, nextSeq, air, torn>>

BuildBatch(t) ==
  /\ batch[t] = {}
  /\ \E held \in Stores : \E b \in Batches(held) :
       /\ batch' = [batch EXCEPT ![t] = b]
       /\ spoiled' \in {spoiled, spoiled \cup Wrong(b, held)}
  /\ UNCHANGED <<now, active, over, issued, whole, nextSeq, air, torn>>

\* Or it says that it is starting up.
BuildExcuse(t) ==
  /\ batch[t] = {} /\ ~whole
  /\ batch' = [batch EXCEPT ![t] = {StartingUp}]
  /\ UNCHANGED <<now, active, over, issued, whole, spoiled, nextSeq, air, torn>>

Send(t, m) ==
  /\ m \in batch[t]
  /\ batch' = [batch EXCEPT ![t] = batch[t] \ {m}]
  /\ air' = Append(air, Packet(m)) /\ nextSeq' = (nextSeq + 1) % SeqModulus
  /\ UNCHANGED <<now, active, over, issued, whole, spoiled, torn>>

\* The radio refuses a packet: its number is not used.
Drop(t, m) ==
  /\ m \in batch[t]
  /\ batch' = [batch EXCEPT ![t] = batch[t] \ {m}]
  /\ UNCHANGED <<now, active, over, issued, whole, spoiled, nextSeq, air, torn>>

\* A start, after which its products may have to be read again.
Skipped(skip) == (nextSeq + skip) % SeqModulus
Restart(skip) ==
  /\ batch' = [t \in Tasks |-> {}]
  /\ nextSeq' = Skipped(skip) /\ whole' \in BOOLEAN
  /\ UNCHANGED <<now, active, over, issued, spoiled, air, torn>>

Tear ==
  /\ ~torn /\ torn' = TRUE
  /\ UNCHANGED <<now, active, over, issued, whole, spoiled, batch, nextSeq, air>>

\* With a torn file any number may come next, and the packet in flight may be
\* on the air all the same.
TornRestart ==
  /\ torn' = TRUE /\ whole' \in BOOLEAN
  /\ batch' = [t \in Tasks |-> {}]
  /\ nextSeq' \in 0 .. SeqModulus - 1
  /\ air' \in {air} \cup UNION {{Append(air, Packet(m)) : m \in batch[t]} : t \in Tasks}
  /\ UNCHANGED <<now, active, over, issued, spoiled>>

Next ==
  \/ Tick \/ Complete \/ Tear \/ TornRestart
  \/ \E skip \in 0 .. MaxBatch : Restart(skip)
  \/ \E w \in Warnings : Issue(w) \/ \E how \in {"early", "ranOut"} : End(w, how)
  \/ \E t \in Tasks : BuildBatch(t) \/ BuildExcuse(t) \/ \E m \in batch[t] : Send(t, m) \/ Drop(t, m)

Spec == Init /\ [][Next]_vars
=============================================================================
