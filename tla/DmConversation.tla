--------------------------- MODULE DmConversation ---------------------------
(***************************************************************************)
(* People asking the bot by direct message (meshcore_weather/main.py and     *)
(* DmRequests of meshcore/delivery.py): a request and its copies, the reply   *)
(* and its further deliveries, and `more`, which sends the next page of a     *)
(* reply.  The outbox is DmOutbox; every step of it here is a step of that    *)
(* module.                                                                  *)
(*                                                                          *)
(* A request, the DmRequest on record and the reply it gets share a number;   *)
(* later requests have higher ones.  Left out: requests of apps (`>`), admin  *)
(* commands, pages sent on the channel, a session that times out and the      *)
(* notes sent while the bot starts up.                                       *)
(***************************************************************************)
EXTENDS DmOutbox

CONSTANTS
  Commands,    \* what a person can ask, `more` apart
  More,
  Pages,       \* pages of a command's reply
  MaxDms       \* bound: direct messages that arrive

ASSUME ConversationConstants ==
  /\ Replies \subseteq Nat \ {0} /\ More \notin Commands
  /\ Pages \in Nat \ {0} /\ MaxDms \in Nat

VARIABLES
  req,        \* DmRequests: the requests on record
  session,    \* _paging: the reply being paged through, and its last page sent
  page,       \* the page of a session each reply carries
  asked,      \* history: the direct messages sent, <<contact, text, timestamp>>
  dms         \* direct messages that arrived

vars == <<outboxVars, req, session, page, asked, dms>>

Texts == Commands \union {More}

\* What a page says; two notes answer a `more` that has nothing to continue.
PageText(text, idx) == <<text, idx>>
Note == <<More, 0>>
AllBodies == {PageText(t, i) : t \in Commands, i \in 0 .. Pages - 1} \union {Note}

\* An instance: all the replies are to one person.
Alone == [r \in Replies |-> CHOOSE c \in Contacts : TRUE]

ASSUME BodiesAreAll == AllBodies \subseteq Bodies

NoRequest == [state |-> "none", text |-> More, stamps |-> {}, age |-> "old"]
NoSession == [opener |-> 0, last |-> 0]
NoPage == [of |-> 0, idx |-> 0]

Init ==
  /\ OutboxInit
  /\ req = [r \in Replies |-> NoRequest]
  /\ session = [c \in Contacts |-> NoSession]
  /\ page = [r \in Replies |-> NoPage]
  /\ asked = {} /\ dms = 0
-----------------------------------------------------------------------------
(* Telling a copy from a new request. *)

\* The requests of a contact that are still on record; "fresh" is inside
\* MCW_DM_COPY_WINDOW_S of the first copy, "kept" inside MCW_DM_COPY_RETAIN_S.
Known(c, on) == {r \in Replies : KeyOf[r] = c /\ on[r].age # "old"}

Newest(S) == {r \in S : \A q \in S : q <= r}

SameStamp(c, on, text, stamp) ==
  {r \in Known(c, on) : on[r].text = text /\ stamp \in on[r].stamps}

SameText(c, on, text) == {r \in Known(c, on) : on[r].text = text /\ on[r].age = "fresh"}

\* _more_copy_of: the request a `more` with a new timestamp copies.
MoreCopyOf(c, on, candidates) ==
  LET last == IF candidates # {} THEN Newest(candidates) ELSE {session[c].last} IN
  {r \in last \intersect Known(c, on) : rep[r].state # "confirmed"}

\* DmRequests.match: the request a DM copies, as a set of at most one.
Copied(c, on, text, stamp) ==
  IF SameStamp(c, on, text, stamp) # {} THEN Newest(SameStamp(c, on, text, stamp))
  ELSE IF text = More THEN MoreCopyOf(c, on, SameText(c, on, text))
  ELSE Newest(SameText(c, on, text))

Unused(c) == {r \in Replies : KeyOf[r] = c /\ req[r].state = "none"}

\* A DM that copies nothing goes on record as a request.
Opened(c, on, text, stamp) ==
  \E r \in Unused(c) :
    /\ \A q \in Unused(c) : r <= q
    /\ req' = [on EXCEPT ![r] = [state |-> "building", text |-> text, stamps |-> {stamp},
                                  age |-> "fresh"]]
    /\ UNCHANGED <<rep, queue>>

\* mutation: a copy has an unconfirmed reply delivered again, wherever it is.
CopyRedelivers(r, on, stamp) ==
  LET heard == [on[r] EXCEPT !.stamps = @ \union {stamp}] IN
  \/ /\ req[r].state = "limited"
     /\ req' = [on EXCEPT ![r] = [heard EXCEPT !.state = "building"]]
     /\ UNCHANGED <<rep, queue>>
  \/ /\ req[r].state = "replied" /\ rep[r].state # "confirmed"
     /\ req' = [on EXCEPT ![r] = heard]
     /\ Submitted(r, Noted(rep[r]))
  \/ /\ req[r].state \notin {"limited", "replied"} \/ rep[r].state = "confirmed"
     /\ req' = [on EXCEPT ![r] = heard]
     /\ UNCHANGED <<rep, queue>>

\* _copy_action and _handle_dm_copy: a copy of a request that was never
\* answered is answered now, one whose reply failed has it delivered again,
\* unless the hourly budget refuses that; any other gets nothing.
CopyHandled(r, on, stamp) ==
  LET heard == [on[r] EXCEPT !.stamps = @ \union {stamp}] IN
  \/ /\ req[r].state = "limited"
     /\ req' = [on EXCEPT ![r] = [heard EXCEPT !.state = "building"]]
     /\ UNCHANGED <<rep, queue>>
  \/ /\ req[r].state = "replied" /\ rep[r].state \in {"failed", "dropped"}
     /\ req' = [on EXCEPT ![r] = heard]
     /\ \/ Submitted(r, Noted(rep[r]))
        \/ rep' = [rep EXCEPT ![r] = TurnedAway(Noted(rep[r]))] /\ UNCHANGED queue
  \/ /\ ~(req[r].state = "limited")
     /\ ~(req[r].state = "replied" /\ rep[r].state \in {"failed", "dropped"})
     /\ req' = [on EXCEPT ![r] = heard]
     /\ rep' = [rep EXCEPT ![r] = Noted(rep[r])]
     /\ UNCHANGED queue

\* A phone sends a text under a timestamp of its own, and sends it again under
\* the same timestamp or a new one; a copy may arrive at any time.  Nobody
\* starts with `more`.
Sendable(c, text, stamp) ==
  LET mine == {m \in asked : m[1] = c} IN
  \/ <<c, text, stamp>> \in asked
  \/ stamp = Cardinality(mine) + 1 /\ (text # More \/ mine # {})

\* The time since the message before may have made requests older, those of one
\* person in their order.
Ageings ==
  {age \in [Replies -> {"fresh", "kept", "old"}] : \A r \in Replies :
     /\ req[r].age = "kept" => age[r] # "fresh"
     /\ req[r].age = "old" => age[r] = "old"
     /\ \A q \in Known(KeyOf[r], req) :
          /\ r < q /\ age[r] = "fresh" => age[q] = "fresh"
          /\ r < q /\ age[q] = "old" => age[r] = "old"}

Aged(age) == [r \in Replies |-> [req[r] EXCEPT !.age = age[r]]]

\* _handle_dm, up to its end or to the await of _parse in _answer_dm_now.
DmArrives(c, text, stamp) ==
  /\ dms < MaxDms /\ dms' = dms + 1
  /\ Sendable(c, text, stamp)
  /\ asked' = asked \union {<<c, text, stamp>>}
  /\ \E age \in Ageings :
       LET on == Aged(age) IN
       \/ \E r \in Copied(c, on, text, stamp) : CopyHandled(r, on, stamp)
       \/ Copied(c, on, text, stamp) = {} /\ Opened(c, on, text, stamp)
  /\ UNCHANGED <<lastTs, worker, expected, early, got, acks, sends, due, session, page>>

\* _answer_dm_now: the rate limiter (or an error) leaves the request for its
\* next copy; otherwise the reply is made and queued.
Answer(r) ==
  /\ req[r].state = "building"
  /\ \/ /\ req' = [req EXCEPT ![r].state = "limited"]
        /\ UNCHANGED <<rep, queue>>
     \/ /\ req' = [req EXCEPT ![r].state = "replied"]
        /\ Submitted(r, rep[r])
  /\ UNCHANGED <<lastTs, worker, expected, early, got, acks, sends, due,
                 session, page, asked, dms>>
-----------------------------------------------------------------------------
(* Paging. *)

\* mutation: a page counts as delivered once it is sent.
SentPages(of) == {page[r].idx : r \in {q \in Replies : page[q].of = of /\ rep[q].tries > 0}}

\* The pages of a session its person has confirmed (the on_confirmed hook).
ConfirmedPages(of) ==
  {page[r].idx : r \in {q \in Replies : page[q].of = of /\ rep[q].state = "confirmed"}}

\* _first_unconfirmed, as a set of at most one.
FirstUnconfirmed(of) ==
  LET open == 0 .. Pages - 1 \ ConfirmedPages(of) IN
  {i \in open : \A j \in open : i <= j}

\* _deliver's preparation of a reply, with _set_session, _dm_more, _track_page:
\* a command opens a session with its page 0; `more` takes the first page not
\* confirmed when it is about to go out.
DeliverReply(c, routed) ==
  /\ queue[c] # <<>>
  /\ LET r == Current(c)
         of == session[c].opener IN
     \/ /\ rep[r].body # NoBody
        /\ Deliver(c, routed, rep[r].body)
        /\ UNCHANGED <<session, page>>
     \/ /\ rep[r].body = NoBody /\ req[r].text # More
        /\ Deliver(c, routed, PageText(req[r].text, 0))
        /\ session' = [session EXCEPT ![c] = [opener |-> r, last |-> r]]
        /\ page' = [page EXCEPT ![r] = [of |-> r, idx |-> 0]]
     \/ /\ rep[r].body = NoBody /\ req[r].text = More
        /\ of # 0 /\ FirstUnconfirmed(of) # {}
        /\ \E i \in FirstUnconfirmed(of) :
             /\ Deliver(c, routed, PageText(req[of].text, i))
             /\ session' = [session EXCEPT ![c].last = r]
             /\ page' = [page EXCEPT ![r] = [of |-> of, idx |-> i]]
     \/ /\ rep[r].body = NoBody /\ req[r].text = More
        /\ of = 0 \/ FirstUnconfirmed(of) = {}
        /\ Deliver(c, routed, Note)
        /\ UNCHANGED <<session, page>>
  /\ UNCHANGED <<req, asked, dms>>

\* The other steps of a contact's worker.
WorkerGoesOn(c) ==
  /\ \/ Skip(c) \/ PathReset(c) \/ Refused(c) \/ HandedOver(c)
     \/ WindowEnds(c)
     \/ \E reaches \in BOOLEAN : Transmit(c, reaches)
     \/ \E routed \in BOOLEAN : JitterEnds(c, routed)
  /\ UNCHANGED <<req, session, page, asked, dms>>

Work(c) == WorkerGoesOn(c) \/ \E routed \in BOOLEAN : DeliverReply(c, routed)

Next ==
  \/ \E c \in Contacts, text \in Texts, stamp \in 1 .. MaxDms :
       DmArrives(c, text, stamp)
  \/ \E r \in Replies : Answer(r)
  \/ \E c \in Contacts : Work(c)
  \/ Surroundings /\ UNCHANGED <<req, session, page, asked, dms>>

Spec == Init /\ [][Next]_vars
-----------------------------------------------------------------------------
(* Properties. *)

TypeOK ==
  /\ req \in [Replies -> [state : {"none", "building", "limited", "replied"}, text : Texts,
                          stamps : SUBSET Nat, age : {"fresh", "kept", "old"}]]
  /\ session \in [Contacts -> [opener : Replies \union {0}, last : Replies \union {0}]]
  /\ page \in [Replies -> [of : Replies \union {0}, idx : 0 .. Pages - 1]]
  /\ \A r \in Replies : rep[r].state # "new" => req[r].state = "replied"

\* However many copies of a request come in, and whenever they do, its reply is
\* never in the queue twice (main.py:771).
QueuedOnce ==
  \A c \in Contacts : \A i, j \in DOMAIN queue[c] : queue[c][i] = queue[c][j] => i = j

\* `more` may repeat a page whose ACK was lost but never skips one: when a page
\* goes out, the person's phone has every page before it (main.py:1251).
PagesInOrder ==
  \A r \in Replies : \A j \in 0 .. page[r].idx - 1 :
    \E p \in got : page[p[1]] = [of |-> page[r].of, idx |-> j]
=============================================================================
