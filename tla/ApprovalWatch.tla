---------------------------- MODULE ApprovalWatch ----------------------------
(***************************************************************************)
(* The live list of pending approvals: the queue's event fan-out, the SSE  *)
(* handler of each open stream, and the approvals page that applies the    *)
(* events.  A broadcast reads the subscribers under the queue's lock and   *)
(* sends without it, one channel at a time; Register and Decide change the *)
(* queue well before they broadcast.  Each stream is one HTTP request; the *)
(* browser opens the next one when a stream ends.                          *)
(***************************************************************************)
EXTENDS Naturals, Sequences, FiniteSets

CONSTANTS Ids,      \* approvals registered
          Streams,  \* watch requests of one page, one after the other
          Buffer    \* actionApprovalSubscriberBuffer

ASSUME BufferAssumption == Buffer \in Nat \ {0}

NoStream == "no stream"

ASSUME NoStreamAssumption == NoStream \notin Streams

VARIABLES
  status,     \* per id: "none", "pending" or "decided"
  cast,       \* per event: "none", "due", "taken" (subscribers read) or "panicked"
  left,       \* per event: streams the broadcast has yet to serve
  stream,     \* per stream: "new", "subscribed", "listed", "live" or "closed"
  chan,       \* per stream: its channel
  items,      \* per stream: the list it is about to send
  current,    \* the page's stream
  cards,      \* the page's actionApprovals
  ready,      \* a snapshot has come and no error hides the cards
  post,       \* the page's decision on an id: "none", "sent", "won" or "lost"
  dropped,    \* open streams for which an event was dropped
  overtaken   \* open stream and id: its pending event came after the resolved one

queue == <<status, cast, left>>
page == <<current, cards, ready, post>>
vars == <<queue, stream, chan, items, page, dropped, overtaken>>

Event(kind, id) == <<kind, id>>
Events == {"pending", "resolved"} \X Ids

(* Mutant of Subscribed: a stream subscribes after its snapshot. *)
SubscribedLate == {s \in Streams : stream[s] = "live"}

(* The subscribers map. *)
Subscribed == {s \in Streams : stream[s] \in {"subscribed", "listed", "live"}}

TypeOK ==
  /\ status \in [Ids -> {"none", "pending", "decided"}]
  /\ cast \in [Events -> {"none", "due", "taken", "panicked"}]
  /\ left \in [Events -> SUBSET Streams]
  /\ stream \in [Streams -> {"new", "subscribed", "listed", "live", "closed"}]
  /\ chan \in [Streams -> Seq(Events)]
  /\ \A s \in Streams : Len(chan[s]) <= Buffer
  /\ items \in [Streams -> SUBSET Ids]
  /\ current \in Streams \cup {NoStream}
  /\ cards \in SUBSET Ids
  /\ ready \in BOOLEAN
  /\ post \in [Ids -> {"none", "sent", "won", "lost"}]
  /\ dropped \in SUBSET Streams
  /\ overtaken \in SUBSET (Streams \X Ids)

Init ==
  /\ status = [id \in Ids |-> "none"]
  /\ cast = [e \in Events |-> "none"]
  /\ left = [e \in Events |-> {}]
  /\ stream = [s \in Streams |-> "new"]
  /\ chan = [s \in Streams |-> <<>>]
  /\ items = [s \in Streams |-> {}]
  /\ current = NoStream
  /\ cards = {}
  /\ ready = FALSE
  /\ post = [id \in Ids |-> "none"]
  /\ dropped = {}
  /\ overtaken = {}

-----------------------------------------------------------------------------
(* The queue.                                                              *)

(* Mutant of Register: no broadcast. *)
RegisterSilently(id) ==
  /\ status[id] = "none"
  /\ status' = [status EXCEPT ![id] = "pending"]
  /\ UNCHANGED <<cast, left, stream, chan, items, page, dropped, overtaken>>

(* RegisterKindWithPreviewAndInputs up to its broadcast; the notifier and  *)
(* the list show the entry from here on.                                   *)
Register(id) ==
  /\ status[id] = "none"
  /\ status' = [status EXCEPT ![id] = "pending"]
  /\ cast' = [cast EXCEPT ![Event("pending", id)] = "due"]
  /\ UNCHANGED <<left, stream, chan, items, page, dropped, overtaken>>

(* Decide up to its broadcast; a second one is refused. *)
Decided(id) ==
  /\ status[id] = "pending"
  /\ status' = [status EXCEPT ![id] = "decided"]
  /\ cast' = [cast EXCEPT ![Event("resolved", id)] = "due"]

(* Another client decides. *)
Decide(id) ==
  /\ Decided(id)
  /\ UNCHANGED <<left, stream, chan, items, page, dropped, overtaken>>

(* broadcast: the subscribers of this moment. *)
Snapshot(e) ==
  /\ cast[e] = "due"
  /\ cast' = [cast EXCEPT ![e] = "taken"]
  /\ left' = [left EXCEPT ![e] = Subscribed]
  /\ UNCHANGED <<status, stream, chan, items, page, dropped, overtaken>>

(* No broadcast of the resolved event will reach s after this. *)
ResolvedIsPast(s, id) ==
  LET e == Event("resolved", id) IN
  status[id] = "decided" /\ cast[e] # "due" /\ s \notin left[e]

(* Mutant of Room: one event too many. *)
RoomForOneMore(s) == Len(chan[s]) <= Buffer

Room(s) == Len(chan[s]) < Buffer

(* One send.  A full buffer loses the event; a channel closed since the    *)
(* snapshot makes the send panic, and the rest of the fan-out with it.     *)
Send(e, s) ==
  /\ cast[e] = "taken"
  /\ s \in left[e]
  /\ IF stream[s] = "closed"
     THEN /\ cast' = [cast EXCEPT ![e] = "panicked"]
          /\ left' = [left EXCEPT ![e] = {}]
          /\ UNCHANGED <<chan, dropped, overtaken>>
     ELSE /\ left' = [left EXCEPT ![e] = @ \ {s}]
          /\ IF Room(s)
             THEN chan' = [chan EXCEPT ![s] = Append(@, e)] /\ UNCHANGED dropped
             ELSE dropped' = dropped \cup {s} /\ UNCHANGED chan
          /\ overtaken' = IF e[1] = "pending" /\ ResolvedIsPast(s, e[2])
                          THEN overtaken \cup {<<s, e[2]>>}
                          ELSE overtaken
          /\ UNCHANGED cast
  /\ UNCHANGED <<status, stream, items, page>>

(* broadcast has returned. *)
Sent(e) == cast[e] = "taken" /\ left[e] = {}

-----------------------------------------------------------------------------
(* The stream handler.                                                     *)

(* Mutant of List: every entry the queue keeps, decided or not. *)
ListAll == {id \in Ids : status[id] # "none"}

(* List: decided entries are left out. *)
List == {id \in Ids : status[id] = "pending"}

(* The snapshot replaces the page's cards and clears its error. *)
OnSnapshot(s) ==
  IF s = current THEN cards' = items[s] /\ ready' = TRUE ELSE UNCHANGED <<cards, ready>>

(* The browser opens a stream, and the handler subscribes. *)
Subscribe(s) ==
  /\ stream[s] = "new"
  /\ current = NoStream
  /\ current' = s
  /\ stream' = [stream EXCEPT ![s] = "subscribed"]
  /\ UNCHANGED <<queue, chan, items, cards, ready, post, dropped, overtaken>>

(* WatchActionApprovals: the list is read after the subscription. *)
ReadList(s) ==
  /\ stream[s] = "subscribed"
  /\ stream' = [stream EXCEPT ![s] = "listed"]
  /\ items' = [items EXCEPT ![s] = List]
  /\ UNCHANGED <<queue, chan, page, dropped, overtaken>>

WriteSnapshot(s) ==
  /\ stream[s] = "listed"
  /\ stream' = [stream EXCEPT ![s] = "live"]
  /\ OnSnapshot(s)
  /\ items' = [items EXCEPT ![s] = {}]
  /\ UNCHANGED <<queue, chan, current, post, dropped, overtaken>>

(* applyPending and applyResolved. *)
ApplyEvent(e, shown) == IF e[1] = "pending" THEN shown \cup {e[2]} ELSE shown \ {e[2]}

(* One event from the channel to the page. *)
WriteEvent(s) ==
  /\ stream[s] = "live"
  /\ chan[s] # <<>>
  /\ chan' = [chan EXCEPT ![s] = Tail(@)]
  /\ cards' = IF s = current THEN ApplyEvent(Head(chan[s]), cards) ELSE cards
  /\ UNCHANGED <<queue, stream, items, current, ready, post, dropped, overtaken>>

(* The connection is lost or the page goes away; the handler may not have  *)
(* noticed yet.                                                            *)
Disconnect ==
  /\ current # NoStream
  /\ current' = NoStream
  /\ UNCHANGED <<queue, stream, chan, items, cards, ready, post, dropped, overtaken>>

(* The handler returns: cancel removes the channel and closes it. *)
Cancel(s) ==
  /\ s \in Subscribed
  /\ current # s
  /\ stream' = [stream EXCEPT ![s] = "closed"]
  /\ chan' = [chan EXCEPT ![s] = <<>>]
  /\ items' = [items EXCEPT ![s] = {}]
  /\ dropped' = dropped \ {s}
  /\ overtaken' = {p \in overtaken : p[1] # s}
  /\ UNCHANGED <<queue, page>>

-----------------------------------------------------------------------------
(* The page.                                                               *)

Shown == IF ready THEN cards ELSE {}

(* A click on a card posts the decision; its buttons stay disabled until   *)
(* the answer.                                                             *)
Click(id) ==
  /\ id \in Shown
  /\ post[id] = "none"
  /\ post' = [post EXCEPT ![id] = "sent"]
  /\ UNCHANGED <<queue, stream, chan, items, current, cards, ready, dropped, overtaken>>

(* The post reaches DecideActionApproval: the first decision counts. *)
DecideActionApproval(id) ==
  /\ post[id] = "sent"
  /\ IF status[id] = "pending"
     THEN Decided(id) /\ post' = [post EXCEPT ![id] = "won"]
     ELSE UNCHANGED <<status, cast>> /\ post' = [post EXCEPT ![id] = "lost"]
  /\ UNCHANGED <<left, stream, chan, items, current, cards, ready, dropped, overtaken>>

(* The answer: 204 after the broadcast, and the card goes; 404, or a       *)
(* connection cut by a panic, and the error takes the cards' place.        *)
Answer(id) ==
  /\ \/ /\ post[id] = "won" /\ Sent(Event("resolved", id))
        /\ cards' = cards \ {id}
        /\ UNCHANGED ready
     \/ /\ \/ post[id] = "lost"
           \/ post[id] = "won" /\ cast[Event("resolved", id)] = "panicked"
        /\ ready' = FALSE
        /\ UNCHANGED cards
  /\ post' = [post EXCEPT ![id] = "none"]
  /\ UNCHANGED <<queue, stream, chan, items, current, dropped, overtaken>>

Next ==
  \/ \E id \in Ids : Register(id) \/ Decide(id) \/ Click(id)
                     \/ DecideActionApproval(id) \/ Answer(id)
  \/ \E e \in Events : Snapshot(e) \/ \E s \in Streams : Send(e, s)
  \/ \E s \in Streams : Subscribe(s) \/ ReadList(s) \/ WriteSnapshot(s) \/ WriteEvent(s) \/ Cancel(s)
  \/ Disconnect

(* The daemon's goroutines run on and the browser reconnects; users need   *)
(* not click and connections need not fail.                                *)
Fairness ==
  /\ \A e \in Events : WF_vars(Snapshot(e)) /\ \A s \in Streams : WF_vars(Send(e, s))
  /\ \A s \in Streams : WF_vars(ReadList(s)) /\ WF_vars(WriteSnapshot(s)) /\ WF_vars(WriteEvent(s))
  /\ WF_vars(\E s \in Streams : Subscribe(s))
  /\ \A id \in Ids : WF_vars(DecideActionApproval(id)) /\ WF_vars(Answer(id))

Spec == Init /\ [][Next]_vars /\ Fairness
-----------------------------------------------------------------------------
(* Properties.                                                             *)

(* An event on its way to the page over stream s. *)
Coming(e, s) ==
  \/ cast[e] = "due"
  \/ s \in left[e]
  \/ \E i \in 1..Len(chan[s]) : chan[s][i] = e

(* The stream's handler has lost nothing, and no fan-out broke off. *)
Intact(s) == s \notin dropped /\ \A e \in Events : cast[e] # "panicked"

(* Subscribing before reading the list misses nothing: once a page's       *)
(* stream is live, a pending approval is on the page or its event is on    *)
(* the way.                                                                *)
NoMissedApproval ==
  \A s \in Streams : s = current /\ stream[s] = "live" /\ Intact(s) =>
    \A id \in Ids : status[id] = "pending" =>
      id \in cards \/ Coming(Event("pending", id), s)

(* A card of a decided approval goes away by itself: its resolved event is *)
(* on the way, unless the pending event overtook the resolved one.  The    *)
(* page's own answer is never needed for it.                               *)
NoGhostCard ==
  \A s \in Streams : s = current /\ stream[s] = "live" /\ Intact(s) =>
    \A id \in cards : status[id] = "decided" =>
      Coming(Event("resolved", id), s) \/ <<s, id>> \in overtaken

(* A pending approval comes to be shown on an open page, or decided, while *)
(* the stream is intact and no error hides the cards.                      *)
ApprovalIsShown ==
  \A id \in Ids :
    status[id] = "pending" ~>
      \/ id \in Shown
      \/ status[id] = "decided"
      \/ current = NoStream /\ \A s \in Streams : stream[s] # "new"
      \/ current \in Streams /\ (~Intact(current) \/ (stream[current] = "live" /\ ~ready))

(* "All methods are safe for concurrent use": no broadcast panics. *)
NoBroadcastPanics == \A e \in Events : cast[e] # "panicked"
=============================================================================
