------------------------- MODULE ApprovalWatchProofs -------------------------
(***************************************************************************)
(* Proofs about ApprovalWatch, for every set of approvals and of streams   *)
(* and every buffer size.                                                  *)
(***************************************************************************)
EXTENDS ApprovalWatch, TLAPS

-----------------------------------------------------------------------------
(* The inductive invariant.                                                *)

(* What the queue has broadcast follows its entries' status. *)
QueueInv ==
  /\ \A id \in Ids :
       /\ cast[Event("pending", id)] = "none" <=> status[id] = "none"
       /\ cast[Event("resolved", id)] = "none" <=> status[id] # "decided"
       /\ post[id] = "won" => status[id] = "decided"
  /\ \A e \in Events : \A s \in left[e] : cast[e] = "taken" /\ stream[s] # "new"

(* A channel holds only events whose broadcast has begun, and only the     *)
(* channel of a subscriber holds any.                                      *)
ChannelInv ==
  \A s \in Streams :
    /\ s \notin Subscribed => chan[s] = <<>>
    /\ \A i \in 1..Len(chan[s]) : cast[chan[s][i]] \in {"taken", "panicked"}

(* The channel's i-th event, and an event behind it. *)
At(e, s, i) == i \in 1..Len(chan[s]) /\ chan[s][i] = e
Behind(e, s, i) == \E j \in 1..Len(chan[s]) : i < j /\ chan[s][j] = e

(* The event is due, or will be put behind the i-th one, or is there. *)
Follows(e, s, i) == cast[e] = "due" \/ s \in left[e] \/ Behind(e, s, i)

(* A pending approval is in the list the stream is about to send, on the   *)
(* page it has sent it to, or on its way.                                  *)
PendingInv(s, id) ==
  status[id] = "pending" =>
    /\ stream[s] = "listed" => id \in items[s] \/ Follows(Event("pending", id), s, 0)
    /\ stream[s] = "live" /\ s = current => id \in cards \/ Follows(Event("pending", id), s, 0)

(* Where a decided approval shows, or is about to, its resolved event is   *)
(* still to come: to the list, to the page, behind its pending event.      *)
ListedInv(s, id) ==
  status[id] = "decided" /\ stream[s] = "listed" /\ id \in items[s] =>
    Follows(Event("resolved", id), s, 0)

ShownInv(s, id) ==
  status[id] = "decided" /\ stream[s] = "live" /\ s = current /\ id \in cards =>
    Follows(Event("resolved", id), s, 0) \/ <<s, id>> \in overtaken

OrderInv(s, id) ==
  \A i \in Nat : status[id] = "decided" /\ At(Event("pending", id), s, i) =>
    Follows(Event("resolved", id), s, i) \/ <<s, id>> \in overtaken

ResolvedInv(s, id) == ListedInv(s, id) /\ ShownInv(s, id) /\ OrderInv(s, id)

DeliveryInv ==
  \A s \in Streams : Intact(s) =>
    \A id \in Ids : PendingInv(s, id) /\ ResolvedInv(s, id)

WatchInv == TypeOK /\ QueueInv /\ ChannelInv /\ DeliveryInv

-----------------------------------------------------------------------------
(* Events are told apart by kind and id. *)
LEMMA EventFacts ==
  /\ \A id \in Ids : Event("pending", id) \in Events /\ Event("resolved", id) \in Events
  /\ \A id, jd \in Ids :
       /\ Event("pending", id) # Event("resolved", jd)
       /\ Event("pending", id) = Event("pending", jd) => id = jd
       /\ Event("resolved", id) = Event("resolved", jd) => id = jd
  /\ \A e \in Events :
       /\ e[2] \in Ids
       /\ e[1] = "pending" => e = Event("pending", e[2])
       /\ e[1] # "pending" => e = Event("resolved", e[2])
BY DEF Event, Events




(* The invariant holds throughout. *)
LEMMA WatchInvariant == Spec => []WatchInv
<1>1. Init => WatchInv
  <2> SUFFICES ASSUME Init PROVE WatchInv
    OBVIOUS
  <2> USE EventFacts DEF Init
  <2>1. TypeOK
    <3>1. chan \in [Streams -> Seq(Events)] /\ \A s \in Streams : Len(chan[s]) <= Buffer
      BY BufferAssumption
    <3> QED
      BY <3>1 DEF TypeOK
  <2>2. QueueInv /\ ChannelInv
    BY DEF QueueInv, ChannelInv
  <2>3. DeliveryInv
    BY DEF DeliveryInv, PendingInv, ResolvedInv, ListedInv, ShownInv, OrderInv
  <2> QED
    BY <2>1, <2>2, <2>3 DEF WatchInv
(* Every step keeps the state's types and every channel within its buffer. *)
<1>2. TypeOK /\ [Next]_vars => TypeOK'
  <2> SUFFICES ASSUME TypeOK, [Next]_vars PROVE TypeOK'
    OBVIOUS
  <2> USE EventFacts
  <2>1. ASSUME NEW id \in Ids, Register(id) PROVE TypeOK'
    BY <2>1 DEF TypeOK, Register, page
  <2>2. ASSUME NEW id \in Ids, Decide(id) PROVE TypeOK'
    BY <2>2 DEF TypeOK, Decide, Decided, page
  <2>3. ASSUME NEW id \in Ids, Click(id) PROVE TypeOK'
    BY <2>3 DEF TypeOK, Click, queue
  <2>4. ASSUME NEW id \in Ids, DecideActionApproval(id) PROVE TypeOK'
    BY <2>4 DEF TypeOK, DecideActionApproval, Decided
  <2>5. ASSUME NEW id \in Ids, Answer(id) PROVE TypeOK'
    BY <2>5 DEF TypeOK, Answer, queue
  <2>6. ASSUME NEW e \in Events, Snapshot(e) PROVE TypeOK'
    BY <2>6 DEF TypeOK, Snapshot, Subscribed, page
  <2>7. ASSUME NEW e \in Events, NEW s \in Streams, Send(e, s) PROVE TypeOK'
    <3>1. chan' \in [Streams -> Seq(Events)] /\ \A r \in Streams : Len(chan'[r]) <= Buffer
      <4>1. CASE chan' = chan
        BY <4>1 DEF TypeOK
      <4>2. CASE Room(s) /\ chan' = [chan EXCEPT ![s] = Append(@, e)]
        <5>1. chan[s] \in Seq(Events) /\ Len(chan[s]) < Buffer
          BY <4>2 DEF TypeOK, Room
        <5>2. Append(chan[s], e) \in Seq(Events) /\ Len(Append(chan[s], e)) <= Buffer
          BY <5>1, BufferAssumption
        <5> QED
          BY <4>2, <5>2 DEF TypeOK
      <4> QED
        BY <2>7, <4>1, <4>2 DEF Send
    <3>2. /\ cast' \in [Events -> {"none", "due", "taken", "panicked"}]
          /\ left' \in [Events -> SUBSET Streams]
          /\ dropped' \in SUBSET Streams
      <4>1. CASE stream[s] = "closed"
        BY <2>7, <4>1 DEF TypeOK, Send
      <4>2. CASE stream[s] # "closed"
        <5>1. cast' = cast /\ left' = [left EXCEPT ![e] = @ \ {s}]
          BY <2>7, <4>2 DEF Send
        <5>2. dropped' = dropped \/ dropped' = dropped \cup {s}
          BY <2>7, <4>2 DEF Send
        <5> QED
          BY <5>1, <5>2 DEF TypeOK
      <4> QED
        BY <4>1, <4>2
    <3>3. overtaken' \in SUBSET (Streams \X Ids)
      <4>1. overtaken' = overtaken \/ overtaken' = overtaken \cup {<<s, e[2]>>}
        BY <2>7 DEF Send
      <4>2. <<s, e[2]>> \in Streams \X Ids
        OBVIOUS
      <4> QED
        BY <4>1, <4>2 DEF TypeOK
    <3> QED
      BY <2>7, <3>1, <3>2, <3>3 DEF TypeOK, Send, page
  <2>8. ASSUME NEW s \in Streams, Subscribe(s) PROVE TypeOK'
    BY <2>8 DEF TypeOK, Subscribe, queue
  <2>9. ASSUME NEW s \in Streams, ReadList(s) PROVE TypeOK'
    BY <2>9 DEF TypeOK, ReadList, List, queue, page
  <2>10. ASSUME NEW s \in Streams, WriteSnapshot(s) PROVE TypeOK'
    <3>1. ready' \in BOOLEAN
      BY <2>10 DEF TypeOK, WriteSnapshot, OnSnapshot
    <3>2. cards' \in SUBSET Ids
      BY <2>10 DEF TypeOK, WriteSnapshot, OnSnapshot
    <3> QED
      BY <2>10, <3>1, <3>2 DEF TypeOK, WriteSnapshot, queue
  <2>11. ASSUME NEW s \in Streams, WriteEvent(s) PROVE TypeOK'
    <3>1. chan[s] \in Seq(Events) /\ chan[s] # <<>> /\ Len(chan[s]) <= Buffer
      BY <2>11 DEF TypeOK, WriteEvent
    <3>2. /\ Head(chan[s]) \in Events
          /\ Tail(chan[s]) \in Seq(Events)
          /\ Len(Tail(chan[s])) <= Buffer
      BY <3>1, BufferAssumption
    <3>3. chan' \in [Streams -> Seq(Events)] /\ \A r \in Streams : Len(chan'[r]) <= Buffer
      BY <2>11, <3>2 DEF TypeOK, WriteEvent
    <3>4. cards' \in SUBSET Ids
      BY <2>11, <3>2 DEF TypeOK, WriteEvent, ApplyEvent
    <3> QED
      BY <2>11, <3>3, <3>4 DEF TypeOK, WriteEvent, queue
  <2>12. ASSUME NEW s \in Streams, Cancel(s) PROVE TypeOK'
    <3>1. chan' \in [Streams -> Seq(Events)] /\ \A r \in Streams : Len(chan'[r]) <= Buffer
      BY <2>12, BufferAssumption DEF TypeOK, Cancel
    <3> QED
      BY <2>12, <3>1 DEF TypeOK, Cancel, queue, page
  <2>13. CASE Disconnect
    BY <2>13 DEF TypeOK, Disconnect, queue
  <2>14. CASE UNCHANGED vars
    BY <2>14 DEF TypeOK, vars, queue, page
  <2> QED
    BY <2>1, <2>2, <2>3, <2>4, <2>5, <2>6, <2>7, <2>8, <2>9, <2>10, <2>11, <2>12, <2>13, <2>14
    DEF Next
(* Broadcasts follow the queue's entries, and only a subscriber's channel  *)
(* holds events, each of a broadcast that has begun.                       *)
<1>3. TypeOK /\ QueueInv /\ ChannelInv /\ [Next]_vars => QueueInv' /\ ChannelInv'
  <2> SUFFICES ASSUME TypeOK, QueueInv, ChannelInv, [Next]_vars PROVE QueueInv' /\ ChannelInv'
    OBVIOUS
  <2> USE EventFacts DEF QueueInv, ChannelInv, Subscribed, TypeOK
  <2>1. ASSUME NEW id \in Ids, Register(id) PROVE QueueInv' /\ ChannelInv'
    BY <2>1 DEF Register, page
  <2>2. ASSUME NEW id \in Ids, Decide(id) PROVE QueueInv' /\ ChannelInv'
    BY <2>2 DEF Decide, Decided, page
  <2>3. ASSUME NEW id \in Ids, Click(id) PROVE QueueInv' /\ ChannelInv'
    BY <2>3 DEF Click, queue
  <2>4. ASSUME NEW id \in Ids, DecideActionApproval(id) PROVE QueueInv' /\ ChannelInv'
    <3>1. CASE status[id] = "pending"
      <4>1. /\ status' = [status EXCEPT ![id] = "decided"]
            /\ cast' = [cast EXCEPT ![Event("resolved", id)] = "due"]
            /\ post' = [post EXCEPT ![id] = "won"]
            /\ left' = left /\ stream' = stream /\ chan' = chan
        BY <2>4, <3>1 DEF DecideActionApproval, Decided
      <4>2. QueueInv'
        BY <3>1, <4>1
      <4>3. ChannelInv'
        BY <3>1, <4>1
      <4> QED
        BY <4>2, <4>3
    <3>2. CASE status[id] # "pending"
      BY <2>4, <3>2 DEF DecideActionApproval
    <3> QED
      BY <3>1, <3>2
  <2>5. ASSUME NEW id \in Ids, Answer(id) PROVE QueueInv' /\ ChannelInv'
    BY <2>5 DEF Answer, queue
  <2>6. ASSUME NEW e \in Events, Snapshot(e) PROVE QueueInv' /\ ChannelInv'
    BY <2>6 DEF Snapshot, page
  <2>7. ASSUME NEW e \in Events, NEW s \in Streams, Send(e, s) PROVE QueueInv' /\ ChannelInv'
    <3> stream' = stream /\ status' = status /\ post' = post
      BY <2>7 DEF Send, page
    <3>1. CASE stream[s] = "closed"
      <4>1. /\ cast' = [cast EXCEPT ![e] = "panicked"] /\ cast[e] = "taken"
            /\ left' = [left EXCEPT ![e] = {}] /\ chan' = chan
        BY <2>7, <3>1 DEF Send
      <4>2. QueueInv'
        BY <4>1
      <4>3. ChannelInv'
        BY <4>1
      <4> QED
        BY <4>2, <4>3
    <3>2. CASE stream[s] # "closed"
      <4>1. cast' = cast /\ left' = [left EXCEPT ![e] = @ \ {s}] /\ s \in Subscribed
        BY <2>7, <3>2 DEF Send
      <4>2. CASE chan' = chan
        BY <4>1, <4>2
      <4>3. CASE chan' = [chan EXCEPT ![s] = Append(@, e)]
        <5>1. cast[e] = "taken"
          BY <2>7 DEF Send
        <5>2. QueueInv'
          BY <4>1
        <5>3. \A r \in Streams : \A i \in 1..Len(chan'[r]) : 
                chan'[r][i] = e \/ (i \in 1..Len(chan[r]) /\ chan'[r][i] = chan[r][i])
          BY <4>3
        <5>5. ASSUME NEW r \in Streams, NEW i \in 1..Len(chan'[r])
              PROVE  cast'[chan'[r][i]] \in {"taken", "panicked"}
          <6>1. CASE chan'[r][i] = e
            BY <4>1, <5>1, <6>1
          <6>2. CASE i \in 1..Len(chan[r]) /\ chan'[r][i] = chan[r][i]
            <7>1. cast[chan[r][i]] \in {"taken", "panicked"}
              BY <6>2 DEF ChannelInv
            <7> QED
              BY <4>1, <6>2, <7>1
          <6> QED
            BY <5>3, <6>1, <6>2
        <5>4. \A r \in Streams : r \notin Subscribed => chan'[r] = <<>>
          BY <4>1, <4>3
        <5> QED
          BY <4>1, <5>2, <5>4, <5>5
      <4> QED
        BY <2>7, <3>2, <4>2, <4>3 DEF Send
    <3> QED
      BY <3>1, <3>2
  <2>8. ASSUME NEW s \in Streams, Subscribe(s) PROVE QueueInv' /\ ChannelInv'
    BY <2>8 DEF Subscribe, queue
  <2>9. ASSUME NEW s \in Streams, ReadList(s) PROVE QueueInv' /\ ChannelInv'
    BY <2>9 DEF ReadList, queue, page
  <2>10. ASSUME NEW s \in Streams, WriteSnapshot(s) PROVE QueueInv' /\ ChannelInv'
    BY <2>10 DEF WriteSnapshot, queue
  <2>11. ASSUME NEW s \in Streams, WriteEvent(s) PROVE QueueInv' /\ ChannelInv'
    BY <2>11 DEF WriteEvent, queue
  <2>12. ASSUME NEW s \in Streams, Cancel(s) PROVE QueueInv' /\ ChannelInv'
    BY <2>12 DEF Cancel, queue, page
  <2>13. CASE Disconnect
    BY <2>13 DEF Disconnect, queue
  <2>14. CASE UNCHANGED vars
    BY <2>14 DEF vars, queue, page
  <2> QED
    BY <2>1, <2>2, <2>3, <2>4, <2>5, <2>6, <2>7, <2>8, <2>9, <2>10, <2>11, <2>12, <2>13, <2>14
    DEF Next
(* What an intact stream has sent, holds and has still to be given         *)
(* accounts for every pending and every decided approval.                  *)
<1>4. WatchInv /\ TypeOK' /\ [Next]_vars => DeliveryInv'
  <2> SUFFICES ASSUME WatchInv, TypeOK', [Next]_vars,
                      NEW r \in Streams, Intact(r)', NEW k \in Ids
               PROVE  PendingInv(r, k)' /\ ResolvedInv(r, k)'
    BY DEF DeliveryInv
  <2> DEFINE P == Event("pending", k)
             R == Event("resolved", k)
  <2> P \in Events /\ R \in Events /\ P # R
    BY EventFacts
  <2> HIDE DEF P, R
  <2> USE EventFacts DEF WatchInv, Subscribed, TypeOK
  <2>a. ASSUME dropped \subseteq dropped', \A e \in Events : cast'[e] # "panicked" => cast[e] # "panicked"
        PROVE  Intact(r) /\ PendingInv(r, k) /\ ResolvedInv(r, k)
    BY <2>a DEF Intact, DeliveryInv
  <2>b. ASSUME chan'[r] = chan[r]
        PROVE  \A e \in Events, i \in Nat : /\ At(e, r, i)' <=> At(e, r, i)
                                            /\ Behind(e, r, i)' <=> Behind(e, r, i)
    BY <2>b DEF At, Behind
  <2>c. ASSUME NEW e \in Events, chan' = [chan EXCEPT ![r] = Append(@, e)]
        PROVE  /\ \A x \in Events, i \in Nat :
                    /\ Behind(x, r, i) => Behind(x, r, i)'
                    /\ At(x, r, i)' => At(x, r, i) \/ x = e
                    /\ At(x, r, i) => Behind(e, r, i)'
               /\ Behind(e, r, 0)'
    <3>1. chan[r] \in Seq(Events) /\ chan'[r] = Append(chan[r], e)
      BY <2>c
    <3>2. /\ Len(chan'[r]) = Len(chan[r]) + 1 /\ Len(chan[r]) \in Nat
          /\ chan'[r][Len(chan[r]) + 1] = e
          /\ \A i \in 1..Len(chan[r]) : chan'[r][i] = chan[r][i]
      BY <3>1
    <3>3. ASSUME NEW x \in Events, NEW i \in Nat, Behind(x, r, i) PROVE Behind(x, r, i)'
      BY <3>2, <3>3 DEF Behind
    <3>4. ASSUME NEW x \in Events, NEW i \in Nat, At(x, r, i)' PROVE At(x, r, i) \/ x = e
      BY <3>2, <3>4 DEF At
    <3>5. ASSUME NEW i \in Nat, i < Len(chan[r]) + 1 PROVE Behind(e, r, i)'
      <4>1. Len(chan[r]) + 1 \in 1..Len(chan'[r])
        BY <3>2
      <4> QED
        BY <3>2, <3>5, <4>1 DEF Behind
    <3>6. ASSUME NEW x \in Events, NEW i \in Nat, At(x, r, i) PROVE i < Len(chan[r]) + 1
      BY <3>2, <3>6 DEF At
    <3> QED
      BY <3>2, <3>3, <3>4, <3>5, <3>6
  <2>d. ASSUME chan[r] # <<>>, chan' = [chan EXCEPT ![r] = Tail(@)]
        PROVE  /\ At(Head(chan[r]), r, 1) /\ Head(chan[r]) \in Events
               /\ \A x \in Events : \A i \in Nat :
                    /\ At(x, r, i)' => At(x, r, i + 1)
                    /\ Behind(x, r, i + 1) => Behind(x, r, i)'
                    /\ Behind(x, r, 0) => x = Head(chan[r]) \/ Behind(x, r, 0)'
                    /\ Behind(x, r, 1) => Behind(x, r, 0)'
    <3>1. chan[r] \in Seq(Events) /\ chan'[r] = Tail(chan[r])
      BY <2>d
    <3>2. /\ Len(chan'[r]) = Len(chan[r]) - 1 /\ Len(chan[r]) \in Nat \ {0}
          /\ \A i \in 1..Len(chan'[r]) : chan'[r][i] = chan[r][i + 1]
          /\ chan[r][1] = Head(chan[r]) /\ Head(chan[r]) \in Events
      BY <2>d, <3>1
    <3>3. At(Head(chan[r]), r, 1)
      BY <3>2 DEF At
    <3>4. ASSUME NEW x \in Events, NEW i \in Nat, At(x, r, i)' PROVE At(x, r, i + 1)
      BY <3>2, <3>4 DEF At
    <3>5. ASSUME NEW x \in Events, NEW i \in Nat, Behind(x, r, i + 1) PROVE Behind(x, r, i)'
      <4>1. PICK j \in 1..Len(chan[r]) : i + 1 < j /\ chan[r][j] = x
        BY <3>5 DEF Behind
      <4>2. j - 1 \in 1..Len(chan'[r]) /\ i < j - 1 /\ chan'[r][j - 1] = chan[r][j]
        BY <3>2, <4>1
      <4> QED
        BY <4>1, <4>2 DEF Behind
    <3>6. ASSUME NEW x \in Events, Behind(x, r, 0), x # Head(chan[r]) PROVE Behind(x, r, 0 + 1)
      BY <3>2, <3>6 DEF Behind
    <3> QED
      BY <3>2, <3>3, <3>4, <3>5, <3>6
  <2>1. ASSUME NEW id \in Ids, Register(id) PROVE PendingInv(r, k)' /\ ResolvedInv(r, k)'
    <3>0. PendingInv(r, k) /\ ResolvedInv(r, k)
      BY <2>a, <2>1 DEF QueueInv, Register
    <3>1. \A f \in Events, i \in Nat : (At(f, r, i)' <=> At(f, r, i)) /\ (Behind(f, r, i)' <=> Behind(f, r, i))
      BY <2>b, <2>1 DEF Register, page
    <3>2. PendingInv(r, k)'
      BY <2>1, <3>0, <3>1 DEF PendingInv, Follows, Register, page
    <3>3. ListedInv(r, k)'
      BY <2>1, <3>0, <3>1 DEF ResolvedInv, ListedInv, Follows, Register
    <3>4. ShownInv(r, k)'
      BY <2>1, <3>0, <3>1 DEF ResolvedInv, ShownInv, Follows, Register, page
    <3>5. OrderInv(r, k)'
      <4> SUFFICES ASSUME NEW i \in Nat, status'[k] = "decided", At(P, r, i)'
                   PROVE  Follows(R, r, i)' \/ <<r, k>> \in overtaken'
        BY DEF OrderInv, P, R
      <4>1. At(P, r, i) /\ r \in Subscribed
        BY <3>1 DEF At, ChannelInv
      <4>2. status[k] = "decided" => Follows(R, r, i) \/ <<r, k>> \in overtaken
        BY <3>0, <4>1 DEF ResolvedInv, OrderInv, P, R
      <4> QED
        BY <2>1, <3>1, <4>1, <4>2 DEF QueueInv, Follows, P, R, Register, page
    <3> QED
      BY <3>2, <3>3, <3>4, <3>5 DEF ResolvedInv
  <2>2. ASSUME NEW id \in Ids, Decide(id) PROVE PendingInv(r, k)' /\ ResolvedInv(r, k)'
    <3>0. PendingInv(r, k) /\ ResolvedInv(r, k)
      BY <2>a, <2>2 DEF QueueInv, Decide, Decided, page
    <3>1. \A f \in Events, i \in Nat : (At(f, r, i)' <=> At(f, r, i)) /\ (Behind(f, r, i)' <=> Behind(f, r, i))
      BY <2>b, <2>2 DEF Decide, Decided, page
    <3>2. PendingInv(r, k)'
      BY <2>2, <3>0, <3>1 DEF PendingInv, Follows, Decide, Decided, page
    <3>3. ListedInv(r, k)'
      BY <2>2, <3>0, <3>1 DEF ResolvedInv, ListedInv, Follows, Decide, Decided
    <3>4. ShownInv(r, k)'
      BY <2>2, <3>0, <3>1 DEF ResolvedInv, ShownInv, Follows, Decide, Decided, page
    <3>5. OrderInv(r, k)'
      <4> SUFFICES ASSUME NEW i \in Nat, status'[k] = "decided", At(P, r, i)'
                   PROVE  Follows(R, r, i)' \/ <<r, k>> \in overtaken'
        BY DEF OrderInv, P, R
      <4>1. At(P, r, i) /\ r \in Subscribed
        BY <3>1 DEF At, ChannelInv
      <4>2. status[k] = "decided" => Follows(R, r, i) \/ <<r, k>> \in overtaken
        BY <3>0, <4>1 DEF ResolvedInv, OrderInv, P, R
      <4> QED
        BY <2>2, <3>1, <4>1, <4>2 DEF QueueInv, Follows, P, R, Decide, Decided, page
    <3> QED
      BY <3>2, <3>3, <3>4, <3>5 DEF ResolvedInv
  <2>3. ASSUME NEW id \in Ids, Click(id) PROVE PendingInv(r, k)' /\ ResolvedInv(r, k)'
    <3>0. PendingInv(r, k) /\ ResolvedInv(r, k)
      BY <2>a, <2>3 DEF Click, queue
    <3>1. \A f \in Events, i \in Nat : (At(f, r, i)' <=> At(f, r, i)) /\ (Behind(f, r, i)' <=> Behind(f, r, i))
      BY <2>b, <2>3 DEF Click, queue
    <3>2. PendingInv(r, k)'
      BY <2>3, <3>0, <3>1 DEF PendingInv, Follows, Click, queue
    <3>3. ListedInv(r, k)'
      BY <2>3, <3>0, <3>1 DEF ResolvedInv, ListedInv, Follows, Click, queue
    <3>4. ShownInv(r, k)'
      BY <2>3, <3>0, <3>1 DEF ResolvedInv, ShownInv, Follows, Click, queue
    <3>5. OrderInv(r, k)'
      BY <2>3, <3>0, <3>1 DEF ResolvedInv, OrderInv, Follows, Click, queue
    <3> QED
      BY <3>2, <3>3, <3>4, <3>5 DEF ResolvedInv
  <2>4. ASSUME NEW id \in Ids, DecideActionApproval(id) PROVE PendingInv(r, k)' /\ ResolvedInv(r, k)'
    <3>0. PendingInv(r, k) /\ ResolvedInv(r, k)
      BY <2>a, <2>4 DEF QueueInv, DecideActionApproval, Decided
    <3>1. \A f \in Events, i \in Nat : (At(f, r, i)' <=> At(f, r, i)) /\ (Behind(f, r, i)' <=> Behind(f, r, i))
      BY <2>b, <2>4 DEF DecideActionApproval, Decided
    <3>2. PendingInv(r, k)'
      BY <2>4, <3>0, <3>1 DEF PendingInv, Follows, DecideActionApproval, Decided
    <3>3. ListedInv(r, k)'
      BY <2>4, <3>0, <3>1 DEF ResolvedInv, ListedInv, Follows, DecideActionApproval, Decided
    <3>4. ShownInv(r, k)'
      BY <2>4, <3>0, <3>1 DEF ResolvedInv, ShownInv, Follows, DecideActionApproval, Decided
    <3>5. OrderInv(r, k)'
      <4> SUFFICES ASSUME NEW i \in Nat, status'[k] = "decided", At(P, r, i)'
                   PROVE  Follows(R, r, i)' \/ <<r, k>> \in overtaken'
        BY DEF OrderInv, P, R
      <4>1. At(P, r, i) /\ r \in Subscribed
        BY <3>1 DEF At, ChannelInv
      <4>2. status[k] = "decided" => Follows(R, r, i) \/ <<r, k>> \in overtaken
        BY <3>0, <4>1 DEF ResolvedInv, OrderInv, P, R
      <4> QED
        BY <2>4, <3>1, <4>1, <4>2 DEF QueueInv, Follows, P, R, DecideActionApproval, Decided
    <3> QED
      BY <3>2, <3>3, <3>4, <3>5 DEF ResolvedInv
  <2>5. ASSUME NEW id \in Ids, Answer(id) PROVE PendingInv(r, k)' /\ ResolvedInv(r, k)'
    <3>0. PendingInv(r, k) /\ ResolvedInv(r, k)
      BY <2>a, <2>5 DEF Answer, queue
    <3>1. \A f \in Events, i \in Nat : (At(f, r, i)' <=> At(f, r, i)) /\ (Behind(f, r, i)' <=> Behind(f, r, i))
      BY <2>b, <2>5 DEF Answer, queue
    <3>2. PendingInv(r, k)'
      BY <2>5, <3>0, <3>1 DEF QueueInv, PendingInv, Follows, Answer, queue
    <3>3. ListedInv(r, k)'
      BY <2>5, <3>0, <3>1 DEF ResolvedInv, ListedInv, Follows, Answer, queue
    <3>4. ShownInv(r, k)'
      BY <2>5, <3>0, <3>1 DEF ResolvedInv, ShownInv, Follows, Answer, queue
    <3>5. OrderInv(r, k)'
      BY <2>5, <3>0, <3>1 DEF ResolvedInv, OrderInv, Follows, Answer, queue
    <3> QED
      BY <3>2, <3>3, <3>4, <3>5 DEF ResolvedInv
  <2>6. ASSUME NEW e \in Events, Snapshot(e) PROVE PendingInv(r, k)' /\ ResolvedInv(r, k)'
    <3>0. PendingInv(r, k) /\ ResolvedInv(r, k)
      BY <2>a, <2>6 DEF Snapshot
    <3>1. \A f \in Events, i \in Nat : (At(f, r, i)' <=> At(f, r, i)) /\ (Behind(f, r, i)' <=> Behind(f, r, i))
      BY <2>b, <2>6 DEF Snapshot, page
    <3>2. PendingInv(r, k)'
      BY <2>6, <3>0, <3>1 DEF PendingInv, Follows, Snapshot, page
    <3>3. ListedInv(r, k)'
      BY <2>6, <3>0, <3>1 DEF ResolvedInv, ListedInv, Follows, Snapshot
    <3>4. ShownInv(r, k)'
      BY <2>6, <3>0, <3>1 DEF ResolvedInv, ShownInv, Follows, Snapshot, page
    <3>5. OrderInv(r, k)'
      <4> SUFFICES ASSUME NEW i \in Nat, status'[k] = "decided", At(P, r, i)'
                   PROVE  Follows(R, r, i)' \/ <<r, k>> \in overtaken'
        BY DEF OrderInv, P, R
      <4>1. At(P, r, i) /\ r \in Subscribed
        BY <3>1 DEF At, ChannelInv
      <4>2. status[k] = "decided" => Follows(R, r, i) \/ <<r, k>> \in overtaken
        BY <3>0, <4>1 DEF ResolvedInv, OrderInv, P, R
      <4> QED
        BY <2>6, <3>1, <4>1, <4>2 DEF QueueInv, Follows, P, R, Snapshot, page
    <3> QED
      BY <3>2, <3>3, <3>4, <3>5 DEF ResolvedInv
  <2>7. ASSUME NEW e \in Events, NEW s \in Streams, Send(e, s) PROVE PendingInv(r, k)' /\ ResolvedInv(r, k)'
    <3>0. stream[s] # "closed"
      BY <2>7 DEF Send, Intact
    <3>1. /\ status' = status /\ stream' = stream /\ items' = items /\ current' = current /\ cards' = cards
          /\ cast' = cast /\ cast[e] = "taken" /\ s \in left[e]
          /\ left' = [left EXCEPT ![e] = @ \ {s}]
          /\ overtaken \subseteq overtaken'
      BY <2>7, <3>0 DEF Send, page
    <3>2. PendingInv(r, k) /\ ResolvedInv(r, k)
      BY <2>a, <2>7, <3>0, <3>1 DEF Send
    <3>3. ASSUME NEW x \in Events, NEW i \in Nat, i = 0 \/ \E y \in Events : At(y, r, i), Follows(x, r, i)
          PROVE  Follows(x, r, i)'
      <4>1. CASE s # r \/ ~Room(s)
        <5>1. chan'[r] = chan[r]
          BY <2>7, <3>0, <4>1 DEF Send
        <5>2. s # r
          BY <2>7, <3>0, <4>1 DEF Send, Intact
        <5> QED
          BY <2>b, <3>1, <3>3, <5>1, <5>2 DEF Follows
      <4>2. CASE s = r /\ Room(s)
        <5>1. chan' = [chan EXCEPT ![r] = Append(@, e)]
          BY <2>7, <3>0, <4>2 DEF Send
        <5> QED
          <6>1. Behind(x, r, i) => Behind(x, r, i)'
            BY <2>c, <5>1
          <6>2. Behind(e, r, i)'
            BY <2>c, <3>3, <5>1
          <6>3. x # e => left'[x] = left[x]
            BY <3>1
          <6> QED
            BY <3>1, <3>3, <6>1, <6>2, <6>3 DEF Follows
      <4> QED
        BY <4>1, <4>2
    <3>4. PendingInv(r, k)'
      BY <3>1, <3>2, <3>3 DEF PendingInv
    <3>5. ListedInv(r, k)'
      BY <3>1, <3>2, <3>3 DEF ResolvedInv, ListedInv
    <3>6. ShownInv(r, k)'
      BY <3>1, <3>2, <3>3 DEF ResolvedInv, ShownInv
    <3>7. OrderInv(r, k)'
      <4> SUFFICES ASSUME NEW i \in Nat, status[k] = "decided", At(P, r, i)'
                   PROVE  Follows(R, r, i)' \/ <<r, k>> \in overtaken'
        BY <3>1 DEF OrderInv, P, R
      <4>1. CASE At(P, r, i)
        BY <3>1, <3>2, <3>3, <4>1 DEF ResolvedInv, OrderInv, P, R
      <4>2. CASE ~At(P, r, i)
        <5>1. chan' = [chan EXCEPT ![r] = Append(@, e)] /\ s = r /\ e = P
          <6>1. chan'[r] # chan[r]
            BY <2>b, <4>2
          <6>2. chan' = [chan EXCEPT ![r] = Append(@, e)] /\ s = r
            BY <2>7, <3>0, <6>1 DEF Send
          <6> QED
            BY <2>c, <4>2, <6>2
        <5>2. e[1] = "pending" /\ e[2] = k
          BY <5>1 DEF P, Event
        <5>3. CASE ResolvedIsPast(r, k)
          BY <2>7, <3>0, <5>1, <5>2, <5>3 DEF Send
        <5>4. CASE ~ResolvedIsPast(r, k)
          <6>1. cast[R] = "due" \/ r \in left[R]
            BY <5>4 DEF ResolvedIsPast, R
          <6> QED
            BY <3>1, <5>1, <6>1 DEF Follows
        <5> QED
          BY <5>3, <5>4
      <4> QED
        BY <4>1, <4>2
    <3> QED
      BY <3>4, <3>5, <3>6, <3>7 DEF ResolvedInv
  <2>8. ASSUME NEW s \in Streams, Subscribe(s) PROVE PendingInv(r, k)' /\ ResolvedInv(r, k)'
    <3>0. PendingInv(r, k) /\ ResolvedInv(r, k)
      BY <2>a, <2>8 DEF Subscribe, queue
    <3>1. \A f \in Events, i \in Nat : (At(f, r, i)' <=> At(f, r, i)) /\ (Behind(f, r, i)' <=> Behind(f, r, i))
      BY <2>b, <2>8 DEF Subscribe, queue
    <3>2. PendingInv(r, k)'
      BY <2>8, <3>0, <3>1 DEF PendingInv, Follows, Subscribe, queue
    <3>3. ListedInv(r, k)'
      BY <2>8, <3>0, <3>1 DEF ResolvedInv, ListedInv, Follows, Subscribe, queue
    <3>4. ShownInv(r, k)'
      BY <2>8, <3>0, <3>1 DEF ResolvedInv, ShownInv, Follows, Subscribe
    <3>5. OrderInv(r, k)'
      BY <2>8, <3>0, <3>1 DEF ResolvedInv, OrderInv, Follows, Subscribe, queue
    <3> QED
      BY <3>2, <3>3, <3>4, <3>5 DEF ResolvedInv
  <2>9. ASSUME NEW s \in Streams, ReadList(s) PROVE PendingInv(r, k)' /\ ResolvedInv(r, k)'
    <3>0. PendingInv(r, k) /\ ResolvedInv(r, k)
      BY <2>a, <2>9 DEF ReadList, List, queue
    <3>1. \A f \in Events, i \in Nat : (At(f, r, i)' <=> At(f, r, i)) /\ (Behind(f, r, i)' <=> Behind(f, r, i))
      BY <2>b, <2>9 DEF ReadList, List, queue, page
    <3>2. PendingInv(r, k)'
      BY <2>9, <3>0, <3>1 DEF PendingInv, Follows, ReadList, List, queue, page
    <3>3. ListedInv(r, k)'
      BY <2>9, <3>0, <3>1 DEF ResolvedInv, ListedInv, Follows, ReadList, List, queue
    <3>4. ShownInv(r, k)'
      BY <2>9, <3>0, <3>1 DEF ResolvedInv, ShownInv, Follows, ReadList, List, queue, page
    <3>5. OrderInv(r, k)'
      BY <2>9, <3>0, <3>1 DEF ResolvedInv, OrderInv, Follows, ReadList, List, queue
    <3> QED
      BY <3>2, <3>3, <3>4, <3>5 DEF ResolvedInv
  <2>10. ASSUME NEW s \in Streams, WriteSnapshot(s) PROVE PendingInv(r, k)' /\ ResolvedInv(r, k)'
    <3>0. PendingInv(r, k) /\ ResolvedInv(r, k)
      BY <2>a, <2>10 DEF WriteSnapshot, OnSnapshot, queue
    <3>1. \A f \in Events, i \in Nat : (At(f, r, i)' <=> At(f, r, i)) /\ (Behind(f, r, i)' <=> Behind(f, r, i))
      BY <2>b, <2>10 DEF WriteSnapshot, OnSnapshot, queue
    <3>2. PendingInv(r, k)'
      BY <2>10, <3>0, <3>1 DEF PendingInv, Follows, WriteSnapshot, OnSnapshot, queue
    <3>3. ListedInv(r, k)'
      BY <2>10, <3>0, <3>1 DEF ResolvedInv, ListedInv, Follows, WriteSnapshot, OnSnapshot, queue
    <3>4. ShownInv(r, k)'
      <4>1. CASE r = s
        BY <2>10, <3>0, <3>1, <4>1 DEF ResolvedInv, ListedInv, ShownInv, Follows, WriteSnapshot, OnSnapshot, queue
      <4>2. CASE r # s
        BY <2>10, <3>0, <3>1, <4>2 DEF ResolvedInv, ShownInv, Follows, WriteSnapshot, OnSnapshot, queue
      <4> QED
        BY <4>1, <4>2
    <3>5. OrderInv(r, k)'
      BY <2>10, <3>0, <3>1 DEF ResolvedInv, OrderInv, Follows, WriteSnapshot, OnSnapshot, queue
    <3> QED
      BY <3>2, <3>3, <3>4, <3>5 DEF ResolvedInv
  <2>11. ASSUME NEW s \in Streams, WriteEvent(s) PROVE PendingInv(r, k)' /\ ResolvedInv(r, k)'
    <3>0. PendingInv(r, k) /\ ResolvedInv(r, k)
      BY <2>a, <2>11 DEF WriteEvent, queue
    <3>1. /\ status' = status /\ stream' = stream /\ items' = items /\ current' = current
          /\ cast' = cast /\ left' = left /\ overtaken' = overtaken
          /\ stream[s] = "live" /\ chan[s] # <<>> /\ chan' = [chan EXCEPT ![s] = Tail(@)]
      BY <2>11 DEF WriteEvent, queue
    <3>2. CASE s # r
      <4>1. chan'[r] = chan[r] /\ (r = current => cards' = cards)
        BY <2>11, <3>1, <3>2 DEF WriteEvent
      <4>2. \A e \in Events, i \in Nat : (At(e, r, i)' <=> At(e, r, i)) /\ (Follows(e, r, i)' <=> Follows(e, r, i))
        BY <2>b, <3>1, <4>1 DEF Follows
      <4> QED
        BY <3>0, <3>1, <4>1, <4>2 DEF PendingInv, ResolvedInv, ListedInv, ShownInv, OrderInv
    <3>3. CASE s = r
      <4> DEFINE h == Head(chan[r])
      <4>1. /\ At(h, r, 1) /\ h \in Events
            /\ \A x \in Events : \A i \in Nat :
                    /\ At(x, r, i)' => At(x, r, i + 1)
                    /\ Follows(x, r, i + 1) => Follows(x, r, i)'
                    /\ Follows(x, r, 0) => x = h \/ Follows(x, r, 0)'
                    /\ Follows(x, r, 1) => Follows(x, r, 0)'
        BY <2>d, <3>1, <3>3 DEF Follows
      <4>2. r = current => cards' = ApplyEvent(h, cards)
        BY <2>11, <3>3 DEF WriteEvent
      <4> HIDE DEF h
      <4>3. cast[h] \in {"taken", "panicked"}
        BY <4>1 DEF At, ChannelInv
      <4>4. PendingInv(r, k)'
        <5> SUFFICES ASSUME status[k] = "pending", r = current
                     PROVE  k \in cards' \/ Follows(P, r, 0)'
          BY <3>1, <3>3 DEF PendingInv, P
        <5>1. k \in cards \/ Follows(P, r, 0)
          BY <3>0, <3>1, <3>3 DEF PendingInv, P
        <5>2. h # R
          BY <4>3 DEF QueueInv, R
        <5>3. k \in cards => k \in cards'
          <6>1. h[1] # "pending" => h[2] # k
            BY <4>1, <5>2 DEF R
          <6> QED
            BY <4>2, <6>1 DEF ApplyEvent
        <5>4. h = P => k \in cards'
          BY <4>2 DEF ApplyEvent, P, Event
        <5> QED
          BY <4>1, <5>1, <5>3, <5>4
      <4>5. ListedInv(r, k)'
        BY <3>1, <3>3 DEF ListedInv
      <4>6. ShownInv(r, k)'
        <5> SUFFICES ASSUME status[k] = "decided", r = current, k \in cards'
                     PROVE  Follows(R, r, 0)' \/ <<r, k>> \in overtaken'
          BY <3>1, <3>3 DEF ShownInv, R
        <5>1. h # R
          BY <4>2 DEF ApplyEvent, R, Event
        <5>2. CASE h = P
          <6>1. Follows(R, r, 1) \/ <<r, k>> \in overtaken
            BY <3>0, <4>1, <5>2 DEF ResolvedInv, OrderInv, P, R
          <6> QED
            BY <3>1, <4>1, <6>1
        <5>3. CASE h # P
          <6>1. k \in cards
            <7>1. h[1] = "pending" => h[2] # k
              BY <4>1, <5>3 DEF P
            <7> QED
              BY <4>2, <7>1 DEF ApplyEvent
          <6>2. Follows(R, r, 0) \/ <<r, k>> \in overtaken
            BY <3>0, <3>1, <3>3, <6>1 DEF ResolvedInv, ShownInv, R
          <6> QED
            BY <3>1, <4>1, <5>1, <6>2
        <5> QED
          BY <5>2, <5>3
      <4>7. OrderInv(r, k)'
        <5> SUFFICES ASSUME NEW i \in Nat, status[k] = "decided", At(P, r, i)'
                     PROVE  Follows(R, r, i)' \/ <<r, k>> \in overtaken'
          BY <3>1 DEF OrderInv, P, R
        <5>1. At(P, r, i + 1) /\ i + 1 \in Nat
          BY <4>1
        <5>2. Follows(R, r, i + 1) \/ <<r, k>> \in overtaken
          BY <3>0, <5>1 DEF ResolvedInv, OrderInv, P, R
        <5> QED
          BY <3>1, <4>1, <5>2
      <4> QED
        BY <4>4, <4>5, <4>6, <4>7 DEF ResolvedInv
    <3> QED
      BY <3>2, <3>3
  <2>12. ASSUME NEW s \in Streams, Cancel(s) PROVE PendingInv(r, k)' /\ ResolvedInv(r, k)'
    <3>0. /\ status' = status /\ current' = current /\ cards' = cards /\ cast' = cast /\ left' = left
          /\ stream' = [stream EXCEPT ![s] = "closed"] /\ chan' = [chan EXCEPT ![s] = <<>>]
          /\ items' = [items EXCEPT ![s] = {}] /\ dropped' = dropped \ {s}
          /\ overtaken' = {p \in overtaken : p[1] # s}
      BY <2>12 DEF Cancel, queue, page
    <3>1. CASE r = s
      <4>1. stream'[r] = "closed" /\ \A i \in Nat : ~At(P, r, i)'
        BY <3>0, <3>1 DEF At
      <4> QED
        BY <4>1 DEF PendingInv, ResolvedInv, ListedInv, ShownInv, OrderInv, P
    <3>2. CASE r # s
      <4>1. PendingInv(r, k) /\ ResolvedInv(r, k)
        BY <3>0, <3>2 DEF Intact, DeliveryInv
      <4>2. <<r, k>> \in overtaken' <=> <<r, k>> \in overtaken
        BY <3>0, <3>2
      <4>3. \A e \in Events, i \in Nat : (At(e, r, i)' <=> At(e, r, i)) /\ (Follows(e, r, i)' <=> Follows(e, r, i))
        BY <2>b, <3>0, <3>2 DEF Follows
      <4> QED
        <5>1. PendingInv(r, k)' /\ ListedInv(r, k)' /\ ShownInv(r, k)'
          BY <3>0, <3>2, <4>1, <4>2, <4>3 DEF PendingInv, ResolvedInv, ListedInv, ShownInv
        <5>2. OrderInv(r, k)'
          BY <3>0, <4>1, <4>2, <4>3 DEF ResolvedInv, OrderInv
        <5> QED
          BY <5>1, <5>2 DEF ResolvedInv
    <3> QED
      BY <3>1, <3>2
  <2>13. CASE Disconnect
    <3>0. PendingInv(r, k) /\ ResolvedInv(r, k)
      BY <2>a, <2>13 DEF Disconnect, queue
    <3>1. \A f \in Events, i \in Nat : (At(f, r, i)' <=> At(f, r, i)) /\ (Behind(f, r, i)' <=> Behind(f, r, i))
      BY <2>b, <2>13 DEF Disconnect, queue
    <3>2. PendingInv(r, k)'
      BY <2>13, <3>0, <3>1, NoStreamAssumption DEF PendingInv, Follows, Disconnect, queue
    <3>3. ListedInv(r, k)'
      BY <2>13, <3>0, <3>1 DEF ResolvedInv, ListedInv, Follows, Disconnect, queue
    <3>4. ShownInv(r, k)'
      BY <2>13, <3>0, <3>1, NoStreamAssumption DEF ResolvedInv, ShownInv, Follows, Disconnect
    <3>5. OrderInv(r, k)'
      BY <2>13, <3>0, <3>1 DEF ResolvedInv, OrderInv, Follows, Disconnect, queue
    <3> QED
      BY <3>2, <3>3, <3>4, <3>5 DEF ResolvedInv
  <2>14. CASE UNCHANGED vars
    <3>0. PendingInv(r, k) /\ ResolvedInv(r, k)
      BY <2>a, <2>14 DEF vars, queue
    <3>1. \A f \in Events, i \in Nat : (At(f, r, i)' <=> At(f, r, i)) /\ (Behind(f, r, i)' <=> Behind(f, r, i))
      BY <2>b, <2>14 DEF vars, queue, page
    <3>2. PendingInv(r, k)'
      BY <2>14, <3>0, <3>1 DEF PendingInv, Follows, vars, queue, page
    <3>3. ListedInv(r, k)'
      BY <2>14, <3>0, <3>1 DEF ResolvedInv, ListedInv, Follows, vars, queue
    <3>4. ShownInv(r, k)'
      BY <2>14, <3>0, <3>1 DEF ResolvedInv, ShownInv, Follows, vars, queue, page
    <3>5. OrderInv(r, k)'
      BY <2>14, <3>0, <3>1 DEF ResolvedInv, OrderInv, Follows, vars, queue
    <3> QED
      BY <3>2, <3>3, <3>4, <3>5 DEF ResolvedInv
  <2> QED
    BY <2>1, <2>2, <2>3, <2>4, <2>5, <2>6, <2>7, <2>8, <2>9, <2>10, <2>11, <2>12, <2>13, <2>14
    DEF Next
<1>5. WatchInv /\ [Next]_vars => WatchInv'
  BY <1>2, <1>3, <1>4 DEF WatchInv
<1> QED
  BY <1>1, <1>5, PTL DEF Spec

(* Type correctness: in particular no channel outgrows its buffer, since   *)
(* broadcast gives up on a full one.                                       *)
THEOREM TypeCorrect == Spec => []TypeOK
<1>1. WatchInv => TypeOK
  BY DEF WatchInv
<1> QED
  BY <1>1, WatchInvariant, PTL

(* WatchActionApprovals subscribes before it lists: on a live stream that  *)
(* lost nothing, every pending approval is on the page or on its way.      *)
THEOREM NothingMissed == Spec => []NoMissedApproval
<1>1. WatchInv => NoMissedApproval
  BY EventFacts DEF WatchInv, DeliveryInv, PendingInv, NoMissedApproval, Coming, Follows, Behind
<1> QED
  BY <1>1, WatchInvariant, PTL

(* A card of a decided approval is taken away by an event that is still to *)
(* come, unless that approval's pending event overtook the resolved one.   *)
THEOREM GhostsGo == Spec => []NoGhostCard
<1>1. WatchInv => NoGhostCard
  BY EventFacts DEF WatchInv, TypeOK, DeliveryInv, ResolvedInv, ShownInv, NoGhostCard, Coming, Follows, Behind
<1> QED
  BY <1>1, WatchInvariant, PTL
=============================================================================
