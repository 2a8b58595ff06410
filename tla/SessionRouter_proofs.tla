-------------------------- MODULE SessionRouter_proofs --------------------------
(* Theorems about SessionRouter, for any number of clients, notifiers and       *)
(* requests, and any size of the pool.                                          *)
EXTENDS SessionRouter, FiniteSetTheorems, TLAPS

(***************************************************************************)
(* The parts of the inductive invariant.                                   *)
(*                                                                         *)
(* The queue is always the last Len(queue) entries issued, in order, each  *)
(* numbered by its place; entries up to Served have been dequeued, and     *)
(* only those can be in a notifier's hand or have something in their       *)
(* channel.                                                                *)
(***************************************************************************)
Waiting(c) == req[c] \in {"enqueued", "waiting"}
FullOnes   == {c \in Clients : req[c] = "full"}
Served     == issued - Len(queue)

QueueInv ==
    /\ Len(queue) <= issued
    /\ \A i \in 1..Len(queue) : queue[i] = Served + i /\ position[queue[i]] = i

WaitInv ==
    \A c \in Clients :
        /\ Waiting(c) => entry[c] \in 1..issued
        /\ req[c] = "waiting" => position[entry[c]] <= shown[c]

RoomInv == issued + Cardinality(FullOnes) <= MaxTickets

HandInv ==
    /\ \A n \in Notifiers : passing[n][1] # 0 =>
           passing[n][1] <= Served /\ ready[passing[n][1]] = None
    /\ \A m, n \in Notifiers : passing[m][1] = passing[n][1] /\ passing[m][1] # 0 => m = n
    /\ \A t \in Tickets : ready[t] # None => t <= Served

RouterInv == QueueInv /\ WaitInv /\ RoomInv

-----------------------------------------------------------------------------
(* Fresh sessions and tickets *)

\* uuid.NewString returns a session, when the supply lets it.
LEMMA FreshSession == Unused # {} => NewSession \in Sessions
  BY DEF NewSession, Unused

\* There is a ticket for every request that found the pool full.
LEMMA TicketLeft ==
  ASSUME TypeOK, RoomInv, NEW c \in Clients, req[c] = "full"
  PROVE  issued < MaxTickets
<1>1. IsFiniteSet(FullOnes) /\ c \in FullOnes
  BY FS_Subset, RouterAssumption DEF FullOnes
<1>2. Cardinality(FullOnes) \in Nat /\ Cardinality(FullOnes) # 0
  BY <1>1, FS_EmptySet, FS_CardinalityType
<1> QED BY <1>2, RouterAssumption DEF RoomInv, TypeOK

-----------------------------------------------------------------------------
(* Types *)

LEMMA TypeInit == Init => TypeOK
  BY RouterAssumption DEF Init, TypeOK, Tickets

LEMMA TypeNext == TypeOK /\ RouterInv /\ [Next]_vars => TypeOK'
<1> SUFFICES ASSUME TypeOK, RouterInv, [Next]_vars PROVE TypeOK'
  OBVIOUS
<1> USE RouterAssumption DEF Goto, Return, Tickets, pool, waiters, entries
<1>1. Unused # {} => NewSession \in Sessions
  BY FreshSession
<1>2. ASSUME NEW c \in Clients, Lookup(c) PROVE TypeOK'
  BY <1>2 DEF Lookup, TypeOK
<1>3. ASSUME NEW c \in Clients, Proxied(c) \/ AllocateFails(c) \/ StreamUnsupported(c) \/ Leave(c)
      PROVE  TypeOK'
  <2>1. Return(c) /\ UNCHANGED <<pool, known, entries, passing, audited>>
    BY <1>3 DEF Proxied, AllocateFails, StreamUnsupported, Leave
  <2> QED BY <2>1 DEF TypeOK
<1>4. ASSUME NEW c \in Clients, AllocateOk(c) PROVE TypeOK'
  BY <1>1, <1>4 DEF AllocateOk, Grant, TypeOK
<1>5. ASSUME NEW c \in Clients, AllocateUnseen(c) PROVE TypeOK'
  BY <1>1, <1>5 DEF AllocateUnseen, Grant, TypeOK
<1>6. ASSUME NEW c \in Clients, Exhausted(c) PROVE TypeOK'
  BY <1>6 DEF Exhausted, TypeOK
<1>7. ASSUME NEW c \in Clients, Admitted(c) PROVE TypeOK'
  BY <1>7 DEF Admitted, TypeOK
<1>8. ASSUME NEW c \in Clients, Enqueue(c) PROVE TypeOK'
  <2>1. issued < MaxTickets /\ issued' \in Tickets
    <3>1. issued < MaxTickets
      BY <1>8, TicketLeft DEF Enqueue, RouterInv
    <3> QED BY <1>8, <3>1 DEF Enqueue, TypeOK
  <2>2. NewPosition \in 0..MaxTickets
    BY <2>1 DEF NewPosition, RouterInv, QueueInv, TypeOK
  <2>3. queue' \in Seq(Tickets)
    BY <1>8, <2>1 DEF Enqueue, TypeOK
  <2>4. position' \in [Tickets -> 0..MaxTickets]
    BY <1>8, <2>1, <2>2 DEF Enqueue, TypeOK
  <2>5. entry' \in [Clients -> 0..MaxTickets] /\ issued' \in 0..MaxTickets
    BY <1>8, <2>1 DEF Enqueue, TypeOK
  <2>6. req' \in [Clients -> {"none", "proxying", "allocating", "creating", "full", "enqueued",
                              "waiting"}]
    BY <1>8 DEF Enqueue, TypeOK
  <2>7. UNCHANGED <<pool, known, shown, ready, passing, audited>>
    BY <1>8 DEF Enqueue
  <2> QED BY <2>3, <2>4, <2>5, <2>6, <2>7 DEF TypeOK
<1>9. ASSUME NEW c \in Clients, StreamStart(c) \/ StreamTick(c) PROVE TypeOK'
  <2>1. entry[c] \in Tickets
    BY <1>9 DEF StreamStart, StreamTick, RouterInv, WaitInv, Waiting, TypeOK
  <2> QED BY <1>9, <2>1 DEF StreamStart, StreamTick, TypeOK
<1>10. ASSUME NEW c \in Clients, StreamReady(c) PROVE TypeOK'
  <2>1. entry[c] \in Tickets
    BY <1>10 DEF StreamReady, RouterInv, WaitInv, Waiting, TypeOK
  <2> QED BY <1>10, <2>1 DEF StreamReady, TypeOK
<1>11. ASSUME NEW n \in Notifiers, NotifyDequeue(n) PROVE TypeOK'
  <2>1. Head(queue) \in Tickets /\ queue' \in Seq(Tickets) /\ Len(queue') <= MaxTickets
    <3>1. queue \in Seq(Tickets) /\ queue # <<>> /\ queue' = Tail(queue)
      BY <1>11 DEF NotifyDequeue, DequeueFrom, TypeOK
    <3>2. Len(queue) <= issued /\ issued <= MaxTickets /\ issued \in Nat /\ MaxTickets \in Nat
      BY RouterAssumption DEF RouterInv, QueueInv, TypeOK
    <3>3. /\ Head(queue) \in Tickets /\ Tail(queue) \in Seq(Tickets)
          /\ Len(Tail(queue)) = Len(queue) - 1 /\ Len(queue) \in Nat
      BY <3>1
    <3> QED BY <3>1, <3>2, <3>3
  <2>2. position' \in [Tickets -> 0..MaxTickets]
    <3>1. ASSUME NEW t \in Tickets, \E i \in 1..Len(queue') : queue'[i] = t
          PROVE  (CHOOSE i \in 1..Len(queue') : queue'[i] = t) \in 1..Len(queue')
      BY <3>1
    <3>2. \A i \in 1..Len(queue') : i \in 0..MaxTickets
      BY <2>1
    <3> QED BY <1>11, <3>1, <3>2 DEF NotifyDequeue, DequeueFrom, TypeOK
  <2>3. passing' \in [Notifiers -> (0..MaxTickets) \X (Sessions \cup {None})]
    <3>1. passing[n][2] \in Sessions \cup {None}
      BY DEF TypeOK
    <3> QED BY <1>11, <2>1, <3>1 DEF NotifyDequeue, TypeOK
  <2> QED BY <1>11, <2>1, <2>2, <2>3 DEF NotifyDequeue, TypeOK
<1>12. ASSUME NEW n \in Notifiers, NotifySend(n) PROVE TypeOK'
  <2>1. passing[n][1] \in Tickets /\ passing[n][2] \in Sessions \cup {None}
    BY <1>12 DEF NotifySend, TypeOK
  <2>2. ready' \in [Tickets -> Sessions \cup {None}]
    BY <1>12, <2>1 DEF NotifySend, TypeOK
  <2>3. passing' \in [Notifiers -> (0..MaxTickets) \X (Sessions \cup {None})]
    BY <1>12 DEF NotifySend, TypeOK
  <2> QED BY <1>12, <2>2, <2>3 DEF NotifySend, TypeOK
<1>13. ASSUME NEW k \in Sessions, Age(k) \/ Collect(k) PROVE TypeOK'
  BY <1>13 DEF Age, Collect, Collectable, TypeOK
<1>14. ASSUME NEW n \in Notifiers, Obtain(n) PROVE TypeOK'
  BY <1>1, <1>14 DEF Obtain, Grant, TypeOK
<1>15. ASSUME NEW n \in Notifiers, NotifyNobody(n) PROVE TypeOK'
  BY <1>15 DEF NotifyNobody, TypeOK
<1>16. CASE UNCHANGED vars BY <1>16 DEF vars, TypeOK
<1> QED BY <1>2, <1>3, <1>4, <1>5, <1>6, <1>7, <1>8, <1>9,
           <1>10, <1>11, <1>12, <1>13, <1>14, <1>15, <1>16
        DEF Next

-----------------------------------------------------------------------------
(* The queue and its waiters *)

LEMMA RouterInit == Init => RouterInv
<1> SUFFICES ASSUME Init PROVE RouterInv
  OBVIOUS
<1>1. QueueInv /\ WaitInv
  BY DEF Init, QueueInv, WaitInv, Waiting
<1>2. IsFiniteSet({}) /\ Cardinality({}) = 0
  BY FS_EmptySet
<1>3. FullOnes = {}
  BY DEF Init, FullOnes
<1> QED BY <1>1, <1>2, <1>3, RouterAssumption DEF Init, RouterInv, RoomInv

\* What Dequeue does to the queue: the others move up by one.
LEMMA DequeueEffect ==
  ASSUME TypeOK, QueueInv, queue # <<>>, DequeueFrom, UNCHANGED issued
  PROVE  /\ Head(queue) = Served + 1 /\ Served' = Served + 1
         /\ QueueInv'
         /\ \A t \in Tickets : position'[t] <= position[t]
<1>1. Served \in Int /\ \A j \in 1..Len(queue) : queue[j] \in Tickets
  BY DEF Served, TypeOK
<1> USE RouterAssumption DEF Tickets
<1>2. /\ Len(queue) \in Nat \ {0} /\ Len(queue') = Len(queue) - 1 /\ Head(queue) = queue[1]
      /\ \A i \in 1..Len(queue') : queue'[i] = queue[i + 1]
  BY DEF DequeueFrom, TypeOK
<1>3. Head(queue) = Served + 1 /\ Served' = Served + 1
  BY <1>2 DEF QueueInv, Served, TypeOK
<1>4. ASSUME NEW i \in 1..Len(queue')
      PROVE  /\ queue'[i] = Served' + i /\ queue'[i] \in Tickets
             /\ position[queue'[i]] = i + 1
  <2>1. i \in Int /\ i + 1 \in 1..Len(queue) /\ queue'[i] = queue[i + 1]
    BY <1>2
  <2>2. queue[i + 1] = Served + (i + 1) /\ position[queue[i + 1]] = i + 1
    BY <2>1 DEF QueueInv
  <2> QED BY <1>1, <1>3, <2>1, <2>2
<1>5. ASSUME NEW i \in 1..Len(queue') PROVE position'[queue'[i]] = i
  <2>1. \A j \in 1..Len(queue') : queue'[j] = queue'[i] => j = i
    <3>1. Served' \in Int
      BY <1>1, <1>3
    <3>2. \A j \in 1..Len(queue') : queue'[j] = Served' + j
      BY <1>4
    <3> QED BY <3>1, <3>2
  <2>2. (CHOOSE j \in 1..Len(queue') : queue'[j] = queue'[i]) = i
    BY <2>1
  <2> QED BY <1>4, <2>2 DEF DequeueFrom
<1>6. ASSUME NEW t \in Tickets PROVE position'[t] <= position[t]
  <2>1. CASE \E i \in 1..Len(queue') : queue'[i] = t
    <3>1. PICK i \in 1..Len(queue') : queue'[i] = t
      BY <2>1
    <3> QED BY <1>2, <1>4, <1>5, <3>1
  <2>2. CASE ~ \E i \in 1..Len(queue') : queue'[i] = t
    BY <2>2 DEF DequeueFrom, TypeOK
  <2> QED BY <2>1, <2>2
<1>7. Len(queue') <= issued'
  BY <1>2 DEF QueueInv, TypeOK
<1> QED BY <1>3, <1>4, <1>5, <1>6, <1>7 DEF QueueInv

LEMMA QueueNext == TypeOK /\ RouterInv /\ [Next]_vars => QueueInv'
<1> SUFFICES ASSUME TypeOK, RouterInv, [Next]_vars PROVE QueueInv'
  OBVIOUS
<1>1. ASSUME UNCHANGED <<queue, position, issued>> PROVE QueueInv'
  BY <1>1 DEF RouterInv, QueueInv, Served
<1>2. ASSUME NEW c \in Clients, Enqueue(c) PROVE QueueInv'
  <2>1. issued < MaxTickets
    BY <1>2, TicketLeft DEF Enqueue, RouterInv
  <2>2. issued' \in Tickets /\ issued' = issued + 1 /\ issued \in Nat
    BY <1>2, <2>1, RouterAssumption DEF Enqueue, TypeOK, Tickets
  <2>3. /\ Len(queue) \in Nat /\ Len(queue') = Len(queue) + 1
        /\ queue'[Len(queue')] = issued'
        /\ \A i \in 1..Len(queue) : queue'[i] = queue[i]
    BY <1>2, <2>2 DEF Enqueue, TypeOK
  <2>4. Served' = Served
    BY <2>2, <2>3 DEF Served
  <2>5. ASSUME NEW i \in 1..Len(queue)
        PROVE  queue'[i] = Served' + i /\ position'[queue'[i]] = i
    <3>1. queue[i] = Served + i /\ queue[i] < issued' /\ queue[i] \in Tickets
      BY <2>2, <2>3 DEF RouterInv, QueueInv, Served, TypeOK
    <3>2. position'[queue[i]] = position[queue[i]]
      BY <1>2, <2>2, <3>1 DEF Enqueue, TypeOK, Tickets
    <3> QED BY <2>3, <2>4, <3>1, <3>2 DEF RouterInv, QueueInv
  <2>6. issued' = Served' + Len(queue') /\ position'[issued'] = Len(queue')
    BY <1>2, <2>2, <2>3 DEF Enqueue, NewPosition, Served, TypeOK
  <2> QED BY <2>2, <2>3, <2>5, <2>6 DEF RouterInv, QueueInv
<1>3. ASSUME NEW n \in Notifiers, NotifyDequeue(n) PROVE QueueInv'
  BY <1>3, DequeueEffect DEF NotifyDequeue, RouterInv
<1> QED BY <1>1, <1>2, <1>3
        DEF Next, Lookup, Proxied, Admitted, AllocateOk, AllocateUnseen,
            AllocateFails, Exhausted, StreamUnsupported, StreamStart, StreamTick, StreamReady,
            Leave, Obtain, NotifyNobody, NotifySend, Age, Collect, vars, entries

LEMMA WaitNext == TypeOK /\ RouterInv /\ [Next]_vars => WaitInv'
<1> SUFFICES ASSUME TypeOK, RouterInv, [Next]_vars, NEW d \in Clients
             PROVE  /\ Waiting(d)' => entry'[d] \in 1..issued'
                    /\ req'[d] = "waiting" => position'[entry'[d]] <= shown'[d]
  BY DEF WaitInv
<1> DEFINE Goal == /\ Waiting(d)' => entry'[d] \in 1..issued'
                   /\ req'[d] = "waiting" => position'[entry'[d]] <= shown'[d]
<1> USE RouterAssumption DEF Goto, Return, Tickets, Waiting
<1>1. /\ Waiting(d) => entry[d] \in 1..issued
      /\ req[d] = "waiting" => position[entry[d]] <= shown[d]
  BY DEF RouterInv, WaitInv
<1>2. ASSUME NEW c \in Clients, Return(c), UNCHANGED <<position, issued>> PROVE Goal
  BY <1>1, <1>2 DEF TypeOK
<1>3. ASSUME NEW c \in Clients, NEW l \in {"proxying", "allocating", "creating", "full"}, Goto(c, l),
             UNCHANGED <<entry, shown, position, issued>>
      PROVE  Goal
  BY <1>1, <1>3 DEF TypeOK
<1>4. ASSUME UNCHANGED <<waiters, position, issued>> PROVE Goal
  BY <1>1, <1>4 DEF waiters
<1>5. ASSUME NEW c \in Clients, Enqueue(c) PROVE Goal
  <2>1. issued < MaxTickets
    BY <1>5, TicketLeft DEF Enqueue, RouterInv
  <2>2. issued' = issued + 1 /\ issued \in Nat
    BY <1>5 DEF Enqueue, TypeOK
  <2>3. CASE d = c
    BY <1>5, <2>2, <2>3 DEF Enqueue, TypeOK
  <2>4. CASE d # c
    <3>1. req'[d] = req[d] /\ entry'[d] = entry[d] /\ shown'[d] = shown[d]
      BY <1>5, <2>4 DEF Enqueue, TypeOK
    <3>2. ASSUME entry[d] \in 1..issued PROVE position'[entry[d]] = position[entry[d]]
      BY <1>5, <2>1, <2>2, <3>2 DEF Enqueue, TypeOK
    <3> QED BY <1>1, <2>2, <3>1, <3>2
  <2> QED BY <2>3, <2>4
<1>6. ASSUME NEW c \in Clients, StreamStart(c) PROVE Goal
  <2>1. entry[c] \in Tickets
    BY <1>6 DEF StreamStart, RouterInv, WaitInv, TypeOK
  <2> QED BY <1>1, <1>6, <2>1 DEF StreamStart, entries, TypeOK
<1>7. ASSUME NEW c \in Clients, StreamTick(c) PROVE Goal
  <2>1. entry[c] \in Tickets
    BY <1>7 DEF StreamTick, RouterInv, WaitInv, TypeOK
  <2> QED BY <1>1, <1>7, <2>1 DEF StreamTick, entries, TypeOK
<1>8. ASSUME NEW n \in Notifiers, NotifyDequeue(n) PROVE Goal
  <2>1. \A t \in Tickets : position'[t] <= position[t] /\ position'[t] \in Int
    <3>1. \A t \in Tickets : position'[t] <= position[t]
      BY <1>8, DequeueEffect DEF NotifyDequeue, RouterInv
    <3>2. TypeOK'
      BY TypeNext
    <3> QED BY <3>1, <3>2 DEF TypeOK
  <2>2. UNCHANGED <<req, entry, shown, issued>>
    BY <1>8 DEF NotifyDequeue, waiters
  <2>3. \A t \in 1..issued : t \in Tickets
    BY DEF TypeOK
  <2> QED BY <1>1, <2>1, <2>2, <2>3 DEF TypeOK
<1> HIDE DEF Goal, Goto, Return
<1>9. ASSUME NEW c \in Clients, Lookup(c) \/ Admitted(c) \/ AllocateOk(c) \/ Exhausted(c)
      PROVE  Goal
  BY <1>3, <1>9 DEF Lookup, Admitted, AllocateOk, Exhausted, entries
<1>10. ASSUME NEW c \in Clients, Proxied(c) \/ AllocateUnseen(c) \/ AllocateFails(c)
                \/ StreamUnsupported(c) \/ StreamReady(c) \/ Leave(c)
       PROVE  Goal
  BY <1>2, <1>10 DEF Proxied, AllocateUnseen, AllocateFails, StreamUnsupported, StreamReady,
                     Leave, entries
<1>11. Goal
  BY <1>4, <1>5, <1>6, <1>7, <1>8, <1>9, <1>10
     DEF Next, Obtain, NotifyNobody, NotifySend, Age, Collect, vars, entries
<1> QED BY <1>11 DEF Goal

LEMMA RoomNext == TypeOK /\ RouterInv /\ [Next]_vars => RoomInv'
<1> SUFFICES ASSUME TypeOK, RouterInv, [Next]_vars PROVE RoomInv'
  OBVIOUS
<1> DEFINE FullOK == issued' + Cardinality(FullOnes') <= MaxTickets
<1>1. /\ IsFiniteSet(FullOnes) /\ Cardinality(FullOnes) \in Nat
      /\ issued \in Nat /\ issued + Cardinality(FullOnes) <= MaxTickets
      /\ MaxTickets \in Nat
  <2>1. IsFiniteSet(FullOnes)
    BY FS_Subset, RouterAssumption DEF FullOnes
  <2> QED BY <2>1, FS_CardinalityType, RouterAssumption DEF RouterInv, RoomInv, TypeOK
<1>2. ASSUME UNCHANGED issued, FullOnes' \subseteq FullOnes PROVE FullOK
  <2>1. Cardinality(FullOnes') <= Cardinality(FullOnes) /\ Cardinality(FullOnes') \in Nat
    BY <1>1, <1>2, FS_Subset, FS_CardinalityType
  <2> QED BY <1>1, <1>2, <2>1
<1>3. ASSUME NEW c \in Clients, NEW l, l # "full", Goto(c, l) PROVE FullOnes' \subseteq FullOnes
  BY <1>3 DEF Goto, FullOnes, TypeOK
<1>4. ASSUME NEW c \in Clients, Exhausted(c) PROVE FullOK
  <2>1. FullOnes' = FullOnes \cup {c} /\ c \notin FullOnes /\ UNCHANGED issued
    BY <1>4 DEF Exhausted, Goto, FullOnes, TypeOK, entries
  <2>2. Cardinality(FullOnes') = Cardinality(FullOnes) + 1
    BY <1>1, <2>1, FS_AddElement
  <2>3. issued + Cardinality(FullOnes) < MaxTickets
    BY <1>4 DEF Exhausted, FullOnes
  <2> QED BY <1>1, <2>1, <2>2, <2>3
<1>5. ASSUME NEW c \in Clients, Enqueue(c) PROVE FullOK
  <2>1. FullOnes' = FullOnes \ {c} /\ c \in FullOnes /\ issued' = issued + 1
    BY <1>5 DEF Enqueue, Goto, FullOnes, TypeOK
  <2>2. Cardinality(FullOnes') = Cardinality(FullOnes) - 1
    BY <1>1, <2>1, FS_RemoveElement
  <2> QED BY <1>1, <2>1, <2>2
<1>6. ASSUME UNCHANGED <<req, issued>> PROVE FullOK
  BY <1>2, <1>6 DEF FullOnes
<1> HIDE DEF FullOK
<1>7. ASSUME NEW c \in Clients, Lookup(c) \/ Admitted(c) \/ AllocateOk(c) \/ StreamStart(c)
       PROVE  FullOK
  BY <1>2, <1>3, <1>7 DEF Lookup, Admitted, AllocateOk, StreamStart, entries
<1>8. ASSUME NEW c \in Clients, Proxied(c) \/ AllocateUnseen(c) \/ AllocateFails(c)
                \/ StreamUnsupported(c) \/ StreamReady(c) \/ Leave(c)
       PROVE  FullOK
  BY <1>2, <1>3, <1>8 DEF Proxied, AllocateUnseen, AllocateFails, StreamUnsupported,
                           StreamReady, Leave, entries, Return
<1>9. FullOK
  BY <1>4, <1>5, <1>6, <1>7, <1>8
     DEF Next, StreamTick, Obtain, NotifyDequeue, NotifyNobody, NotifySend, Age,
         Collect, vars, entries, waiters
<1> QED BY <1>9 DEF FullOK, RoomInv

LEMMA RouterInvariant == Spec => [](TypeOK /\ RouterInv)
<1>1. TypeOK /\ RouterInv /\ [Next]_vars => RouterInv'
  BY QueueNext, WaitNext, RoomNext DEF RouterInv
<1> QED BY <1>1, TypeInit, RouterInit, TypeNext, PTL DEF Spec

\* ServeHTTP, the SSE loop, Enqueue and NotifyNext, in any interleaving, keep the queue,
\* the channels and the clients' view of them in their types.
THEOREM TypeCorrect == Spec => []TypeOK
  BY RouterInvariant, PTL

\* WaitQueue is FIFO, its positions are the places in the queue, and a client that
\* waits never sees its position get worse.
THEOREM FirstInFirstOut == Spec => []ServedInTurn
<1>1. TypeOK /\ RouterInv => ServedInTurn
  <2> SUFFICES ASSUME TypeOK, RouterInv PROVE ServedInTurn
    OBVIOUS
  <2>1. \A i \in 1..Len(queue) : queue[i] = Served + i /\ position[queue[i]] = i
    BY DEF RouterInv, QueueInv
  <2>2. ASSUME NEW t \in (1..issued) \ Queued, NEW u \in Queued PROVE t < u
    <3>1. Len(queue) \in Nat /\ issued \in Nat /\ Served \in Int /\ t \in Nat
      BY DEF TypeOK, Served
    <3>2. PICK i \in 1..Len(queue) : u = queue[i]
      BY DEF Queued
    <3>3. t <= Served
      <4> SUFFICES ASSUME Served < t PROVE FALSE
        BY <3>1
      <4>1. t - Served \in 1..Len(queue)
        BY <3>1 DEF Served
      <4>2. queue[t - Served] = t
        BY <2>1, <3>1, <4>1
      <4> QED BY <4>1, <4>2 DEF Queued
    <3> QED BY <2>1, <3>1, <3>2, <3>3
  <2> QED BY <2>1, <2>2 DEF ServedInTurn, RouterInv, WaitInv
<1> QED BY <1>1, RouterInvariant, PTL

-----------------------------------------------------------------------------
(* Entries in a notifier's hand *)

LEMMA HandInit == Init => HandInv
  BY DEF Init, HandInv

LEMMA HandNext == TypeOK /\ RouterInv /\ HandInv /\ [Next]_vars => HandInv'
<1> SUFFICES ASSUME TypeOK, RouterInv, HandInv, [Next]_vars PROVE HandInv'
  OBVIOUS
<1>1. /\ Served \in Int
      /\ \A n \in Notifiers : passing[n][1] \in 0..MaxTickets
      /\ \A n \in Notifiers : passing[n][1] # 0 => passing[n][1] \in Tickets
  BY RouterAssumption DEF TypeOK, Served, Tickets
<1>2. ASSUME Served' = Served, UNCHANGED <<ready, passing>> PROVE HandInv'
  BY <1>2 DEF HandInv
<1>3. ASSUME NEW c \in Clients, Enqueue(c) PROVE HandInv'
  <2>1. issued < MaxTickets
    BY <1>3, TicketLeft DEF Enqueue, RouterInv
  <2>2. issued' \in Tickets /\ issued' = issued + 1 /\ issued \in Nat
    BY <1>3, <2>1, RouterAssumption DEF Enqueue, TypeOK, Tickets
  <2>3. Len(queue') = Len(queue) + 1 /\ Len(queue) \in Nat
    BY <1>3, <2>2 DEF Enqueue, TypeOK
  <2> QED BY <1>2, <1>3, <2>2, <2>3 DEF Enqueue, Served
<1>4. ASSUME NEW c \in Clients, StreamReady(c) PROVE HandInv'
  <2>1. Served' = Served /\ passing' = passing
    BY <1>4 DEF StreamReady, Served
  <2>2. \A t \in Tickets : ready'[t] = ready[t] \/ ready'[t] = None
    BY <1>4 DEF StreamReady, TypeOK
  <2> QED BY <1>1, <2>1, <2>2 DEF HandInv
<1>5. ASSUME NEW n \in Notifiers, NotifyDequeue(n) PROVE HandInv'
  <2>1. Head(queue) = Served + 1 /\ Served' = Served + 1 /\ Head(queue) \in Tickets
    <3>1. Head(queue) \in Tickets
      BY <1>5 DEF NotifyDequeue, TypeOK
    <3> QED BY <1>5, <3>1, DequeueEffect DEF NotifyDequeue, RouterInv
  <2>2. /\ passing'[n][1] = Head(queue)
        /\ \A m \in Notifiers : m # n => passing'[m] = passing[m]
        /\ ready' = ready
    BY <1>5 DEF NotifyDequeue, TypeOK
  <2>3. ready[Head(queue)] = None
    BY <1>1, <2>1 DEF HandInv
  <2>4. \A m \in Notifiers : passing[m][1] # Head(queue)
    BY <1>1, <2>1, RouterAssumption DEF HandInv, Tickets
  <2>5. \A m \in Notifiers : passing'[m][1] # 0 =>
          passing'[m][1] <= Served' /\ ready'[passing'[m][1]] = None
    BY <1>1, <2>1, <2>2, <2>3 DEF HandInv
  <2>6. \A l, m \in Notifiers : passing'[l][1] = passing'[m][1] /\ passing'[l][1] # 0 => l = m
    BY <2>2, <2>4 DEF HandInv
  <2>7. \A t \in Tickets : ready'[t] # None => t <= Served'
    BY <1>1, <2>1, <2>2, RouterAssumption DEF HandInv, Tickets
  <2> QED BY <2>5, <2>6, <2>7 DEF HandInv
<1>6. ASSUME NEW n \in Notifiers, NotifySend(n) PROVE HandInv'
  <2>1. Served' = Served /\ passing[n][1] \in Tickets /\ passing[n][1] <= Served
    BY <1>1, <1>6 DEF NotifySend, Served, HandInv
  <2>2. /\ passing'[n][1] = 0
        /\ \A m \in Notifiers : m # n => passing'[m] = passing[m]
    BY <1>6 DEF NotifySend, TypeOK
  <2>3. \A t \in Tickets : t # passing[n][1] => ready'[t] = ready[t]
    BY <1>6 DEF NotifySend, TypeOK
  <2> QED BY <1>1, <2>1, <2>2, <2>3 DEF HandInv
<1>7. ASSUME NEW n \in Notifiers, Obtain(n) \/ NotifyNobody(n) PROVE HandInv'
  <2>1. Served' = Served /\ ready' = ready
    BY <1>7 DEF Obtain, NotifyNobody, Served, entries
  <2>2. /\ passing'[n][1] = 0
        /\ \A m \in Notifiers : m # n => passing'[m] = passing[m]
    BY <1>7 DEF Obtain, NotifyNobody, TypeOK
  <2> QED BY <1>1, <2>1, <2>2 DEF HandInv
<1> QED BY <1>2, <1>3, <1>4, <1>5, <1>6, <1>7
        DEF Next, Lookup, Proxied, Admitted, AllocateOk, AllocateUnseen,
            AllocateFails, Exhausted, StreamUnsupported, StreamStart, StreamTick, Leave, Age,
            Collect, vars, entries, Served

\* NotifyNext sends after it released the queue's lock, and its send still finds the
\* channel's one place free; no entry is taken by two notifiers.
THEOREM SendsNeverBlock == Spec => []SendNeverBlocks
<1>1. TypeOK /\ RouterInv /\ HandInv => SendNeverBlocks
  <2> SUFFICES ASSUME TypeOK, RouterInv, HandInv, NEW n \in Notifiers, passing[n][1] # 0
               PROVE  ready[passing[n][1]] = None /\ passing[n][1] \notin Queued
    BY DEF SendNeverBlocks, InHand, HandInv
  <2>1. Served \in Int /\ passing[n][1] \in Int /\ passing[n][1] <= Served
    BY DEF TypeOK, HandInv, Served
  <2>2. \A i \in 1..Len(queue) : queue[i] = Served + i
    BY DEF RouterInv, QueueInv
  <2> QED BY <2>1, <2>2 DEF HandInv, Queued
<1> QED BY <1>1, RouterInvariant, HandInit, HandNext, PTL DEF Spec

=============================================================================
