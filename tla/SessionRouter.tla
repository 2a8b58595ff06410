----------------------------- MODULE SessionRouter -----------------------------
(***************************************************************************)
(* The session-affine router: Router.ServeHTTP and handleAllocateAndProxy  *)
(* (internal/router/handler.go), the reverse proxy (proxy.go), the         *)
(* WaitQueue (queue.go), the one thing about the middleware chain that     *)
(* matters here, whether the ResponseWriter that reaches the handler is an *)
(* http.Flusher (audit.go).                                                *)
(*                                                                         *)
(* The pool is reduced to what SandboxPool establishes about it: a session *)
(* stands for its sandbox (ExclusiveGrant); Allocate tests the size, then  *)
(* creates, then inserts, so MaxSize can be overshot (OvershootBound); and *)
(* RunGC releases sessions whose LastActivity is too old, which leaves the *)
(* entry behind when DeleteSandbox fails.  Warm sandboxes are left out: to *)
(* a request they are a faster Allocate.  Time is reduced to one question: *)
(* stale is what LastActivity says, active is the truth.                   *)
(***************************************************************************)
EXTENDS Integers, Sequences, FiniteSets

CONSTANTS
    Clients,     \* a client has one request in flight at a time
    Sessions,    \* session ids; one that nobody remembers stands for a fresh one
    Notifiers,   \* callers of NotifyNext (external: the tests, nobody in the program)
    Audit,       \* may the handler be behind AuditLog?  {TRUE} in cmd/router
    MaxSize,
    MaxTickets,  \* bound on the number of requests that are ever enqueued
    None

ASSUME RouterAssumption ==
    /\ MaxSize \in Nat \ {0} /\ MaxTickets \in Nat
    /\ Audit \subseteq BOOLEAN
    /\ None \notin Sessions
    /\ IsFiniteSet(Clients)

Tickets == 1..MaxTickets      \* wait entries, numbered in the order of Enqueue

VARIABLES
    held,      \* sessions in the AllocationCache
    stale,     \* those whose LastActivity is older than idleTimeout
    active,    \* those that a later request has used within idleTimeout
    releasing, \* those whose DeleteSandbox failed: StatusReleasing for good
    known,     \* the session each client presents (header, cookie or query)
    req,       \* where the client's request is
    entry,     \* the client's WaitEntry
    shown,     \* the position last written to the client
    queue,     \* WaitQueue.entries
    position,  \* WaitEntry.Position
    ready,     \* content of the buffered channel WaitEntry.Ready
    issued,    \* number of entries enqueued so far
    passing,   \* per notifier: <<ticket, session>>; ticket 0 before Dequeue
    audited    \* is the handler behind AuditLog?

pool    == <<held, stale, active, releasing>>
waiters == <<req, entry, shown>>
entries == <<queue, position, ready, issued>>
vars    == <<pool, known, waiters, entries, passing, audited>>

Init ==
    /\ held = {} /\ stale = {} /\ active = {} /\ releasing = {}
    /\ known = [c \in Clients |-> None]
    /\ req = [c \in Clients |-> "none"]
    /\ entry = [c \in Clients |-> 0]
    /\ shown = [c \in Clients |-> 0]
    /\ queue = <<>>
    /\ position = [t \in Tickets |-> 0]
    /\ ready = [t \in Tickets |-> None]
    /\ issued = 0
    /\ passing = [n \in Notifiers |-> <<0, None>>]
    /\ audited \in Audit

Remembered == held \cup {known[c] : c \in Clients} \cup {ready[t] : t \in Tickets}
                \cup {passing[n][2] : n \in Notifiers}
\* uuid.NewString(): which of the unused ids it is makes no difference.  Their number
\* is a bound: an allocation does not come back while every id is remembered.
Unused     == Sessions \ Remembered
NewSession == CHOOSE k \in Unused : TRUE

\* pool.Allocate inserts a new session, with LastActivity = now
Grant == /\ Unused # {}
         /\ held' = held \cup {NewSession}
         /\ UNCHANGED <<stale, active, releasing>>
\* cache.Len() >= maxSize
Full  == Cardinality(held) >= MaxSize

Goto(c, l) == req' = [req EXCEPT ![c] = l]
Return(c)  == /\ Goto(c, "none")
              /\ entry' = [entry EXCEPT ![c] = 0]
              /\ shown' = [shown EXCEPT ![c] = 0]

-----------------------------------------------------------------------------
(* ServeHTTP *)

\* The session a request presents: extractSessionID takes the first non-empty of
\* header, cookie and query parameter.  A client presents the one it was given
\* last, or none.
Presents(c) == {known[c], None}

\* A known session is proxied to its sandbox, which leaves LastActivity as it is:
\* nothing calls PoolManager.Heartbeat.  Everything else needs an allocation.
Lookup(c) ==
    /\ req[c] = "none"
    /\ \E k \in Presents(c) :
         /\ Goto(c, IF k \in held THEN "proxying" ELSE "allocating")
         /\ active' = active \cup (held \cap {k})
    /\ UNCHANGED <<held, stale, releasing, known, entry, shown, entries, passing, audited>>

\* Proxy.Forward ends: with the sandbox's answer, or with 502 from ErrorHandler
\* because the sandbox does not answer or has been released meanwhile
Proxied(c) ==
    /\ req[c] = "proxying"
    /\ Return(c)
    /\ UNCHANGED <<pool, known, entries, passing, audited>>

\* pool.Allocate found room; the sandbox is created after the lock is released
Admitted(c) ==
    /\ req[c] = "allocating"
    /\ ~Full
    /\ Goto(c, "creating")
    /\ UNCHANGED <<pool, known, entry, shown, entries, passing, audited>>

\* pool.Allocate succeeded: X-Session-ID and the cookie carry the new session,
\* and the request is proxied
AllocateOk(c) ==
    /\ req[c] = "creating"
    /\ Grant
    /\ known' = [known EXCEPT ![c] = NewSession]
    /\ Goto(c, "proxying")
    /\ UNCHANGED <<entry, shown, entries, passing, audited>>

\* the same, but the client has gone, and the session is never seen by anybody
AllocateUnseen(c) ==
    /\ req[c] = "creating"
    /\ Grant
    /\ Return(c)
    /\ UNCHANGED <<known, entries, passing, audited>>

\* pool.Allocate failed for another reason than a full pool
AllocateFails(c) ==
    /\ req[c] = "creating"
    /\ Return(c)
    /\ UNCHANGED <<pool, known, entries, passing, audited>>

\* ErrPoolExhausted; the bound on entries counts those about to be made
Exhausted(c) ==
    /\ req[c] = "allocating"
    /\ Full
    /\ issued + Cardinality({d \in Clients : req[d] = "full"}) < MaxTickets
    /\ Goto(c, "full")
    /\ UNCHANGED <<pool, known, entry, shown, entries, passing, audited>>

\* Enqueue, when a slot may have come free again
NewPosition_AfterAppend == Len(queue) + 2
NewPosition == Len(queue) + 1

Enqueue(c) ==
    /\ req[c] = "full"
    /\ issued' = issued + 1
    /\ queue' = Append(queue, issued')
    /\ position' = [position EXCEPT ![issued'] = NewPosition]
    /\ entry' = [entry EXCEPT ![c] = issued']
    /\ Goto(c, "enqueued")
    /\ UNCHANGED <<pool, known, shown, ready, passing, audited>>

-----------------------------------------------------------------------------
(* WriteSSEQueuePosition *)

\* w.(http.Flusher): statusWriter embeds the interface http.ResponseWriter and
\* has no Flush method of its own, so behind AuditLog the assertion fails
Flushable == ~audited

\* the request ends in an error, its entry still in the queue
StreamUnsupported(c) ==
    /\ req[c] = "enqueued"
    /\ ~Flushable
    /\ Return(c)
    /\ UNCHANGED <<pool, known, entries, passing, audited>>

StreamStart(c) ==
    /\ req[c] = "enqueued"
    /\ Flushable
    /\ Goto(c, "waiting")
    /\ shown' = [shown EXCEPT ![c] = position[entry[c]]]
    /\ UNCHANGED <<pool, known, entry, entries, passing, audited>>

StreamTick(c) ==
    /\ req[c] = "waiting"
    /\ shown' = [shown EXCEPT ![c] = position[entry[c]]]
    /\ UNCHANGED <<pool, known, req, entry, entries, passing, audited>>

\* alloc := <-entry.Ready
StreamReady(c) ==
    /\ req[c] = "waiting"
    /\ ready[entry[c]] # None
    /\ known' = [known EXCEPT ![c] = ready[entry[c]]]
    /\ ready' = [ready EXCEPT ![entry[c]] = None]
    /\ Return(c)
    /\ UNCHANGED <<pool, queue, position, issued, passing, audited>>

\* <-req.Context().Done(): the client is gone, its entry stays in the queue
Leave(c) ==
    /\ req[c] = "waiting"
    /\ Return(c)
    /\ UNCHANGED <<pool, known, entries, passing, audited>>

-----------------------------------------------------------------------------
(* NotifyNext, and the pool taking sessions back *)

\* Dequeue: the first entry leaves and the others move up
DequeueFrom_Stale == /\ queue' = Tail(queue)
                     /\ UNCHANGED position
DequeueFrom_Peek == UNCHANGED <<queue, position>>
DequeueFrom ==
    /\ queue' = Tail(queue)
    /\ position' = [t \in Tickets |->
                      IF \E i \in 1..Len(queue') : queue'[i] = t
                      THEN CHOOSE i \in 1..Len(queue') : queue'[i] = t
                      ELSE position[t]]

\* a caller of NotifyNext gets hold of an allocation
Obtain(n) ==
    /\ passing[n] = <<0, None>>
    /\ ~Full
    /\ Grant
    /\ passing' = [passing EXCEPT ![n] = <<0, NewSession>>]
    /\ UNCHANGED <<known, waiters, entries, audited>>

NotifyDequeue(n) ==
    /\ passing[n][1] = 0 /\ passing[n][2] # None
    /\ queue # <<>>
    /\ passing' = [passing EXCEPT ![n] = <<Head(queue), @[2]>>]
    /\ DequeueFrom
    /\ UNCHANGED <<pool, known, waiters, ready, issued, audited>>

\* the queue is empty: NotifyNext returns, and nobody has the allocation any more
NotifyNobody(n) ==
    /\ passing[n][1] = 0 /\ passing[n][2] # None
    /\ queue = <<>>
    /\ passing' = [passing EXCEPT ![n] = <<0, None>>]
    /\ UNCHANGED <<pool, known, waiters, entries, audited>>

\* entry.Ready <- alloc, after the queue's lock is released; the channel has room
\* for one
NotifySend(n) ==
    /\ passing[n][1] # 0
    /\ ready[passing[n][1]] = None
    /\ ready' = [ready EXCEPT ![passing[n][1]] = passing[n][2]]
    /\ passing' = [passing EXCEPT ![n] = <<0, None>>]
    /\ UNCHANGED <<pool, known, waiters, queue, position, issued, audited>>

\* idleTimeout passes since LastActivity, and then since the last use
Age(k) ==
    /\ k \in held
    /\ k \in stale => k \in active
    /\ stale' = stale \cup {k}
    /\ active' = IF k \in stale THEN active \ {k} ELSE active
    /\ UNCHANGED <<held, releasing, known, waiters, entries, passing, audited>>

\* RunGC skips Releasing entries and releases those whose LastActivity is before
\* its cutoff
Collectable(k) == k \in stale \ releasing

\* Release removes the entry, unless DeleteSandbox fails
Collect(k) ==
    /\ Collectable(k)
    /\ \/ /\ held' = held \ {k} /\ stale' = stale \ {k} /\ active' = active \ {k}
          /\ UNCHANGED releasing
       \/ /\ releasing' = releasing \cup {k}
          /\ UNCHANGED <<held, stale, active>>
    /\ UNCHANGED <<known, waiters, entries, passing, audited>>

Next ==
    \/ \E c \in Clients :
         \/ Lookup(c) \/ Proxied(c) \/ Admitted(c) \/ AllocateOk(c) \/ AllocateUnseen(c)
         \/ AllocateFails(c) \/ Exhausted(c) \/ Enqueue(c) \/ StreamUnsupported(c)
         \/ StreamStart(c) \/ StreamTick(c) \/ StreamReady(c) \/ Leave(c)
    \/ \E n \in Notifiers : Obtain(n) \/ NotifyDequeue(n) \/ NotifyNobody(n) \/ NotifySend(n)
    \/ \E k \in Sessions : Age(k) \/ Collect(k)

Spec == Init /\ [][Next]_vars

-----------------------------------------------------------------------------
(* Properties *)

\* The queue, the channels and the clients' view of them keep their types.
TypeOK ==
    /\ held \subseteq Sessions
    /\ stale \subseteq held /\ active \subseteq held /\ releasing \subseteq held
    /\ known \in [Clients -> Sessions \cup {None}]
    /\ req \in [Clients -> {"none", "proxying", "allocating", "creating", "full", "enqueued",
                         "waiting"}]
    /\ entry \in [Clients -> 0..MaxTickets]
    /\ shown \in [Clients -> 0..MaxTickets]
    /\ queue \in Seq(Tickets)
    /\ position \in [Tickets -> 0..MaxTickets]
    /\ ready \in [Tickets -> Sessions \cup {None}]
    /\ issued \in 0..MaxTickets
    /\ passing \in [Notifiers -> (0..MaxTickets) \X (Sessions \cup {None})]
    /\ audited \in BOOLEAN

Queued  == {queue[i] : i \in 1..Len(queue)}
InHand  == {passing[n][1] : n \in Notifiers} \ {0}

\* WaitQueue is FIFO whatever Enqueue, Dequeue and departures interleave: an
\* entry that was taken out, sent to or not, arrived before all that are left,
\* each queued entry's Position is its place, and the position a waiting client is
\* shown next, read while Dequeue rewrites it, is never worse than the last.
ServedInTurn ==
    /\ \A i \in 1..Len(queue) : position[queue[i]] = i
    /\ \A t \in (1..issued) \ Queued, u \in Queued : t < u
    /\ \A c \in Clients : req[c] = "waiting" => position[entry[c]] <= shown[c]

\* NotifyNext sends outside the lock and still never blocks, and no entry is
\* notified twice: the channel of an entry in hand is empty and only one
\* notifier has it.
SendNeverBlocks ==
    /\ \A t \in InHand : ready[t] = None /\ t \notin Queued
    /\ \A m, n \in Notifiers : passing[m][1] = passing[n][1] /\ passing[m][1] # 0 => m = n

\* idleTimeout is the duration of inactivity before an active sandbox is
\* eligible for GC: a session that requests have used within it is kept.
InUseKept ==
    [][\A k \in held : k \notin held' => k \notin active]_vars
=============================================================================
