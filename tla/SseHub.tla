------------------------------- MODULE SseHub -------------------------------
(***************************************************************************)
(* The SSE hub (internal/platform/sse/hub.go): the connections of one user *)
(* and the events published to him.  Users do not share state in the hub.  *)
(*                                                                         *)
(* h.clients[user] is a Go slice, that is an array in memory and a length. *)
(* Publish copies the slice under the read lock and walks the array after  *)
(* it has released it; unsubscribing shifts the same array in place under  *)
(* the write lock.  So arrays are modelled as shared memory: cells[a][i]   *)
(* is cell i of array a, one cell is read or written in one step, and what *)
(* lies beyond the length of the slice is still there.  The walk races     *)
(* with the shift: a read may return what the cell holds or what it held   *)
(* at any time since the slice was copied.                                 *)
(*                                                                         *)
(* An event is named by the Publish call that sends it; the buffer of a    *)
(* channel is the number of events in it.                                  *)
(***************************************************************************)
EXTENDS Naturals, FiniteSets

CONSTANTS
    Conn,   \* bound: connections (requests of GET /v1/events)
    Pub,    \* bound: calls of Publish for this user
    Arrays, \* bound: how many arrays append can allocate
    Cells,  \* bound: the largest number of cells of an array
    Buffer, \* capacity of a channel, 8 in Subscribe
    NoConn

ASSUME HubAssumption ==
    /\ Arrays \in Nat
    /\ Cells \in Nat \ {0}
    /\ Buffer \in Nat \ {0}
    /\ NoConn \notin Conn \cup Nat

\* Arrays are numbered as they are allocated.
Arr == 1 .. Arrays

VARIABLES
    list,      \* the slice h.clients[user]; arr = NoConn: the user has no entry
    cells,     \* cells[a]: the memory of array a
    size,      \* size[a]: the capacity of array a, 0 until it is allocated
    conn,      \* conn[c]: how far the handler of connection c is
    queued,    \* queued[c]: events in the channel of c
    writer,    \* the connection whose unsubscribe holds the write lock
    hole,      \* the cell that unsubscribe overwrites next
    pub,       \* pub[p]: the locals of a Publish call
    past,      \* past[p][i]: the values that cell i lost since p copied the slice
    due,       \* observed: due[p] were connected when p looked and did not leave
    tried,     \* observed: tried[p][c] is how often p tried to send to c
    disturbed  \* observed: some connection left while p was at work

hubVars == <<list, cells, size, conn, queued, writer, hole, pub, past, due, tried, disturbed>>

-----------------------------------------------------------------------------

Slice == [arr : Arr \cup {NoConn}, len : 0 .. Cells]

Nil == [arr |-> NoConn, len |-> 0]

\* new: not connected yet; on: reading events; hung: its client is gone;
\* leaving: unsubscribing; gone: unsubscribed, its channel is closed.
Progress == {"new", "on", "hung", "leaving", "gone"}

\* A Publish call reads cell i of its copy of the slice into ch, then sends.
Walk == [pc   : {"idle", "read", "send", "done", "panicked"},
         view : Slice,
         i    : 1 .. Cells + 1,
         ch   : Conn \cup {NoConn}]

NoWalk == [pc |-> "idle", view |-> Nil, i |-> 1, ch |-> NoConn]

HubTypeOK ==
    /\ list \in Slice
    /\ cells \in [Arr -> [1 .. Cells -> Conn \cup {NoConn}]]
    /\ size \in [Arr -> 0 .. Cells]
    /\ conn \in [Conn -> Progress]
    /\ queued \in [Conn -> 0 .. Buffer]
    /\ writer \in Conn \cup {NoConn}
    /\ hole \in 1 .. Cells
    /\ pub \in [Pub -> Walk]
    /\ past \in [Pub -> [1 .. Cells -> SUBSET Conn]]
    /\ due \in [Pub -> SUBSET Conn]
    /\ tried \in [Pub -> [Conn -> 0 .. Cells]]
    /\ disturbed \in [Pub -> BOOLEAN]

Busy(p) == pub[p].pc \in {"read", "send"}

\* Cell i of array a is overwritten: a Publish that walks a may see either value.
Overwrites(a, i) ==
    past' = [p \in Pub |->
                IF Busy(p) /\ pub[p].view.arr = a
                THEN [past[p] EXCEPT ![i] = @ \cup ({cells[a][i]} \ {NoConn})]
                ELSE past[p]]

Listed(c) == \E i \in 1 .. list.len : cells[list.arr][i] = c

-----------------------------------------------------------------------------
(* Subscribe: make a channel and append it, all under the write lock.      *)

\* The capacity of the slice
Room == IF list.arr = NoConn THEN 0 ELSE size[list.arr]

\* The array has room: append writes behind the last element.
AppendInPlace(c) ==
    /\ list.len < Room
    /\ cells' = [cells EXCEPT ![list.arr][list.len + 1] = c]
    /\ list' = [list EXCEPT !.len = @ + 1]
    /\ Overwrites(list.arr, list.len + 1)
    /\ UNCHANGED size

\* It has none: append copies to a new array of twice the size.
AppendCopy(c) ==
    LET bigger == IF Room = 0 THEN 1 ELSE 2 * Room IN
    /\ list.len = Room
    /\ bigger <= Cells
    /\ \E a \in Arr :
        /\ \A b \in Arr : size[b] = 0 <=> b >= a
        /\ size' = [size EXCEPT ![a] = bigger]
        /\ cells' = [cells EXCEPT ![a] =
                        [i \in 1 .. Cells |-> IF i <= Room THEN cells[list.arr][i]
                                              ELSE IF i = Room + 1 THEN c ELSE NoConn]]
        /\ list' = [arr |-> a, len |-> Room + 1]
    /\ UNCHANGED past

Subscribe(c) ==
    /\ conn[c] = "new"
    /\ writer = NoConn
    /\ AppendInPlace(c) \/ AppendCopy(c)
    /\ conn' = [conn EXCEPT ![c] = "on"]
    /\ UNCHANGED <<queued, writer, hole, pub, due, tried, disturbed>>

-----------------------------------------------------------------------------
(* The handler of a connection.                                            *)

\* The select picks an event.  A client that reads slowly delays this as long
\* as it likes.
Receive(c) ==
    /\ conn[c] \in {"on", "hung"}
    /\ queued[c] > 0
    /\ queued' = [queued EXCEPT ![c] = @ - 1]
    /\ UNCHANGED <<list, cells, size, conn, writer, hole, pub, past, due, tried, disturbed>>

\* The client disconnects: the request's context is done.
HangUp(c) ==
    /\ conn[c] = "on"
    /\ conn' = [conn EXCEPT ![c] = "hung"]
    /\ UNCHANGED <<list, cells, size, queued, writer, hole, pub, past, due, tried, disturbed>>

\* The handler returns, and its deferred unsubscribe takes the lock and finds
\* its channel in the list.
UnsubLock(c) ==
    /\ conn[c] = "hung"
    /\ writer = NoConn
    /\ writer' = c
    /\ \E i \in 1 .. list.len :
        /\ cells[list.arr][i] = c
        /\ \A j \in 1 .. i - 1 : cells[list.arr][j] # c
        /\ hole' = i
    /\ conn' = [conn EXCEPT ![c] = "leaving"]
    /\ due' = [p \in Pub |-> IF Busy(p) THEN due[p] \ {c} ELSE due[p]]
    /\ disturbed' = [p \in Pub |-> disturbed[p] \/ Busy(p)]
    /\ UNCHANGED <<list, cells, size, queued, pub, past, tried>>

\* append(list[:i], list[i+1:]...) moves the rest one cell down.
UnsubShift ==
    /\ writer # NoConn
    /\ hole < list.len
    /\ cells' = [cells EXCEPT ![list.arr][hole] = cells[list.arr][hole + 1]]
    /\ hole' = hole + 1
    /\ Overwrites(list.arr, hole)
    /\ UNCHANGED <<list, size, conn, queued, writer, pub, due, tried, disturbed>>

\* Broken variant of Shorter: the result of append is not stored.
ShorterNot(s) == s

Shorter(s) == IF s.len = 1 THEN Nil ELSE [s EXCEPT !.len = @ - 1]

\* Broken variant of Release: an early return that leaves the lock held.
ReleaseNot == UNCHANGED writer

Release == writer' = NoConn

\* The shortened slice is stored, or the entry deleted; then the channel is
\* closed and the lock released.
UnsubDone ==
    /\ writer # NoConn
    /\ hole = list.len
    /\ list' = Shorter(list)
    /\ conn' = [conn EXCEPT ![writer] = "gone"]
    /\ Release
    /\ hole' = 1
    /\ UNCHANGED <<cells, size, queued, pub, past, due, tried, disturbed>>

-----------------------------------------------------------------------------
(* Publish                                                                 *)

PublishBegin(p) ==
    /\ pub[p].pc = "idle"
    /\ writer = NoConn
    /\ pub' = [pub EXCEPT ![p] = [NoWalk EXCEPT !.pc = "read", !.view = list]]
    /\ due' = [due EXCEPT ![p] = {c \in Conn : conn[c] \in {"on", "hung"}}]
    /\ UNCHANGED <<list, cells, size, conn, queued, writer, hole, past, tried, disturbed>>

\* Broken variant of Exhausted: stops before the last element.
ExhaustedEarly(q) == q.i >= q.view.len

Exhausted(q) == q.i > q.view.len

\* range: the next channel is read from the array, whatever it holds by now.
PublishRead(p) ==
    LET q == pub[p] IN
    /\ q.pc = "read"
    /\ IF Exhausted(q)
       THEN pub' = [pub EXCEPT ![p].pc = "done"]
       ELSE \E c \in {cells[q.view.arr][q.i]} \cup past[p][q.i] :
                pub' = [pub EXCEPT ![p] = [q EXCEPT !.pc = "send", !.ch = c]]
    /\ UNCHANGED <<list, cells, size, conn, queued, writer, hole, past, due, tried, disturbed>>

\* Broken variant of MaySend: waits for room in the buffer.
MaySendWaiting(c) == queued[c] < Buffer

\* The send of the select always has an alternative.
MaySend(c) == TRUE

Enqueued(n) == IF n < Buffer THEN n + 1 ELSE n

\* A send that does not wait: it is dropped when the buffer is full, and panics
\* when the channel is closed.
PublishSend(p) ==
    LET q == pub[p] IN
    /\ q.pc = "send"
    /\ MaySend(q.ch)
    /\ IF conn[q.ch] = "gone"
       THEN /\ pub' = [pub EXCEPT ![p].pc = "panicked"]
            /\ UNCHANGED <<queued, tried>>
       ELSE /\ pub' = [pub EXCEPT ![p].pc = "read", ![p].i = @ + 1]
            /\ queued' = [queued EXCEPT ![q.ch] = Enqueued(@)]
            /\ tried' = [tried EXCEPT ![p][q.ch] = @ + 1]
    /\ UNCHANGED <<list, cells, size, conn, writer, hole, past, due, disturbed>>

-----------------------------------------------------------------------------

HubInit ==
    /\ list = Nil
    /\ cells = [a \in Arr |-> [i \in 1 .. Cells |-> NoConn]]
    /\ size = [a \in Arr |-> 0]
    /\ conn = [c \in Conn |-> "new"]
    /\ queued = [c \in Conn |-> 0]
    /\ writer = NoConn
    /\ hole = 1
    /\ pub = [p \in Pub |-> NoWalk]
    /\ past = [p \in Pub |-> [i \in 1 .. Cells |-> {}]]
    /\ due = [p \in Pub |-> {}]
    /\ tried = [p \in Pub |-> [c \in Conn |-> 0]]
    /\ disturbed = [p \in Pub |-> FALSE]

Publish(p) == PublishRead(p) \/ PublishSend(p)

HubNext ==
    \/ \E c \in Conn : Subscribe(c) \/ Receive(c) \/ HangUp(c) \/ UnsubLock(c)
    \/ UnsubShift
    \/ UnsubDone
    \/ \E p \in Pub : PublishBegin(p) \/ Publish(p)

HubSpec == HubInit /\ [][HubNext]_hubVars

\* A goroutine that can run does run, and a goroutine that waits for the lock
\* gets it (sync.RWMutex admits no reader before a waiting writer).  Nothing
\* makes a client read its events, disconnect or connect.
HubFairness ==
    /\ \A p \in Pub : WF_hubVars(Publish(p))
    /\ WF_hubVars(UnsubShift \/ UnsubDone)
    /\ \A c \in Conn : SF_hubVars(UnsubLock(c))

HubFairSpec == HubSpec /\ HubFairness

-----------------------------------------------------------------------------
(* Properties.                                                             *)

\* While nobody unsubscribes, the list holds every connection whose channel is
\* open once, and nothing else, although its array is shifted in place, outgrown
\* and reused: a lost one would never get an event again, a closed one would
\* make every Publish panic.
RegistrySound ==
    /\ HubTypeOK
    /\ writer = NoConn =>
        /\ \A i, j \in 1 .. list.len : cells[list.arr][i] = cells[list.arr][j] => i = j
        /\ \A c \in Conn : Listed(c) <=> conn[c] \in {"on", "hung"}

\* A Publish during which no connection of the user leaves tries each connection
\* it found exactly once, no other, and does not panic, even when others connect
\* while it walks the array.
QuietPublishExact ==
    \A p \in Pub :
        ~disturbed[p] =>
            /\ pub[p].pc # "panicked"
            /\ pub[p].pc = "done" =>
                \A c \in Conn : tried[p][c] = IF c \in due[p] THEN 1 ELSE 0

\* A slow or stalled client never holds up a Publish, and with it the request
\* that changed a score.
PublishEnds == \A p \in Pub : Busy(p) ~> ~Busy(p)

\* A connection whose client is gone is forgotten, and its channel closed.
HungIsForgotten == \A c \in Conn : conn[c] = "hung" ~> conn[c] = "gone" /\ ~Listed(c)

\* "Publish sends an event to all connections of a specific user."
PublishReachesAll ==
    \A p \in Pub :
        pub[p].pc \in {"done", "panicked"} => \A c \in due[p] : tried[p][c] > 0

=============================================================================
