----------------------------- MODULE EventLoop ------------------------------
(***************************************************************************)
(* One reactor (src/net/event_loop.cpp) with its connections, against      *)
(* clients that connect, send, read, stop reading, close and reset as they *)
(* like.  epoll_wait, each accept and each recv is a step, and so is a     *)
(* flush.  Sizes count requests and replies instead of bytes.              *)
(***************************************************************************)
EXTENDS Integers, Sequences, FiniteSets

CONSTANTS
  Clients,     \* the connections made during a run
  Fds,         \* the descriptors the process may have besides its own
  Listener,    \* listener_.fd()
  MaxClients,  \* cfg_.max_clients
  Chunk,       \* kReadChunk
  MaxRead,     \* kMaxReadPerEvent
  MaxOutbuf,   \* kMaxOutbufBytes
  RecvBuffer,  \* what a socket holds unread
  SendBuffer,  \* what a socket holds unsent
  Requests,    \* of each client: what it sends, of "command" and "malformed"
  Endings,     \* of each client: how it leaves, by "close" or "reset"
  None

Request == {"command", "malformed"}

ASSUME LoopAssumption ==
  /\ Listener \notin Fds /\ None \notin Clients
  /\ \A c \in Clients : Requests[c] \subseteq Request
  /\ MaxClients \in Nat /\ MaxOutbuf \in Nat /\ MaxRead \in Nat
  /\ Chunk \in Nat \ {0} /\ SendBuffer \in Nat \ {0} /\ RecvBuffer \in Nat \ {0}

VARIABLES
  peer,      \* of each client: "new", "queued", "open", "done"
  inbox,     \* its requests that have not been received
  fin, rst,  \* the clients that closed in good order, that reset
  wire,      \* how many replies are in the kernel on the way to it
  conns,     \* conns_: whose connection a descriptor is
  interest,  \* interest_, and what epoll knows
  outbuf,    \* how many replies wait in the connection's outbuf
  closing,   \* close_after_flush_
  pc,        \* "wait", "batch", "accept", "read", "flush", "stopped", "fatal"
  batch,     \* the events not looked at yet, with the client each is about
  cur,       \* the event being handled
  bytes,     \* read_this_event
  closed,    \* closed_this_batch_
  stop,      \* stop_requested_
  due        \* a tick is due

socket == << peer, inbox, fin, rst, wire >>
conn   == << outbuf, closing >>
table  == << conns, interest, closed >>
vars   == << socket, conn, table, pc, batch, cur, bytes, stop, due >>

Event == [fd : Fds \cup {Listener}, who : Clients \cup {None}, ev : SUBSET {"in", "out", "hup"}]

Types ==
  /\ peer \in [Clients -> {"new", "queued", "open", "done"}]
  /\ inbox \in [Clients -> Seq(Request)]
  /\ fin \subseteq Clients /\ rst \subseteq Clients /\ closing \subseteq Clients
  /\ wire \in [Clients -> 0 .. SendBuffer] /\ outbuf \in [Clients -> Nat]
  /\ conns \in [Fds -> Clients \cup {None}]
  /\ interest \in [Fds -> SUBSET {"in", "out"}]
  /\ pc \in {"wait", "batch", "accept", "read", "flush", "stopped", "fatal"}
  /\ batch \subseteq Event /\ cur \in Event
  /\ bytes \in Nat /\ closed \subseteq Fds

\* The variables have their types; the sockets hold no more than they can.
TypeOK == Types /\ stop \in BOOLEAN /\ due \in BOOLEAN

Idle == [fd |-> Listener, who |-> None, ev |-> {}]

Init ==
  /\ peer = [c \in Clients |-> "new"] /\ inbox = [c \in Clients |-> << >>]
  /\ fin = {} /\ rst = {} /\ wire = [c \in Clients |-> 0]
  /\ conns = [f \in Fds |-> None] /\ interest = [f \in Fds |-> {}]
  /\ outbuf = [c \in Clients |-> 0] /\ closing = {}
  /\ pc = "wait" /\ batch = {} /\ cur = Idle /\ bytes = 0
  /\ closed = {} /\ stop = FALSE /\ due = FALSE

-----------------------------------------------------------------------------
(* The clients, the clock, and stop() from another thread.                 *)

Server == << conn, table, pc, batch, cur, bytes >>

Connect(c) ==
  /\ peer[c] = "new" /\ peer' = [peer EXCEPT ![c] = "queued"]
  /\ UNCHANGED << inbox, fin, rst, wire, Server, stop, due >>

\* What a client does before it is accepted the server sees as done right after.
Alive(c) == peer[c] = "open" /\ c \notin fin \cup rst

Send(c, r) ==
  /\ Alive(c) /\ Len(inbox[c]) < RecvBuffer
  /\ inbox' = [inbox EXCEPT ![c] = Append(@, r)]
  /\ UNCHANGED << peer, fin, rst, wire, Server, stop, due >>

Receive(c) ==
  /\ wire[c] > 0 /\ wire' = [wire EXCEPT ![c] = @ - 1]
  /\ UNCHANGED << peer, inbox, fin, rst, Server, stop, due >>

Close(c) ==
  /\ Alive(c) /\ "close" \in Endings[c] /\ fin' = fin \cup {c}
  /\ UNCHANGED << peer, inbox, rst, wire, Server, stop, due >>

Reset(c) ==
  /\ Alive(c) /\ "reset" \in Endings[c] /\ rst' = rst \cup {c}
  /\ UNCHANGED << peer, inbox, fin, wire, Server, stop, due >>

ClientStep ==
  \E c \in Clients :
    Connect(c) \/ Receive(c) \/ Close(c) \/ Reset(c) \/ \E r \in Requests[c] : Send(c, r)

TickDue == ~due /\ due' = TRUE /\ UNCHANGED << socket, Server, stop >>

StopRequested == ~stop /\ stop' = TRUE /\ UNCHANGED << socket, Server, due >>

-----------------------------------------------------------------------------
(* The loop.                                                               *)

Open == {f \in Fds : conns[f] # None}

Queued == {c \in Clients : peer[c] = "queued"}

Readiness(f) ==
  LET c == conns[f]
  IN  (IF "in" \in interest[f] /\ (inbox[c] # << >> \/ c \in fin \cup rst) THEN {"in"} ELSE {})
        \cup (IF "out" \in interest[f] /\ wire[c] < SendBuffer THEN {"out"} ELSE {})
        \cup (IF c \in rst THEN {"hup"} ELSE {})

\* Level-triggered: everything that is ready now, whatever was reported before.
Ready ==
  {[fd |-> f, who |-> conns[f], ev |-> Readiness(f)] : f \in {g \in Open : Readiness(g) # {}}}
    \cup (IF Queued # {} THEN {[fd |-> Listener, who |-> None, ev |-> {"in"}]} ELSE {})

\* epoll_wait returns, with events or because a tick is due.
WaitKeepsClosed ==
  /\ pc = "wait" /\ ~stop /\ (Ready # {} \/ due)
  /\ batch' = Ready /\ pc' = "batch"
  /\ UNCHANGED << socket, conn, table, cur, bytes, stop, due >>
WaitForever ==
  /\ pc = "wait" /\ (Ready # {} \/ due)
  /\ batch' = Ready /\ closed' = {} /\ pc' = "batch"
  /\ UNCHANGED << socket, conn, conns, interest, cur, bytes, stop, due >>
Wait ==
  /\ pc = "wait" /\ ~stop /\ (Ready # {} \/ due)
  /\ batch' = Ready /\ closed' = {} /\ pc' = "batch"
  /\ UNCHANGED << socket, conn, conns, interest, cur, bytes, stop, due >>

\* epoll_wait fails: run() returns and leaves the connections as they are.
WaitFails ==
  /\ pc = "wait" /\ ~stop /\ pc' = "fatal"
  /\ UNCHANGED << socket, conn, table, batch, cur, bytes, stop, due >>

\* close_connection: the peer still gets what the kernel has.
DropRegistered(f) ==
  /\ conns' = [conns EXCEPT ![f] = None]
  /\ closed' = closed \cup {f}
  /\ peer' = [peer EXCEPT ![conns[f]] = "done"]
  /\ inbox' = [inbox EXCEPT ![conns[f]] = << >>]
  /\ outbuf' = [outbuf EXCEPT ![conns[f]] = 0]
  /\ closing' = closing \ {conns[f]}
  /\ fin' = fin \ {conns[f]} /\ rst' = rst \ {conns[f]}
  /\ UNCHANGED interest
Drop(f) ==
  /\ conns' = [conns EXCEPT ![f] = None]
  /\ interest' = [interest EXCEPT ![f] = {}]
  /\ closed' = closed \cup {f}
  /\ peer' = [peer EXCEPT ![conns[f]] = "done"]
  /\ inbox' = [inbox EXCEPT ![conns[f]] = << >>]
  /\ outbuf' = [outbuf EXCEPT ![conns[f]] = 0]
  /\ closing' = closing \ {conns[f]}
  /\ fin' = fin \ {conns[f]} /\ rst' = rst \ {conns[f]}

\* Events of a descriptor closed earlier in the batch, or of no connection.
Skip(e) == e.fd # Listener /\ (e.fd \in closed \/ conns[e.fd] = None)

Dispatch(e) ==
  /\ pc = "batch" /\ batch' = batch \ {e}
  /\ \/ /\ e.fd = Listener
        /\ pc' = "accept"
        /\ UNCHANGED << socket, conn, table, cur >>
     \/ /\ e.fd # Listener /\ (Skip(e) \/ "hup" \in e.ev)
        /\ IF Skip(e) THEN UNCHANGED << socket, conn, table >> ELSE Drop(e.fd) /\ UNCHANGED wire
        /\ UNCHANGED << pc, cur >>
     \/ /\ e.fd # Listener /\ ~Skip(e) /\ "hup" \notin e.ev
        /\ cur' = e
        /\ pc' = IF "in" \in e.ev THEN "read" ELSE "flush"
        /\ UNCHANGED << socket, conn, table >>
  /\ UNCHANGED << bytes, stop, due >>

\* One accept_client call that finds nobody, or no free descriptor.
AcceptNone ==
  /\ pc = "accept" /\ (Queued = {} \/ Open = Fds)
  /\ pc' = "batch"
  /\ UNCHANGED << socket, conn, table, batch, cur, bytes, stop, due >>

AtCapacity == Cardinality(Open) >= MaxClients

AcceptClient(f, c) ==
  /\ pc = "accept" /\ c \in Queued /\ f \in Fds \ Open
  /\ ~AtCapacity
  /\ peer' = [peer EXCEPT ![c] = "open"]
  /\ conns' = [conns EXCEPT ![f] = c] /\ interest' = [interest EXCEPT ![f] = {"in"}]
  /\ UNCHANGED << inbox, fin, rst, wire, conn, closed, pc, batch, cur, bytes, stop, due >>

\* Too many clients, or epoll does not take the descriptor: it is closed.
RefuseClient(c) ==
  /\ pc = "accept" /\ c \in Queued /\ Open # Fds
  /\ peer' = [peer EXCEPT ![c] = "done"]
  /\ UNCHANGED << inbox, fin, rst, wire, conn, table, pc, batch, cur, bytes, stop, due >>

Least(n, m) == IF n < m THEN n ELSE m

\* What recv and the sends move: all there is, or all there is room for.
Size(n, m) == Least(n, m)

\* queue_reply.  Sizes that flush would refuse anyway are not told apart.
Queue(c, n) ==
  outbuf' = [outbuf EXCEPT ![c] = Least(@ + n, MaxOutbuf + SendBuffer + 1)]

\* feed and the handler: a malformed request ends the parse, and the commands
\* before it in the chunk are lost.  What a parser that has failed before makes
\* of more input is left open.
Malformed(rs) == \E i \in 1 .. Len(rs) : rs[i] = "malformed"
Feed(c, rs) ==
  \/ /\ ~Malformed(rs) /\ c \notin closing
     /\ Queue(c, Len(rs))
     /\ stop' \in {stop, TRUE}  \* one of them may be SHUTDOWN
     /\ UNCHANGED closing
  \/ /\ Malformed(rs) /\ c \notin closing
     /\ Queue(c, 1)
     /\ closing' = closing \cup {c}
     /\ UNCHANGED stop
  \/ /\ c \in closing
     /\ \E n \in 0 .. Chunk : Queue(c, n)
     /\ stop' \in {stop, TRUE}
     /\ UNCHANGED closing

\* Whether handle_readable leaves its loop after a recv of n.
Unbounded(c, n) == c \in closing' \ closing \/ stop' \/ n < Chunk
Enough(c, n)    == c \in closing' \ closing \/ stop' \/ n < Chunk \/ bytes + n >= MaxRead

\* One recv of handle_readable.
Recv ==
  LET c == conns[cur.fd]
      n == Size(Len(inbox[c]), Chunk)
  IN  /\ pc = "read" /\ n > 0
      /\ inbox' = [inbox EXCEPT ![c] = SubSeq(@, n + 1, Len(@))]
      /\ Feed(c, SubSeq(inbox[c], 1, n))
      /\ \/ (Enough(c, n) \/ c \in closing) /\ pc' = "flush" /\ bytes' = 0
         \/ ~Enough(c, n) /\ pc' = "read" /\ bytes' = Least(bytes + n, MaxRead)
      /\ UNCHANGED << peer, fin, rst, wire, table, batch, cur, due >>

\* A recv that finds no data: the peer has closed, or EAGAIN.
RecvEndFalls ==
  LET c == conns[cur.fd]
  IN  /\ pc = "read" /\ inbox[c] = << >> /\ pc' = "flush"
      /\ IF c \in fin \cup rst THEN Drop(cur.fd) ELSE UNCHANGED << peer, inbox, fin, rst, conn, table >>
      /\ UNCHANGED << wire, batch, cur, bytes, stop, due >>
RecvEnd ==
  LET c == conns[cur.fd]
  IN  /\ pc = "read" /\ inbox[c] = << >>
      /\ IF c \in fin \cup rst
         THEN Drop(cur.fd) /\ pc' = "batch" /\ cur' = Idle
         ELSE pc' = "flush" /\ UNCHANGED << peer, inbox, fin, rst, conn, table, cur >>
      /\ bytes' = 0
      /\ UNCHANGED << wire, batch, stop, due >>

\* modify_fd: ask to be told when the socket drains, or no longer.
ArmIn(f, ev) == interest' = [interest EXCEPT ![f] = {"in"}]
Arm(f, ev)   == interest' = [interest EXCEPT ![f] = ev]

Over(n) == n > MaxOutbuf

\* The sends of a flush, and what follows from what they leave.  After the
\* flush of handle_readable the event may ask for another.
Flush ==
  LET c     == conns[cur.fd]
      n     == Size(outbuf[c], SendBuffer - wire[c])
      left  == outbuf[c] - n
      reset == c \in rst /\ outbuf[c] > 0
      again == {"in", "out"} \subseteq cur.ev
  IN  /\ pc = "flush"
      /\ wire' = [wire EXCEPT ![c] = IF reset THEN @ ELSE @ + n]
      /\ IF reset \/ (left = 0 /\ c \in closing) \/ Over(left)
         THEN Drop(cur.fd) /\ pc' = "batch" /\ cur' = Idle
         ELSE /\ outbuf' = [outbuf EXCEPT ![c] = left]
              /\ Arm(cur.fd, IF left = 0 THEN {"in"} ELSE {"in", "out"})
              /\ pc' = IF again THEN "flush" ELSE "batch"
              /\ cur' = IF again THEN [cur EXCEPT !.ev = {"out"}] ELSE Idle
              /\ UNCHANGED << peer, inbox, fin, rst, closing, conns, closed >>
      /\ UNCHANGED << batch, bytes, stop, due >>

\* The batch is done: run_due_ticks.
Tick ==
  /\ pc = "batch" /\ batch = {}
  /\ due' = FALSE /\ pc' = "wait"
  /\ UNCHANGED << socket, conn, table, batch, cur, bytes, stop >>

\* The loop has ended; all connections are destroyed.
Stop ==
  /\ pc = "wait" /\ stop
  /\ pc' = "stopped"
  /\ conns' = [f \in Fds |-> None] /\ interest' = [f \in Fds |-> {}]
  /\ peer' = [c \in Clients |-> IF peer[c] = "open" THEN "done" ELSE peer[c]]
  /\ inbox' = [c \in Clients |-> IF peer[c] = "open" THEN << >> ELSE inbox[c]]
  /\ outbuf' = [c \in Clients |-> 0] /\ closing' = {}
  /\ UNCHANGED << fin, rst, wire, closed, batch, cur, bytes, stop, due >>

Ended == pc \in {"stopped", "fatal"} /\ UNCHANGED vars

LoopStep ==
  \/ Wait \/ WaitFails \/ Stop \/ (\E e \in batch : Dispatch(e)) \/ Tick
  \/ AcceptNone \/ (\E c \in Clients : RefuseClient(c) \/ \E f \in Fds : AcceptClient(f, c))
  \/ Recv \/ RecvEnd \/ Flush

\* What clients do after run() has returned no longer matters.
Next ==
  \/ LoopStep
  \/ pc \notin {"stopped", "fatal"} /\ (ClientStep \/ TickDue \/ StopRequested)
  \/ Ended

Spec     == Init /\ [][Next]_vars
FairSpec == Spec /\ WF_vars(LoopStep)

-----------------------------------------------------------------------------
(* Properties.                                                             *)

\* The descriptor table, epoll's interest and the sockets agree: a descriptor
\* is watched exactly while it has a connection, no two descriptors share a
\* client, a client is open exactly while it has one, and nothing is kept for
\* a client that has none (register_fd, close_connection, accept_new_clients).
Ownership ==
  /\ \A f \in Fds : interest[f] # {} <=> conns[f] # None
  /\ \A f, g \in Open : conns[f] = conns[g] => f = g
  /\ \A c \in Clients : peer[c] = "open" <=> \E f \in Fds : conns[f] = c
  /\ \A c \in Clients : peer[c] # "open" => outbuf[c] = 0 /\ c \notin closing

\* An event is only ever applied to the connection it was reported for, though
\* connections are closed, and their descriptors handed out again, between
\* epoll_wait and the event's turn; no step touches a connection that
\* handle_readable or flush has destroyed; and no event is lost to the check of
\* closed_this_batch_, which only its own event could have put it into.
RightConnection ==
  /\ \A e \in batch : e.fd # Listener => ~Skip(e) /\ conns[e.fd] = e.who
  /\ pc \in {"read", "flush"} => cur.fd \in Open /\ conns[cur.fd] = cur.who

\* Whenever the loop sleeps: output that is parked has EPOLLOUT armed and
\* nothing else has, parked output is within the cap, and a connection marked
\* for closing is still there only because it has output to flush.
OutputWatched ==
  pc = "wait" => \A f \in Open :
    /\ outbuf[conns[f]] > 0 <=> "out" \in interest[f]
    /\ outbuf[conns[f]] <= MaxOutbuf
    /\ conns[f] \in closing => outbuf[conns[f]] > 0

Running(c) == peer[c] = "open" /\ pc \notin {"stopped", "fatal"}

\* Whatever the other clients do once they have connected, even sending without
\* end or never reading, a client with unread requests is read from
\* (kMaxReadPerEvent, level-triggered readiness, short writes parked).  Each
\* client connects once: accept_new_clients has no bound, and connects without
\* end are not considered, here and in the properties below.
Served ==
  \A c \in Clients :
    (Running(c) /\ inbox[c] # << >>) ~> ((pc = "read" /\ cur.who = c) \/ ~Running(c))

\* Parked replies keep flowing to a client that keeps reading: when it has read
\* all the kernel had, more of them are sent, or there are none left (flush,
\* EPOLLOUT).
Delivered ==
  \A c \in Clients :
    (Running(c) /\ outbuf[c] > 0 /\ wire[c] = 0) ~> (wire[c] > 0 \/ outbuf[c] = 0 \/ ~Running(c))

\* A tick that is due runs, however busy the connections are.
TickFires == due ~> (~due \/ pc \in {"stopped", "fatal"})

\* After stop() the loop ends.
Stops == stop ~> pc \in {"stopped", "fatal"}
=============================================================================
