----------------------------- MODULE QuickServer -----------------------------
(***************************************************************************)
(* A running server of qs_lib.cpp: the worker threads of working_thread,   *)
(* the io_contexts they pass around, the completion port, the storage of   *)
(* connections, the walks of the idle timer and of qs_enum_connections,    *)
(* and the qs_* calls of the program that uses the library.                *)
(*                                                                         *)
(* One io_context serves one connection for its whole life.  Its           *)
(* ended_operation says which operation its OVERLAPPED stands for, and     *)
(* every call overwrites it; nothing in the library counts the operations  *)
(* outstanding.  The client modelled here holds the turn on a connection   *)
(* from a callback until its next call, as qs_lib_test.cpp does, but it    *)
(* may keep the turn after the callback has returned and call from a       *)
(* thread of its own.                                                      *)
(***************************************************************************)
EXTENDS Integers, Sequences, FiniteSets

CONSTANTS
  Workers,          \* threads created by qs_start
  Contexts,         \* addresses alloc_context can return
  NoContext,        \* stands for the io_contexts of start and stop packets
  InitAccepts,      \* qs_params.listener.init_accepts_count
  MaxConnections,   \* qs_params.max_count_of_connections, 0 made 10000
  ClientCalls,      \* what the client may call after each callback
  Faults            \* what may go wrong in the environment

Callbacks == {"on_connect", "send_done", "recv_done", "user_message",
              "transmit_file"}
Calls     == {"send", "recv", "send_file", "post", "close"}
IoKinds   == {"on_connect", "send_done", "recv_done", "transmit_file",
              "on_disconnect"}
Kinds     == IoKinds \cup {"user_message", "start_server", "stop_server"}

ASSUME AcceptsAssumption == InitAccepts \in Nat
ASSUME MaxAssumption     == MaxConnections \in Nat \ {0}
ASSUME ContextAssumption == NoContext \notin Contexts
ASSUME ClientAssumption  ==
  ClientCalls \in [Callbacks \cup {"failed"} -> SUBSET Calls]
ASSUME FaultAssumption   ==
  Faults \subseteq {"reset", "accept", "associate", "empty"}

VARIABLES
  allocated,      \* io_contexts that alloc_context returned and nobody freed
  op,             \* io_context.ended_operation
  opened,         \* contexts whose socket is open
  sockets_count,  \* qs_info.sockets_count
  link,           \* the TCP connection behind the socket
  pending,        \* overlapped operations the system has not completed
  queue,          \* packets in the completion port, oldest first
  stored,         \* connections in server->storage
  traversing,     \* somebody walks the storage and holds storage->cs
  todo,           \* connections that walk has not visited
  pc,             \* where each worker is
  cur,            \* the packet it works on
  accepts,        \* its variable accepts
  turn,           \* the callback after which the client may call
  stops           \* stop packets qs_stop has posted

ctxVars   == <<allocated, op>>
sockVars  == <<opened, sockets_count>>
netVars   == <<link, pending, queue>>
walkVars  == <<traversing, todo>>
storeVars == <<stored, walkVars>>
workVars  == <<pc, cur, accepts>>
userVars  == <<turn, stops>>
serverVars == <<ctxVars, sockVars, netVars, storeVars>>
vars == <<serverVars, workVars, userVars>>

Packet == [ctx : Contexts \cup {NoContext}, kind : Kinds,
           zero : BOOLEAN, ok : BOOLEAN]

NoPacket == [ctx |-> NoContext, kind |-> "stop_server",
             zero |-> FALSE, ok |-> TRUE]

\* PostQueuedCompletionStatus(iocp, 8, ...)
Posted(c, k) == [ctx |-> c, kind |-> k, zero |-> FALSE, ok |-> TRUE]

Labels == {"wait", "dispatch", "start", "associate", "add", "call",
           "in_on_connect", "in_callback", "on_disconnect", "delete",
           "free", "refill", "accept", "exited"}

TypeOK ==
  /\ allocated \subseteq Contexts
  /\ op \in [Contexts -> IoKinds \cup {"user_message", "none"}]
  /\ opened \subseteq Contexts
  /\ sockets_count \in Int
  /\ link \in [Contexts -> {"none", "up", "fin", "shut", "down", "detached"}]
  /\ pending \subseteq Contexts \X IoKinds
  /\ queue \in Seq(Packet)
  /\ stored \subseteq Contexts
  /\ traversing \in BOOLEAN
  /\ todo \subseteq Contexts
  /\ pc \in [Workers -> Labels]
  /\ cur \in [Workers -> Packet]
  /\ accepts \in [Workers -> 0 .. InitAccepts]
  /\ turn \in [Contexts -> Callbacks \cup {"failed", "none"}]
  /\ stops \in Nat

\* qs_start has created the threads and posted the start packet.
Init ==
  /\ allocated = {}
  /\ op = [c \in Contexts |-> "none"]
  /\ opened = {}
  /\ sockets_count = 0
  /\ link = [c \in Contexts |-> "none"]
  /\ pending = {}
  /\ queue = <<Posted(NoContext, "start_server")>>
  /\ stored = {}
  /\ traversing = FALSE
  /\ todo = {}
  /\ pc = [w \in Workers |-> "wait"]
  /\ cur = [w \in Workers |-> NoPacket]
  /\ accepts = [w \in Workers |-> InitAccepts]
  /\ turn = [c \in Contexts |-> "none"]
  /\ stops = 0

------------------------------------------------------------------------------
\* Helpers of the worker threads.

Goto(w, label) == pc' = [pc EXCEPT ![w] = label]

\* io_ctx->ended_operation; a start or stop packet has a context of its own
\* that nobody else can reach.
Tag(p) == IF p.ctx = NoContext THEN p.kind ELSE op[p.ctx]

\* Faulty variant: the exception for on_connect, whose packets never carry
\* data, is dropped.
IsDisconnectZeroBytes(p) == p.zero \/ Tag(p) = "on_disconnect"

\* Faulty variant: an empty receive is data like any other.
IsDisconnectTagOnly(p) == Tag(p) = "on_disconnect"

\* line 727
IsDisconnect(p) ==
  \/ p.zero /\ Tag(p) # "on_connect"
  \/ Tag(p) = "on_disconnect"

\* Contexts whose connection_storage_add has not returned.
Accepting(c) ==
  /\ op[c] = "on_connect"
  /\ turn[c] = "none"
  /\ ~ \E w \in Workers : pc[w] = "call" /\ cur[w].ctx = c

Live == {c \in allocated :
           ~ Accepting(c) /\ ~ \E w \in Workers :
                                  pc[w] = "free" /\ cur[w].ctx = c}

Storage == INSTANCE ConnectionSet
             WITH Connections <- Contexts, Size <- MaxConnections,
                  live <- Live

\* init_accept: a new context, a new socket, and an AcceptEx that is pending
\* or that fails at once and leaves both behind.
InitAccept(c) ==
  /\ c \in Contexts \ allocated
  /\ allocated' = allocated \cup {c}
  /\ op' = [op EXCEPT ![c] = "on_connect"]
  /\ opened' = opened \cup {c}
  /\ sockets_count' = sockets_count + 1
  /\ \/ pending' = pending \cup {<<c, "on_connect">>}
     \/ /\ "accept" \in Faults
        /\ UNCHANGED pending

------------------------------------------------------------------------------
\* working_thread: GetQueuedCompletionStatus

Dequeue(w) ==
  /\ pc[w] = "wait"
  /\ queue # <<>>
  /\ Head(queue).ok
  /\ cur' = [cur EXCEPT ![w] = Head(queue)]
  /\ queue' = Tail(queue)
  /\ Goto(w, "dispatch")
  /\ UNCHANGED <<ctxVars, sockVars, link, pending, storeVars, accepts,
                 userVars>>

\* The operation failed: the error is reported and the packet forgotten.
DequeueFailed(w) ==
  /\ pc[w] = "wait"
  /\ queue # <<>>
  /\ ~ Head(queue).ok
  /\ queue' = Tail(queue)
  /\ UNCHANGED <<ctxVars, sockVars, link, pending, storeVars, workVars,
                 userVars>>

------------------------------------------------------------------------------
\* A connection that ended: on_disconnect, socket_close,
\* connection_storage_delete, free_context, and a loop over accepts.

\* Faulty variant: accepts is decremented for every packet of a connection.
DispatchDisconnectCounts(w) ==
  /\ pc[w] = "dispatch"
  /\ IsDisconnect(cur[w])
  /\ accepts' = [accepts EXCEPT ![w] = IF @ = 0 THEN 0 ELSE @ - 1]
  /\ Goto(w, "on_disconnect")
  /\ UNCHANGED <<serverVars, cur, userVars>>

DispatchDisconnect(w) ==
  /\ pc[w] = "dispatch"
  /\ IsDisconnect(cur[w])
  /\ Goto(w, "on_disconnect")
  /\ UNCHANGED <<serverVars, cur, accepts, userVars>>

\* Faulty variant: closesocket without InterlockedDecrement.
SocketCloseUncounted(w) ==
  /\ pc[w] = "on_disconnect"
  /\ opened' = opened \ {cur[w].ctx}
  /\ link' = [link EXCEPT ![cur[w].ctx] = "none"]
  /\ Goto(w, "delete")
  /\ UNCHANGED <<ctxVars, sockets_count, pending, queue, storeVars, cur,
                 accepts, userVars>>

SocketClose(w) ==
  LET c == cur[w].ctx IN
  /\ pc[w] = "on_disconnect"
  /\ opened' = opened \ {c}
  /\ sockets_count' = sockets_count - 1
  /\ link' = [link EXCEPT ![c] = "none"]
  /\ Goto(w, "delete")
  /\ UNCHANGED <<ctxVars, pending, queue, storeVars, cur, accepts, userVars>>

\* Faulty variant: delete does not wait for a walk to end.
StorageDeleteUnlocked(w) ==
  /\ pc[w] = "delete"
  /\ stored' = Storage!Deleted(cur[w].ctx)
  /\ Goto(w, "free")
  /\ UNCHANGED <<ctxVars, sockVars, netVars, walkVars, cur, accepts, userVars>>

StorageDelete(w) ==
  /\ pc[w] = "delete"
  /\ ~ traversing
  /\ stored' = Storage!Deleted(cur[w].ctx)
  /\ Goto(w, "free")
  /\ UNCHANGED <<ctxVars, sockVars, netVars, walkVars, cur, accepts, userVars>>

FreeContext(w) ==
  LET c == cur[w].ctx IN
  /\ pc[w] = "free"
  /\ allocated' = allocated \ {c}
  /\ op' = [op EXCEPT ![c] = "none"]
  /\ cur' = [cur EXCEPT ![w] = NoPacket]
  /\ Goto(w, "refill")
  /\ UNCHANGED <<sockVars, netVars, storeVars, accepts, userVars>>

------------------------------------------------------------------------------
\* A client has connected.

\* set_keep_alive (746) gives the context's OVERLAPPED to WSAIoctl, which
\* completes at once and, as the socket is not associated with the port before
\* line 752, without a packet: it is left out.
DispatchConnect(w) ==
  /\ pc[w] = "dispatch"
  /\ ~ IsDisconnect(cur[w])
  /\ Tag(cur[w]) = "on_connect"
  /\ accepts' = [accepts EXCEPT ![w] = @ - 1]
  /\ Goto(w, "associate")
  /\ UNCHANGED <<serverVars, cur, userVars>>

\* CreateIoCompletionPort for the new socket; when it fails the error is
\* reported and the server goes on with a socket whose operations complete
\* without a packet.
Associate(w) ==
  /\ pc[w] = "associate"
  /\ \/ UNCHANGED link
     \/ /\ "associate" \in Faults
        /\ link' = [link EXCEPT ![cur[w].ctx] = "detached"]
  /\ Goto(w, "add")
  /\ UNCHANGED <<ctxVars, sockVars, pending, queue, storeVars, cur, accepts,
                 userVars>>

\* Faulty variant: add does not test the capacity.
StorageAddUnchecked(w) ==
  /\ pc[w] = "add"
  /\ ~ traversing
  /\ stored' = stored \cup {cur[w].ctx}
  /\ Goto(w, "call")
  /\ UNCHANGED <<ctxVars, sockVars, netVars, walkVars, cur, accepts, userVars>>

StorageAdd(w) ==
  /\ pc[w] = "add"
  /\ ~ traversing
  /\ stored' = Storage!Added(cur[w].ctx)
  /\ Goto(w, "call")
  /\ UNCHANGED <<ctxVars, sockVars, netVars, walkVars, cur, accepts, userVars>>

\* for(; accepts < max_accepts; ++accepts)
RefillDone(w) ==
  /\ pc[w] = "refill"
  /\ accepts[w] >= InitAccepts
  /\ Goto(w, "wait")
  /\ UNCHANGED <<serverVars, cur, accepts, userVars>>

\* Faulty variant: accepts is incremented only when an accept is posted.
RefillFullWaits(w) ==
  /\ pc[w] = "refill"
  /\ accepts[w] < InitAccepts
  /\ ~ traversing
  /\ Storage!IsFull
  /\ UNCHANGED vars

RefillFull(w) ==
  /\ pc[w] = "refill"
  /\ accepts[w] < InitAccepts
  /\ ~ traversing
  /\ Storage!IsFull
  /\ accepts' = [accepts EXCEPT ![w] = @ + 1]
  /\ UNCHANGED <<serverVars, pc, cur, userVars>>

RefillRoom(w) ==
  /\ pc[w] = "refill"
  /\ accepts[w] < InitAccepts
  /\ ~ traversing
  /\ ~ Storage!IsFull
  /\ Goto(w, "accept")
  /\ UNCHANGED <<serverVars, cur, accepts, userVars>>

\* Faulty variant: the loop forgets to count the accept it posted.
RefillAcceptUncounted(w) ==
  /\ pc[w] = "accept"
  /\ \E c \in Contexts : InitAccept(c)
  /\ Goto(w, "refill")
  /\ UNCHANGED <<link, queue, storeVars, cur, accepts, userVars>>

RefillAccept(w) ==
  /\ pc[w] = "accept"
  /\ \E c \in Contexts : InitAccept(c)
  /\ accepts' = [accepts EXCEPT ![w] = @ + 1]
  /\ Goto(w, "refill")
  /\ UNCHANGED <<link, queue, storeVars, cur, userVars>>

------------------------------------------------------------------------------
\* send_done, recv_done, transmit_file, user_message, and the callbacks.  Once
\* a callback is entered the client has the turn, and the worker does not use
\* the context again.

EnterCallback(w, name, label) ==
  /\ turn' = [turn EXCEPT ![cur[w].ctx] = name]
  /\ cur' = [cur EXCEPT ![w] = NoPacket]
  /\ Goto(w, label)
  /\ UNCHANGED <<serverVars, accepts, stops>>

DispatchIo(w) ==
  /\ pc[w] = "dispatch"
  /\ ~ IsDisconnect(cur[w])
  /\ Tag(cur[w]) \in Callbacks \ {"on_connect"}
  /\ EnterCallback(w, Tag(cur[w]), "in_callback")

OnConnect(w) ==
  /\ pc[w] = "call"
  /\ EnterCallback(w, "on_connect", "in_on_connect")

CallbackReturns(w) ==
  /\ \/ pc[w] = "in_on_connect" /\ Goto(w, "refill")
     \/ pc[w] = "in_callback" /\ Goto(w, "wait")
  /\ UNCHANGED <<serverVars, cur, accepts, userVars>>

------------------------------------------------------------------------------
\* start_server and stop_server

DispatchStart(w) ==
  /\ pc[w] = "dispatch"
  /\ ~ IsDisconnect(cur[w])
  /\ Tag(cur[w]) = "start_server"
  /\ accepts' = [accepts EXCEPT ![w] = 0]
  /\ cur' = [cur EXCEPT ![w] = NoPacket]
  /\ Goto(w, "start")
  /\ UNCHANGED <<serverVars, userVars>>

\* Faulty variant: the loop posts one accept too many.
StartAcceptOffByOne(w) ==
  /\ pc[w] = "start"
  /\ accepts[w] <= InitAccepts
  /\ \E c \in Contexts : InitAccept(c)
  /\ accepts' = [accepts EXCEPT ![w] = @ + 1]
  /\ UNCHANGED <<link, queue, storeVars, pc, cur, userVars>>

StartAccept(w) ==
  /\ pc[w] = "start"
  /\ accepts[w] < InitAccepts
  /\ \E c \in Contexts : InitAccept(c)
  /\ accepts' = [accepts EXCEPT ![w] = @ + 1]
  /\ UNCHANGED <<link, queue, storeVars, pc, cur, userVars>>

StartDone(w) ==
  /\ pc[w] = "start"
  /\ accepts[w] >= InitAccepts
  /\ Goto(w, "wait")
  /\ UNCHANGED <<serverVars, cur, accepts, userVars>>

DispatchStop(w) ==
  /\ pc[w] = "dispatch"
  /\ ~ IsDisconnect(cur[w])
  /\ Tag(cur[w]) = "stop_server"
  /\ cur' = [cur EXCEPT ![w] = NoPacket]
  /\ Goto(w, "exited")
  /\ UNCHANGED <<serverVars, accepts, userVars>>

\* The loop of qs_stop: one stop packet for every thread.
PostStop ==
  /\ stops < Cardinality(Workers)
  /\ stops' = stops + 1
  /\ queue' = Append(queue, Posted(NoContext, "stop_server"))
  /\ UNCHANGED <<ctxVars, sockVars, link, pending, storeVars, workVars, turn>>

------------------------------------------------------------------------------
\* The client.

MayCall(c, call) ==
  /\ turn[c] # "none"
  /\ call \in ClientCalls[turn[c]]

\* Faulty variant: WSA_IO_PENDING is taken for a failure, so the client is
\* told to try again while the operation is under way.
StartIoPendingFails(c, k) ==
  /\ op' = [op EXCEPT ![c] = k]
  /\ turn' = [turn EXCEPT ![c] = "failed"]
  /\ \/ link[c] \in {"up", "fin", "detached"} /\ pending' = pending \cup {<<c, k>>}
     \/ link[c] \in {"shut", "down"} /\ UNCHANGED pending
  /\ UNCHANGED <<allocated, sockVars, link, queue, storeVars, workVars, stops>>

\* qs_recv and qs_send set ended_operation first.  WSARecv and WSASend are
\* pending, or fail at once: then the client is told and keeps the turn.
StartIo(c, k) ==
  /\ op' = [op EXCEPT ![c] = k]
  /\ \/ /\ link[c] \in {"up", "fin", "detached"}
        /\ pending' = pending \cup {<<c, k>>}
        /\ turn' = [turn EXCEPT ![c] = "none"]
     \/ /\ link[c] \in {"shut", "down"}
        /\ turn' = [turn EXCEPT ![c] = "failed"]
        /\ UNCHANGED pending
  /\ UNCHANGED <<allocated, sockVars, link, queue, storeVars, workVars, stops>>

qs_send(c) == MayCall(c, "send") /\ StartIo(c, "send_done")
qs_recv(c) == MayCall(c, "recv") /\ StartIo(c, "recv_done")

\* qs_send_file and qs_close_connection do not look at the result: a call
\* that fails at once is reported as a success and no packet will follow.
qs_send_file(c) ==
  /\ MayCall(c, "send_file")
  /\ op' = [op EXCEPT ![c] = "transmit_file"]
  /\ turn' = [turn EXCEPT ![c] = "none"]
  /\ \/ /\ link[c] \in {"up", "fin", "detached"}
        /\ pending' = pending \cup {<<c, "transmit_file">>}
     \/ /\ link[c] \in {"shut", "down"}
        /\ UNCHANGED pending
  /\ UNCHANGED <<allocated, sockVars, link, queue, storeVars, workVars, stops>>

qs_close_connection(c) ==
  /\ MayCall(c, "close")
  /\ op' = [op EXCEPT ![c] = "on_disconnect"]
  /\ turn' = [turn EXCEPT ![c] = "none"]
  /\ \/ pending' = pending \cup {<<c, "on_disconnect">>}
     \/ link[c] = "down" /\ UNCHANGED pending
  /\ UNCHANGED <<allocated, sockVars, link, queue, storeVars, workVars, stops>>

\* Faulty variant: the packet is posted without setting ended_operation.
PostUntagged(c) ==
  /\ MayCall(c, "post")
  /\ turn' = [turn EXCEPT ![c] = "none"]
  /\ queue' = Append(queue, Posted(c, "user_message"))
  /\ UNCHANGED <<ctxVars, sockVars, link, pending, storeVars, workVars, stops>>

qs_post_message_to_pool(c) ==
  /\ MayCall(c, "post")
  /\ op' = [op EXCEPT ![c] = "user_message"]
  /\ turn' = [turn EXCEPT ![c] = "none"]
  /\ queue' = Append(queue, Posted(c, "user_message"))
  /\ UNCHANGED <<allocated, sockVars, link, pending, storeVars, workVars,
                 stops>>

Client(c) ==
  \/ qs_send(c)
  \/ qs_recv(c)
  \/ qs_send_file(c)
  \/ qs_close_connection(c)
  \/ qs_post_message_to_pool(c)

------------------------------------------------------------------------------
\* connection_storage_traverse, for the idle timer (idle_check may shut the
\* connection down) and for qs_enum_connections (it does not).

TraverseStart ==
  /\ ~ traversing
  /\ traversing' = TRUE
  /\ todo' = stored
  /\ UNCHANGED <<ctxVars, sockVars, netVars, stored, workVars, userVars>>

TraverseVisit(c) ==
  /\ c \in todo
  /\ todo' = todo \ {c}
  /\ \/ UNCHANGED link
     \/ /\ link[c] \in {"up", "fin"}
        /\ link' = [link EXCEPT ![c] = "shut"]
  /\ UNCHANGED <<ctxVars, sockVars, pending, queue, stored, traversing,
                 workVars, userVars>>

TraverseEnd ==
  /\ traversing
  /\ todo = {}
  /\ traversing' = FALSE
  /\ UNCHANGED <<ctxVars, sockVars, netVars, stored, todo, workVars, userVars>>

------------------------------------------------------------------------------
\* The peers and the system.

\* The peer closes its side, or the connection breaks (a reset, or a
\* keep-alive probe without an answer).
PeerCloses(c) ==
  /\ link[c] = "up"
  /\ link' = [link EXCEPT ![c] = "fin"]
  /\ UNCHANGED <<ctxVars, sockVars, pending, queue, storeVars, workVars,
                 userVars>>

LinkBreaks(c) ==
  /\ "reset" \in Faults
  /\ link[c] \in {"up", "fin", "shut"}
  /\ link' = [link EXCEPT ![c] = "down"]
  /\ UNCHANGED <<ctxVars, sockVars, pending, queue, storeVars, workVars,
                 userVars>>

\* Bound: a client connects only while alloc_context can still serve every
\* accept that is being replaced; the model has no out-of-memory.
RoomToReplace ==
  Cardinality(Contexts \ allocated)
    > Cardinality({n \in DOMAIN queue : queue[n].kind = "on_connect"})
      + Cardinality({w \in Workers : \/ pc[w] \in {"in_on_connect", "refill", "accept"}
                                     \/ cur[w].kind = "on_connect"})

\* How the system completes operation k on c: bytes transferred or none,
\* success or failure.
Outcomes(c, k) ==
  LET up     == link[c] \in {"up", "fin", "shut"}
      data   == [zero |-> FALSE, ok |-> TRUE]
      empty  == [zero |-> TRUE, ok |-> TRUE]
      failed == [zero |-> TRUE, ok |-> FALSE]
  IN  {o \in {data, empty, failed} :
         \/ /\ k = "on_connect"
            /\ \/ o = empty /\ RoomToReplace
               \/ o = failed /\ "accept" \in Faults
         \/ /\ k = "recv_done"
            /\ \/ o = data /\ link[c] = "up"
               \/ o = empty /\ link[c] \in {"fin", "shut"}
               \/ o = failed /\ link[c] = "down"
         \/ /\ k \in {"send_done", "transmit_file"}
            /\ \/ o = data /\ up
               \/ o = empty /\ up /\ "empty" \in Faults
               \/ o = failed /\ link[c] = "down"
         \/ /\ k = "on_disconnect"
            /\ \/ o = empty
               \/ o = failed /\ link[c] = "down"}

\* The link once k has completed: an accepted connection is up, DisconnectEx
\* and TransmitFile with TF_DISCONNECT take it down.
LinkAfter(c, k, ok) ==
  CASE ok /\ k = "on_connect"                         -> "up"
    [] ok /\ k \in {"on_disconnect", "transmit_file"} -> "down"
    [] OTHER                                          -> link[c]

Complete(c, k) ==
  /\ <<c, k>> \in pending
  /\ link[c] # "detached"
  /\ \E o \in Outcomes(c, k) :
       /\ queue' = Append(queue, [ctx |-> c, kind |-> k,
                                  zero |-> o.zero, ok |-> o.ok])
       /\ link' = [link EXCEPT ![c] = LinkAfter(c, k, o.ok)]
  /\ pending' = pending \ {<<c, k>>}
  /\ UNCHANGED <<ctxVars, sockVars, storeVars, workVars, userVars>>

------------------------------------------------------------------------------
Worker(w) ==
  \/ Dequeue(w)            \/ DequeueFailed(w)
  \/ DispatchDisconnect(w) \/ SocketClose(w)
  \/ StorageDelete(w)      \/ FreeContext(w)
  \/ DispatchConnect(w)    \/ Associate(w)           \/ StorageAdd(w)
  \/ RefillDone(w)         \/ RefillFull(w)          \/ RefillRoom(w)
  \/ RefillAccept(w)
  \/ DispatchIo(w)         \/ OnConnect(w)           \/ CallbackReturns(w)
  \/ DispatchStart(w)      \/ StartAccept(w)         \/ StartDone(w)
  \/ DispatchStop(w)

Traverse == TraverseStart \/ TraverseEnd \/ \E c \in Contexts : TraverseVisit(c)

Peer(c) == PeerCloses(c) \/ LinkBreaks(c)

Next ==
  \/ \E w \in Workers : Worker(w)
  \/ \E c \in Contexts : Client(c) \/ Peer(c)
  \/ \E c \in Contexts, k \in IoKinds : Complete(c, k)
  \/ Traverse
  \/ PostStop

Spec == Init /\ [][Next]_vars

\* Threads and the system keep running, callbacks return, a client with the
\* turn uses it, and the critical section is free most of the time (the timer
\* walks twice per idle timeout).  Nothing makes peers connect or close.
FairSpec ==
  /\ Spec
  /\ \A w \in Workers :
       /\ WF_vars(Worker(w))
       /\ SF_vars(StorageAdd(w) \/ StorageDelete(w))
       /\ SF_vars(RefillFull(w) \/ RefillRoom(w))
  /\ \A c \in Contexts : WF_vars(Client(c))
  /\ \A c \in Contexts, k \in IoKinds \ {"on_connect"} : WF_vars(Complete(c, k))
  /\ WF_vars(TraverseEnd \/ \E c \in Contexts : TraverseVisit(c))

------------------------------------------------------------------------------
\* Who refers to a context.

InQueue(c)   == \E n \in DOMAIN queue : queue[n].ctx = c
InSystem(c)  == \E k \in IoKinds : <<c, k>> \in pending
AtWorker(c)  == \E w \in Workers : cur[w].ctx = c
AtClient(c)  == turn[c] # "none"

\* Nothing that will be dereferenced points to freed memory: not a packet, an
\* operation of the system, a worker, the client, the storage, or a walk
\* (free_context at line 732 comes after connection_storage_delete).
NoUseAfterFree ==
  \A c \in Contexts :
    InQueue(c) \/ InSystem(c) \/ AtWorker(c) \/ AtClient(c)
      \/ c \in stored \/ c \in todo
    => c \in allocated

\* At most one of the port, the system, the workers and the client holds a
\* context, and holds it once: the single OVERLAPPED and the single
\* ended_operation of an io_context are never used by two operations.
SoleHolder ==
  \A c \in Contexts :
    /\ \A m, n \in DOMAIN queue : queue[m].ctx = c /\ queue[n].ctx = c => m = n
    /\ \A j, k \in IoKinds : <<c, j>> \in pending /\ <<c, k>> \in pending => j = k
    /\ \A v, w \in Workers : cur[v].ctx = c /\ cur[w].ctx = c => v = w
    /\ InQueue(c) => ~ InSystem(c) /\ ~ AtWorker(c) /\ ~ AtClient(c)
    /\ InSystem(c) => ~ AtWorker(c) /\ ~ AtClient(c)
    /\ AtWorker(c) => ~ AtClient(c)

\* The tag a worker dispatches on is that of the operation the packet is
\* about: a receive is never reported as a send, nor a message as a receive.
TagTruthful ==
  \A w \in Workers : pc[w] = "dispatch" => Tag(cur[w]) = cur[w].kind

\* sockets_count is the number of open sockets, and a context is freed only
\* after its socket was closed.
SocketsAccounted ==
  /\ sockets_count = Cardinality(opened)
  /\ opened = {c \in allocated :
                 ~ \E w \in Workers : pc[w] \in {"delete", "free"} /\ cur[w].ctx = c}

\* The loop at lines 733-736 finds accepts = max_accepts whenever it is
\* reached: a disconnect never posts an accept.
DisconnectNeverRefills ==
  \A w \in Workers : pc[w] = "free" => accepts[w] = InitAccepts

\* Accepts outstanding or about to be replaced.
AcceptPool ==
  Cardinality({c \in Contexts :
                 \/ <<c, "on_connect">> \in pending
                 \/ \E n \in DOMAIN queue : queue[n].ctx = c /\ queue[n].kind = "on_connect"
                 \/ \E w \in Workers : /\ pc[w] = "dispatch"
                                       /\ cur[w].ctx = c
                                       /\ cur[w].kind = "on_connect"})
  + Cardinality({w \in Workers : accepts[w] < InitAccepts})

Started ==
  /\ \A n \in DOMAIN queue : queue[n].kind # "start_server"
  /\ \A w \in Workers : pc[w] # "start" /\ cur[w].kind # "start_server"

\* Once the initial accepts are posted their number never grows again: what a
\* full storage or a failed accept took from it is lost for good.
AcceptPoolNeverGrows == [][Started => AcceptPool' <= AcceptPool]_vars

\* The workers keep the contract of the storage: a connection is added once,
\* deleted once, and only in that order.
UsesStorageProperly == Storage!Spec

\* What the client sees of every connection: on_connect first, one callback
\* or call at a time, on_disconnect last and once.
Phase(c) ==
  IF c \notin allocated THEN "free"
  ELSE IF \E w \in Workers : /\ cur[w].ctx = c
                             /\ pc[w] \in {"on_disconnect", "delete", "free"}
       THEN "closing"
  ELSE IF op[c] = "on_connect" /\ turn[c] = "none" THEN "accepting"
  ELSE "open"

Lifecycle == INSTANCE ConnectionLifecycle
               WITH Connections <- Contexts,
                    phase <- [c \in Contexts |-> Phase(c)],
                    turn <- [c \in Contexts |-> AtClient(c)]
FollowsLifecycle == Lifecycle!Spec

\* A connection whose peer has closed, or that the idle timer has shut down,
\* is disconnected, closed and freed, unless the server is being stopped.
ClosedPeerReaped ==
  \A c \in Contexts :
    link[c] \in {"fin", "shut"} /\ Phase(c) = "open"
      ~> c \notin allocated \/ stops > 0

\* Once qs_stop has posted its packets every worker exits, so the wait for
\* the threads (line 537) ends.
StopTerminates ==
  stops = Cardinality(Workers) ~> \A w \in Workers : pc[w] = "exited"

\* The comment at lines 456-461: when the connection of a receive breaks, the
\* server closes its end.
KeepAliveCloses ==
  \A c \in Contexts :
    link[c] = "down" /\ <<c, "recv_done">> \in pending
      ~> c \notin opened \/ stops > 0
==============================================================================
