-------------------------- MODULE QuickServerProofs --------------------------
(***************************************************************************)
(* Proofs about QuickServer, for any number of workers, contexts and       *)
(* initial accepts, any capacity of the storage, any client that calls in  *)
(* turn, and any set of faults.                                            *)
(***************************************************************************)
EXTENDS QuickServer, FiniteSetTheorems, TLAPS

\* Where a worker works on the context of its packet.
Holding == {"associate", "add", "call", "on_disconnect", "delete", "free"}

\* A packet is a start or stop packet, which carries data, or stands for the
\* operation its context was last used for.
PacketOK(p) ==
  IF p.ctx = NoContext
    THEN p.kind \in {"start_server", "stop_server"} /\ ~ p.zero
    ELSE p.ctx \in allocated /\ op[p.ctx] = p.kind

QueueOK   == \A n \in DOMAIN queue : PacketOK(queue[n])
PendingOK == \A c \in Contexts, k \in IoKinds :
               <<c, k>> \in pending => c \in allocated /\ op[c] = k
ClientOK  == \A c \in Contexts : turn[c] # "none" => c \in allocated

WorkersOK ==
  \A w \in Workers :
    /\ cur[w].ctx # NoContext =>
         pc[w] \in Holding \cup {"dispatch"} /\ cur[w].ctx \in allocated
    /\ pc[w] \in Holding => cur[w].ctx # NoContext
    /\ pc[w] = "dispatch" => PacketOK(cur[w])

\* The storage and a walk over it never refer to a context that was freed, nor
\* to one about to be.
StoreOK ==
  /\ stored \subseteq allocated
  /\ todo \subseteq stored
  /\ traversing \/ todo = {}
  /\ \A w \in Workers : pc[w] = "free" => cur[w].ctx \notin stored

\* Outside the loops and the connect branch a worker has accepts =
\* max_accepts; without accepts no context is ever allocated.
AcceptsOK ==
  /\ allocated # {} => InitAccepts > 0
  /\ \A w \in Workers :
       /\ pc[w] \in {"wait", "dispatch", "on_disconnect", "delete", "free",
                     "in_callback", "exited"} => accepts[w] = InitAccepts
       /\ pc[w] = "accept" => accepts[w] < InitAccepts

\* The conjuncts of SoleHolder for one context.
HeldOnce(c) ==
  /\ \A m, n \in DOMAIN queue : queue[m].ctx = c /\ queue[n].ctx = c => m = n
  /\ \A j, k \in IoKinds : <<c, j>> \in pending /\ <<c, k>> \in pending => j = k
  /\ \A v, w \in Workers : cur[v].ctx = c /\ cur[w].ctx = c => v = w
  /\ InQueue(c) => ~ InSystem(c) /\ ~ AtWorker(c) /\ ~ AtClient(c)
  /\ InSystem(c) => ~ AtWorker(c) /\ ~ AtClient(c)
  /\ AtWorker(c) => ~ AtClient(c)

IInv ==
  /\ TypeOK
  /\ QueueOK
  /\ PendingOK
  /\ ClientOK
  /\ WorkersOK
  /\ SoleHolder
  /\ StoreOK
  /\ AcceptsOK

USE AcceptsAssumption, MaxAssumption, ContextAssumption, ClientAssumption,
    FaultAssumption

------------------------------------------------------------------------------
\* The port is a queue: what Append, Head and Tail do to its packets.
LEMMA AppendPacket ==
  ASSUME NEW q \in Seq(Packet), NEW p \in Packet
  PROVE  /\ Append(q, p) \in Seq(Packet)
         /\ DOMAIN Append(q, p) = DOMAIN q \cup {Len(q) + 1}
         /\ Len(q) + 1 \notin DOMAIN q
         /\ Append(q, p)[Len(q) + 1] = p
         /\ \A n \in DOMAIN q : Append(q, p)[n] = q[n]
OBVIOUS

LEMMA QueueKept ==
  ASSUME NEW q \in Seq(Packet), NEW p \in Packet, NEW r, r = q \/ r = Append(q, p)
  PROVE  /\ r \in Seq(Packet)
         /\ \A n \in DOMAIN q : n \in DOMAIN r /\ r[n] = q[n]
         /\ \A n \in DOMAIN r : n \in DOMAIN q \/ (n = Len(q) + 1 /\ r[n] = p)
<1>1. CASE r = q
  BY <1>1
<1>2. CASE r = Append(q, p)
  BY <1>2, AppendPacket
<1> QED
  BY <1>1, <1>2

LEMMA TailPackets ==
  ASSUME NEW q \in Seq(Packet), q # <<>>
  PROVE  /\ 1 \in DOMAIN q
         /\ Head(q) = q[1]
         /\ Head(q) \in Packet
         /\ Tail(q) \in Seq(Packet)
         /\ \A n \in DOMAIN Tail(q) :
              n + 1 \in DOMAIN q /\ n + 1 # 1 /\ Tail(q)[n] = q[n + 1]
         /\ DOMAIN Tail(q) \subseteq Nat
OBVIOUS

LEMMA PacketTypes ==
  /\ NoPacket \in Packet
  /\ NoPacket.ctx = NoContext
  /\ \A c \in Contexts \cup {NoContext}, k \in Kinds :
       Posted(c, k) \in Packet /\ Posted(c, k).ctx = c
BY DEF NoPacket, Packet, Posted, Kinds, IoKinds

LEMMA InitIInv == Init => IInv
<1> SUFFICES ASSUME Init PROVE IInv
  OBVIOUS
<1> USE PacketTypes DEF Init
<1>1. TypeOK
  <2>1. Posted(NoContext, "start_server") \in Packet
    BY DEF Kinds
  <2>2. queue \in Seq(Packet)
    BY <2>1
  <2>3. cur \in [Workers -> Packet] /\ pc \in [Workers -> Labels]
    BY DEF Labels
  <2>4. /\ op \in [Contexts -> IoKinds \cup {"user_message", "none"}]
        /\ link \in [Contexts -> {"none", "up", "fin", "shut", "down", "detached"}]
        /\ turn \in [Contexts -> Callbacks \cup {"failed", "none"}]
        /\ accepts \in [Workers -> 0 .. InitAccepts]
    OBVIOUS
  <2>5. /\ allocated \subseteq Contexts /\ opened \subseteq Contexts
        /\ sockets_count \in Int
        /\ pending \subseteq Contexts \X IoKinds
        /\ stored \subseteq Contexts /\ todo \subseteq Contexts
        /\ stops \in Nat
    OBVIOUS
  <2>6. traversing \in BOOLEAN
    OBVIOUS
  <2> HIDE DEF Init
  <2> QED
    BY <2>2, <2>3, <2>4, <2>5, <2>6 DEF TypeOK
<1>2. DOMAIN queue = {1} /\ queue[1] = Posted(NoContext, "start_server")
  OBVIOUS
<1>3. QueueOK /\ PendingOK /\ ClientOK /\ WorkersOK
  BY <1>2 DEF QueueOK, PendingOK, ClientOK, WorkersOK, PacketOK, Posted, Holding
<1>4. SoleHolder
  BY <1>2 DEF SoleHolder, InQueue, InSystem, AtWorker, AtClient
<1>5. StoreOK /\ AcceptsOK
  BY DEF StoreOK, AcceptsOK
<1> QED
  BY <1>1, <1>3, <1>4, <1>5 DEF IInv

------------------------------------------------------------------------------
\* Steps of a worker that leave its packet, and who holds what, as they were.
LEMMA HoldIInv ==
  ASSUME IInv, NEW w \in Workers,
         \/ DispatchDisconnect(w) \/ SocketClose(w) \/ StorageDelete(w)
         \/ DispatchConnect(w) \/ Associate(w) \/ StorageAdd(w)
  PROVE  IInv'
<1> USE DEF IInv, Goto
<1>1. /\ UNCHANGED <<ctxVars, pending, queue, walkVars, cur, userVars>>
      /\ pc' = [pc EXCEPT ![w] = pc'[w]]
      /\ pc[w] \in Holding \cup {"dispatch"}
      /\ pc'[w] \in Holding
  BY DEF TypeOK, DispatchDisconnect, SocketClose, StorageDelete, DispatchConnect,
         Associate, StorageAdd, serverVars, netVars, storeVars, Holding
<1>2. cur[w].ctx \in Contexts /\ cur[w].ctx \in allocated
  <2>1. cur[w] \in Packet
    BY DEF TypeOK
  <2>2. pc[w] = "dispatch" => cur[w].ctx # NoContext
    BY DEF WorkersOK, PacketOK, IsDisconnect, Tag, DispatchDisconnect, DispatchConnect,
           SocketClose, StorageDelete, Associate, StorageAdd
  <2>3. cur[w].ctx # NoContext
    BY <1>1, <2>2 DEF WorkersOK
  <2> QED
    BY <2>1, <2>3 DEF WorkersOK, Packet
<1>3. TypeOK'
  <2>1. pc' \in [Workers -> Labels]
    BY <1>1 DEF TypeOK, Labels, Holding
  <2>2. stored' \subseteq Contexts
    BY <1>2 DEF TypeOK, DispatchDisconnect, SocketClose, StorageDelete, DispatchConnect,
                Associate, StorageAdd, serverVars, storeVars, Storage!Added, Storage!Deleted
  <2>3. accepts' \in [Workers -> 0 .. InitAccepts]
    <3>1. CASE DispatchConnect(w)
      <4>1. accepts[w] = InitAccepts /\ InitAccepts > 0
        BY <1>2, <3>1 DEF AcceptsOK, DispatchConnect
      <4> QED
        BY <3>1, <4>1 DEF TypeOK, DispatchConnect
    <3>2. CASE ~ DispatchConnect(w)
      BY <3>2 DEF TypeOK, DispatchDisconnect, SocketClose, StorageDelete, Associate,
                  StorageAdd
    <3> QED
      BY <3>1, <3>2
  <2>4. /\ opened' \subseteq Contexts
        /\ sockets_count' \in Int
        /\ link' \in [Contexts -> {"none", "up", "fin", "shut", "down", "detached"}]
    BY DEF TypeOK, DispatchDisconnect, SocketClose, StorageDelete, DispatchConnect,
           Associate, StorageAdd, serverVars, sockVars, netVars
  <2> QED
    BY <1>1, <2>1, <2>2, <2>3, <2>4 DEF TypeOK, ctxVars, walkVars, userVars
<1>4. QueueOK' /\ PendingOK' /\ ClientOK'
  BY <1>1 DEF QueueOK, PendingOK, ClientOK, PacketOK, ctxVars, userVars
<1>5. WorkersOK'
  <2>1. cur[w].ctx # NoContext
    BY <1>2
  <2> QED
    BY <1>1, <2>1 DEF TypeOK, WorkersOK, PacketOK, Holding, ctxVars
<1>6. SoleHolder'
  BY <1>1 DEF SoleHolder, InQueue, InSystem, AtWorker, AtClient, userVars
<1>7. StoreOK'
  <2>1. \A v \in Workers : v # w => cur[v].ctx # cur[w].ctx
    BY <1>2 DEF SoleHolder
  <2>2. CASE StorageDelete(w)
    <3>1. todo = {} /\ stored' = stored \ {cur[w].ctx}
      BY <2>2 DEF StorageDelete, StoreOK, Storage!Deleted
    <3> QED
      BY <1>1, <3>1 DEF TypeOK, StoreOK, ctxVars, walkVars
  <2>3. CASE StorageAdd(w)
    <3>1. stored' \subseteq stored \cup {cur[w].ctx} /\ stored \subseteq stored'
      BY <2>3 DEF StorageAdd, Storage!Added
    <3>2. pc'[w] # "free"
      BY <2>3 DEF StorageAdd, TypeOK
    <3> QED
      BY <1>1, <1>2, <2>1, <3>1, <3>2 DEF TypeOK, StoreOK, ctxVars, walkVars
  <2>4. CASE ~ StorageDelete(w) /\ ~ StorageAdd(w)
    <3>1. stored' = stored /\ pc'[w] # "free"
      BY <2>4 DEF TypeOK, DispatchDisconnect, SocketClose, DispatchConnect, Associate,
                  serverVars, storeVars
    <3> QED
      BY <1>1, <3>1 DEF TypeOK, StoreOK, ctxVars, walkVars
  <2> QED
    BY <2>2, <2>3, <2>4
<1>8. AcceptsOK'
  <2>1. CASE DispatchDisconnect(w) \/ SocketClose(w) \/ StorageDelete(w)
    <3>1. accepts' = accepts /\ accepts[w] = InitAccepts
      BY <2>1 DEF AcceptsOK, DispatchDisconnect, SocketClose, StorageDelete
    <3> QED
      BY <1>1, <3>1 DEF TypeOK, AcceptsOK, Holding, ctxVars
  <2>2. CASE DispatchConnect(w) \/ Associate(w) \/ StorageAdd(w)
    <3>1. /\ pc'[w] \in {"associate", "add", "call"}
          /\ \A v \in Workers : v # w => accepts'[v] = accepts[v]
      BY <2>2 DEF TypeOK, DispatchConnect, Associate, StorageAdd
    <3> QED
      BY <1>1, <3>1 DEF TypeOK, AcceptsOK, ctxVars
  <2> QED
    BY <2>1, <2>2
<1> QED
  BY <1>3, <1>4, <1>5, <1>6, <1>7, <1>8

\* Steps of a worker that has no packet and touches nobody else's variables.
LEMMA LoopIInv ==
  ASSUME IInv, NEW w \in Workers,
         \/ RefillDone(w) \/ RefillFull(w) \/ RefillRoom(w)
         \/ CallbackReturns(w) \/ StartDone(w)
  PROVE  IInv'
<1> USE DEF IInv, Goto
<1>1. /\ UNCHANGED <<serverVars, cur, userVars>>
      /\ pc[w] \in {"refill", "in_on_connect", "in_callback", "start"}
      /\ pc' = [pc EXCEPT ![w] = pc'[w]]
      /\ pc'[w] \in {"wait", "refill", "accept"}
      /\ accepts' \in [Workers -> 0 .. InitAccepts]
      /\ pc'[w] = "wait" => accepts'[w] = InitAccepts
      /\ pc'[w] = "accept" => accepts'[w] < InitAccepts
      /\ \A v \in Workers : v # w => accepts'[v] = accepts[v]
  <2>1. CASE RefillDone(w) \/ StartDone(w)
    BY <2>1 DEF TypeOK, RefillDone, StartDone
  <2>2. CASE RefillFull(w)
    BY <2>2 DEF TypeOK, RefillFull
  <2>3. CASE RefillRoom(w)
    BY <2>3 DEF TypeOK, RefillRoom
  <2>4. CASE CallbackReturns(w)
    BY <2>4 DEF TypeOK, AcceptsOK, CallbackReturns
  <2> QED
    BY <2>1, <2>2, <2>3, <2>4
<1> USE DEF serverVars, ctxVars, sockVars, netVars, storeVars, walkVars, userVars
<1>2. TypeOK'
  BY <1>1 DEF TypeOK, Labels
<1>3. QueueOK' /\ PendingOK' /\ ClientOK'
  BY <1>1 DEF QueueOK, PendingOK, ClientOK, PacketOK
<1>4. WorkersOK'
  BY <1>1 DEF TypeOK, WorkersOK, PacketOK, Holding
<1>5. SoleHolder'
  BY <1>1 DEF SoleHolder, InQueue, InSystem, AtWorker, AtClient
<1>6. StoreOK' /\ AcceptsOK'
  BY <1>1 DEF TypeOK, StoreOK, AcceptsOK
<1> QED
  BY <1>2, <1>3, <1>4, <1>5, <1>6

\* GetQueuedCompletionStatus: the oldest packet leaves the port, for the worker
\* or for nowhere.
LEMMA DequeueIInv ==
  ASSUME IInv, NEW w \in Workers, Dequeue(w) \/ DequeueFailed(w)
  PROVE  IInv'
<1> USE DEF IInv, Goto, serverVars, ctxVars, sockVars, netVars, storeVars, walkVars,
            workVars, userVars
<1>1. /\ UNCHANGED <<ctxVars, sockVars, link, pending, storeVars, accepts, userVars>>
      /\ queue \in Seq(Packet) /\ queue # <<>>
      /\ queue' = Tail(queue)
      /\ pc[w] = "wait"
      /\ \/ pc' = [pc EXCEPT ![w] = "dispatch"] /\ cur' = [cur EXCEPT ![w] = queue[1]]
         \/ pc' = pc /\ cur' = cur
  BY TailPackets DEF TypeOK, Dequeue, DequeueFailed
<1>2. /\ 1 \in DOMAIN queue
      /\ queue[1] \in Packet
      /\ queue' \in Seq(Packet)
      /\ \A n \in DOMAIN queue' :
           n + 1 \in DOMAIN queue /\ n + 1 # 1 /\ queue'[n] = queue[n + 1]
      /\ DOMAIN queue' \subseteq Nat
  BY <1>1, TailPackets
<1>3. TypeOK'
  <2>1. pc' \in [Workers -> Labels] /\ cur' \in [Workers -> Packet]
    BY <1>1, <1>2 DEF TypeOK, Labels
  <2> QED
    BY <1>1, <1>2, <2>1 DEF TypeOK
<1>4. QueueOK' /\ PendingOK' /\ ClientOK'
  BY <1>1, <1>2 DEF QueueOK, PendingOK, ClientOK, PacketOK
<1>5. WorkersOK'
  <2>1. PacketOK(queue[1])
    BY <1>2 DEF QueueOK
  <2> QED
    BY <1>1, <2>1 DEF TypeOK, WorkersOK, PacketOK, Holding
<1>6. cur[w].ctx = NoContext
  BY <1>1 DEF WorkersOK, Holding
<1>7. SoleHolder'
  <2> SUFFICES ASSUME NEW c \in Contexts PROVE HeldOnce(c)'
    BY DEF SoleHolder, HeldOnce
  <2>1. /\ InSystem(c)' <=> InSystem(c)
        /\ AtClient(c)' <=> AtClient(c)
        /\ InQueue(c)' => InQueue(c)
    BY <1>1, <1>2 DEF InSystem, AtClient, InQueue
  <2>2. \A m, n \in DOMAIN queue' : queue'[m].ctx = c /\ queue'[n].ctx = c => m = n
    BY <1>2 DEF SoleHolder
  <2>3. CASE queue[1].ctx = c /\ cur' = [cur EXCEPT ![w] = queue[1]]
    <3>1. InQueue(c) /\ ~ InQueue(c)'
      BY <1>2, <2>3 DEF InQueue, SoleHolder
    <3>2. \A v \in Workers : cur'[v].ctx = c => v = w
      BY <2>3, <3>1 DEF TypeOK, SoleHolder, AtWorker
    <3> QED
      BY <1>1, <2>1, <2>2, <3>1, <3>2 DEF SoleHolder, HeldOnce
  <2>4. CASE ~ (queue[1].ctx = c /\ cur' = [cur EXCEPT ![w] = queue[1]])
    <3>1. \A v \in Workers : cur'[v].ctx = c => cur[v].ctx = c
      BY <1>1, <2>4 DEF TypeOK
    <3>2. AtWorker(c)' => AtWorker(c)
      BY <3>1 DEF AtWorker
    <3> QED
      BY <1>1, <2>1, <2>2, <3>1, <3>2 DEF SoleHolder, HeldOnce
  <2> QED
    BY <2>3, <2>4
<1>8. StoreOK' /\ AcceptsOK'
  BY <1>1 DEF TypeOK, StoreOK, AcceptsOK
<1> QED
  BY <1>3, <1>4, <1>5, <1>7, <1>8

\* socket_create and AcceptEx: a context nobody refers to is now held by the
\* system.
LEMMA AcceptIInv ==
  ASSUME IInv, NEW w \in Workers, RefillAccept(w) \/ StartAccept(w)
  PROVE  IInv'
<1> USE DEF IInv, Goto, serverVars, ctxVars, sockVars, netVars, storeVars, walkVars,
            workVars, userVars
<1>1. PICK c \in Contexts : InitAccept(c)
  BY DEF RefillAccept, StartAccept
<1>2. /\ c \notin allocated
      /\ allocated' = allocated \cup {c}
      /\ op' = [op EXCEPT ![c] = "on_connect"]
      /\ opened' = opened \cup {c}
      /\ sockets_count' = sockets_count + 1
      /\ pending' = pending \cup {<<c, "on_connect">>} \/ pending' = pending
  BY <1>1 DEF InitAccept
<1>3. /\ UNCHANGED <<link, queue, storeVars, cur, userVars>>
      /\ pc[w] \in {"accept", "start"}
      /\ accepts[w] \in 0 .. InitAccepts /\ accepts[w] < InitAccepts
      /\ accepts' = [accepts EXCEPT ![w] = accepts[w] + 1]
      /\ pc' = [pc EXCEPT ![w] = IF pc[w] = "accept" THEN "refill" ELSE "start"]
  <2>1. CASE RefillAccept(w)
    BY <2>1 DEF TypeOK, AcceptsOK, RefillAccept
  <2>2. CASE StartAccept(w)
    <3>1. pc' = [pc EXCEPT ![w] = "start"]
      BY <2>2 DEF TypeOK, StartAccept
    <3> QED
      BY <2>2, <3>1 DEF TypeOK, StartAccept
  <2> QED
    BY <2>1, <2>2
<1>4. ~ InQueue(c) /\ ~ InSystem(c) /\ ~ AtWorker(c) /\ ~ AtClient(c)
  <2>1. ~ InQueue(c)
    BY <1>2 DEF QueueOK, PacketOK, InQueue
  <2>2. ~ InSystem(c)
    BY <1>2 DEF PendingOK, InSystem
  <2>3. ~ AtWorker(c)
    BY <1>2 DEF WorkersOK, AtWorker
  <2>4. ~ AtClient(c)
    BY <1>2 DEF ClientOK, AtClient
  <2> QED
    BY <2>1, <2>2, <2>3, <2>4
<1>5. TypeOK'
  <2>1. accepts' \in [Workers -> 0 .. InitAccepts] /\ pc' \in [Workers -> Labels]
    BY <1>3 DEF TypeOK, Labels
  <2>2. /\ op' \in [Contexts -> IoKinds \cup {"user_message", "none"}]
        /\ pending' \subseteq Contexts \X IoKinds
    BY <1>2 DEF TypeOK, IoKinds
  <2>3. sockets_count' \in Int /\ allocated' \subseteq Contexts /\ opened' \subseteq Contexts
    BY <1>2 DEF TypeOK
  <2> QED
    BY <1>3, <2>1, <2>2, <2>3 DEF TypeOK
<1>6. QueueOK' /\ ClientOK'
  BY <1>2, <1>3, <1>4 DEF TypeOK, QueueOK, ClientOK, PacketOK, InQueue
<1>7. PendingOK'
  BY <1>2, <1>4 DEF TypeOK, PendingOK, InSystem
<1>8. WorkersOK'
  BY <1>2, <1>3, <1>4 DEF TypeOK, WorkersOK, PacketOK, Holding, AtWorker
<1>9. SoleHolder'
  <2> SUFFICES ASSUME NEW b \in Contexts PROVE HeldOnce(b)'
    BY DEF SoleHolder, HeldOnce
  <2>1. HeldOnce(b)
    BY DEF SoleHolder, HeldOnce
  <2>2. /\ InQueue(b)' <=> InQueue(b)
        /\ AtWorker(b)' <=> AtWorker(b)
        /\ AtClient(b)' <=> AtClient(b)
    BY <1>3 DEF InQueue, AtWorker, AtClient
  <2>3. CASE b = c
    BY <1>2, <1>3, <1>4, <2>1, <2>2, <2>3 DEF HeldOnce, InSystem
  <2>4. CASE b # c
    <3>1. \A k \in IoKinds : <<b, k>> \in pending' <=> <<b, k>> \in pending
      BY <1>2, <2>4
    <3>2. InSystem(b)' <=> InSystem(b)
      BY <3>1 DEF InSystem
    <3> QED
      BY <1>3, <2>1, <2>2, <3>1, <3>2 DEF HeldOnce
  <2> QED
    BY <2>3, <2>4
<1>10. StoreOK' /\ AcceptsOK'
  BY <1>2, <1>3 DEF TypeOK, StoreOK, AcceptsOK
<1> QED
  BY <1>5, <1>6, <1>7, <1>8, <1>9, <1>10

\* Steps in which a worker parts with its packet: it frees the context, hands
\* it to a callback, or was told to start or to stop.
LEMMA ReleaseIInv ==
  ASSUME IInv, NEW w \in Workers,
         \/ FreeContext(w) \/ DispatchIo(w) \/ OnConnect(w)
         \/ DispatchStart(w) \/ DispatchStop(w)
  PROVE  IInv'
<1> USE PacketTypes
        DEF IInv, Goto, serverVars, ctxVars, sockVars, netVars, storeVars, walkVars,
            workVars, userVars
<1> DEFINE c == cur[w].ctx
<1>1. /\ UNCHANGED <<sockVars, netVars, storeVars, stops>>
      /\ cur' = [cur EXCEPT ![w] = NoPacket]
      /\ pc[w] \in {"free", "call", "dispatch"}
      /\ pc' = [pc EXCEPT ![w] = pc'[w]]
      /\ pc'[w] \in {"refill", "in_callback", "in_on_connect", "start", "exited"}
  BY DEF TypeOK, FreeContext, DispatchIo, OnConnect, DispatchStart, DispatchStop,
         EnterCallback
<1>2. \/ /\ c \in Contexts
         /\ allocated' = allocated \ {c}
         /\ op' = [op EXCEPT ![c] = "none"]
         /\ turn' = turn
         /\ c \notin stored
      \/ /\ c \in Contexts
         /\ UNCHANGED ctxVars
         /\ \E b \in Callbacks : turn' = [turn EXCEPT ![c] = b]
      \/ UNCHANGED <<ctxVars, turn>>
  <2>1. cur[w] \in Packet
    BY DEF TypeOK
  <2>2. CASE FreeContext(w)
    <3>1. c # NoContext /\ c \notin stored
      BY <2>2 DEF FreeContext, WorkersOK, Holding, StoreOK
    <3> QED
      BY <2>1, <2>2, <3>1 DEF FreeContext, Packet
  <2>3. CASE DispatchIo(w)
    <3>1. c # NoContext
      BY <2>3 DEF DispatchIo, WorkersOK, PacketOK, Tag, Callbacks
    <3> QED
      BY <2>1, <2>3, <3>1 DEF DispatchIo, EnterCallback, Packet
  <2>4. CASE OnConnect(w)
    <3>1. c # NoContext
      BY <2>4 DEF OnConnect, WorkersOK, Holding
    <3> QED
      BY <2>1, <2>4, <3>1 DEF OnConnect, EnterCallback, Packet, Callbacks
  <2>5. CASE DispatchStart(w) \/ DispatchStop(w)
    BY <2>5 DEF DispatchStart, DispatchStop
  <2> QED
    BY <2>2, <2>3, <2>4, <2>5
<1>3. c \in Contexts => /\ c \in allocated
                        /\ ~ InQueue(c) /\ ~ InSystem(c) /\ ~ AtClient(c)
                        /\ \A v \in Workers : cur[v].ctx = c => v = w
  BY DEF WorkersOK, SoleHolder, AtWorker
<1>4. \/ DispatchStart(w) /\ accepts' = [accepts EXCEPT ![w] = 0]
      \/ ~ DispatchStart(w) /\ accepts' = accepts
  BY DEF FreeContext, DispatchIo, OnConnect, DispatchStart, DispatchStop, EnterCallback
<1>5. TypeOK'
  <2>1. pc' \in [Workers -> Labels]
    BY <1>1 DEF TypeOK, Labels
  <2>2. cur' \in [Workers -> Packet]
    BY <1>1 DEF TypeOK
  <2>3. allocated' \subseteq Contexts
    BY <1>2 DEF TypeOK
  <2>4. op' \in [Contexts -> IoKinds \cup {"user_message", "none"}]
    BY <1>2 DEF TypeOK
  <2>5. turn' \in [Contexts -> Callbacks \cup {"failed", "none"}]
    <3>1. turn \in [Contexts -> Callbacks \cup {"failed", "none"}]
      BY DEF TypeOK
    <3>2. CASE turn' = turn
      BY <3>1, <3>2
    <3>3. ASSUME NEW b \in Callbacks, turn' = [turn EXCEPT ![c] = b]
          PROVE  turn' \in [Contexts -> Callbacks \cup {"failed", "none"}]
      BY <3>1, <3>3
    <3> QED
      BY <1>2, <3>2, <3>3
  <2>6. accepts' \in [Workers -> 0 .. InitAccepts]
    BY <1>4 DEF TypeOK
  <2> QED
    BY <1>1, <2>1, <2>2, <2>3, <2>4, <2>5, <2>6 DEF TypeOK
<1>6. QueueOK'
  <2>1. \A n \in DOMAIN queue : c \in Contexts => queue[n].ctx # c
    BY <1>3 DEF InQueue
  <2> QED
    BY <1>1, <1>2, <2>1 DEF TypeOK, QueueOK, PacketOK
<1>7. PendingOK'
  <2>1. \A k \in IoKinds : c \in Contexts => <<c, k>> \notin pending
    BY <1>3 DEF InSystem
  <2> QED
    BY <1>1, <1>2, <2>1 DEF TypeOK, PendingOK
<1>8. ClientOK'
  BY <1>2, <1>3 DEF TypeOK, ClientOK, AtClient
<1>9. WorkersOK'
  BY <1>1, <1>2, <1>3 DEF TypeOK, WorkersOK, PacketOK, Holding
<1>10. SoleHolder'
  <2> SUFFICES ASSUME NEW b \in Contexts PROVE HeldOnce(b)'
    BY DEF SoleHolder, HeldOnce
  <2>1. HeldOnce(b)
    BY DEF SoleHolder, HeldOnce
  <2>2. (InQueue(b)' <=> InQueue(b)) /\ (InSystem(b)' <=> InSystem(b))
    BY <1>1 DEF InQueue, InSystem
  <2>3. \A v \in Workers : cur'[v].ctx = b => v # w /\ cur[v].ctx = b
    BY <1>1 DEF TypeOK
  <2>4. AtWorker(b)' => AtWorker(b) /\ b # c
    BY <1>3, <2>3 DEF AtWorker
  <2>5. AtClient(b)' => AtClient(b) \/ b = c
    BY <1>2 DEF TypeOK, AtClient
  <2> QED
    BY <1>1, <1>3, <2>1, <2>2, <2>3, <2>4, <2>5 DEF HeldOnce
<1>11. StoreOK'
  BY <1>1, <1>2, <1>3 DEF TypeOK, StoreOK
<1>12. AcceptsOK'
  <2>1. pc'[w] \in {"in_callback", "exited"} => accepts'[w] = InitAccepts
    <3>1. CASE DispatchIo(w) \/ DispatchStop(w)
      BY <3>1 DEF AcceptsOK, DispatchIo, DispatchStop, EnterCallback
    <3>2. CASE FreeContext(w) \/ OnConnect(w) \/ DispatchStart(w)
      BY <3>2 DEF TypeOK, FreeContext, OnConnect, DispatchStart, EnterCallback
    <3> QED
      BY <3>1, <3>2
  <2>2. \A v \in Workers : v # w => accepts'[v] = accepts[v]
    BY <1>4 DEF TypeOK
  <2>3. allocated' \subseteq allocated
    BY <1>2
  <2>4. \A v \in Workers : v # w => pc'[v] = pc[v]
    BY <1>1 DEF TypeOK
  <2> QED
    BY <1>1, <2>1, <2>2, <2>3, <2>4 DEF AcceptsOK
<1> QED
  BY <1>5, <1>6, <1>7, <1>8, <1>9, <1>10, <1>11, <1>12

\* A call of the client: it had the turn, so it held the context, and now the
\* system or the port holds it, or nobody does, or the client still does.
LEMMA ClientIInv ==
  ASSUME IInv, NEW c \in Contexts, Client(c)
  PROVE  IInv'
<1> USE PacketTypes
        DEF IInv, serverVars, ctxVars, sockVars, netVars, storeVars, walkVars, workVars,
            userVars
<1>1. PICK k \in Kinds :
        /\ turn[c] # "none"
        /\ op' = [op EXCEPT ![c] = k]
        /\ UNCHANGED <<allocated, sockVars, link, storeVars, workVars, stops>>
        /\ \/ /\ k \in IoKinds
              /\ pending' = pending \cup {<<c, k>>}
              /\ queue' = queue
              /\ turn' = [turn EXCEPT ![c] = "none"]
           \/ /\ k \in IoKinds
              /\ UNCHANGED <<pending, queue>>
              /\ \E b \in {"failed", "none"} : turn' = [turn EXCEPT ![c] = b]
           \/ /\ k = "user_message"
              /\ pending' = pending
              /\ queue' = Append(queue, Posted(c, k))
              /\ turn' = [turn EXCEPT ![c] = "none"]
  <2>1. CASE qs_send(c)
    BY <2>1 DEF qs_send, StartIo, MayCall, Kinds, IoKinds
  <2>2. CASE qs_recv(c)
    BY <2>2 DEF qs_recv, StartIo, MayCall, Kinds, IoKinds
  <2>3. CASE qs_send_file(c)
    BY <2>3 DEF qs_send_file, MayCall, Kinds, IoKinds
  <2>4. CASE qs_close_connection(c)
    BY <2>4 DEF qs_close_connection, MayCall, Kinds, IoKinds
  <2>5. CASE qs_post_message_to_pool(c)
    BY <2>5 DEF qs_post_message_to_pool, MayCall, Kinds, IoKinds
  <2> QED
    BY <2>1, <2>2, <2>3, <2>4, <2>5 DEF Client
<1>2. /\ c \in allocated /\ AtClient(c)
      /\ ~ InQueue(c) /\ ~ InSystem(c) /\ ~ AtWorker(c)
  BY <1>1 DEF ClientOK, SoleHolder, AtClient
<1>3. /\ queue \in Seq(Packet)
      /\ Posted(c, k) \in Packet /\ Posted(c, k).ctx = c /\ Posted(c, k).kind = k
  BY DEF TypeOK, Posted
<1>4. /\ queue' \in Seq(Packet)
      /\ \A n \in DOMAIN queue : n \in DOMAIN queue' /\ queue'[n] = queue[n]
      /\ \A n \in DOMAIN queue' :
           n \in DOMAIN queue \/ (n = Len(queue) + 1 /\ queue'[n] = Posted(c, k))
  <2>1. queue' = queue \/ queue' = Append(queue, Posted(c, k))
    BY <1>1
  <2> QED
    BY ONLY <1>3, <2>1, QueueKept
<1>5. TypeOK'
  <2>1. op' \in [Contexts -> IoKinds \cup {"user_message", "none"}]
    BY <1>1 DEF TypeOK
  <2>2. pending' \subseteq Contexts \X IoKinds
    BY <1>1 DEF TypeOK
  <2>3. turn' \in [Contexts -> Callbacks \cup {"failed", "none"}]
    <3>1. turn \in [Contexts -> Callbacks \cup {"failed", "none"}]
      BY DEF TypeOK
    <3>2. PICK b \in {"failed", "none"} : turn' = [turn EXCEPT ![c] = b]
      BY <1>1
    <3> QED
      BY <3>1, <3>2
  <2> QED
    BY <1>1, <1>4, <2>1, <2>2, <2>3 DEF TypeOK
<1>6. QueueOK'
  <2>1. op'[c] = k
    BY <1>1 DEF TypeOK
  <2>2. \A n \in DOMAIN queue : queue[n].ctx # c
    BY <1>2 DEF InQueue
  <2>3. \A n \in DOMAIN queue : PacketOK(queue[n])'
    <3> SUFFICES ASSUME NEW n \in DOMAIN queue PROVE PacketOK(queue[n])'
      OBVIOUS
    <3>1. queue'[n] = queue[n] /\ queue[n].ctx # c /\ queue[n] \in Packet
      BY <1>3, <1>4, <2>2
    <3>2. PacketOK(queue[n])
      BY DEF QueueOK
    <3>3. op'[queue[n].ctx] = op[queue[n].ctx]
      BY <1>1, <3>1 DEF TypeOK
    <3> QED
      BY <1>1, <3>1, <3>2, <3>3 DEF PacketOK
  <2>4. PacketOK(Posted(c, k))'
    BY <1>1, <1>2, <1>3, <2>1 DEF PacketOK
  <2> QED
    BY <1>4, <2>3, <2>4 DEF QueueOK, PacketOK
<1>7. PendingOK'
  <2>1. \A j \in IoKinds : <<c, j>> \notin pending
    BY <1>2 DEF InSystem
  <2> QED
    BY <1>1, <1>2, <2>1 DEF TypeOK, PendingOK
<1>8. ClientOK'
  BY <1>1, <1>2 DEF TypeOK, ClientOK
<1>9. WorkersOK'
  BY <1>1, <1>2 DEF TypeOK, WorkersOK, PacketOK, AtWorker
<1>10. SoleHolder'
  <2> SUFFICES ASSUME NEW b \in Contexts PROVE HeldOnce(b)'
    BY DEF SoleHolder, HeldOnce
  <2>1. HeldOnce(b)
    BY DEF SoleHolder, HeldOnce
  <2>2. AtWorker(b)' <=> AtWorker(b)
    BY <1>1 DEF AtWorker
  <2>3. CASE b # c
    <3>1. \A j \in IoKinds : <<b, j>> \in pending' <=> <<b, j>> \in pending
      BY <1>1, <2>3
    <3>2. InSystem(b)' <=> InSystem(b)
      BY <3>1 DEF InSystem
    <3>3. AtClient(b)' <=> AtClient(b)
      BY <1>1, <2>3 DEF TypeOK, AtClient
    <3>4. \A n \in DOMAIN queue' : queue'[n].ctx = b => n \in DOMAIN queue /\ queue[n].ctx = b
      BY <1>3, <1>4, <2>3
    <3>5. InQueue(b)' => InQueue(b)
      BY <3>4 DEF InQueue
    <3> QED
      BY <1>1, <2>1, <2>2, <3>1, <3>2, <3>3, <3>4, <3>5 DEF HeldOnce
  <2>4. CASE b = c
    <3>1. \A n \in DOMAIN queue : queue[n].ctx # c
      BY <1>2 DEF InQueue
    <3>2. \A j \in IoKinds : <<c, j>> \notin pending
      BY <1>2 DEF InSystem
    <3>3. \A m, n \in DOMAIN queue' : queue'[m].ctx = c /\ queue'[n].ctx = c => m = n
      BY <1>4, <3>1
    <3>4. \A i, j \in IoKinds : <<c, i>> \in pending' /\ <<c, j>> \in pending' => i = j
      BY <1>1, <3>2
    <3>5. /\ InQueue(c)' => ~ InSystem(c)' /\ ~ AtClient(c)'
          /\ InSystem(c)' => ~ AtClient(c)'
      <4>1. queue' # queue => pending' = pending /\ turn' = [turn EXCEPT ![c] = "none"]
        BY <1>1
      <4>2. pending' # pending => queue' = queue /\ turn' = [turn EXCEPT ![c] = "none"]
        BY <1>1
      <4>3. queue' = queue => ~ InQueue(c)'
        BY <3>1 DEF InQueue
      <4>4. pending' = pending => ~ InSystem(c)'
        BY <3>2 DEF InSystem
      <4>5. turn' = [turn EXCEPT ![c] = "none"] => ~ AtClient(c)'
        BY DEF TypeOK, AtClient
      <4> QED
        BY <4>1, <4>2, <4>3, <4>4, <4>5
    <3> QED
      BY <1>1, <1>2, <2>1, <2>2, <2>4, <3>3, <3>4, <3>5 DEF HeldOnce
  <2> QED
    BY <2>3, <2>4
<1>11. StoreOK' /\ AcceptsOK'
  BY <1>1 DEF StoreOK, AcceptsOK
<1> QED
  BY <1>5, <1>6, <1>7, <1>8, <1>9, <1>10, <1>11

\* Whatever the outcome, bytes were transferred or not, with success or not.
LEMMA OutcomeTypes ==
  ASSUME NEW c, NEW k, NEW o \in Outcomes(c, k)
  PROVE  o.zero \in BOOLEAN /\ o.ok \in BOOLEAN
<1>1. \/ o = [zero |-> FALSE, ok |-> TRUE]
      \/ o = [zero |-> TRUE, ok |-> TRUE]
      \/ o = [zero |-> TRUE, ok |-> FALSE]
  BY DEF Outcomes
<1>2. CASE o = [zero |-> FALSE, ok |-> TRUE]
  BY ONLY <1>2
<1>3. CASE o = [zero |-> TRUE, ok |-> TRUE]
  BY ONLY <1>3
<1>4. CASE o = [zero |-> TRUE, ok |-> FALSE]
  BY ONLY <1>4
<1> QED
  BY ONLY <1>1, <1>2, <1>3, <1>4

\* The system completes an operation: the context moves to the port.
LEMMA CompleteIInv ==
  ASSUME IInv, NEW c \in Contexts, NEW k \in IoKinds, Complete(c, k)
  PROVE  IInv'
<1> USE DEF IInv, serverVars, ctxVars, sockVars, netVars, storeVars, walkVars, workVars,
            userVars
<1>1. PICK o \in Outcomes(c, k) :
        /\ queue' = Append(queue, [ctx |-> c, kind |-> k, zero |-> o.zero, ok |-> o.ok])
        /\ link' = [link EXCEPT ![c] = LinkAfter(c, k, o.ok)]
  BY DEF Complete
<1> DEFINE p == [ctx |-> c, kind |-> k, zero |-> o.zero, ok |-> o.ok]
<1>2. /\ <<c, k>> \in pending
      /\ pending' = pending \ {<<c, k>>}
      /\ UNCHANGED <<ctxVars, sockVars, storeVars, workVars, userVars>>
  BY DEF Complete
<1>3. /\ c \in allocated /\ op[c] = k
      /\ InSystem(c) /\ ~ InQueue(c) /\ ~ AtWorker(c) /\ ~ AtClient(c)
  BY <1>2 DEF PendingOK, SoleHolder, InSystem
<1>4. p \in Packet /\ p.ctx = c /\ p.kind = k
  <2>2. o.zero \in BOOLEAN /\ o.ok \in BOOLEAN
    BY <1>1, OutcomeTypes
  <2>3. c \in Contexts \cup {NoContext} /\ k \in Kinds
    BY DEF Kinds
  <2> QED
    BY <2>2, <2>3 DEF Packet
<1>5. /\ queue' \in Seq(Packet)
      /\ \A n \in DOMAIN queue : n \in DOMAIN queue' /\ queue'[n] = queue[n]
      /\ \A n \in DOMAIN queue' :
           n \in DOMAIN queue \/ (n = Len(queue) + 1 /\ queue'[n] = p)
  <2>1. queue \in Seq(Packet) /\ queue' = Append(queue, p)
    BY <1>1 DEF TypeOK
  <2>2. p \in Packet
    BY <1>4
  <2> QED
    BY ONLY <2>1, <2>2, QueueKept
<1> HIDE DEF p
<1>6. TypeOK'
  <2>1. LinkAfter(c, k, o.ok) \in {"none", "up", "fin", "shut", "down", "detached"}
    BY DEF TypeOK, LinkAfter
  <2>2. link' \in [Contexts -> {"none", "up", "fin", "shut", "down", "detached"}]
    BY <1>1, <2>1 DEF TypeOK
  <2> QED
    BY <1>2, <1>5, <2>2 DEF TypeOK
<1>7. QueueOK'
  <2>1. \A n \in DOMAIN queue : PacketOK(queue[n])'
    BY <1>2, <1>5 DEF QueueOK, PacketOK
  <2>2. PacketOK(p)'
    BY <1>2, <1>3, <1>4 DEF PacketOK
  <2> QED
    BY <1>5, <2>1, <2>2 DEF QueueOK, PacketOK
<1>8. PendingOK' /\ ClientOK' /\ WorkersOK'
  BY <1>2 DEF PendingOK, ClientOK, WorkersOK, PacketOK
<1>9. SoleHolder'
  <2> SUFFICES ASSUME NEW b \in Contexts PROVE HeldOnce(b)'
    BY DEF SoleHolder, HeldOnce
  <2>1. HeldOnce(b)
    BY DEF SoleHolder, HeldOnce
  <2>2. (AtWorker(b)' <=> AtWorker(b)) /\ (AtClient(b)' <=> AtClient(b))
    BY <1>2 DEF AtWorker, AtClient
  <2>3. CASE b # c
    <3>1. \A j \in IoKinds : <<b, j>> \in pending' <=> <<b, j>> \in pending
      BY <1>2, <2>3
    <3>2. InSystem(b)' <=> InSystem(b)
      BY <3>1 DEF InSystem
    <3>3. \A n \in DOMAIN queue' : queue'[n].ctx = b => n \in DOMAIN queue /\ queue[n].ctx = b
      BY <1>4, <1>5, <2>3
    <3>4. InQueue(b)' => InQueue(b)
      BY <3>3 DEF InQueue
    <3> QED
      BY <1>2, <2>1, <2>2, <3>1, <3>2, <3>3, <3>4 DEF HeldOnce
  <2>4. CASE b = c
    <3>1. \A n \in DOMAIN queue : queue[n].ctx # c
      BY <1>3 DEF InQueue
    <3>2. \A m, n \in DOMAIN queue' : queue'[m].ctx = c /\ queue'[n].ctx = c => m = n
      BY <1>5, <3>1
    <3>3. \A j \in IoKinds : <<c, j>> \notin pending'
      BY <1>2, <2>1, <2>4 DEF HeldOnce
    <3>4. ~ InSystem(c)'
      BY <3>3 DEF InSystem
    <3> QED
      BY <1>2, <1>3, <2>1, <2>2, <2>4, <3>2, <3>3, <3>4 DEF HeldOnce
  <2> QED
    BY <2>3, <2>4
<1>10. StoreOK' /\ AcceptsOK'
  BY <1>2 DEF StoreOK, AcceptsOK
<1> QED
  BY <1>6, <1>7, <1>8, <1>9, <1>10

\* Walks, peers and qs_stop.
LEMMA EnvironmentIInv ==
  ASSUME IInv,
         \/ TraverseStart \/ TraverseEnd \/ \E c \in Contexts : TraverseVisit(c) \/ Peer(c)
  PROVE  IInv'
<1> USE DEF IInv, serverVars, ctxVars, sockVars, netVars, storeVars, walkVars, workVars,
            userVars
<1>1. /\ UNCHANGED <<ctxVars, sockVars, pending, queue, stored, workVars, userVars>>
      /\ traversing' \in BOOLEAN
      /\ todo' \subseteq stored
      /\ traversing' \/ todo' = {}
  <2>1. CASE TraverseStart
    BY <2>1 DEF TypeOK, TraverseStart
  <2>2. CASE TraverseEnd
    BY <2>2 DEF StoreOK, TraverseEnd
  <2>3. ASSUME NEW c \in Contexts, TraverseVisit(c)
        PROVE  <1>1
    BY <2>3 DEF TypeOK, StoreOK, TraverseVisit
  <2>4. ASSUME NEW c \in Contexts, Peer(c)
        PROVE  <1>1
    BY <2>4 DEF TypeOK, StoreOK, Peer, PeerCloses, LinkBreaks
  <2> QED
    BY <2>1, <2>2, <2>3, <2>4
<1>2. link' \in [Contexts -> {"none", "up", "fin", "shut", "down", "detached"}]
  BY DEF TypeOK, TraverseStart, TraverseEnd, TraverseVisit, Peer, PeerCloses, LinkBreaks
<1>3. TypeOK'
  BY <1>1, <1>2 DEF TypeOK
<1>4. QueueOK' /\ PendingOK' /\ ClientOK' /\ WorkersOK'
  BY <1>1 DEF QueueOK, PendingOK, ClientOK, WorkersOK, PacketOK
<1>5. SoleHolder'
  BY <1>1 DEF SoleHolder, InQueue, InSystem, AtWorker, AtClient
<1>6. StoreOK' /\ AcceptsOK'
  BY <1>1 DEF StoreOK, AcceptsOK
<1> QED
  BY <1>3, <1>4, <1>5, <1>6

\* A stop packet has a context nobody else can reach.
LEMMA StopIInv ==
  ASSUME IInv, PostStop
  PROVE  IInv'
<1> USE PacketTypes
        DEF IInv, PostStop, serverVars, ctxVars, sockVars, netVars, storeVars, walkVars,
            workVars, userVars
<1> DEFINE p == Posted(NoContext, "stop_server")
<1>1. /\ p \in Packet /\ p.ctx = NoContext /\ p.kind = "stop_server" /\ ~ p.zero
      /\ queue \in Seq(Packet)
      /\ queue' = Append(queue, p)
  BY DEF TypeOK, Posted, Kinds
<1> HIDE DEF p
<1>2. /\ queue' \in Seq(Packet)
      /\ \A n \in DOMAIN queue : n \in DOMAIN queue' /\ queue'[n] = queue[n]
      /\ \A n \in DOMAIN queue' :
           n \in DOMAIN queue \/ (n = Len(queue) + 1 /\ queue'[n] = p)
  BY ONLY <1>1, QueueKept
<1>3. TypeOK'
  BY <1>2 DEF TypeOK
<1>4. QueueOK'
  BY <1>1, <1>2 DEF QueueOK, PacketOK
<1>5. PendingOK' /\ ClientOK' /\ WorkersOK' /\ StoreOK' /\ AcceptsOK'
  BY DEF PendingOK, ClientOK, WorkersOK, PacketOK, StoreOK, AcceptsOK
<1>6. SoleHolder'
  <2> SUFFICES ASSUME NEW b \in Contexts PROVE HeldOnce(b)'
    BY DEF SoleHolder, HeldOnce
  <2>1. HeldOnce(b)
    BY DEF SoleHolder, HeldOnce
  <2>2. \A n \in DOMAIN queue' : queue'[n].ctx = b => n \in DOMAIN queue /\ queue[n].ctx = b
    BY <1>1, <1>2
  <2>3. InQueue(b)' => InQueue(b)
    BY <2>2 DEF InQueue
  <2>4. /\ InSystem(b)' <=> InSystem(b)
        /\ AtWorker(b)' <=> AtWorker(b)
        /\ AtClient(b)' <=> AtClient(b)
    BY DEF InSystem, AtWorker, AtClient
  <2> QED
    BY <2>1, <2>2, <2>3, <2>4 DEF HeldOnce
<1> QED
  BY <1>3, <1>4, <1>5, <1>6

LEMMA NextIInv == IInv /\ [Next]_vars => IInv'
<1> SUFFICES ASSUME IInv, [Next]_vars PROVE IInv'
  OBVIOUS
<1>1. ASSUME NEW w \in Workers, Worker(w) PROVE IInv'
  BY <1>1, HoldIInv, LoopIInv, DequeueIInv, AcceptIInv, ReleaseIInv DEF Worker
<1>2. ASSUME NEW c \in Contexts, Client(c) \/ Peer(c) PROVE IInv'
  BY <1>2, ClientIInv, EnvironmentIInv
<1>3. ASSUME NEW c \in Contexts, NEW k \in IoKinds, Complete(c, k) PROVE IInv'
  BY <1>3, CompleteIInv
<1>4. CASE Traverse
  BY <1>4, EnvironmentIInv DEF Traverse
<1>5. CASE PostStop
  BY <1>5, StopIInv
<1>6. CASE UNCHANGED vars
  <2> USE <1>6 DEF vars, serverVars, ctxVars, sockVars, netVars, storeVars, walkVars,
                   workVars, userVars, IInv
  <2>1. TypeOK' /\ StoreOK' /\ AcceptsOK'
    BY DEF TypeOK, StoreOK, AcceptsOK
  <2>2. QueueOK' /\ PendingOK' /\ ClientOK' /\ WorkersOK'
    BY DEF QueueOK, PendingOK, ClientOK, WorkersOK, PacketOK
  <2>3. SoleHolder'
    BY DEF SoleHolder, InQueue, InSystem, AtWorker, AtClient
  <2> QED
    BY <2>1, <2>2, <2>3
<1> QED
  BY <1>1, <1>2, <1>3, <1>4, <1>5, <1>6 DEF Next

\* Who holds a context, what its tag says, and where the workers' counters of
\* accepts stand, in every reachable state of working_thread (lines 700-803),
\* the client calls (555-624) and the walks over the storage (128-136).
THEOREM Invariance == Spec => []IInv
<1> QED
  BY InitIInv, NextIInv, PTL DEF Spec

\* Every variable keeps its type; in particular --accepts (line 742) never
\* takes the unsigned counter below zero.
THEOREM TypeCorrect == Spec => []TypeOK
<1>1. IInv => TypeOK
  BY DEF IInv
<1> QED
  BY <1>1, Invariance, PTL

\* Nothing that will be dereferenced points to a context that free_context
\* has released (line 732).
THEOREM MemorySafety == Spec => []NoUseAfterFree
<1>1. IInv => NoUseAfterFree
  <2> SUFFICES ASSUME IInv, NEW c \in Contexts
               PROVE  InQueue(c) \/ InSystem(c) \/ AtWorker(c) \/ AtClient(c)
                        \/ c \in stored \/ c \in todo => c \in allocated
    BY DEF NoUseAfterFree
  <2>1. InQueue(c) => c \in allocated
    BY DEF IInv, InQueue, QueueOK, PacketOK
  <2>2. InSystem(c) \/ AtClient(c) => c \in allocated
    BY DEF IInv, InSystem, PendingOK, AtClient, ClientOK
  <2>3. AtWorker(c) => c \in allocated
    BY DEF IInv, AtWorker, WorkersOK
  <2>4. c \in stored \/ c \in todo => c \in allocated
    BY DEF IInv, StoreOK
  <2> QED
    BY <2>1, <2>2, <2>3, <2>4
<1> QED
  BY <1>1, Invariance, PTL

\* The one OVERLAPPED of an io_context is never in use twice, provided that
\* the client calls only in turn.
THEOREM ExclusiveUse == Spec => []SoleHolder
<1>1. IInv => SoleHolder
  BY DEF IInv
<1> QED
  BY <1>1, Invariance, PTL

\* The switch on ended_operation (lines 727, 740 and 766) is on the operation
\* that has completed.
THEOREM DispatchesTruly == Spec => []TagTruthful
<1>1. IInv => TagTruthful
  BY DEF IInv, WorkersOK, PacketOK, TagTruthful, Tag
<1> QED
  BY <1>1, Invariance, PTL

\* The loop at lines 733-736 never posts an accept.
THEOREM RefillIsDead == Spec => []DisconnectNeverRefills
<1>1. IInv => DisconnectNeverRefills
  BY DEF IInv, AcceptsOK, DisconnectNeverRefills
<1> QED
  BY <1>1, Invariance, PTL

------------------------------------------------------------------------------
\* The count of sockets.  A context whose socket is closed and that is not freed
\* yet is at the worker that closed it.
Closing(c) == \E w \in Workers : pc[w] \in {"delete", "free"} /\ cur[w].ctx = c

SocketsOK ==
  /\ IsFiniteSet(opened)
  /\ sockets_count = Cardinality(opened)
  /\ opened = {c \in allocated : ~ Closing(c)}

LEMMA InitSocketsOK == Init => SocketsOK
BY FS_EmptySet DEF Init, SocketsOK

\* A step that neither opens nor closes a socket, and leaves the workers that
\* close one alone.
LEMMA SocketsKept ==
  ASSUME SocketsOK, UNCHANGED <<allocated, sockVars>>,
         \A v \in Workers :
           /\ pc'[v] \in {"delete", "free"} <=> pc[v] \in {"delete", "free"}
           /\ pc[v] \in {"delete", "free"} => cur'[v] = cur[v]
  PROVE  SocketsOK'
<1>1. \A c \in allocated : Closing(c)' <=> Closing(c)
  BY DEF Closing
<1> QED
  BY <1>1 DEF SocketsOK, sockVars

LEMMA AcceptSocketsOK ==
  ASSUME IInv, SocketsOK, NEW w \in Workers, StartAccept(w) \/ RefillAccept(w)
  PROVE  SocketsOK'
<1> USE DEF IInv, Goto
<1>1. PICK c \in Contexts : InitAccept(c)
  BY DEF StartAccept, RefillAccept
<1>2. c \notin allocated /\ c \notin opened
  BY <1>1 DEF InitAccept, SocketsOK
<1>3. opened' = opened \cup {c} /\ sockets_count' = sockets_count + 1
  BY <1>1 DEF InitAccept
<1>4. IsFiniteSet(opened') /\ sockets_count' = Cardinality(opened')
  BY <1>2, <1>3, FS_AddElement DEF SocketsOK
<1>5. \A v \in Workers :
        /\ cur'[v] = cur[v]
        /\ pc'[v] \in {"delete", "free"} <=> pc[v] \in {"delete", "free"}
  BY DEF TypeOK, StartAccept, RefillAccept
<1>6. \A b \in Contexts : Closing(b)' <=> Closing(b)
  BY <1>5 DEF Closing
<1>7. ~ Closing(c)
  BY <1>2, ContextAssumption DEF Closing, WorkersOK, Holding
<1>8. allocated' = allocated \cup {c}
  BY <1>1 DEF InitAccept
<1>9. allocated \subseteq Contexts
  BY DEF TypeOK
<1>10. opened' = {b \in allocated' : ~ Closing(b)'}
  BY <1>3, <1>6, <1>7, <1>8, <1>9 DEF SocketsOK
<1> QED
  BY <1>4, <1>10 DEF SocketsOK

LEMMA CloseSocketsOK ==
  ASSUME IInv, SocketsOK, NEW w \in Workers, SocketClose(w)
  PROVE  SocketsOK'
<1> USE DEF IInv, Goto
<1> DEFINE c == cur[w].ctx
<1>1. c \in allocated /\ pc[w] = "on_disconnect"
  BY DEF SocketClose, WorkersOK, Holding
<1>2. \A v \in Workers : cur[v].ctx = c => v = w
  BY <1>1 DEF SoleHolder, TypeOK
<1>3. c \in opened
  BY <1>1, <1>2 DEF SocketsOK, Closing
<1>4. /\ opened' = opened \ {c}
      /\ sockets_count' = sockets_count - 1
      /\ UNCHANGED <<allocated, cur>>
      /\ pc' = [pc EXCEPT ![w] = "delete"]
  BY DEF SocketClose, ctxVars
<1>5. IsFiniteSet(opened') /\ sockets_count' = Cardinality(opened')
  <2>1. IsFiniteSet(opened) /\ sockets_count = Cardinality(opened)
    BY DEF SocketsOK
  <2>2. IsFiniteSet(opened \ {c}) /\ Cardinality(opened \ {c}) = Cardinality(opened) - 1
    BY ONLY <1>3, <2>1, FS_RemoveElement
  <2> QED
    BY ONLY <1>4, <2>1, <2>2
<1>6. \A b \in allocated : Closing(b)' <=> Closing(b) \/ b = c
  BY <1>1, <1>4 DEF Closing, TypeOK
<1> QED
  BY <1>4, <1>5, <1>6 DEF SocketsOK

LEMMA FreeSocketsOK ==
  ASSUME IInv, SocketsOK, NEW w \in Workers, FreeContext(w)
  PROVE  SocketsOK'
<1> USE DEF IInv, Goto
<1> DEFINE c == cur[w].ctx
<1>1. pc[w] = "free" /\ c \in Contexts
  BY DEF FreeContext, WorkersOK, Holding, TypeOK
<1>2. /\ allocated' = allocated \ {c}
      /\ UNCHANGED sockVars
      /\ pc' = [pc EXCEPT ![w] = "refill"]
      /\ cur' = [cur EXCEPT ![w] = NoPacket]
  BY DEF FreeContext
<1>3. \A b \in allocated \ {c} : Closing(b)' <=> Closing(b)
  BY <1>1, <1>2 DEF Closing, TypeOK
<1>4. c \notin opened
  BY <1>1 DEF SocketsOK, Closing
<1> QED
  BY <1>2, <1>3, <1>4 DEF SocketsOK, sockVars

LEMMA NextSocketsOK ==
  ASSUME IInv, SocketsOK, [Next]_vars
  PROVE  SocketsOK'
<1> USE DEF IInv, Goto, serverVars, workVars, ctxVars
<1>1. ASSUME NEW w \in Workers, Worker(w) PROVE SocketsOK'
  <2>1. CASE StartAccept(w) \/ RefillAccept(w)
    BY <2>1, AcceptSocketsOK
  <2>2. CASE SocketClose(w)
    BY <2>2, CloseSocketsOK
  <2>3. CASE FreeContext(w)
    BY <2>3, FreeSocketsOK
  <2>4. CASE \/ DispatchDisconnect(w) \/ StorageDelete(w) \/ DispatchConnect(w)
             \/ Associate(w) \/ StorageAdd(w) \/ RefillDone(w) \/ RefillFull(w)
             \/ RefillRoom(w) \/ CallbackReturns(w) \/ StartDone(w)
    <3>1. UNCHANGED <<allocated, sockVars, cur>>
      BY <2>4 DEF DispatchDisconnect, StorageDelete, DispatchConnect, Associate,
                  StorageAdd, RefillDone, RefillFull, RefillRoom, CallbackReturns, StartDone
    <3>2. \A v \in Workers :
            pc'[v] \in {"delete", "free"} <=> pc[v] \in {"delete", "free"}
      BY <2>4 DEF TypeOK, DispatchDisconnect, StorageDelete, DispatchConnect, Associate,
                  StorageAdd, RefillDone, RefillFull, RefillRoom, CallbackReturns, StartDone
    <3> QED
      BY <3>1, <3>2, SocketsKept
  <2>5. CASE \/ Dequeue(w) \/ DequeueFailed(w) \/ DispatchIo(w) \/ OnConnect(w)
             \/ DispatchStart(w) \/ DispatchStop(w)
    <3>1. UNCHANGED <<allocated, sockVars>>
      BY <2>5 DEF Dequeue, DequeueFailed, DispatchIo, OnConnect, EnterCallback,
                  DispatchStart, DispatchStop
    <3>2. \A v \in Workers :
            /\ pc'[v] \in {"delete", "free"} <=> pc[v] \in {"delete", "free"}
            /\ pc[v] \in {"delete", "free"} => cur'[v] = cur[v]
      BY <2>5 DEF TypeOK, Dequeue, DequeueFailed, DispatchIo, OnConnect, EnterCallback,
                  DispatchStart, DispatchStop
    <3> QED
      BY <3>1, <3>2, SocketsKept
  <2> QED
    BY <1>1, <2>1, <2>2, <2>3, <2>4, <2>5 DEF Worker
<1>2. ASSUME \/ \E c \in Contexts : Client(c) \/ Peer(c)
             \/ \E c \in Contexts, k \in IoKinds : Complete(c, k)
             \/ Traverse \/ PostStop \/ UNCHANGED vars
      PROVE  SocketsOK'
  <2>1. UNCHANGED <<allocated, sockVars, pc, cur>>
    BY <1>2 DEF Client, qs_send, qs_recv, StartIo, qs_send_file, qs_close_connection,
                qs_post_message_to_pool, Peer, PeerCloses, LinkBreaks, Complete, Traverse,
                TraverseStart, TraverseVisit, TraverseEnd, PostStop, vars
  <2> QED
    BY <2>1, SocketsKept
<1> QED
  BY <1>1, <1>2 DEF Next

\* sockets_count, which every worker changes with interlocked operations, is the
\* number of open sockets, and a context is freed only after its socket was
\* closed (lines 729-732).
THEOREM SocketsCounted == Spec => []SocketsAccounted
<1>1. SocketsOK => SocketsAccounted
  BY DEF SocketsOK, SocketsAccounted, Closing
<1>2. IInv /\ SocketsOK /\ [Next]_vars => SocketsOK'
  BY NextSocketsOK
<1> QED
  BY InitSocketsOK, Invariance, <1>1, <1>2, PTL DEF Spec

------------------------------------------------------------------------------
\* The two contracts: that of the storage, and that of the client.  Both depend
\* on what the tag says of a context a worker has decided about.
Connecting == {"associate", "add", "call"}
Ending     == {"on_disconnect", "delete", "free"}

DecidedOK ==
  \A w \in Workers :
    /\ pc[w] \in Connecting => op[cur[w].ctx] = "on_connect"
    /\ pc[w] \in Ending => op[cur[w].ctx] # "on_connect"

AtCall(c) == \E w \in Workers : pc[w] = "call" /\ cur[w].ctx = c
AtFree(c) == \E w \in Workers : pc[w] = "free" /\ cur[w].ctx = c
AtEnd(c)  == \E w \in Workers : cur[w].ctx = c /\ pc[w] \in Ending

\* A step that decides nothing about a context.
LEMMA DecidedKept ==
  ASSUME DecidedOK,
         \A v \in Workers :
           /\ pc'[v] \in Connecting => pc[v] \in Connecting
           /\ pc'[v] \in Ending => pc[v] \in Ending
           /\ pc'[v] \in Connecting \cup Ending =>
                /\ cur'[v] = cur[v]
                /\ op'[cur[v].ctx] = op[cur[v].ctx]
  PROVE  DecidedOK'
BY DEF DecidedOK

LEMMA NextDecidedOK ==
  ASSUME IInv, DecidedOK, [Next]_vars
  PROVE  DecidedOK'
<1> USE DEF IInv, Goto, Connecting, Ending, serverVars, ctxVars, workVars
<1>1. ASSUME NEW w \in Workers, Worker(w) PROVE DecidedOK'
  <2>1. CASE DispatchDisconnect(w) \/ DispatchConnect(w)
    <3>1. cur[w].ctx # NoContext /\ UNCHANGED <<op, cur>>
      BY <2>1 DEF DispatchDisconnect, DispatchConnect, WorkersOK, PacketOK, IsDisconnect, Tag
    <3> QED
      BY <2>1, <3>1 DEF DispatchDisconnect, DispatchConnect, DecidedOK, TypeOK, IsDisconnect,
                        Tag
  <2>2. CASE \/ SocketClose(w) \/ StorageDelete(w) \/ Associate(w) \/ StorageAdd(w)
             \/ RefillDone(w) \/ RefillFull(w) \/ RefillRoom(w)
             \/ CallbackReturns(w) \/ StartDone(w)
    <3>1. UNCHANGED <<op, cur>>
      BY <2>2 DEF SocketClose, StorageDelete, Associate, StorageAdd, RefillDone, RefillFull,
                  RefillRoom, CallbackReturns, StartDone
    <3>2. \A v \in Workers :
           /\ pc'[v] \in Connecting => pc[v] \in Connecting
           /\ pc'[v] \in Ending => pc[v] \in Ending
      BY <2>2 DEF TypeOK, SocketClose, StorageDelete, Associate, StorageAdd, RefillDone,
                  RefillFull, RefillRoom, CallbackReturns, StartDone
    <3> QED
      BY <3>1, <3>2, DecidedKept
  <2>3. CASE \/ Dequeue(w) \/ DequeueFailed(w) \/ DispatchIo(w) \/ OnConnect(w)
             \/ DispatchStart(w) \/ DispatchStop(w)
    <3>1. UNCHANGED op
      BY <2>3 DEF Dequeue, DequeueFailed, DispatchIo, OnConnect, EnterCallback,
                  DispatchStart, DispatchStop
    <3>2. \A v \in Workers : pc'[v] \in Connecting \cup Ending =>
                               pc'[v] = pc[v] /\ cur'[v] = cur[v]
      BY <2>3 DEF TypeOK, Dequeue, DequeueFailed, DispatchIo, OnConnect, EnterCallback,
                  DispatchStart, DispatchStop
    <3> QED
      BY <3>1, <3>2, DecidedKept
  <2>4. CASE StartAccept(w) \/ RefillAccept(w)
    <3>1. PICK c \in Contexts : InitAccept(c)
      BY <2>4 DEF StartAccept, RefillAccept
    <3>2. c \notin allocated /\ op' = [op EXCEPT ![c] = "on_connect"]
      BY <3>1 DEF InitAccept
    <3>3. \A v \in Workers : pc'[v] \in Connecting \cup Ending =>
                               pc'[v] = pc[v] /\ cur'[v] = cur[v]
      BY <2>4 DEF TypeOK, StartAccept, RefillAccept
    <3>4. \A v \in Workers : pc[v] \in Connecting \cup Ending => cur[v].ctx \in allocated
      BY DEF WorkersOK, Holding
    <3> QED
      BY <3>2, <3>3, <3>4, DecidedKept DEF TypeOK
  <2>5. CASE FreeContext(w)
    <3>1. \A v \in Workers \ {w} : pc[v] \in Connecting \cup Ending =>
                                     cur[v].ctx # cur[w].ctx
      BY <2>5 DEF WorkersOK, Holding, SoleHolder, FreeContext, TypeOK
    <3>2. \A v \in Workers : pc'[v] \in Connecting \cup Ending =>
            v # w /\ pc'[v] = pc[v] /\ cur'[v] = cur[v]
      BY <2>5 DEF TypeOK, FreeContext
    <3>3. op' = [op EXCEPT ![cur[w].ctx] = "none"]
      BY <2>5 DEF FreeContext
    <3> QED
      BY <3>1, <3>2, <3>3, DecidedKept DEF TypeOK
  <2> QED
    BY <1>1, <2>1, <2>2, <2>3, <2>4, <2>5 DEF Worker
<1>2. ASSUME NEW c \in Contexts, Client(c) PROVE DecidedOK'
  <2>1. AtClient(c)
    BY <1>2 DEF Client, qs_send, qs_recv, qs_send_file, qs_close_connection,
                qs_post_message_to_pool, MayCall, AtClient
  <2>2. \A v \in Workers : cur[v].ctx # c
    BY <2>1 DEF SoleHolder, AtWorker
  <2>3. UNCHANGED <<pc, cur>> /\ \E k : op' = [op EXCEPT ![c] = k]
    BY <1>2 DEF Client, qs_send, qs_recv, StartIo, qs_send_file, qs_close_connection,
                qs_post_message_to_pool
  <2> QED
    BY <2>2, <2>3, DecidedKept DEF TypeOK
<1>3. ASSUME \/ \E c \in Contexts : Peer(c)
             \/ \E c \in Contexts, k \in IoKinds : Complete(c, k)
             \/ Traverse \/ PostStop \/ UNCHANGED vars
      PROVE  DecidedOK'
  <2>1. UNCHANGED <<op, pc, cur>>
    BY <1>3 DEF Peer, PeerCloses, LinkBreaks, Complete, Traverse, TraverseStart,
                TraverseVisit, TraverseEnd, PostStop, vars
  <2> QED
    BY <2>1, DecidedKept
<1> QED
  BY <1>1, <1>2, <1>3 DEF Next

THEOREM Decided == Spec => []DecidedOK
<1>1. Init => DecidedOK
  BY DEF Init, DecidedOK, Connecting, Ending
<1>2. IInv /\ DecidedOK /\ [Next]_vars => DecidedOK'
  BY NextDecidedOK
<1> QED
  BY Invariance, <1>1, <1>2, PTL DEF Spec

------------------------------------------------------------------------------
\* What the storage is told, and what the client sees, stays as it is.
LEMMA LiveKept ==
  ASSUME IInv, UNCHANGED stored,
         \A c \in Contexts : (c \in Live)' <=> c \in Live,
         allocated' \subseteq Contexts
  PROVE  UNCHANGED Storage!setVars
<1>1. Live \subseteq Contexts /\ Live' \subseteq Contexts
  BY DEF Live, IInv, TypeOK
<1> QED
  BY <1>1 DEF Storage!setVars

\* A step that moves no worker into or out of the places where a connection is
\* added, deleted or closed.
LEMMA ViewKept ==
  ASSUME IInv, UNCHANGED <<allocated, stored>>,
         \A c \in Contexts :
           /\ op'[c] = "on_connect" <=> op[c] = "on_connect"
           /\ turn'[c] = turn[c],
         \A v \in Workers :
           /\ pc'[v] = "call" <=> pc[v] = "call"
           /\ pc'[v] = "free" <=> pc[v] = "free"
           /\ pc'[v] \in Ending <=> pc[v] \in Ending
           /\ pc[v] \in Ending \cup {"call"} => cur'[v] = cur[v]
  PROVE  UNCHANGED Storage!setVars /\ UNCHANGED Lifecycle!lifeVars
<1>1. \A c \in Contexts : /\ AtCall(c)' <=> AtCall(c)
                          /\ AtFree(c)' <=> AtFree(c)
                          /\ AtEnd(c)' <=> AtEnd(c)
  BY DEF AtCall, AtFree, AtEnd, Ending
<1>2. \A c \in Contexts : (c \in Live)' <=> c \in Live
  BY <1>1 DEF Live, Accepting, AtCall, AtFree
<1>3. \A c \in Contexts : Phase(c)' = Phase(c) /\ AtClient(c)' = AtClient(c)
  BY <1>1 DEF Phase, AtClient, AtEnd, Ending
<1> QED
  BY <1>2, <1>3, LiveKept DEF Lifecycle!lifeVars, IInv, TypeOK

LEMMA ViewSteps ==
  ASSUME IInv, DecidedOK,
         \/ \E w \in Workers :
              \/ Dequeue(w) \/ DequeueFailed(w) \/ DispatchConnect(w) \/ Associate(w)
              \/ RefillDone(w) \/ RefillFull(w) \/ RefillRoom(w) \/ CallbackReturns(w)
              \/ DispatchStart(w) \/ StartDone(w) \/ DispatchStop(w) \/ SocketClose(w)
         \/ \E c \in Contexts : Peer(c)
         \/ \E c \in Contexts, k \in IoKinds : Complete(c, k)
         \/ Traverse \/ PostStop \/ UNCHANGED vars
  PROVE  UNCHANGED Storage!setVars /\ UNCHANGED Lifecycle!lifeVars
<1> USE DEF Goto, Ending, serverVars, ctxVars, storeVars, userVars, workVars
<1>1. ASSUME NEW w \in Workers,
              \/ Dequeue(w) \/ DequeueFailed(w) \/ DispatchConnect(w) \/ Associate(w)
              \/ RefillDone(w) \/ RefillFull(w) \/ RefillRoom(w) \/ CallbackReturns(w)
              \/ DispatchStart(w) \/ StartDone(w) \/ DispatchStop(w) \/ SocketClose(w)
      PROVE  UNCHANGED Storage!setVars /\ UNCHANGED Lifecycle!lifeVars
  <2>1. UNCHANGED <<allocated, op, stored, turn>>
    BY <1>1 DEF Dequeue, DequeueFailed, DispatchConnect, Associate, RefillDone, RefillFull,
                RefillRoom, CallbackReturns, DispatchStart, StartDone, DispatchStop,
                SocketClose
  <2>2. \A v \in Workers :
           /\ pc'[v] = "call" <=> pc[v] = "call"
           /\ pc'[v] = "free" <=> pc[v] = "free"
           /\ pc'[v] \in Ending <=> pc[v] \in Ending
           /\ pc[v] \in Ending \cup {"call"} => cur'[v] = cur[v]
    BY <1>1 DEF IInv, TypeOK, Dequeue, DequeueFailed, DispatchConnect, Associate, RefillDone,
                RefillFull, RefillRoom, CallbackReturns, DispatchStart, StartDone, DispatchStop,
                SocketClose
  <2> HIDE DEF Ending
  <2> QED
    BY <2>1, <2>2, ViewKept
<1>2. CASE \/ \E c \in Contexts : Peer(c)
           \/ \E c \in Contexts, k \in IoKinds : Complete(c, k)
           \/ Traverse \/ PostStop \/ UNCHANGED vars
  <2>1. UNCHANGED <<allocated, op, stored, turn, pc, cur>>
    BY <1>2 DEF Peer, PeerCloses, LinkBreaks, Complete, Traverse, TraverseStart,
                TraverseVisit, TraverseEnd, PostStop, vars
  <2> QED
    BY <2>1, ViewKept
<1> QED
  BY <1>1, <1>2

\* The context a worker holds, whose connection it is the only one to touch.
LEMMA HeldContext ==
  ASSUME IInv, NEW w \in Workers, cur[w].ctx # NoContext
  PROVE  /\ cur[w].ctx \in Contexts /\ cur[w].ctx \in allocated
         /\ turn[cur[w].ctx] = "none"
         /\ \A v \in Workers \ {w} : cur[v].ctx # cur[w].ctx
<1>1. cur[w].ctx \in Contexts /\ cur[w].ctx \in allocated
  BY DEF IInv, WorkersOK, TypeOK
<1> QED
  BY <1>1 DEF IInv, SoleHolder, AtWorker, AtClient

LEMMA HoldingContext ==
  ASSUME IInv, NEW w \in Workers, pc[w] \in Holding
  PROVE  cur[w].ctx # NoContext
BY DEF IInv, WorkersOK

\* Phase by the places of the workers, before and after a step.
LEMMA PhaseRead ==
  ASSUME NEW c \in Contexts
  PROVE  /\ Phase(c) = IF c \notin allocated THEN "free" ELSE IF AtEnd(c) THEN "closing"
                       ELSE IF op[c] = "on_connect" /\ turn[c] = "none" THEN "accepting"
                       ELSE "open"
         /\ Phase(c)' = IF c \notin allocated' THEN "free" ELSE IF AtEnd(c)' THEN "closing"
                        ELSE IF op'[c] = "on_connect" /\ turn'[c] = "none" THEN "accepting"
                        ELSE "open"
BY DEF Phase, AtEnd, Ending

\* A change of the phase or turn of one connection is a change of one value of
\* the functions that the contract is about.
LEMMA LifeMoves ==
  ASSUME NEW c \in Contexts,
         \A b \in Contexts \ {c} : Phase(b)' = Phase(b) /\ AtClient(b)' = AtClient(b)
  PROVE  /\ [b \in Contexts |-> Phase(b)]'
               = [[b \in Contexts |-> Phase(b)] EXCEPT ![c] = Phase(c)']
         /\ [b \in Contexts |-> AtClient(b)]'
               = [[b \in Contexts |-> AtClient(b)] EXCEPT ![c] = AtClient(c)']
<1> DEFINE P(b) == Phase(b)
           A(b) == AtClient(b)
<1> HIDE DEF P, A
<1>1. [b \in Contexts |-> P(b)]' = [[b \in Contexts |-> P(b)] EXCEPT ![c] = P(c)']
  BY DEF P
<1>2. [b \in Contexts |-> A(b)]' = [[b \in Contexts |-> A(b)] EXCEPT ![c] = A(c)']
  BY DEF A
<1> QED
  BY <1>1, <1>2 DEF P, A

------------------------------------------------------------------------------
\* The steps of a worker that holds a context, one by one.

LEMMA AddStep ==
  ASSUME IInv, DecidedOK, NEW w \in Workers, StorageAdd(w),
         NEW c \in Contexts, c = cur[w].ctx
  PROVE  Storage!Add(c) /\ UNCHANGED Lifecycle!lifeVars
<1> USE DEF Goto
<1>1. pc[w] = "add" /\ op[c] = "on_connect"
  BY DEF StorageAdd, DecidedOK, Connecting
<1>2. /\ c \in allocated /\ turn[c] = "none"
      /\ \A v \in Workers \ {w} : cur[v].ctx # c
  BY <1>1, HoldingContext, HeldContext DEF Holding
<1>3. /\ UNCHANGED <<allocated, op, turn, cur>>
      /\ pc' = [pc EXCEPT ![w] = "call"]
      /\ stored' = Storage!Added(c)
  BY DEF StorageAdd, ctxVars, userVars
<1>4. pc \in [Workers -> Labels] /\ allocated \subseteq Contexts
  BY DEF IInv, TypeOK
<1>5. \A b \in Contexts : /\ AtCall(b)' <=> AtCall(b) \/ b = c
                          /\ AtFree(b)' <=> AtFree(b)
                          /\ AtEnd(b)' <=> AtEnd(b)
  BY <1>1, <1>2, <1>3, <1>4 DEF AtCall, AtFree, AtEnd, Ending
<1>6. ~ AtCall(c) /\ ~ AtFree(c)
  BY <1>1, <1>2 DEF AtCall, AtFree
<1>7. c \notin Live
  BY <1>1, <1>2, <1>6 DEF Live, Accepting, AtCall, AtFree
<1>8. Live' = Live \cup {c}
  <2>1. \A b \in Contexts : Accepting(b)' <=> Accepting(b) /\ b # c
    BY <1>3, <1>5 DEF Accepting, AtCall
  <2>2. \A b \in Contexts : (b \in Live)' <=> b \in Live \/ b = c
    BY <1>2, <1>3, <1>5, <1>6, <2>1 DEF Live, AtFree
  <2>3. Live \subseteq Contexts /\ Live' \subseteq Contexts
    BY <1>3, <1>4 DEF Live
  <2> QED
    BY <2>2, <2>3
<1>9. \A b \in Contexts : Phase(b)' = Phase(b) /\ AtClient(b)' = AtClient(b)
  BY <1>3, <1>5, PhaseRead DEF AtClient
<1> QED
  BY <1>3, <1>7, <1>8, <1>9 DEF Storage!Add, Lifecycle!lifeVars

LEMMA DeleteStep ==
  ASSUME IInv, DecidedOK, NEW w \in Workers, StorageDelete(w),
         NEW c \in Contexts, c = cur[w].ctx
  PROVE  Storage!Delete(c) /\ UNCHANGED Lifecycle!lifeVars
<1> USE DEF Goto
<1>1. pc[w] = "delete" /\ op[c] # "on_connect"
  BY DEF StorageDelete, DecidedOK, Ending
<1>2. /\ c \in allocated
      /\ \A v \in Workers \ {w} : cur[v].ctx # c
  BY <1>1, HoldingContext, HeldContext DEF Holding
<1>3. /\ UNCHANGED <<allocated, op, turn, cur>>
      /\ pc' = [pc EXCEPT ![w] = "free"]
      /\ stored' = Storage!Deleted(c)
  BY DEF StorageDelete, ctxVars, userVars
<1>4. pc \in [Workers -> Labels] /\ allocated \subseteq Contexts
  BY DEF IInv, TypeOK
<1>5. \A b \in Contexts : /\ AtCall(b)' <=> AtCall(b)
                          /\ AtFree(b)' <=> AtFree(b) \/ b = c
                          /\ AtEnd(b)' <=> AtEnd(b)
  BY <1>1, <1>2, <1>3, <1>4 DEF AtCall, AtFree, AtEnd, Ending
<1>6. \A b \in Contexts : Accepting(b)' <=> Accepting(b)
  BY <1>3, <1>5 DEF Accepting, AtCall
<1>7. c \in Live
  BY <1>1, <1>2 DEF Live, Accepting
<1>8. Live' = Live \ {c}
  <2>1. \A b \in Contexts : (b \in Live)' <=> b \in Live /\ b # c
    BY <1>3, <1>5, <1>6 DEF Live, AtFree
  <2>2. Live \subseteq Contexts /\ Live' \subseteq Contexts
    BY <1>3, <1>4 DEF Live
  <2> QED
    BY <2>1, <2>2
<1>9. \A b \in Contexts : Phase(b)' = Phase(b) /\ AtClient(b)' = AtClient(b)
  BY <1>3, <1>5, PhaseRead DEF AtClient
<1> QED
  BY <1>3, <1>7, <1>8, <1>9 DEF Storage!Delete, Lifecycle!lifeVars

LEMMA DisconnectStep ==
  ASSUME IInv, DecidedOK, NEW w \in Workers, DispatchDisconnect(w),
         NEW c \in Contexts, c = cur[w].ctx
  PROVE  UNCHANGED Storage!setVars /\ Lifecycle!OnDisconnect(c)
<1> USE DEF Goto
<1>1. pc[w] = "dispatch" /\ IsDisconnect(cur[w]) /\ cur[w].ctx # NoContext
  BY DEF DispatchDisconnect
<1>2. /\ c \in allocated /\ turn[c] = "none"
      /\ \A v \in Workers \ {w} : cur[v].ctx # c
  BY <1>1, HeldContext
<1>3. /\ UNCHANGED <<allocated, op, turn, cur, stored>>
      /\ pc' = [pc EXCEPT ![w] = "on_disconnect"]
  BY DEF DispatchDisconnect, serverVars, ctxVars, storeVars, userVars
<1>4. pc \in [Workers -> Labels] /\ allocated \subseteq Contexts
  BY DEF IInv, TypeOK
<1>5. op[c] # "on_connect"
  BY <1>1 DEF IsDisconnect, Tag
<1>6. \A b \in Contexts : /\ AtCall(b)' <=> AtCall(b)
                          /\ AtFree(b)' <=> AtFree(b)
                          /\ AtEnd(b)' <=> AtEnd(b) \/ b = c
  BY <1>1, <1>2, <1>3, <1>4 DEF AtCall, AtFree, AtEnd, Ending
<1>7. UNCHANGED Storage!setVars
  <2>1. \A b \in Contexts : (b \in Live)' <=> b \in Live
    BY <1>3, <1>6 DEF Live, Accepting, AtCall, AtFree
  <2> QED
    BY <1>3, <1>4, <2>1, LiveKept
<1>8. ~ AtEnd(c)
  BY <1>1, <1>2 DEF AtEnd, Ending
<1>9. Phase(c) = "open" /\ Phase(c)' = "closing" /\ ~ AtClient(c)
  BY <1>2, <1>3, <1>5, <1>6, <1>8, PhaseRead DEF AtClient
<1>10. \A b \in Contexts \ {c} : Phase(b)' = Phase(b)
  BY <1>3, <1>6, PhaseRead
<1>11. \A b \in Contexts : AtClient(b)' = AtClient(b)
  BY <1>3 DEF AtClient
<1>12. Lifecycle!Move(c, "open", "closing")
  BY <1>9, <1>10, <1>11, LifeMoves DEF Lifecycle!Move
<1> QED
  BY <1>7, <1>9, <1>11, <1>12 DEF Lifecycle!OnDisconnect

LEMMA FreeStep ==
  ASSUME IInv, NEW w \in Workers, FreeContext(w),
         NEW c \in Contexts, c = cur[w].ctx
  PROVE  UNCHANGED Storage!setVars /\ Lifecycle!Release(c)
<1> USE DEF Goto
<1>1. pc[w] = "free"
  BY DEF FreeContext
<1>2. /\ c \in allocated
      /\ \A v \in Workers \ {w} : cur[v].ctx # c
  BY <1>1, HoldingContext, HeldContext DEF Holding
<1>3. /\ allocated' = allocated \ {c}
      /\ op' = [op EXCEPT ![c] = "none"]
      /\ UNCHANGED <<turn, stored>>
      /\ cur' = [cur EXCEPT ![w] = NoPacket]
      /\ pc' = [pc EXCEPT ![w] = "refill"]
  BY DEF FreeContext, storeVars, userVars
<1>4. /\ pc \in [Workers -> Labels] /\ cur \in [Workers -> Packet]
      /\ op \in [Contexts -> IoKinds \cup {"user_message", "none"}]
      /\ allocated \subseteq Contexts
  BY DEF IInv, TypeOK
<1>5. \A b \in Contexts : /\ AtCall(b)' <=> AtCall(b)
                          /\ AtFree(b)' <=> AtFree(b) /\ b # c
                          /\ AtEnd(b)' <=> AtEnd(b) /\ b # c
  BY <1>1, <1>2, <1>3, <1>4 DEF AtCall, AtFree, AtEnd, Ending
<1>6. AtFree(c) /\ AtEnd(c)
  BY <1>1 DEF AtFree, AtEnd, Ending
<1>7. UNCHANGED Storage!setVars
  <2>1. \A b \in Contexts \ {c} : op'[b] = op[b]
    BY <1>3, <1>4
  <2>2. \A b \in Contexts : (b \in Live)' <=> b \in Live
    BY <1>3, <1>5, <1>6, <2>1 DEF Live, Accepting, AtCall, AtFree
  <2> QED
    BY <1>3, <1>4, <2>2, LiveKept
<1>8. Phase(c) = "closing" /\ Phase(c)' = "free"
  BY <1>2, <1>3, <1>6, PhaseRead
<1>9. \A b \in Contexts \ {c} : Phase(b)' = Phase(b)
  <2>1. \A b \in Contexts \ {c} : op'[b] = op[b]
    BY <1>3, <1>4
  <2> QED
    BY <1>3, <1>5, <2>1, PhaseRead
<1>10. \A b \in Contexts : AtClient(b)' = AtClient(b)
  BY <1>3 DEF AtClient
<1>11. Lifecycle!Move(c, "closing", "free")
  BY <1>8, <1>9, <1>10, LifeMoves DEF Lifecycle!Move
<1> QED
  BY <1>7, <1>10, <1>11 DEF Lifecycle!Release

\* on_connect, and the other callbacks: the turn goes to the client.
LEMMA CallbackStep ==
  ASSUME IInv, DecidedOK, NEW w \in Workers, OnConnect(w) \/ DispatchIo(w),
         NEW c \in Contexts, c = cur[w].ctx
  PROVE  /\ UNCHANGED Storage!setVars
         /\ OnConnect(w) => Lifecycle!OnConnect(c)
         /\ DispatchIo(w) => Lifecycle!OnIo(c)
<1> USE DEF Goto
<1>1. PICK name \in Callbacks, label \in {"in_on_connect", "in_callback"} :
        EnterCallback(w, name, label)
  BY DEF OnConnect, DispatchIo, Callbacks
<1>2. pc[w] \in {"call", "dispatch"} /\ cur[w].ctx # NoContext
  BY DEF OnConnect, DispatchIo
<1>3. /\ c \in allocated /\ turn[c] = "none"
      /\ \A v \in Workers \ {w} : cur[v].ctx # c
  BY <1>2, HeldContext
<1>4. /\ turn' = [turn EXCEPT ![c] = name]
      /\ cur' = [cur EXCEPT ![w] = NoPacket]
      /\ pc' = [pc EXCEPT ![w] = label]
      /\ UNCHANGED <<allocated, op, stored>>
  BY <1>1 DEF EnterCallback, serverVars, ctxVars, storeVars
<1>5. /\ pc \in [Workers -> Labels] /\ cur \in [Workers -> Packet]
      /\ turn \in [Contexts -> Callbacks \cup {"failed", "none"}]
      /\ allocated \subseteq Contexts
      /\ NoPacket.ctx = NoContext
  BY PacketTypes DEF IInv, TypeOK
<1>6. name # "none"
  BY DEF Callbacks
<1>7. \A b \in Contexts : /\ AtCall(b)' <=> AtCall(b) /\ b # c
                          /\ AtFree(b)' <=> AtFree(b)
                          /\ AtEnd(b)' <=> AtEnd(b)
  BY <1>2, <1>3, <1>4, <1>5 DEF AtCall, AtFree, AtEnd, Ending
<1>8. ~ AtEnd(c) /\ turn'[c] # "none" /\ \A b \in Contexts \ {c} : turn'[b] = turn[b]
  BY <1>2, <1>3, <1>4, <1>5, <1>6 DEF AtEnd, Ending
<1>9. ~ Accepting(c) /\ ~ Accepting(c)'
  <2>1. CASE OnConnect(w)
    BY <2>1, <1>8 DEF Accepting, OnConnect
  <2>2. CASE DispatchIo(w)
    BY <2>2, <1>4, <1>8 DEF Accepting, DispatchIo, Tag
  <2> QED
    BY <2>1, <2>2
<1>10. UNCHANGED Storage!setVars
  <2>1. \A b \in Contexts : Accepting(b)' <=> Accepting(b)
    BY <1>4, <1>7, <1>8, <1>9 DEF Accepting, AtCall
  <2>2. \A b \in Contexts : (b \in Live)' <=> b \in Live
    BY <1>4, <1>7, <2>1 DEF Live, AtFree
  <2> QED
    BY <1>4, <1>5, <2>2, LiveKept
<1>11. ~ AtClient(c) /\ AtClient(c)' /\ Phase(c)' = "open"
  BY <1>3, <1>4, <1>7, <1>8, PhaseRead DEF AtClient
<1>12. \A b \in Contexts \ {c} : Phase(b)' = Phase(b) /\ AtClient(b)' = AtClient(b)
  BY <1>4, <1>7, <1>8, PhaseRead DEF AtClient
<1>13. [b \in Contexts |-> AtClient(b)]'
         = [[b \in Contexts |-> AtClient(b)] EXCEPT ![c] = TRUE]
  BY <1>11, <1>12, LifeMoves
<1>14. ASSUME OnConnect(w) PROVE Lifecycle!OnConnect(c)
  <2>1. op[c] = "on_connect"
    BY <1>14 DEF OnConnect, DecidedOK, Connecting
  <2>2. Phase(c) = "accepting"
    BY <1>3, <1>8, <2>1, PhaseRead
  <2>3. Lifecycle!Move(c, "accepting", "open")
    BY <1>11, <1>12, <2>2, LifeMoves DEF Lifecycle!Move
  <2> QED
    BY <1>13, <2>3 DEF Lifecycle!OnConnect
<1>15. ASSUME DispatchIo(w) PROVE Lifecycle!OnIo(c)
  <2>1. op[c] # "on_connect"
    BY <1>2, <1>15 DEF DispatchIo, Tag
  <2>2. Phase(c) = "open"
    BY <1>3, <1>8, <2>1, PhaseRead
  <2>3. \A b \in Contexts : Phase(b)' = Phase(b)
    BY <1>11, <1>12, <2>2
  <2>4. UNCHANGED [b \in Contexts |-> Phase(b)]
    BY <2>3
  <2> QED
    BY <1>11, <1>13, <2>2, <2>4 DEF Lifecycle!OnIo
<1> QED
  BY <1>10, <1>14, <1>15

\* init_accept: an address comes back into use.
LEMMA AcceptStep ==
  ASSUME IInv, NEW w \in Workers, StartAccept(w) \/ RefillAccept(w),
         NEW c \in Contexts, InitAccept(c)
  PROVE  UNCHANGED Storage!setVars /\ Lifecycle!PostAccept(c)
<1> USE DEF Goto
<1>1. /\ c \notin allocated
      /\ allocated' = allocated \cup {c}
      /\ op' = [op EXCEPT ![c] = "on_connect"]
  BY DEF InitAccept
<1>2. /\ UNCHANGED <<cur, turn, stored>>
      /\ \A v \in Workers : pc'[v] = pc[v] \/ (v = w /\ pc'[v] = "refill")
      /\ pc[w] \in {"start", "accept"}
  BY DEF StartAccept, RefillAccept, storeVars, userVars, IInv, TypeOK
<1>3. /\ op \in [Contexts -> IoKinds \cup {"user_message", "none"}]
      /\ allocated \subseteq Contexts
      /\ turn[c] = "none"
      /\ \A v \in Workers : cur[v].ctx # c
  BY <1>1 DEF IInv, TypeOK, ClientOK, WorkersOK
<1>4. \A b \in Contexts : /\ AtCall(b)' <=> AtCall(b)
                          /\ AtFree(b)' <=> AtFree(b)
                          /\ AtEnd(b)' <=> AtEnd(b)
  BY <1>2 DEF AtCall, AtFree, AtEnd, Ending
<1>5. ~ AtCall(c) /\ ~ AtEnd(c)
  BY <1>3 DEF AtCall, AtEnd
<1>6. op'[c] = "on_connect" /\ \A b \in Contexts \ {c} : op'[b] = op[b]
  BY <1>1, <1>3
<1>7. UNCHANGED Storage!setVars
  <2>1. Accepting(c)'
    BY <1>2, <1>3, <1>4, <1>5, <1>6 DEF Accepting, AtCall
  <2>2. \A b \in Contexts \ {c} : Accepting(b)' <=> Accepting(b)
    BY <1>2, <1>4, <1>6 DEF Accepting, AtCall
  <2>3. \A b \in Contexts : (b \in Live)' <=> b \in Live
    BY <1>1, <1>4, <2>1, <2>2 DEF Live, AtFree
  <2> QED
    BY <1>1, <1>2, <1>3, <2>3, LiveKept
<1>8. Phase(c) = "free" /\ Phase(c)' = "accepting"
  BY <1>1, <1>2, <1>3, <1>4, <1>5, <1>6, PhaseRead
<1>9. \A b \in Contexts \ {c} : Phase(b)' = Phase(b)
  BY <1>1, <1>2, <1>4, <1>6, PhaseRead
<1>10. \A b \in Contexts : AtClient(b)' = AtClient(b)
  BY <1>2 DEF AtClient
<1>11. Lifecycle!Move(c, "free", "accepting")
  BY <1>8, <1>9, <1>10, LifeMoves DEF Lifecycle!Move
<1> QED
  BY <1>7, <1>10, <1>11 DEF Lifecycle!PostAccept

\* A call of the client gives the turn up, unless it fails at once.
LEMMA ClientStep ==
  ASSUME IInv, NEW c \in Contexts, Client(c)
  PROVE  /\ UNCHANGED Storage!setVars
         /\ Lifecycle!Call(c) \/ UNCHANGED Lifecycle!lifeVars
<1>1. /\ turn[c] # "none"
      /\ UNCHANGED <<allocated, pc, cur, stored>>
      /\ \E k \in (IoKinds \cup {"user_message"}) \ {"on_connect"} :
           op' = [op EXCEPT ![c] = k]
      /\ \E k \in {"none", "failed"} : turn' = [turn EXCEPT ![c] = k]
  <2>1. CASE qs_send(c) \/ qs_recv(c)
    BY <2>1 DEF qs_send, qs_recv, StartIo, MayCall, storeVars, workVars, IoKinds
  <2>2. CASE qs_send_file(c)
    BY <2>2 DEF qs_send_file, MayCall, storeVars, workVars, IoKinds
  <2>3. CASE qs_close_connection(c)
    BY <2>3 DEF qs_close_connection, MayCall, storeVars, workVars, IoKinds
  <2>4. CASE qs_post_message_to_pool(c)
    BY <2>4 DEF qs_post_message_to_pool, MayCall, storeVars, workVars
  <2> QED
    BY <2>1, <2>2, <2>3, <2>4 DEF Client
<1>2. /\ op \in [Contexts -> IoKinds \cup {"user_message", "none"}]
      /\ turn \in [Contexts -> Callbacks \cup {"failed", "none"}]
      /\ c \in allocated /\ allocated \subseteq Contexts
      /\ \A v \in Workers : cur[v].ctx # c
  BY <1>1 DEF IInv, TypeOK, ClientOK, SoleHolder, AtWorker, AtClient
<1>3. /\ op'[c] # "on_connect" /\ turn'[c] \in {"none", "failed"}
      /\ \A b \in Contexts \ {c} : op'[b] = op[b] /\ turn'[b] = turn[b]
  BY <1>1, <1>2
<1>4. \A b \in Contexts : /\ AtCall(b)' <=> AtCall(b)
                          /\ AtFree(b)' <=> AtFree(b)
                          /\ AtEnd(b)' <=> AtEnd(b)
  BY <1>1 DEF AtCall, AtFree, AtEnd, Ending
<1>5. UNCHANGED Storage!setVars
  <2>1. \A b \in Contexts : Accepting(b)' <=> Accepting(b)
    BY <1>1, <1>3, <1>4 DEF Accepting, AtCall
  <2>2. \A b \in Contexts : (b \in Live)' <=> b \in Live
    BY <1>1, <1>4, <2>1 DEF Live, AtFree
  <2> QED
    BY <1>1, <1>2, <2>2, LiveKept
<1>6. Phase(c) = "open" /\ Phase(c)' = "open"
  <2>1. ~ AtEnd(c)
    BY <1>2 DEF AtEnd
  <2> QED
    BY <1>1, <1>2, <1>3, <1>4, <2>1, PhaseRead
<1>7. \A b \in Contexts : Phase(b)' = Phase(b)
  BY <1>1, <1>3, <1>4, <1>6, PhaseRead
<1>8. UNCHANGED [b \in Contexts |-> Phase(b)]
  BY <1>7
<1>9. AtClient(c) /\ \A b \in Contexts \ {c} : AtClient(b)' = AtClient(b)
  BY <1>1, <1>3 DEF AtClient
<1>10. CASE turn'[c] = "none"
  <2>1. AtClient(c)' = FALSE
    BY <1>10 DEF AtClient
  <2>2. [b \in Contexts |-> AtClient(b)]'
          = [[b \in Contexts |-> AtClient(b)] EXCEPT ![c] = FALSE]
    BY <1>7, <1>9, <2>1, LifeMoves
  <2>3. Lifecycle!Call(c)
    BY <1>6, <1>8, <1>9, <2>2 DEF Lifecycle!Call
  <2> QED
    BY <1>5, <2>3
<1>11. CASE turn'[c] = "failed"
  <2>1. \A b \in Contexts : AtClient(b)' = AtClient(b)
    BY <1>9, <1>11 DEF AtClient
  <2>2. UNCHANGED [b \in Contexts |-> AtClient(b)]
    BY <2>1
  <2> QED
    BY <1>5, <1>8, <2>2 DEF Lifecycle!lifeVars
<1> QED
  BY <1>3, <1>10, <1>11

------------------------------------------------------------------------------
\* Every worker that adds, deletes, closes or calls works on a context.
LEMMA StepContext ==
  ASSUME IInv, NEW w \in Workers,
         \/ DispatchDisconnect(w) \/ StorageAdd(w) \/ StorageDelete(w) \/ FreeContext(w)
         \/ OnConnect(w) \/ DispatchIo(w)
  PROVE  cur[w].ctx \in Contexts
<1>1. cur[w].ctx # NoContext
  <2>1. CASE DispatchDisconnect(w) \/ DispatchIo(w)
    BY <2>1 DEF DispatchDisconnect, DispatchIo, IInv, WorkersOK, PacketOK, IsDisconnect, Tag,
                Callbacks
  <2>2. CASE StorageAdd(w) \/ StorageDelete(w) \/ FreeContext(w) \/ OnConnect(w)
    BY <2>2, HoldingContext DEF StorageAdd, StorageDelete, FreeContext, OnConnect, Holding
  <2> QED
    BY <2>1, <2>2
<1> QED
  BY <1>1, HeldContext

\* Every step is a step of both contracts, or none.
LEMMA NextContracts ==
  ASSUME IInv, DecidedOK, [Next]_vars
  PROVE  /\ [Storage!Next]_Storage!setVars
         /\ [Lifecycle!Next]_Lifecycle!lifeVars
<1>1. ASSUME NEW w \in Workers, Worker(w)
      PROVE  /\ [Storage!Next]_Storage!setVars
             /\ [Lifecycle!Next]_Lifecycle!lifeVars
  <2>1. CASE StorageAdd(w)
    <3>1. PICK c \in Contexts : c = cur[w].ctx
      BY <2>1, StepContext
    <3> QED
      BY <2>1, <3>1, AddStep DEF Storage!Next
  <2>2. CASE StorageDelete(w)
    <3>1. PICK c \in Contexts : c = cur[w].ctx
      BY <2>2, StepContext
    <3> QED
      BY <2>2, <3>1, DeleteStep DEF Storage!Next
  <2>3. CASE DispatchDisconnect(w)
    <3>1. PICK c \in Contexts : c = cur[w].ctx
      BY <2>3, StepContext
    <3> QED
      BY <2>3, <3>1, DisconnectStep DEF Lifecycle!Next
  <2>4. CASE FreeContext(w)
    <3>1. PICK c \in Contexts : c = cur[w].ctx
      BY <2>4, StepContext
    <3> QED
      BY <2>4, <3>1, FreeStep DEF Lifecycle!Next
  <2>5. CASE OnConnect(w) \/ DispatchIo(w)
    <3>1. PICK c \in Contexts : c = cur[w].ctx
      BY <2>5, StepContext
    <3> QED
      BY <2>5, <3>1, CallbackStep DEF Lifecycle!Next
  <2>6. CASE StartAccept(w) \/ RefillAccept(w)
    <3>1. PICK c \in Contexts : InitAccept(c)
      BY <2>6 DEF StartAccept, RefillAccept
    <3> QED
      BY <2>6, <3>1, AcceptStep DEF Lifecycle!Next
  <2> QED
    BY <1>1, <2>1, <2>2, <2>3, <2>4, <2>5, <2>6, ViewSteps DEF Worker
<1>2. ASSUME NEW c \in Contexts, Client(c)
      PROVE  /\ [Storage!Next]_Storage!setVars
             /\ [Lifecycle!Next]_Lifecycle!lifeVars
  BY <1>2, ClientStep DEF Lifecycle!Next
<1> QED
  BY <1>1, <1>2, ViewSteps DEF Next

\* The workers keep the contract of the storage (lines 78-126): a connection is
\* added once and deleted once, in that order, by whatever packets drive them.
THEOREM StorageUse == Spec => UsesStorageProperly
<1>1. Init => Storage!Init
  BY DEF Init, Storage!Init, Live
<1>2. IInv /\ DecidedOK /\ [Next]_vars => [Storage!Next]_Storage!setVars
  BY NextContracts
<1> QED
  BY <1>1, <1>2, Invariance, Decided, PTL DEF Spec, UsesStorageProperly, Storage!Spec

\* What the client sees of a connection (lines 727-791, 555-624): on_connect
\* first, one callback or call at a time, on_disconnect once and last, and only
\* then is the address used again.
THEOREM ClientView == Spec => FollowsLifecycle
<1>1. Init => Lifecycle!Init
  <2> SUFFICES ASSUME Init PROVE Lifecycle!Init
    OBVIOUS
  <2>1. \A c \in Contexts : Phase(c) = "free" /\ AtClient(c) = FALSE
    BY DEF Init, Phase, AtClient
  <2> QED
    BY <2>1 DEF Lifecycle!Init
<1>2. IInv /\ DecidedOK /\ [Next]_vars => [Lifecycle!Next]_Lifecycle!lifeVars
  BY NextContracts
<1> QED
  BY <1>1, <1>2, Invariance, Decided, PTL DEF Spec, FollowsLifecycle, Lifecycle!Spec

------------------------------------------------------------------------------
\* The accepts that are outstanding, and the workers that owe one.
InPool(c) ==
  \/ <<c, "on_connect">> \in pending
  \/ \E n \in DOMAIN queue : queue[n].ctx = c /\ queue[n].kind = "on_connect"
  \/ \E w \in Workers : /\ pc[w] = "dispatch"
                        /\ cur[w].ctx = c
                        /\ cur[w].kind = "on_connect"
PoolContexts == {c \in Contexts : InPool(c)}
Owing        == {w \in Workers : accepts[w] < InitAccepts}

\* A worker never owes more than one, so an accept that it posts pays for what
\* it owes.
PoolOK ==
  /\ IsFiniteSet(allocated)
  /\ IsFiniteSet(Owing)
  /\ \A w \in Workers : pc[w] # "start" => accepts[w] >= InitAccepts - 1

\* Two finite sets whose sizes add up to no more than before: neither has
\* grown, or an element was exchanged for one of the other set.
LEMMA PoolSizes ==
  ASSUME NEW A, NEW B, NEW A2, NEW B2, IsFiniteSet(A), IsFiniteSet(B),
         \/ A2 \subseteq A /\ B2 \subseteq B
         \/ \E c \in A : \E w : A2 \subseteq A \ {c} /\ B2 \subseteq B \cup {w}
         \/ \E w \in B : \E c : A2 \subseteq A \cup {c} /\ B2 \subseteq B \ {w}
  PROVE  Cardinality(A2) + Cardinality(B2) <= Cardinality(A) + Cardinality(B)
<1>1. Cardinality(A) \in Nat /\ Cardinality(B) \in Nat
  BY FS_CardinalityType
<1>2. CASE A2 \subseteq A /\ B2 \subseteq B
  <2>1. Cardinality(A2) \in Nat /\ Cardinality(A2) <= Cardinality(A)
    BY <1>2, FS_Subset, FS_CardinalityType
  <2>2. Cardinality(B2) \in Nat /\ Cardinality(B2) <= Cardinality(B)
    BY <1>2, FS_Subset, FS_CardinalityType
  <2> QED
    BY <1>1, <2>1, <2>2
<1>3. ASSUME NEW X, NEW Y, NEW X2, NEW Y2, IsFiniteSet(X), IsFiniteSet(Y),
             NEW x \in X, NEW y, X2 \subseteq X \ {x}, Y2 \subseteq Y \cup {y}
      PROVE  Cardinality(X2) + Cardinality(Y2) <= Cardinality(X) + Cardinality(Y)
  <2>1. /\ IsFiniteSet(X \ {x})
        /\ Cardinality(X \ {x}) = Cardinality(X) - 1
    BY <1>3, FS_RemoveElement
  <2>2. /\ IsFiniteSet(Y \cup {y})
        /\ Cardinality(Y \cup {y}) <= Cardinality(Y) + 1
    <3>1. IsFiniteSet(Y \cup {y}) /\ Cardinality(Y) \in Nat
      BY <1>3, FS_AddElement, FS_CardinalityType
    <3>2. Cardinality(Y \cup {y}) = IF y \in Y THEN Cardinality(Y) ELSE Cardinality(Y) + 1
      BY <1>3, FS_AddElement
    <3> QED
      BY <3>1, <3>2
  <2>3. /\ Cardinality(X2) \in Nat /\ Cardinality(X2) <= Cardinality(X \ {x})
        /\ Cardinality(Y2) \in Nat /\ Cardinality(Y2) <= Cardinality(Y \cup {y})
    BY <1>3, <2>1, <2>2, FS_Subset, FS_CardinalityType
  <2>4. /\ Cardinality(X) \in Nat /\ Cardinality(Y) \in Nat
        /\ Cardinality(Y \cup {y}) \in Nat
    BY <1>3, <2>2, FS_CardinalityType
  <2> QED
    BY <2>1, <2>2, <2>3, <2>4
<1>4. CASE \E c \in A : \E w : A2 \subseteq A \ {c} /\ B2 \subseteq B \cup {w}
  BY <1>3, <1>4
<1>5. CASE \E w \in B : \E c : A2 \subseteq A \cup {c} /\ B2 \subseteq B \ {w}
  <2>1. Cardinality(B2) + Cardinality(A2) <= Cardinality(B) + Cardinality(A)
    BY <1>3, <1>5
  <2>2. Cardinality(A2) \in Nat /\ Cardinality(B2) \in Nat
    <3>1. PICK c : A2 \subseteq A \cup {c}
      BY <1>5
    <3>2. IsFiniteSet(A2) /\ IsFiniteSet(B2)
      BY <1>5, <3>1, FS_AddElement, FS_Subset
    <3> QED
      BY <3>2, FS_CardinalityType
  <2> QED
    BY <1>1, <2>1, <2>2
<1> QED
  BY <1>2, <1>4, <1>5

LEMMA PoolIsFinite ==
  ASSUME IInv, PoolOK
  PROVE  PoolContexts \subseteq allocated /\ IsFiniteSet(PoolContexts)
<1>1. \A c \in Contexts : InPool(c) => c \in allocated
  BY DEF IInv, InPool, PendingOK, QueueOK, PacketOK, WorkersOK, IoKinds
<1>2. PoolContexts \subseteq allocated
  BY <1>1 DEF PoolContexts
<1> QED
  BY <1>2, FS_Subset DEF PoolOK

\* What a worker counts, by the steps that change it.
LEMMA AcceptsRead ==
  ASSUME IInv, PoolOK, NEW w \in Workers, Worker(w)
  PROVE  /\ \A v \in Workers \ {w} : accepts'[v] = accepts[v] /\ pc'[v] = pc[v]
         /\ pc'[w] # "start" => accepts'[w] >= InitAccepts - 1
         /\ \/ accepts'[w] >= accepts[w]
            \/ DispatchConnect(w) \/ DispatchStart(w)
<1> USE DEF IInv, TypeOK, Goto, PoolOK, AcceptsOK, serverVars, workVars
<1>1. CASE \/ Dequeue(w) \/ DequeueFailed(w) \/ DispatchDisconnect(w) \/ SocketClose(w)
           \/ StorageDelete(w) \/ FreeContext(w) \/ Associate(w) \/ StorageAdd(w)
           \/ RefillDone(w) \/ RefillRoom(w) \/ DispatchIo(w) \/ OnConnect(w)
           \/ CallbackReturns(w) \/ DispatchStop(w) \/ StartDone(w)
  <2>1. UNCHANGED accepts
    BY <1>1 DEF Dequeue, DequeueFailed, DispatchDisconnect, SocketClose, StorageDelete,
                FreeContext, Associate, StorageAdd, RefillDone, RefillRoom, DispatchIo,
                OnConnect, EnterCallback, CallbackReturns, DispatchStop, StartDone
  <2>2. /\ \A v \in Workers \ {w} : pc'[v] = pc[v]
        /\ pc'[w] # "start"
        /\ pc[w] = "start" => accepts[w] >= InitAccepts
    BY <1>1 DEF Dequeue, DequeueFailed, DispatchDisconnect, SocketClose, StorageDelete,
                FreeContext, Associate, StorageAdd, RefillDone, RefillRoom, DispatchIo,
                OnConnect, EnterCallback, CallbackReturns, DispatchStop, StartDone
  <2> QED
    BY <2>1, <2>2
<1>2. CASE DispatchConnect(w)
  BY <1>2 DEF DispatchConnect
<1>3. CASE DispatchStart(w)
  BY <1>3 DEF DispatchStart
<1>4. CASE RefillFull(w) \/ RefillAccept(w) \/ StartAccept(w)
  <2>1. /\ accepts' = [accepts EXCEPT ![w] = accepts[w] + 1]
        /\ \A v \in Workers \ {w} : pc'[v] = pc[v]
        /\ pc'[w] # "start" => pc[w] # "start"
    BY <1>4 DEF RefillFull, RefillAccept, StartAccept
  <2>2. accepts[w] \in Nat /\ accepts \in [Workers -> 0 .. InitAccepts]
    OBVIOUS
  <2>3. /\ accepts'[w] = accepts[w] + 1
        /\ \A v \in Workers \ {w} : accepts'[v] = accepts[v]
    BY ONLY <2>1, <2>2
  <2>4. pc[w] # "start" => accepts[w] >= InitAccepts - 1
    OBVIOUS
  <2> QED
    BY ONLY <2>1, <2>2, <2>3, <2>4, AcceptsAssumption
<1> QED
  BY <1>1, <1>2, <1>3, <1>4 DEF Worker

LEMMA NextPoolOK ==
  ASSUME IInv, PoolOK, [Next]_vars
  PROVE  PoolOK'
<1>1. ASSUME NEW w \in Workers, Worker(w) PROVE PoolOK'
  <2>1. allocated' \subseteq allocated \/ \E c : allocated' = allocated \cup {c}
    <3>1. CASE StartAccept(w) \/ RefillAccept(w)
      BY <3>1 DEF StartAccept, RefillAccept, InitAccept
    <3>2. CASE ~ (StartAccept(w) \/ RefillAccept(w))
      BY <1>1, <3>2 DEF Worker, Dequeue, DequeueFailed, DispatchDisconnect, SocketClose,
            StorageDelete, FreeContext, Associate, StorageAdd, RefillDone, RefillRoom,
            DispatchIo, OnConnect, EnterCallback, CallbackReturns, DispatchStop, StartDone,
            DispatchConnect, DispatchStart, RefillFull, serverVars, ctxVars
    <3> QED
      BY <3>1, <3>2
  <2>2. IsFiniteSet(allocated')
    BY <2>1, FS_Subset, FS_AddElement DEF PoolOK
  <2>3. Owing' \subseteq Owing \cup {w}
    BY <1>1, AcceptsRead DEF Owing
  <2>4. IsFiniteSet(Owing')
    BY <2>3, FS_Subset, FS_AddElement DEF PoolOK
  <2> QED
    BY <1>1, <2>2, <2>4, AcceptsRead DEF PoolOK
<1>2. CASE UNCHANGED <<allocated, accepts, pc>>
  BY <1>2 DEF PoolOK, Owing
<1>3. ASSUME \/ \E c \in Contexts : Client(c) \/ Peer(c)
             \/ \E c \in Contexts, k \in IoKinds : Complete(c, k)
             \/ Traverse \/ PostStop \/ UNCHANGED vars
      PROVE  UNCHANGED <<allocated, accepts, pc>>
  BY <1>3 DEF Client, qs_send, qs_recv, StartIo, qs_send_file, qs_close_connection,
              qs_post_message_to_pool, Peer, PeerCloses, LinkBreaks, Complete, Traverse,
              TraverseStart, TraverseVisit, TraverseEnd, PostStop, vars, serverVars,
              ctxVars, workVars
<1> QED
  BY <1>1, <1>2, <1>3 DEF Next

\* Steps that neither post an accept nor change what the workers owe: nothing
\* is outstanding afterwards that was not before.
LEMMA PoolKept ==
  ASSUME \A c \in Contexts : InPool(c)' => InPool(c),
         Owing' \subseteq Owing, IInv, PoolOK
  PROVE  AcceptPool' <= AcceptPool
<1>1. PoolContexts' \subseteq PoolContexts
  BY DEF PoolContexts
<1>2. IsFiniteSet(PoolContexts) /\ IsFiniteSet(Owing)
  BY PoolIsFinite DEF PoolOK
<1>3. Cardinality(PoolContexts') + Cardinality(Owing')
        <= Cardinality(PoolContexts) + Cardinality(Owing)
  BY <1>1, <1>2, PoolSizes
<1> QED
  BY <1>3 DEF AcceptPool, PoolContexts, InPool, Owing

\* Who posts an accept owed one, and owes none afterwards.
LEMMA PoolPaid ==
  ASSUME IInv, PoolOK, NEW w \in Workers, RefillAccept(w)
  PROVE  AcceptPool' <= AcceptPool
<1>1. PICK c \in Contexts : InitAccept(c)
  BY DEF RefillAccept
<1>2. accepts[w] = InitAccepts - 1 /\ pc[w] = "accept"
  <2>1. pc[w] = "accept"
    BY DEF RefillAccept
  <2>2. accepts[w] \in Nat /\ accepts[w] < InitAccepts /\ accepts[w] >= InitAccepts - 1
    BY <2>1 DEF IInv, TypeOK, AcceptsOK, PoolOK
  <2> QED
    BY <2>1, <2>2
<1>3. /\ accepts' = [accepts EXCEPT ![w] = accepts[w] + 1]
      /\ accepts \in [Workers -> 0 .. InitAccepts]
  BY DEF RefillAccept, IInv, TypeOK
<1>4. w \in Owing /\ Owing' \subseteq Owing \ {w}
  BY <1>2, <1>3 DEF Owing
<1>5. /\ UNCHANGED <<queue, cur>>
      /\ \A v \in Workers : pc'[v] = "dispatch" => pc[v] = "dispatch"
      /\ pending' \subseteq pending \cup {<<c, "on_connect">>}
  BY <1>1, <1>2 DEF RefillAccept, InitAccept, Goto, IInv, TypeOK
<1>6. \A b \in Contexts \ {c} : InPool(b)' => InPool(b)
  BY <1>5 DEF InPool
<1>7. PoolContexts' \subseteq PoolContexts \cup {c}
  BY <1>6 DEF PoolContexts
<1>8. IsFiniteSet(PoolContexts) /\ IsFiniteSet(Owing)
  BY PoolIsFinite DEF PoolOK
<1>9. Cardinality(PoolContexts') + Cardinality(Owing')
        <= Cardinality(PoolContexts) + Cardinality(Owing)
  BY <1>4, <1>7, <1>8, PoolSizes
<1> QED
  BY <1>9 DEF AcceptPool, PoolContexts, InPool, Owing

\* Who takes the packet of a client that has connected owes an accept.
LEMMA PoolTaken ==
  ASSUME IInv, PoolOK, NEW w \in Workers, DispatchConnect(w)
  PROVE  AcceptPool' <= AcceptPool
<1> USE DEF Goto, serverVars, netVars
<1>1. /\ pc[w] = "dispatch" /\ Tag(cur[w]) = "on_connect"
      /\ cur[w].ctx # NoContext /\ cur[w].kind = "on_connect"
  BY DEF DispatchConnect, IInv, WorkersOK, PacketOK, Tag
<1>2. PICK c \in Contexts : c = cur[w].ctx
  BY <1>1 DEF IInv, TypeOK, Packet
<1>3. /\ UNCHANGED <<pending, queue, cur>>
      /\ pc' = [pc EXCEPT ![w] = "associate"]
      /\ \A v \in Workers \ {w} : accepts'[v] = accepts[v]
      /\ pc \in [Workers -> Labels]
  BY DEF DispatchConnect, IInv, TypeOK
<1>4. HeldOnce(c) /\ AtWorker(c)
  BY <1>2 DEF IInv, SoleHolder, HeldOnce, AtWorker
<1>5. InPool(c) /\ ~ InPool(c)'
  BY <1>1, <1>2, <1>3, <1>4 DEF InPool, HeldOnce, InQueue, InSystem, IoKinds
<1>6. \A b \in Contexts : InPool(b)' => InPool(b)
  BY <1>3 DEF InPool
<1>7. c \in PoolContexts /\ PoolContexts' \subseteq PoolContexts \ {c}
  BY <1>5, <1>6 DEF PoolContexts
<1>8. Owing' \subseteq Owing \cup {w}
  BY <1>3 DEF Owing
<1>9. IsFiniteSet(PoolContexts) /\ IsFiniteSet(Owing)
  BY PoolIsFinite DEF PoolOK
<1>10. Cardinality(PoolContexts') + Cardinality(Owing')
        <= Cardinality(PoolContexts) + Cardinality(Owing)
  BY <1>7, <1>8, <1>9, PoolSizes
<1> QED
  BY <1>10 DEF AcceptPool, PoolContexts, InPool, Owing

\* A packet of another operation, or that of an accept that has completed.
LEMMA PacketQueued ==
  ASSUME NEW p \in Packet, queue \in Seq(Packet), queue' = Append(queue, p),
         NEW c \in Contexts, InPool(c)',
         <<c, "on_connect">> \in pending' => <<c, "on_connect">> \in pending,
         UNCHANGED <<pc, cur>>,
         p.kind = "on_connect" => InPool(p.ctx)
  PROVE  InPool(c)
<1>1. CASE <<c, "on_connect">> \in pending'
  BY <1>1 DEF InPool
<1>2. CASE \E n \in DOMAIN queue' : queue'[n].ctx = c /\ queue'[n].kind = "on_connect"
  <2>1. PICK n \in DOMAIN queue' : queue'[n].ctx = c /\ queue'[n].kind = "on_connect"
    BY <1>2
  <2>2. n \in DOMAIN queue \/ queue'[n] = p
    BY AppendPacket
  <2>3. n \in DOMAIN queue => queue'[n] = queue[n]
    BY AppendPacket
  <2>4. CASE n \in DOMAIN queue
    BY <2>1, <2>3, <2>4 DEF InPool
  <2>5. CASE queue'[n] = p
    BY <2>1, <2>5
  <2> QED
    BY <2>2, <2>4, <2>5
<1>3. CASE \E w \in Workers : /\ pc[w] = "dispatch"
                              /\ cur[w].ctx = c
                              /\ cur[w].kind = "on_connect"
  BY <1>3 DEF InPool
<1> QED
  BY <1>1, <1>2, <1>3 DEF InPool

\* The steps of the workers that post no accept and take no connection.
LEMMA WorkerPool ==
  ASSUME IInv, PoolOK, Started, NEW w \in Workers, Worker(w),
         ~ RefillAccept(w), ~ DispatchConnect(w)
  PROVE  AcceptPool' <= AcceptPool
<1> USE DEF Goto, serverVars, netVars, userVars, workVars
<1>1. ~ StartAccept(w) /\ ~ DispatchStart(w)
  BY DEF Started, StartAccept, DispatchStart, Tag, IInv, WorkersOK, PacketOK
<1>2. Owing' \subseteq Owing
  <2>1. /\ \A v \in Workers \ {w} : accepts'[v] = accepts[v]
        /\ accepts'[w] >= accepts[w]
    BY <1>1, AcceptsRead
  <2>2. accepts[w] \in Nat
    BY DEF IInv, TypeOK
  <2>3. accepts'[w] \in Int
    <3>1. CASE RefillFull(w)
      BY <3>1 DEF RefillFull, IInv, TypeOK
    <3>2. CASE ~ RefillFull(w)
      <4>1. UNCHANGED accepts
        BY <1>1, <3>2 DEF Worker, Dequeue, DequeueFailed, DispatchDisconnect, SocketClose,
             StorageDelete, FreeContext, Associate, StorageAdd, RefillDone, RefillRoom,
             DispatchIo, OnConnect, EnterCallback, CallbackReturns, DispatchStop, StartDone
      <4> QED
        BY <2>2, <4>1
    <3> QED
      BY <3>1, <3>2
  <2> QED
    BY <2>1, <2>2, <2>3 DEF Owing
<1>3. ASSUME NEW c \in Contexts, InPool(c)' PROVE InPool(c)
  <2>1. CASE Dequeue(w) \/ DequeueFailed(w)
    <3>1. /\ queue \in Seq(Packet) /\ queue # <<>> /\ queue' = Tail(queue)
          /\ UNCHANGED pending
          /\ \A v \in Workers : \/ pc'[v] = pc[v] /\ cur'[v] = cur[v]
                                \/ cur'[v] = queue[1]
      BY <2>1, TailPackets DEF Dequeue, DequeueFailed, IInv, TypeOK
    <3>2. /\ 1 \in DOMAIN queue
          /\ \A n \in DOMAIN queue' : n + 1 \in DOMAIN queue /\ queue'[n] = queue[n + 1]
      BY <3>1, TailPackets
    <3> QED
      BY <1>3, <3>1, <3>2 DEF InPool
  <2>2. CASE ~ Dequeue(w) /\ ~ DequeueFailed(w)
    <3>1. /\ UNCHANGED <<pending, queue>>
          /\ \A v \in Workers : pc'[v] = "dispatch" => pc[v] = "dispatch" /\ cur'[v] = cur[v]
      BY <1>1, <2>2 DEF Worker, DispatchDisconnect, SocketClose,
             StorageDelete, FreeContext, Associate, StorageAdd, RefillDone, RefillRoom,
             RefillFull, DispatchIo, OnConnect, EnterCallback, CallbackReturns, DispatchStop,
             StartDone, IInv, TypeOK
    <3> QED
      BY <1>3, <3>1 DEF InPool
  <2> QED
    BY <2>1, <2>2
<1> QED
  BY <1>2, <1>3, PoolKept

\* The steps of the client, the peers, the system and qs_stop.
LEMMA OtherPool ==
  ASSUME IInv, PoolOK,
         \/ \E c \in Contexts : Client(c) \/ Peer(c)
         \/ \E c \in Contexts, k \in IoKinds : Complete(c, k)
         \/ Traverse \/ PostStop \/ UNCHANGED vars
  PROVE  AcceptPool' <= AcceptPool
<1> USE DEF serverVars, netVars, userVars, workVars
<1>1. UNCHANGED <<pc, cur, accepts>>
  BY DEF Client, qs_send, qs_recv, StartIo, qs_send_file, qs_close_connection,
         qs_post_message_to_pool, Peer, PeerCloses, LinkBreaks, Complete, Traverse,
         TraverseStart, TraverseVisit, TraverseEnd, PostStop, vars
<1>2. Owing' \subseteq Owing
  BY <1>1 DEF Owing
<1>3. queue \in Seq(Packet)
  BY DEF IInv, TypeOK
<1>4. ASSUME NEW c \in Contexts, InPool(c)' PROVE InPool(c)
  <2>1. CASE UNCHANGED <<pending, queue>>
    BY <1>1, <1>4, <2>1 DEF InPool
  <2>2. ASSUME NEW b \in Contexts,
               qs_send(b) \/ qs_recv(b) \/ qs_send_file(b) \/ qs_close_connection(b)
        PROVE  InPool(c)
    <3>1. \/ UNCHANGED pending
          \/ \E k \in IoKinds \ {"on_connect"} : pending' = pending \cup {<<b, k>>}
      BY <2>2 DEF qs_send, qs_recv, StartIo, qs_send_file, qs_close_connection, IoKinds
    <3>2. UNCHANGED queue
      BY <2>2 DEF qs_send, qs_recv, StartIo, qs_send_file, qs_close_connection
    <3> QED
      BY <1>1, <1>4, <3>1, <3>2 DEF InPool
  <2>3. ASSUME NEW b \in Contexts, qs_post_message_to_pool(b) PROVE InPool(c)
    <3>1. /\ UNCHANGED pending
          /\ queue' = Append(queue, Posted(b, "user_message"))
      BY <2>3 DEF qs_post_message_to_pool
    <3>2. Posted(b, "user_message") \in Packet
      BY PacketTypes DEF Kinds
    <3>3. Posted(b, "user_message").kind # "on_connect"
      BY DEF Posted
    <3> QED
      BY <1>1, <1>3, <1>4, <3>1, <3>2, <3>3, PacketQueued
  <2>4. CASE PostStop
    <3>1. /\ UNCHANGED pending
          /\ queue' = Append(queue, Posted(NoContext, "stop_server"))
      BY <2>4 DEF PostStop
    <3>2. Posted(NoContext, "stop_server") \in Packet
      BY PacketTypes DEF Kinds
    <3>3. Posted(NoContext, "stop_server").kind # "on_connect"
      BY DEF Posted
    <3> QED
      BY <1>1, <1>3, <1>4, <3>1, <3>2, <3>3, PacketQueued
  <2>5. ASSUME NEW b \in Contexts, NEW k \in IoKinds, Complete(b, k) PROVE InPool(c)
    <3>1. PICK o \in Outcomes(b, k) :
            queue' = Append(queue, [ctx |-> b, kind |-> k, zero |-> o.zero, ok |-> o.ok])
      BY <2>5 DEF Complete
    <3> DEFINE p == [ctx |-> b, kind |-> k, zero |-> o.zero, ok |-> o.ok]
    <3>2. o.zero \in BOOLEAN /\ o.ok \in BOOLEAN
      BY OutcomeTypes
    <3>3. p \in Packet /\ p.ctx = b /\ p.kind = k
      BY <3>2 DEF Packet, Kinds
    <3>4. <<b, k>> \in pending /\ pending' \subseteq pending
      BY <2>5 DEF Complete
    <3>5. k = "on_connect" => InPool(b)
      BY <3>4 DEF InPool
    <3> HIDE DEF p
    <3>6. queue' = Append(queue, p)
      BY <3>1 DEF p
    <3> QED
      BY <1>1, <1>3, <1>4, <3>3, <3>4, <3>5, <3>6, PacketQueued
  <2>6. \/ UNCHANGED <<pending, queue>> \/ PostStop
        \/ \E b \in Contexts, k \in IoKinds : Complete(b, k)
        \/ \E b \in Contexts : \/ qs_send(b) \/ qs_recv(b) \/ qs_send_file(b)
                               \/ qs_close_connection(b) \/ qs_post_message_to_pool(b)
    BY DEF Client, Peer, PeerCloses, LinkBreaks, Traverse, TraverseStart, TraverseVisit,
           TraverseEnd, vars
  <2> QED
    BY <2>1, <2>2, <2>3, <2>4, <2>5, <2>6
<1> QED
  BY <1>2, <1>4, PoolKept

\* Once the initial accepts are posted (lines 707-714) the accepts that are
\* outstanding and those that are owed (lines 742-750) never become more, so
\* what a full storage or a failed accept has taken from them is lost for good.
THEOREM PoolNeverGrows == Spec => AcceptPoolNeverGrows
<1>1. Init => PoolOK
  <2> SUFFICES ASSUME Init PROVE PoolOK
    OBVIOUS
  <2>1. allocated = {} /\ Owing = {}
    BY DEF Init, Owing
  <2> QED
    BY <2>1, FS_EmptySet DEF PoolOK, Init
<1>2. IInv /\ PoolOK /\ [Next]_vars => PoolOK'
  BY NextPoolOK
<1>3. IInv /\ PoolOK /\ [Next]_vars => [Started => AcceptPool' <= AcceptPool]_vars
  <2> SUFFICES ASSUME IInv, PoolOK, [Next]_vars, Started
               PROVE  AcceptPool' <= AcceptPool
    OBVIOUS
  <2>1. ASSUME NEW w \in Workers, Worker(w) PROVE AcceptPool' <= AcceptPool
    BY <2>1, PoolPaid, PoolTaken, WorkerPool
  <2> QED
    BY <2>1, OtherPool DEF Next
<1> QED
  BY Invariance, <1>1, <1>2, <1>3, PTL DEF Spec, AcceptPoolNeverGrows

==============================================================================
