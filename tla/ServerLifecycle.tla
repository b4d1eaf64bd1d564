-------------------------- MODULE ServerLifecycle --------------------------
(***************************************************************************)
(* The life of a server object of qs_lib.cpp: qs_create, qs_start, qs_stop *)
(* and qs_delete, called by the program one after the other, while the     *)
(* threads that qs_start created and the callbacks of its timer run.       *)
(*                                                                         *)
(* Every resource of the object is here with the order in which the code   *)
(* makes and destroys it; what flows through it is reduced to the number   *)
(* of contexts that wait for a client and of connections that are served.  *)
(* Nothing in the object counts who uses it.                               *)
(***************************************************************************)
EXTENDS Integers, FiniteSets

CONSTANTS
  Workers,         \* threads that may be created
  Main,            \* the program's thread
  Timer,           \* the thread that runs clean_timer_callback
  None,            \* no thread
  WorkerCounts,    \* values of qs_params.worker_threads_count
  InitAccepts,     \* qs_params.listener.init_accepts_count
  MaxWaitObjects,  \* WaitForMultipleObjects takes no more: 64 on Windows
  MaxStarts,       \* bound: storages made by qs_start
  MaxStartups,     \* bound: WSAStartup calls without WSACleanup
  MaxClients,      \* bound: clients served at a time
  Misuse           \* callbacks from which the program calls qs_stop

ASSUME ActorAssumption == /\ {Main, Timer, None} \cap Workers = {}
                          /\ Main # Timer /\ Main # None /\ Timer # None
ASSUME WorkersAssumption == /\ IsFiniteSet(Workers)
                            /\ WorkerCounts \subseteq 0 .. Cardinality(Workers)
ASSUME BoundAssumption == /\ InitAccepts \in Nat
                          /\ MaxWaitObjects \in Nat
                          /\ {MaxStarts, MaxStartups, MaxClients} \subseteq Nat
ASSUME MisuseAssumption == Misuse \subseteq {"callback", "enum"}

VARIABLES
  instance,       \* the qs_context: none, or the memory of qs_create
  status,         \* qs_context.status
  params_set,     \* qs_start has copied qs_params, with the callbacks
  count,          \* qs_params.worker_threads_count
  timed,          \* qs_params.connections_idle_timeout is not zero
  wsa,            \* WSAStartup calls without WSACleanup
  port,           \* qs_context.iocp
  listener,       \* qs_context.qs_socket
  storage,        \* qs_context.storage: the start that made it, 0 for none
  live,           \* storages that have not been freed
  cs,             \* who holds the critical section of the storage
  timer,          \* qs_context.timer
  starts,         \* calls of qs_start that made a storage
  call,           \* where the call of a qs_ function in progress is
  caller,         \* the thread that called it
  threads,        \* qs_context.threads: those of the last start
  thread,         \* where each worker is
  overfull,       \* a start made more than MaxWaitObjects (not in the code)
  tick_pc,        \* where the timer's callback is
  tick_storage,   \* its variable storage
  tick_late,      \* it fired before the timer was deleted (not in the code)
  start_packet,   \* the start packet is in the port
  stop_packets,   \* stop packets in the port
  accepting,      \* contexts with an AcceptEx
  connected,      \* connections being served
  active_connections_count, \* of qs_info: not initialised, or a number
  broken          \* the first undefined behaviour, at which the program stops:
                  \* an uninitialised callback, or who used freed memory

objectVars == <<instance, status, params_set, count, timed>>
systemVars == <<wsa, port, listener, timer>>
storeVars  == <<storage, live, cs>>
callVars   == <<call, caller, starts, overfull>>
tickVars   == <<tick_pc, tick_storage, tick_late>>
packetVars == <<start_packet, stop_packets, accepting, connected>>
vars == <<objectVars, systemVars, storeVars, callVars, threads, thread,
          tickVars, packetVars, active_connections_count, broken>>

StopCalls  == {"stop_timer", "stop_post", "stop_wait", "stop_close",
               "stop_free", "stop_reset"}
StartCalls == {"start_bind", "start_storage", "start_threads", "start_post"}
Callers    == Workers \cup {Main}

TypeOK ==
  /\ instance \in {"none", "allocated"}
  /\ status \in {"not_runned", "runned"}
  /\ params_set \in BOOLEAN /\ timed \in BOOLEAN
  /\ count \in Nat
  /\ wsa \in 0 .. MaxStartups
  /\ port \in {"none", "open", "closed"}
  /\ listener \in {"none", "open", "closed"}
  /\ timer \in {"none", "active", "deleted"}
  /\ starts \in 0 .. MaxStarts
  /\ storage \in 0 .. starts
  /\ live \subseteq 1 .. starts
  /\ cs \in Callers \cup {Timer, None}
  /\ call \in StartCalls \cup StopCalls \cup {"none", "create", "enum"}
  /\ caller \in Callers \cup {None}
  /\ threads \subseteq Workers
  /\ overfull \in BOOLEAN
  /\ thread \in [Workers -> {"none", "loop", "add", "callback", "delete",
                             "exited"}]
  /\ tick_pc \in {"idle", "fired", "dangling", "enter", "walk"}
  /\ tick_storage \in 0 .. starts
  /\ tick_late \in BOOLEAN
  /\ start_packet \in BOOLEAN
  /\ stop_packets \in Nat
  /\ accepting \in Nat
  /\ connected \in Nat
  /\ active_connections_count \in Nat \cup {-1}
  /\ broken \in {"no", "callback", "worker", "timer", "enum"}

Init ==
  /\ instance = "none"
  /\ status = "not_runned"
  /\ params_set = FALSE
  /\ count = 0
  /\ timed = FALSE
  /\ wsa = 0
  /\ port = "none"
  /\ listener = "none"
  /\ timer = "none"
  /\ storage = 0
  /\ live = {}
  /\ cs = None
  /\ call = "none"
  /\ caller = None
  /\ starts = 0
  /\ threads = {}
  /\ overfull = FALSE
  /\ thread = [w \in Workers |-> "none"]
  /\ tick_pc = "idle"
  /\ tick_storage = 0
  /\ tick_late = FALSE
  /\ start_packet = FALSE
  /\ stop_packets = 0
  /\ accepting = 0
  /\ connected = 0
  /\ active_connections_count = -1
  /\ broken = "no"

------------------------------------------------------------------------------
\* qs_create and qs_delete

\* cry(), which calls qs_params.callbacks.on_error.
Cry(set) == broken' = IF set THEN broken ELSE "callback"

\* memset clears sizeof(qs_instance) bytes: status, and not the rest.
Create ==
  /\ call = "none"
  /\ instance = "none"
  /\ wsa < MaxStartups
  /\ instance' = "allocated"
  /\ status' = "not_runned"
  /\ params_set' = FALSE
  /\ active_connections_count' = -1
  /\ storage' = 0
  /\ threads' = {}
  /\ listener' = "none"
  /\ timer' = "none"
  /\ \/ /\ wsa' = wsa + 1
        /\ port' = "open"
        /\ UNCHANGED <<call, broken>>
     \/ \* WSAStartup, CreateIoCompletionPort or init_ex_funcs fails
        /\ call' = "create"
        /\ Cry(params_set')
        /\ UNCHANGED <<wsa, port>>
  /\ UNCHANGED <<count, timed, live, cs, caller, starts, overfull, thread,
                 tickVars, packetVars>>

\* The program deletes a server that does not run.  The socket library stays
\* started, and the port of a server that never ran stays open.  A worker that
\* is left calls the on_error of the freed server at the latest when it finds
\* the port closed.
Delete ==
  /\ call = "none"
  /\ instance = "allocated"
  /\ status = "not_runned"
  /\ instance' = "none"
  /\ port' = "none"
  /\ broken' = IF \E w \in Workers : thread[w] # "none" THEN "worker" ELSE broken
  /\ tick_pc' = IF tick_pc = "fired" THEN "dangling" ELSE tick_pc
  /\ UNCHANGED <<status, params_set, count, timed, wsa, listener, timer,
                 storeVars, callVars, threads, thread, tick_storage, tick_late,
                 packetVars, active_connections_count>>

------------------------------------------------------------------------------
\* qs_start

\* Faulty variant: the parameters are copied once the address is parsed.
StartLateCopy ==
  /\ call = "none"
  /\ instance = "allocated"
  /\ status = "not_runned"
  /\ starts < MaxStarts
  /\ count' \in WorkerCounts
  /\ timed' \in BOOLEAN
  /\ \/ /\ call' = "start_bind"
        /\ caller' = Main
        /\ params_set' = TRUE
        /\ UNCHANGED <<wsa, broken>>
     \/ /\ wsa' = IF wsa > 0 THEN wsa - 1 ELSE 0
        /\ Cry(params_set)
        /\ UNCHANGED <<call, caller, params_set>>
  /\ UNCHANGED <<instance, status, port, listener, timer, storeVars, starts,
                 overfull, threads, thread, tickVars, packetVars,
                 active_connections_count>>

\* The parameters are copied; an address that does not parse ends the socket
\* library that qs_create started.
Start ==
  /\ call = "none"
  /\ instance = "allocated"
  /\ status = "not_runned"
  /\ starts < MaxStarts
  /\ count' \in WorkerCounts
  /\ timed' \in BOOLEAN
  /\ params_set' = TRUE
  /\ \/ /\ call' = "start_bind"
        /\ caller' = Main
        /\ UNCHANGED <<wsa, broken>>
     \/ /\ wsa' = IF wsa > 0 THEN wsa - 1 ELSE 0
        /\ Cry(params_set')
        /\ UNCHANGED <<call, caller>>
  /\ UNCHANGED <<instance, status, port, listener, timer, storeVars, starts,
                 overfull, threads, thread, tickVars, packetVars,
                 active_connections_count>>

\* A step of the call in progress.
At(label) == call = label
Goto(label) == call' = label /\ UNCHANGED <<caller, starts, overfull>>
Return == call' = "none" /\ caller' = None /\ UNCHANGED <<starts, overfull>>

\* socket, setsockopt, bind and listen: all, or closesocket and an error.
StartBind ==
  /\ At("start_bind")
  /\ \/ /\ wsa > 0
        /\ Goto("start_storage")
        /\ UNCHANGED broken
     \/ /\ Return
        /\ Cry(params_set)
  /\ UNCHANGED <<objectVars, systemVars, storeVars, threads, thread, tickVars,
                 packetVars, active_connections_count>>

\* connection_storage_new, qs_socket; the socket is associated with the port
\* if that is open.
StartStorage ==
  /\ At("start_storage")
  /\ starts' = starts + 1
  /\ storage' = starts + 1
  /\ live' = live \cup {starts + 1}
  /\ cs' = None
  /\ listener' = "open"
  /\ threads' = {}
  /\ call' = "start_threads"
  /\ UNCHANGED <<objectVars, wsa, port, timer, caller, overfull, thread, tickVars,
                 packetVars, active_connections_count, broken>>

StartThread ==
  /\ At("start_threads")
  /\ Cardinality(threads) < count
  /\ \E w \in Workers :
       /\ thread[w] = "none"
       /\ thread' = [thread EXCEPT ![w] = "loop"]
       /\ threads' = threads \cup {w}
  /\ UNCHANGED <<objectVars, systemVars, storeVars, callVars, tickVars,
                 packetVars, active_connections_count, broken>>

\* Faulty variant: the loop that creates the threads ends one too early.
StartTimerOneThreadLess ==
  /\ At("start_threads")
  /\ Cardinality(threads) + 1 = count
  /\ timer' = IF timed THEN "active" ELSE timer
  /\ overfull' = (overfull \/ count > MaxWaitObjects)
  /\ call' = "start_post"
  /\ UNCHANGED <<objectVars, wsa, port, listener, storeVars, caller, starts,
                 threads, thread, tickVars, packetVars, active_connections_count, broken>>

StartTimer ==
  /\ At("start_threads")
  /\ Cardinality(threads) = count
  /\ timer' = IF timed THEN "active" ELSE timer
  /\ overfull' = (overfull \/ count > MaxWaitObjects)
  /\ call' = "start_post"
  /\ UNCHANGED <<objectVars, wsa, port, listener, storeVars, caller, starts,
                 threads, thread, tickVars, packetVars, active_connections_count, broken>>

\* Posting to a closed port fails, which qs_start does not notice.
StartPost ==
  /\ At("start_post")
  /\ start_packet' = (port = "open")
  /\ status' = "runned"
  /\ Return
  /\ UNCHANGED <<instance, params_set, count, timed, systemVars, storeVars,
                 threads, thread, tickVars, stop_packets, accepting,
                 connected, active_connections_count, broken>>

------------------------------------------------------------------------------
\* qs_stop, called by the program, from a callback of a worker, or from the
\* callback of an enumeration, which holds cs.  It does not test status: that
\* the server runs is for the program to know.

MayStop(by) ==
  \/ by = Main /\ call = "none"
  \/ by = Main /\ call = "enum" /\ "enum" \in Misuse
  \/ by \in Workers /\ call = "none" /\ thread[by] = "callback"
       /\ "callback" \in Misuse

Stop(by) ==
  /\ MayStop(by)
  /\ status = "runned"
  /\ call' = "stop_timer"
  /\ caller' = by
  /\ UNCHANGED <<objectVars, systemVars, storeVars, starts, overfull, threads,
                 thread, tickVars, packetVars, active_connections_count, broken>>

\* Faulty variant: the timer is not deleted.
StopTimerKept ==
  /\ At("stop_timer")
  /\ Goto("stop_post")
  /\ UNCHANGED <<objectVars, systemVars, storeVars, threads, thread, tickVars,
                 packetVars, active_connections_count, broken>>

\* DeleteTimerQueueTimer(NULL, timer, NULL): no new callback, but one that
\* has started goes on.
StopTimer ==
  /\ At("stop_timer")
  /\ timer' = IF timed THEN "deleted" ELSE timer
  /\ tick_late' = (tick_pc # "idle")
  /\ Goto("stop_post")
  /\ UNCHANGED <<objectVars, wsa, port, listener, storeVars, threads, thread,
                 tick_pc, tick_storage, packetVars, active_connections_count,
                 broken>>

\* Faulty variant: one packet too few.
StopPostOneLess ==
  /\ At("stop_post")
  /\ stop_packets' = IF port = "open" /\ count > 0 THEN count - 1 ELSE 0
  /\ Goto("stop_wait")
  /\ UNCHANGED <<objectVars, systemVars, storeVars, threads, thread, tickVars,
                 start_packet, accepting, connected,
                 active_connections_count, broken>>

\* One packet for each thread; the workers take them in any order.
StopPost ==
  /\ At("stop_post")
  /\ stop_packets' = IF port = "open" THEN count ELSE 0
  /\ Goto("stop_wait")
  /\ UNCHANGED <<objectVars, systemVars, storeVars, threads, thread, tickVars,
                 start_packet, accepting, connected,
                 active_connections_count, broken>>

\* Faulty variant: the wait ends with the first thread.
StopWaitAny ==
  /\ At("stop_wait")
  /\ \/ count \notin 1 .. MaxWaitObjects
     \/ \E w \in threads : thread[w] = "exited"
  /\ Goto("stop_close")
  /\ UNCHANGED <<objectVars, systemVars, storeVars, threads, thread, tickVars,
                 packetVars, active_connections_count, broken>>

\* WaitForMultipleObjects fails at once for more threads than it can take,
\* which qs_stop does not notice.
StopWait ==
  /\ At("stop_wait")
  /\ \/ count \notin 1 .. MaxWaitObjects
     \/ \A w \in threads : thread[w] = "exited"
  /\ Goto("stop_close")
  /\ UNCHANGED <<objectVars, systemVars, storeVars, threads, thread, tickVars,
                 packetVars, active_connections_count, broken>>

\* Faulty variant: the port is not closed.
StopCloseKeepsPort ==
  /\ At("stop_close")
  /\ listener' = "closed"
  /\ thread' = [w \in Workers |-> IF thread[w] = "exited" THEN "none"
                                                         ELSE thread[w]]
  /\ start_packet' = FALSE
  /\ stop_packets' = 0
  /\ accepting' = 0
  /\ connected' = 0
  /\ Goto("stop_free")
  /\ UNCHANGED <<objectVars, wsa, port, timer, storeVars, threads, tickVars,
                 active_connections_count, broken>>

\* The handles of the threads, the listener and the port are closed.  What the
\* port holds is lost, and with it the contexts and sockets of every accept
\* and connection: nothing closes or frees them.
StopClose ==
  /\ At("stop_close")
  /\ listener' = "closed"
  /\ port' = "closed"
  /\ thread' = [w \in Workers |-> IF thread[w] = "exited" THEN "none"
                                                         ELSE thread[w]]
  /\ start_packet' = FALSE
  /\ stop_packets' = 0
  /\ accepting' = 0
  /\ connected' = 0
  /\ Goto("stop_free")
  /\ UNCHANGED <<objectVars, wsa, timer, storeVars, threads, tickVars,
                 active_connections_count, broken>>

\* connection_storage_free; server->storage keeps its value.
StopFree ==
  /\ At("stop_free")
  /\ live' = live \ {storage}
  /\ threads' = {}
  /\ Goto("stop_reset")
  /\ UNCHANGED <<objectVars, systemVars, storage, cs, thread, tickVars,
                 packetVars, active_connections_count, broken>>

\* An enumeration whose callback called qs_stop goes on.
StopReset ==
  /\ At("stop_reset")
  /\ status' = "not_runned"
  /\ active_connections_count' = 0
  /\ call' = IF cs = Main THEN "enum" ELSE "none"
  /\ caller' = IF cs = Main THEN Main ELSE None
  /\ UNCHANGED <<instance, params_set, count, timed, systemVars, storeVars,
                 starts, overfull, threads, thread, tickVars, packetVars,
                 broken>>

------------------------------------------------------------------------------
\* qs_enum_connections, of a server that runs.

EnumStart ==
  /\ call = "none"
  /\ status = "runned"
  /\ storage \in live
  /\ cs = None
  /\ cs' = Main
  /\ call' = "enum"
  /\ caller' = Main
  /\ UNCHANGED <<objectVars, systemVars, storage, live, starts, overfull,
                 threads, thread, tickVars, packetVars, active_connections_count,
                 broken>>

EnumEnd ==
  /\ At("enum")
  /\ cs' = None
  /\ broken' = IF storage \in live THEN broken ELSE "enum"
  /\ Return
  /\ UNCHANGED <<objectVars, systemVars, storage, live, threads, thread,
                 tickVars, packetVars, active_connections_count>>

------------------------------------------------------------------------------
\* working_thread, reduced to what it needs of the server object.

Becomes(w, label) == thread' = [thread EXCEPT ![w] = label]

\* GetQueuedCompletionStatus fails without a packet: the thread ends.  The report
\* of line 722, whose format names an argument that is not given, is left out.
WorkerNoPort(w) ==
  /\ thread[w] = "loop"
  /\ port # "open"
  /\ Becomes(w, "exited")
  /\ UNCHANGED <<objectVars, systemVars, storeVars, callVars, threads,
                 tickVars, packetVars, active_connections_count, broken>>

WorkerStartPacket(w) ==
  /\ thread[w] = "loop"
  /\ start_packet
  /\ start_packet' = FALSE
  /\ accepting' = InitAccepts
  /\ UNCHANGED <<objectVars, systemVars, storeVars, callVars, threads, thread,
                 tickVars, stop_packets, connected, active_connections_count,
                 broken>>

WorkerStopPacket(w) ==
  /\ thread[w] = "loop"
  /\ ~ start_packet
  /\ stop_packets > 0
  /\ stop_packets' = stop_packets - 1
  /\ Becomes(w, "exited")
  /\ UNCHANGED <<objectVars, systemVars, storeVars, callVars, threads,
                 tickVars, start_packet, accepting, connected,
                 active_connections_count, broken>>

\* A client connects, or the operation of a connection ends it.
WorkerPacket(w) ==
  /\ thread[w] = "loop"
  /\ port = "open"
  /\ \/ /\ accepting > 0
        /\ connected < MaxClients
        /\ accepting' = accepting - 1
        /\ connected' = connected + 1
        /\ Becomes(w, "add")
     \/ /\ connected > 0
        /\ connected' = connected - 1
        /\ Becomes(w, "delete")
        /\ UNCHANGED accepting
  /\ UNCHANGED <<objectVars, systemVars, storeVars, callVars, threads,
                 tickVars, start_packet, stop_packets,
                 active_connections_count, broken>>

\* connection_storage_add or connection_storage_delete of server->storage.
WorkerStorage(w) ==
  /\ thread[w] \in {"add", "delete"}
  /\ \/ /\ storage \notin live
        /\ broken' = "worker"
        /\ UNCHANGED thread
     \/ /\ storage \in live
        /\ cs = None
        /\ Becomes(w, IF thread[w] = "add" THEN "callback" ELSE "loop")
        /\ UNCHANGED broken
  /\ UNCHANGED <<objectVars, systemVars, storeVars, callVars, threads,
                 tickVars, packetVars, active_connections_count>>

\* on_connect returns, and another accept is posted.
WorkerReturns(w) ==
  /\ thread[w] = "callback"
  /\ caller # w
  /\ accepting' = accepting + 1
  /\ Becomes(w, "loop")
  /\ UNCHANGED <<objectVars, systemVars, storeVars, callVars, threads,
                 tickVars, start_packet, stop_packets, connected,
                 active_connections_count, broken>>

Worker(w) ==
  \/ WorkerNoPort(w) \/ WorkerStartPacket(w) \/ WorkerStopPacket(w)
  \/ WorkerPacket(w) \/ WorkerStorage(w) \/ WorkerReturns(w)

------------------------------------------------------------------------------
\* clean_timer_callback, one at a time.

TimerFires ==
  /\ timer = "active"
  /\ tick_pc = "idle"
  /\ tick_pc' = "fired"
  /\ tick_late' = FALSE
  /\ UNCHANGED <<objectVars, systemVars, storeVars, callVars, threads, thread,
                 tick_storage, packetVars, active_connections_count, broken>>

\* connection_storage *storage = server->storage;
TimerReads ==
  /\ \/ /\ tick_pc = "dangling"
        /\ broken' = "timer"
        /\ UNCHANGED tickVars
     \/ /\ tick_pc = "fired"
        /\ tick_storage' = storage
        /\ tick_pc' = "enter"
        /\ UNCHANGED <<tick_late, broken>>
  /\ UNCHANGED <<objectVars, systemVars, storeVars, callVars, threads, thread,
                 packetVars, active_connections_count>>

TimerEnters ==
  /\ tick_pc = "enter"
  /\ \/ /\ tick_storage \notin live
        /\ broken' = "timer"
        /\ UNCHANGED <<cs, tick_pc>>
     \/ /\ tick_storage \in live
        /\ cs = None
        /\ cs' = Timer
        /\ tick_pc' = "walk"
        /\ UNCHANGED broken
  /\ UNCHANGED <<objectVars, systemVars, storage, live, callVars, threads,
                 thread, tick_storage, tick_late, packetVars,
                 active_connections_count>>

TimerLeaves ==
  /\ tick_pc = "walk"
  /\ \/ /\ tick_storage \notin live
        /\ broken' = "timer"
        /\ UNCHANGED <<cs, tick_pc, tick_storage, tick_late>>
     \/ /\ tick_storage \in live
        /\ cs' = None
        /\ tick_pc' = "idle"
        /\ tick_storage' = 0
        /\ tick_late' = FALSE
        /\ UNCHANGED broken
  /\ UNCHANGED <<objectVars, systemVars, storage, live, callVars, threads,
                 thread, packetVars, active_connections_count>>

------------------------------------------------------------------------------
StartSteps == StartBind \/ StartStorage \/ StartThread \/ StartTimer \/ StartPost
StopSteps  == \/ StopTimer \/ StopPost \/ StopWait \/ StopClose \/ StopFree
              \/ StopReset
TimerSteps == TimerReads \/ TimerEnters \/ TimerLeaves

Next ==
  /\ broken = "no"
  /\ \/ Create \/ Delete \/ Start \/ StartSteps \/ StopSteps
     \/ EnumStart \/ EnumEnd \/ TimerFires \/ TimerSteps
     \/ \E by \in Callers : Stop(by)
     \/ \E w \in Workers : Worker(w)

Spec == Init /\ [][Next]_vars

\* Threads that can go on do: a call of qs_stop, the callback of the timer, and
\* the workers taken together, of which one gets the critical section, and one a
\* packet, if there is again and again a chance to.
FairSpec ==
  /\ Spec
  /\ WF_vars(broken = "no" /\ StopSteps)
  /\ WF_vars(broken = "no" /\ TimerSteps)
  /\ WF_vars(broken = "no" /\ \E w \in Workers : Worker(w))
  /\ SF_vars(broken = "no" /\ \E w \in Workers : WorkerStorage(w))
  /\ SF_vars(broken = "no" /\ \E w \in Workers : WorkerStopPacket(w))

------------------------------------------------------------------------------
Stopping == call \in StopCalls
Serving  == /\ status = "runned"
            /\ port = "open"
            /\ wsa > 0
            /\ ~ Stopping

\* A worker never uses a storage that qs_stop has freed, wherever it is when
\* qs_stop is called and whoever calls it: the wait on line 537 is over only
\* when every worker has left.  This needs that there are not more threads
\* than WaitForMultipleObjects can wait for.
WorkersOutlived == broken = "worker" => overfull

\* The timer's callback touches a freed server or storage only when it had
\* begun before line 528 deleted the timer: qs_stop does not wait for it, but
\* no callback begins afterwards.
OnlyLateTimerDangles == broken = "timer" => tick_late

\* on_error is called before it is set only by a qs_create that fails: every
\* other message follows the copy of the parameters on line 442.
OnlyCreateCriesBlind == broken = "callback" => call = "create"

\* Every thread finds the parameters, the storage and the listener that it
\* reads from the server object made before it: a thread can run before
\* create_thread returns, and the timer's at any moment after line 494.
ThreadsFindServer ==
  /\ \A w \in Workers : thread[w] \notin {"none", "exited"} =>
       params_set /\ storage # 0 /\ listener # "none"
  /\ tick_pc \in {"enter", "walk"} => tick_storage # 0

\* While qs_start has reported success and qs_stop was not called, the port is
\* open in the first run of a server, its storage is there, and it has lost
\* none of its workers.
ServingWorks ==
  Serving => /\ storage \in live
             /\ listener = "open"
             /\ Cardinality(threads) = count
             /\ \A w \in threads : thread[w] # "exited"

Contract == INSTANCE ServerContract WITH
  server <- IF instance = "none" \/ call = "create" THEN "none"
            ELSE IF Serving THEN "serving"
            ELSE IF port = "open" /\ wsa > 0 /\ ~ Stopping THEN "created"
            ELSE "spent"

\* A server serves once: after qs_stop, or after an address that does not
\* parse, qs_start may report success again but nobody is there to serve.
ServesOnce == Contract!Spec

\* qs_stop called from the callback of a worker never gets past line 537: it
\* waits for that very worker.
SelfStopNeverEnds ==
  caller \in Workers /\ ~ overfull
    => call \notin {"stop_close", "stop_free", "stop_reset"}

\* qs_stop called by the program, and not from the callback of an enumeration,
\* returns, whatever the workers and the timer are doing, unless the timer's
\* callback meets memory that was freed.
StopReturns ==
  (Stopping /\ caller = Main /\ cs # Main) ~> (~ Stopping \/ broken # "no")

==============================================================================
