------------------------------ MODULE IdleCheck ------------------------------
(***************************************************************************)
(* The idle timer of qs_lib.cpp at the level of ticks and socket handles:  *)
(* clean_timer_callback walks the storage on the threads of the timer      *)
(* queue and calls idle_check, while workers accept, serve and close the   *)
(* connections it looks at.                                                *)
(*                                                                         *)
(* idle_check reads the clock, then last_activity, then uses the socket    *)
(* handle.  The walk holds storage->cs, which keeps a connection in the    *)
(* storage but keeps nobody from writing last_activity, from closing the   *)
(* socket, or from being given the same handle value for a new socket.     *)
(***************************************************************************)
EXTENDS Integers

CONSTANTS
  Contexts,      \* io_contexts, each with the connection it serves
  Handles,       \* values a SOCKET can have
  Timers,        \* threads of the timer queue that run callbacks
  None,          \* no thread, no context
  TickModulus,   \* GetTickCount wraps here: 2^32 in the program
  IdleTimeout,   \* qs_params.connections_idle_timeout
  Latency        \* how many ticks late the system may start a callback

ASSUME NoneAssumption    == None \notin Contexts /\ None \notin Timers
ASSUME TimeoutAssumption == /\ TickModulus \in Nat
                            /\ IdleTimeout \in 1 .. TickModulus - 1
                            /\ Latency \in Nat

VARIABLES
  tick,           \* GetTickCount()
  due,            \* ticks until the timer fires next; negative when it is late
  phase,          \* what the workers have done with each context
  last_activity,  \* io_context.last_activity
  age,            \* ticks since that activity, up to TickModulus (not in the code)
  handle,         \* connection.socket.sock
  owner,          \* the context whose open socket has this handle
  shut,           \* handles whose connection was ended by shutdown()
  cs,             \* the timer thread that holds storage->cs
  pc,             \* where each timer thread is
  todo,           \* connections the walk that holds cs has not visited
  con,            \* the argument of idle_check
  count,          \* its variable count
  age_read,       \* the age when count was read (not in the code)
  raced           \* a worker wrote last_activity since then (not in the code)

clockVars  == <<tick, due>>
stampVars  == <<last_activity, age>>
socketVars == <<handle, owner, shut>>
connVars   == <<phase, stampVars, socketVars>>
idleVars   == <<con, count, age_read, raced>>
timerVars  == <<cs, pc, todo, idleVars>>
vars == <<clockVars, connVars, timerVars>>

Phases == {"free", "accepting", "connected", "stamped", "stored", "closed"}
Ticks  == 0 .. TickModulus - 1
Ages   == 0 .. TickModulus

TypeOK ==
  /\ tick \in Ticks
  /\ due \in Int
  /\ phase \in [Contexts -> Phases]
  /\ last_activity \in [Contexts -> Ticks]
  /\ age \in [Contexts -> Ages]
  /\ handle \in [Contexts -> Handles \cup {None}]
  /\ owner \in [Handles -> Contexts \cup {None}]
  /\ shut \subseteq Handles
  /\ cs \in Timers \cup {None}
  /\ pc \in [Timers -> {"idle", "fired", "walk", "read", "shutdown"}]
  /\ todo \subseteq Contexts
  /\ con \in [Timers -> Contexts \cup {None}]
  /\ count \in [Timers -> Ticks]
  /\ age_read \in [Timers -> Ages]
  /\ raced \in [Timers -> BOOLEAN]

\* qs_start has created the timer; the clock may be anywhere.
Init ==
  /\ tick \in Ticks
  /\ due = IdleTimeout
  /\ phase = [c \in Contexts |-> "free"]
  /\ last_activity = [c \in Contexts |-> 0]
  /\ age = [c \in Contexts |-> 0]
  /\ handle = [c \in Contexts |-> None]
  /\ owner = [h \in Handles |-> None]
  /\ shut = {}
  /\ cs = None
  /\ pc = [t \in Timers |-> "idle"]
  /\ todo = {}
  /\ con = [t \in Timers |-> None]
  /\ count = [t \in Timers |-> 0]
  /\ age_read = [t \in Timers |-> 0]
  /\ raced = [t \in Timers |-> FALSE]

------------------------------------------------------------------------------
\* The clock and the timer.

\* Faulty variant: the difference of two ticks as a signed number.
ElapsedSigned(later, earlier) == later - earlier

\* The difference of two u_long.
Elapsed(later, earlier) == (later - earlier) % TickModulus

\* The age of a connection that is in use, one tick later.
Older(c) == IF phase[c] \in {"stamped", "stored", "closed"} /\ age[c] < TickModulus
            THEN age[c] + 1 ELSE age[c]

\* The timer's thread is at most Latency late, but a callback in progress may
\* take any time for as long as another thread is there for the next one.
Tick ==
  /\ due > -Latency
  /\ tick' = (tick + 1) % TickModulus
  /\ due' = due - 1
  /\ age' = [c \in Contexts |-> Older(c)]
  /\ UNCHANGED <<phase, last_activity, socketVars, timerVars>>

\* CreateTimerQueueTimer(..., idle_check_period, idle_check_period/2, ...)
Period == IdleTimeout \div 2

\* The system runs clean_timer_callback, on another thread when the previous
\* call has not returned.  A period of zero means that the timer fires once.
TimerFires(t) ==
  /\ due <= 0
  /\ pc[t] = "idle"
  /\ pc' = [pc EXCEPT ![t] = "fired"]
  /\ due' = IF Period > 0 THEN due + Period ELSE due
  /\ UNCHANGED <<tick, connVars, cs, todo, idleVars>>

------------------------------------------------------------------------------
\* What the workers do with a connection.

\* A step of a worker on context c alone.
Becomes(c, new) == phase' = [phase EXCEPT ![c] = new]

\* last_activity = GetTickCount()
Stamp(c) ==
  /\ last_activity' = [last_activity EXCEPT ![c] = tick]
  /\ age' = [age EXCEPT ![c] = 0]
  /\ raced' = [t \in Timers |-> raced[t] \/ (con[t] = c /\ pc[t] = "read")]

\* init_accept: alloc_context clears last_activity; the system gives the new
\* socket any handle that is not open.
InitAccept(c) ==
  /\ phase[c] = "free"
  /\ \E h \in Handles :
       /\ owner[h] = None
       /\ owner' = [owner EXCEPT ![h] = c]
       /\ handle' = [handle EXCEPT ![c] = h]
  /\ Becomes(c, "accepting")
  /\ UNCHANGED <<clockVars, stampVars, shut, timerVars>>

\* A client connects: the accept completes.
Connect(c) ==
  /\ phase[c] = "accepting"
  /\ Becomes(c, "connected")
  /\ UNCHANGED <<clockVars, stampVars, socketVars, timerVars>>

\* Faulty variant: the time of the accept is not recorded.
AcceptedUnstamped(c) ==
  /\ phase[c] = "connected"
  /\ Becomes(c, "stamped")
  /\ age' = [age EXCEPT ![c] = 0]
  /\ UNCHANGED <<clockVars, last_activity, socketVars, timerVars>>

\* The branch on_connect of working_thread sets last_activity ...
Accepted(c) ==
  /\ phase[c] = "connected"
  /\ Becomes(c, "stamped")
  /\ Stamp(c)
  /\ UNCHANGED <<clockVars, socketVars, cs, pc, todo, con, count, age_read>>

\* ... before it adds the connection to the storage.
StorageAdd(c) ==
  /\ phase[c] = "stamped"
  /\ cs = None
  /\ Becomes(c, "stored")
  /\ UNCHANGED <<clockVars, stampVars, socketVars, timerVars>>

\* A send, receive, file or message of the connection completes.
Activity(c) ==
  /\ phase[c] = "stored"
  /\ Stamp(c)
  /\ UNCHANGED <<clockVars, phase, socketVars, cs, pc, todo, con, count,
                 age_read>>

\* socket_close: the handle is free for another socket, but the connection
\* keeps its value and is still in the storage.
SocketClose(c) ==
  /\ phase[c] = "stored"
  /\ Becomes(c, "closed")
  /\ owner' = [owner EXCEPT ![handle[c]] = None]
  /\ shut' = shut \ {handle[c]}
  /\ UNCHANGED <<clockVars, stampVars, handle, timerVars>>

\* Faulty variant: the connection is deleted while a walk holds cs.
StorageDeleteUnlocked(c) ==
  /\ phase[c] = "closed"
  /\ Becomes(c, "free")
  /\ last_activity' = [last_activity EXCEPT ![c] = 0]
  /\ age' = [age EXCEPT ![c] = 0]
  /\ handle' = [handle EXCEPT ![c] = None]
  /\ UNCHANGED <<clockVars, owner, shut, timerVars>>

\* connection_storage_delete and free_context.
StorageDelete(c) ==
  /\ phase[c] = "closed"
  /\ cs = None
  /\ Becomes(c, "free")
  /\ last_activity' = [last_activity EXCEPT ![c] = 0]
  /\ age' = [age EXCEPT ![c] = 0]
  /\ handle' = [handle EXCEPT ![c] = None]
  /\ UNCHANGED <<clockVars, owner, shut, timerVars>>

Worker(c) ==
  \/ InitAccept(c) \/ Accepted(c) \/ StorageAdd(c) \/ Activity(c)
  \/ SocketClose(c) \/ StorageDelete(c)

------------------------------------------------------------------------------
\* clean_timer_callback: connection_storage_traverse(storage, idle_check)

TraverseStart(t) ==
  /\ pc[t] = "fired"
  /\ cs = None
  /\ cs' = t
  /\ todo' = {c \in Contexts : phase[c] \in {"stored", "closed"}}
  /\ pc' = [pc EXCEPT ![t] = "walk"]
  /\ UNCHANGED <<clockVars, connVars, idleVars>>

\* u_long count = GetTickCount();
ReadTick(t) ==
  /\ pc[t] = "walk"
  /\ \E c \in todo :
       /\ con' = [con EXCEPT ![t] = c]
       /\ todo' = todo \ {c}
       /\ age_read' = [age_read EXCEPT ![t] = age[c]]
  /\ count' = [count EXCEPT ![t] = tick]
  /\ raced' = [raced EXCEPT ![t] = FALSE]
  /\ pc' = [pc EXCEPT ![t] = "read"]
  /\ UNCHANGED <<clockVars, connVars, cs>>

\* idle_check returns; its variables go away.
Return(t) ==
  /\ pc' = [pc EXCEPT ![t] = "walk"]
  /\ con' = [con EXCEPT ![t] = None]
  /\ count' = [count EXCEPT ![t] = 0]
  /\ age_read' = [age_read EXCEPT ![t] = 0]
  /\ raced' = [raced EXCEPT ![t] = FALSE]

\* if((count - context->last_activity) > connections_idle_timeout)
Idle(t) == Elapsed(count[t], last_activity[con[t]]) > IdleTimeout

CompareActive(t) ==
  /\ pc[t] = "read"
  /\ ~ Idle(t)
  /\ Return(t)
  /\ UNCHANGED <<clockVars, connVars, cs, todo>>

CompareIdle(t) ==
  /\ pc[t] = "read"
  /\ Idle(t)
  /\ pc' = [pc EXCEPT ![t] = "shutdown"]
  /\ UNCHANGED <<clockVars, connVars, cs, todo, idleVars>>

\* The socket behind a handle is connected, so that shutdown() ends something.
Connected(h) == h # None /\ owner[h] # None /\ phase[owner[h]] # "accepting"

\* shutdown(con->socket.sock, SD_BOTH), of whatever socket has that handle now.
Shutdown(t) ==
  LET h == handle[con[t]] IN
  /\ pc[t] = "shutdown"
  /\ shut' = IF Connected(h) THEN shut \cup {h} ELSE shut
  /\ Return(t)
  /\ UNCHANGED <<clockVars, phase, stampVars, handle, owner, cs, todo>>

TraverseEnd(t) ==
  /\ pc[t] = "walk"
  /\ todo = {}
  /\ cs' = None
  /\ pc' = [pc EXCEPT ![t] = "idle"]
  /\ UNCHANGED <<clockVars, connVars, todo, idleVars>>

Walk(t) == \/ TraverseStart(t) \/ ReadTick(t) \/ CompareActive(t)
           \/ CompareIdle(t) \/ Shutdown(t) \/ TraverseEnd(t)

------------------------------------------------------------------------------
Next ==
  \/ Tick
  \/ \E t \in Timers : TimerFires(t) \/ Walk(t)
  \/ \E c \in Contexts : Worker(c) \/ Connect(c)

Spec == Init /\ [][Next]_vars

\* Time passes, the system starts the timer's callbacks, and of their threads
\* one that can go on does; cs is not withheld from all of them.  Nothing makes
\* a client connect, send or leave, or a worker close a connection.
FairSpec ==
  /\ Spec
  /\ WF_vars(Tick)
  /\ WF_vars(\E t \in Timers : TimerFires(t))
  /\ WF_vars(\E t \in Timers : Walk(t))

------------------------------------------------------------------------------
\* idle_check decides to shut a connection down only if it had been idle for
\* longer than connections_idle_timeout when the clock was read, or was active
\* between that and the subtraction (lines 506 and 507), which then wraps to
\* nearly 2^32.  In particular neither the wrap of GetTickCount after 49 days
\* nor an accept that waited for its client makes a connection look idle.
JustifiedShutdown ==
  \A t \in Timers :
    pc[t] = "shutdown" => age_read[t] > IdleTimeout \/ raced[t]

\* A connection that is shut down is the one being visited, or it was given the
\* handle of the one being visited after line 730 closed that socket and before
\* line 731 took it out of the storage.  A connection that was deleted and
\* freed is never visited.
ShutdownHitsVisited ==
  [][\A h \in shut' \ shut :
       \E t \in Timers :
         /\ con[t] # None /\ handle[con[t]] = h
         /\ \/ owner[h] = con[t] /\ phase[con[t]] = "stored"
            \/ phase[con[t]] = "closed"]_vars

\* A connection in the storage that stays idle is shut down, unless it becomes
\* active, or is closed, before that happens.
IdleReaped ==
  \A c \in Contexts :
    (phase[c] = "stored" /\ age[c] > IdleTimeout)
      ~> (phase[c] # "stored" \/ age[c] = 0 \/ handle[c] \in shut)

==============================================================================
