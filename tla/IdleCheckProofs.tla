--------------------------- MODULE IdleCheckProofs ---------------------------
(***************************************************************************)
(* Proofs about IdleCheck, for any modulus of the clock, any timeout below *)
(* it, and any number of connections, handles and timer threads.           *)
(***************************************************************************)
EXTENDS IdleCheck, TLAPS

InUse  == {"stamped", "stored", "closed"}
Stored == {"stored", "closed"}

\* last_activity is age ticks ago, for as long as that can be told.
StampOK ==
  \A c \in Contexts :
    phase[c] \in InUse /\ age[c] < TickModulus =>
      last_activity[c] = Elapsed(tick, age[c])

\* One thread at a time walks, and only over connections in the storage.
WalkOK ==
  /\ \A t \in Timers : pc[t] \in {"walk", "read", "shutdown"} => cs = t
  /\ cs = None => todo = {}
  /\ \A c \in todo : phase[c] \in Stored
  /\ \A t \in Timers :
       /\ pc[t] \in {"read", "shutdown"} =>
            con[t] \in Contexts /\ phase[con[t]] \in Stored
       /\ pc[t] \notin {"read", "shutdown"} => con[t] = None

\* Until a worker writes last_activity again, count is age_read ticks after it.
ReadOK ==
  \A t \in Timers :
    pc[t] = "read" /\ ~raced[t] /\ age_read[t] < TickModulus =>
      last_activity[con[t]] = Elapsed(count[t], age_read[t])

\* An open socket has its handle for itself.
HandleOK ==
  \A c \in Contexts :
    phase[c] \notin {"free", "closed"} =>
      handle[c] \in Handles /\ owner[handle[c]] = c

IInv == TypeOK /\ StampOK /\ WalkOK /\ ReadOK /\ HandleOK /\ JustifiedShutdown

USE NoneAssumption, TimeoutAssumption

------------------------------------------------------------------------------
\* Arithmetic of ticks, which wrap.
LEMMA Wraps ==
  ASSUME NEW x \in Int, -TickModulus <= x, x < 2 * TickModulus
  PROVE  x % TickModulus = IF x < 0 THEN x + TickModulus
                           ELSE IF x < TickModulus THEN x ELSE x - TickModulus
BY TickModulus \in Nat \ {0}

LEMMA ElapsedRange ==
  ASSUME NEW x \in Ticks, NEW a \in Ticks
  PROVE  /\ Elapsed(x, a) \in Ticks
         /\ Elapsed(x, a) = IF x < a THEN x - a + TickModulus ELSE x - a
BY Wraps DEF Elapsed, Ticks

\* The time since something that happened a ticks before x is a.
LEMMA ElapsedSince ==
  ASSUME NEW x \in Ticks, NEW a \in Ticks
  PROVE  Elapsed(x, Elapsed(x, a)) = a
<1> DEFINE y == Elapsed(x, a)
<1>1. y \in Ticks /\ y = IF x < a THEN x - a + TickModulus ELSE x - a
  BY ElapsedRange
<1>2. Elapsed(x, y) = IF x < y THEN x - y + TickModulus ELSE x - y
  BY <1>1, ElapsedRange
<1> QED
  BY <1>1, <1>2 DEF Ticks

LEMMA NextTick ==
  ASSUME NEW x \in Ticks
  PROVE  /\ (x + 1) % TickModulus \in Ticks
         /\ \A a \in Ticks : a + 1 \in Ticks =>
              Elapsed((x + 1) % TickModulus, a + 1) = Elapsed(x, a)
<1>1. (x + 1) % TickModulus = IF x + 1 < TickModulus THEN x + 1 ELSE 0
  BY Wraps DEF Ticks
<1>2. ASSUME NEW a \in Ticks, a + 1 \in Ticks
      PROVE  Elapsed((x + 1) % TickModulus, a + 1) = Elapsed(x, a)
  <2> DEFINE y == (x + 1) % TickModulus
  <2>1. y \in Ticks
    BY <1>1 DEF Ticks
  <2>2. Elapsed(y, a + 1)
          = IF y < a + 1 THEN y - (a + 1) + TickModulus ELSE y - (a + 1)
    BY <1>2, <2>1, ElapsedRange
  <2>3. Elapsed(x, a) = IF x < a THEN x - a + TickModulus ELSE x - a
    BY ElapsedRange
  <2> QED
    BY <1>1, <1>2, <2>2, <2>3 DEF Ticks
<1> QED
  BY <1>1, <1>2 DEF Ticks

LEMMA ElapsedZero ==
  ASSUME NEW x \in Ticks
  PROVE  Elapsed(x, 0) = x
BY ElapsedRange DEF Ticks

------------------------------------------------------------------------------
LEMMA InitInv == Init => IInv
<1> SUFFICES ASSUME Init PROVE IInv
  OBVIOUS
<1>1. TypeOK
  BY DEF Init, TypeOK, Ticks, Ages, Phases
<1> QED
  BY <1>1 DEF Init, IInv, StampOK, WalkOK, ReadOK, HandleOK, JustifiedShutdown, InUse, Stored

LEMMA StepInv == IInv /\ [Next]_vars => IInv'
<1> SUFFICES ASSUME IInv, [Next]_vars PROVE IInv'
  OBVIOUS
<1> USE DEF IInv
<1>1. ASSUME Tick PROVE IInv'
  <2>a. /\ tick \in Ticks /\ tick' = (tick + 1) % TickModulus /\ tick' \in Ticks
        /\ \A x \in Ticks : x + 1 \in Ticks => Elapsed(tick', x + 1) = Elapsed(tick, x)
    BY <1>1, NextTick DEF Tick, TypeOK
  <2>b. \A c \in Contexts : phase[c] \in InUse /\ age'[c] < TickModulus =>
          age[c] \in Ticks /\ age'[c] \in Ticks /\ age'[c] = age[c] + 1
    BY <1>1 DEF Tick, Older, TypeOK, Ages, Ticks, InUse
  <2>1. TypeOK'
    BY <1>1, <2>a DEF Tick, Older, socketVars, timerVars, idleVars,
       TypeOK, Ticks, Ages, Phases
  <2>2. StampOK'
    BY <1>1, <2>a, <2>b DEF Tick, Older, socketVars, timerVars, idleVars,
       StampOK, TypeOK, Ticks
  <2>3. WalkOK'
    BY <1>1 DEF Tick, Older, socketVars, timerVars, idleVars,
       WalkOK, TypeOK, Stored
  <2>4. ReadOK'
    BY <1>1 DEF Tick, Older, socketVars, timerVars, idleVars,
       ReadOK, WalkOK, TypeOK, Stored
  <2>5. HandleOK'
    BY <1>1 DEF Tick, Older, socketVars, timerVars, idleVars,
       HandleOK, WalkOK, TypeOK
  <2>6. JustifiedShutdown'
    BY <1>1 DEF Tick, Older, socketVars, timerVars, idleVars,
       JustifiedShutdown, WalkOK, TypeOK, Stored
  <2> QED
    BY <2>1, <2>2, <2>3, <2>4, <2>5, <2>6
<1>2. ASSUME NEW t \in Timers, TimerFires(t) PROVE IInv'
  <2>1. TypeOK'
    BY <1>2 DEF TimerFires, Period, connVars, stampVars, socketVars, idleVars,
       TypeOK, Ticks, Ages, Phases
  <2>2. StampOK'
    BY <1>2 DEF TimerFires, Period, connVars, stampVars, socketVars, idleVars,
       StampOK, TypeOK, InUse
  <2>3. WalkOK'
    BY <1>2 DEF TimerFires, Period, connVars, stampVars, socketVars, idleVars,
       WalkOK, TypeOK, Stored
  <2>4. ReadOK'
    BY <1>2 DEF TimerFires, Period, connVars, stampVars, socketVars, idleVars,
       ReadOK, WalkOK, TypeOK, Stored
  <2>5. HandleOK'
    BY <1>2 DEF TimerFires, Period, connVars, stampVars, socketVars, idleVars,
       HandleOK, WalkOK, TypeOK
  <2>6. JustifiedShutdown'
    BY <1>2 DEF TimerFires, Period, connVars, stampVars, socketVars, idleVars,
       JustifiedShutdown, WalkOK, TypeOK, Stored
  <2> QED
    BY <2>1, <2>2, <2>3, <2>4, <2>5, <2>6
<1>3. ASSUME NEW c \in Contexts, InitAccept(c) PROVE IInv'
  <2>1. TypeOK'
    BY <1>3 DEF InitAccept, Becomes, clockVars, stampVars, timerVars, idleVars,
       TypeOK, Ticks, Ages, Phases
  <2>2. StampOK'
    BY <1>3 DEF InitAccept, Becomes, clockVars, stampVars, timerVars, idleVars,
       StampOK, TypeOK, InUse
  <2>3. WalkOK'
    BY <1>3 DEF InitAccept, Becomes, clockVars, stampVars, timerVars, idleVars,
       WalkOK, TypeOK, Stored
  <2>4. ReadOK'
    BY <1>3 DEF InitAccept, Becomes, clockVars, stampVars, timerVars, idleVars,
       ReadOK, WalkOK, TypeOK, Stored
  <2>5. HandleOK'
    BY <1>3 DEF InitAccept, Becomes, clockVars, stampVars, timerVars, idleVars,
       HandleOK, WalkOK, TypeOK
  <2>6. JustifiedShutdown'
    BY <1>3 DEF InitAccept, Becomes, clockVars, stampVars, timerVars, idleVars,
       JustifiedShutdown, WalkOK, TypeOK, Stored
  <2> QED
    BY <2>1, <2>2, <2>3, <2>4, <2>5, <2>6
<1>4. ASSUME NEW c \in Contexts, Connect(c) PROVE IInv'
  <2>1. TypeOK'
    BY <1>4 DEF Connect, Becomes, clockVars, stampVars, socketVars, timerVars, idleVars,
       TypeOK, Ticks, Ages, Phases
  <2>2. StampOK'
    BY <1>4 DEF Connect, Becomes, clockVars, stampVars, socketVars, timerVars, idleVars,
       StampOK, TypeOK, InUse
  <2>3. WalkOK'
    BY <1>4 DEF Connect, Becomes, clockVars, stampVars, socketVars, timerVars, idleVars,
       WalkOK, TypeOK, Stored
  <2>4. ReadOK'
    BY <1>4 DEF Connect, Becomes, clockVars, stampVars, socketVars, timerVars, idleVars,
       ReadOK, WalkOK, TypeOK, Stored
  <2>5. HandleOK'
    BY <1>4 DEF Connect, Becomes, clockVars, stampVars, socketVars, timerVars, idleVars,
       HandleOK, WalkOK, TypeOK
  <2>6. JustifiedShutdown'
    BY <1>4 DEF Connect, Becomes, clockVars, stampVars, socketVars, timerVars, idleVars,
       JustifiedShutdown, WalkOK, TypeOK, Stored
  <2> QED
    BY <2>1, <2>2, <2>3, <2>4, <2>5, <2>6
<1>5. ASSUME NEW c \in Contexts, Accepted(c) PROVE IInv'
  <2>1. TypeOK'
    BY <1>5 DEF Accepted, Becomes, Stamp, clockVars, socketVars,
       TypeOK, Ticks, Ages, Phases
  <2>2. StampOK'
    BY <1>5, ElapsedZero DEF Accepted, Becomes, Stamp, clockVars, socketVars,
       StampOK, TypeOK, InUse
  <2>3. WalkOK'
    BY <1>5 DEF Accepted, Becomes, Stamp, clockVars, socketVars,
       WalkOK, TypeOK, Stored
  <2>4. ReadOK'
    BY <1>5 DEF Accepted, Becomes, Stamp, clockVars, socketVars,
       ReadOK, WalkOK, TypeOK, Stored
  <2>5. HandleOK'
    BY <1>5 DEF Accepted, Becomes, Stamp, clockVars, socketVars,
       HandleOK, WalkOK, TypeOK
  <2>6. JustifiedShutdown'
    BY <1>5 DEF Accepted, Becomes, Stamp, clockVars, socketVars,
       JustifiedShutdown, WalkOK, TypeOK, Stored
  <2> QED
    BY <2>1, <2>2, <2>3, <2>4, <2>5, <2>6
<1>6. ASSUME NEW c \in Contexts, StorageAdd(c) PROVE IInv'
  <2>1. TypeOK'
    BY <1>6 DEF StorageAdd, Becomes, clockVars, stampVars, socketVars, timerVars, idleVars,
       TypeOK, Ticks, Ages, Phases
  <2>2. StampOK'
    BY <1>6 DEF StorageAdd, Becomes, clockVars, stampVars, socketVars, timerVars, idleVars,
       StampOK, TypeOK, InUse
  <2>3. WalkOK'
    BY <1>6 DEF StorageAdd, Becomes, clockVars, stampVars, socketVars, timerVars, idleVars,
       WalkOK, TypeOK, Stored
  <2>4. ReadOK'
    BY <1>6 DEF StorageAdd, Becomes, clockVars, stampVars, socketVars, timerVars, idleVars,
       ReadOK, WalkOK, TypeOK, Stored
  <2>5. HandleOK'
    BY <1>6 DEF StorageAdd, Becomes, clockVars, stampVars, socketVars, timerVars, idleVars,
       HandleOK, WalkOK, TypeOK
  <2>6. JustifiedShutdown'
    BY <1>6 DEF StorageAdd, Becomes, clockVars, stampVars, socketVars, timerVars, idleVars,
       JustifiedShutdown, WalkOK, TypeOK, Stored
  <2> QED
    BY <2>1, <2>2, <2>3, <2>4, <2>5, <2>6
<1>7. ASSUME NEW c \in Contexts, Activity(c) PROVE IInv'
  <2>1. TypeOK'
    BY <1>7 DEF Activity, Stamp, clockVars, socketVars,
       TypeOK, Ticks, Ages, Phases
  <2>2. StampOK'
    BY <1>7, ElapsedZero DEF Activity, Stamp, clockVars, socketVars,
       StampOK, TypeOK, InUse
  <2>3. WalkOK'
    BY <1>7 DEF Activity, Stamp, clockVars, socketVars,
       WalkOK, TypeOK, Stored
  <2>4. ReadOK'
    BY <1>7 DEF Activity, Stamp, clockVars, socketVars,
       ReadOK, WalkOK, TypeOK, Stored
  <2>5. HandleOK'
    BY <1>7 DEF Activity, Stamp, clockVars, socketVars,
       HandleOK, WalkOK, TypeOK
  <2>6. JustifiedShutdown'
    BY <1>7 DEF Activity, Stamp, clockVars, socketVars,
       JustifiedShutdown, WalkOK, TypeOK, Stored
  <2> QED
    BY <2>1, <2>2, <2>3, <2>4, <2>5, <2>6
<1>8. ASSUME NEW c \in Contexts, SocketClose(c) PROVE IInv'
  <2>1. TypeOK'
    BY <1>8 DEF SocketClose, Becomes, clockVars, stampVars, timerVars, idleVars,
       TypeOK, Ticks, Ages, Phases, HandleOK
  <2>2. StampOK'
    BY <1>8 DEF SocketClose, Becomes, clockVars, stampVars, timerVars, idleVars,
       StampOK, TypeOK, InUse
  <2>3. WalkOK'
    BY <1>8 DEF SocketClose, Becomes, clockVars, stampVars, timerVars, idleVars,
       WalkOK, TypeOK, Stored
  <2>4. ReadOK'
    BY <1>8 DEF SocketClose, Becomes, clockVars, stampVars, timerVars, idleVars,
       ReadOK, WalkOK, TypeOK, Stored
  <2>5. HandleOK'
    BY <1>8 DEF SocketClose, Becomes, clockVars, stampVars, timerVars, idleVars,
       HandleOK, WalkOK, TypeOK
  <2>6. JustifiedShutdown'
    BY <1>8 DEF SocketClose, Becomes, clockVars, stampVars, timerVars, idleVars,
       JustifiedShutdown, WalkOK, TypeOK, Stored
  <2> QED
    BY <2>1, <2>2, <2>3, <2>4, <2>5, <2>6
<1>9. ASSUME NEW c \in Contexts, StorageDelete(c) PROVE IInv'
  <2>1. TypeOK'
    BY <1>9 DEF StorageDelete, Becomes, clockVars, timerVars, idleVars,
       TypeOK, Ticks, Ages, Phases
  <2>2. StampOK'
    BY <1>9 DEF StorageDelete, Becomes, clockVars, timerVars, idleVars,
       StampOK, TypeOK, InUse
  <2>3. WalkOK'
    BY <1>9 DEF StorageDelete, Becomes, clockVars, timerVars, idleVars,
       WalkOK, TypeOK, Stored
  <2>4. ReadOK'
    BY <1>9 DEF StorageDelete, Becomes, clockVars, timerVars, idleVars,
       ReadOK, WalkOK, TypeOK, Stored
  <2>5. HandleOK'
    BY <1>9 DEF StorageDelete, Becomes, clockVars, timerVars, idleVars,
       HandleOK, WalkOK, TypeOK
  <2>6. JustifiedShutdown'
    BY <1>9 DEF StorageDelete, Becomes, clockVars, timerVars, idleVars,
       JustifiedShutdown, WalkOK, TypeOK, Stored
  <2> QED
    BY <2>1, <2>2, <2>3, <2>4, <2>5, <2>6
<1>10. ASSUME NEW t \in Timers, TraverseStart(t) PROVE IInv'
  <2>1. TypeOK'
    BY <1>10 DEF TraverseStart, clockVars, connVars, stampVars, socketVars, idleVars,
       TypeOK, Ticks, Ages, Phases
  <2>2. StampOK'
    BY <1>10 DEF TraverseStart, clockVars, connVars, stampVars, socketVars, idleVars,
       StampOK, TypeOK, InUse
  <2>3. WalkOK'
    BY <1>10 DEF TraverseStart, clockVars, connVars, stampVars, socketVars, idleVars,
       WalkOK, TypeOK, Stored
  <2>4. ReadOK'
    BY <1>10 DEF TraverseStart, clockVars, connVars, stampVars, socketVars, idleVars,
       ReadOK, WalkOK, TypeOK, Stored
  <2>5. HandleOK'
    BY <1>10 DEF TraverseStart, clockVars, connVars, stampVars, socketVars, idleVars,
       HandleOK, WalkOK, TypeOK
  <2>6. JustifiedShutdown'
    BY <1>10 DEF TraverseStart, clockVars, connVars, stampVars, socketVars, idleVars,
       JustifiedShutdown, WalkOK, TypeOK, Stored
  <2> QED
    BY <2>1, <2>2, <2>3, <2>4, <2>5, <2>6
<1>11. ASSUME NEW t \in Timers, ReadTick(t) PROVE IInv'
  <2>1. TypeOK'
    BY <1>11 DEF ReadTick, clockVars, connVars, stampVars, socketVars,
       TypeOK, Ticks, Ages, Phases
  <2>2. StampOK'
    BY <1>11 DEF ReadTick, clockVars, connVars, stampVars, socketVars,
       StampOK, TypeOK, InUse
  <2>3. WalkOK'
    BY <1>11 DEF ReadTick, clockVars, connVars, stampVars, socketVars,
       WalkOK, TypeOK, Stored
  <2>4. ReadOK'
    BY <1>11 DEF ReadTick, clockVars, connVars, stampVars, socketVars,
       ReadOK, StampOK, WalkOK, TypeOK, InUse, Stored
  <2>5. HandleOK'
    BY <1>11 DEF ReadTick, clockVars, connVars, stampVars, socketVars,
       HandleOK, WalkOK, TypeOK
  <2>6. JustifiedShutdown'
    BY <1>11 DEF ReadTick, clockVars, connVars, stampVars, socketVars,
       JustifiedShutdown, WalkOK, TypeOK, Stored
  <2> QED
    BY <2>1, <2>2, <2>3, <2>4, <2>5, <2>6
<1>12. ASSUME NEW t \in Timers, CompareActive(t) PROVE IInv'
  <2>1. TypeOK'
    BY <1>12 DEF CompareActive, Return, clockVars, connVars, stampVars, socketVars,
       TypeOK, Ticks, Ages, Phases
  <2>2. StampOK'
    BY <1>12 DEF CompareActive, Return, clockVars, connVars, stampVars, socketVars,
       StampOK, TypeOK, InUse
  <2>3. WalkOK'
    BY <1>12 DEF CompareActive, Return, clockVars, connVars, stampVars, socketVars,
       WalkOK, TypeOK, Stored
  <2>4. ReadOK'
    BY <1>12 DEF CompareActive, Return, clockVars, connVars, stampVars, socketVars,
       ReadOK, WalkOK, TypeOK, Stored
  <2>5. HandleOK'
    BY <1>12 DEF CompareActive, Return, clockVars, connVars, stampVars, socketVars,
       HandleOK, WalkOK, TypeOK
  <2>6. JustifiedShutdown'
    BY <1>12 DEF CompareActive, Return, clockVars, connVars, stampVars, socketVars,
       JustifiedShutdown, WalkOK, TypeOK, Stored
  <2> QED
    BY <2>1, <2>2, <2>3, <2>4, <2>5, <2>6
<1>13. ASSUME NEW t \in Timers, CompareIdle(t) PROVE IInv'
  <2>a. ASSUME ~raced[t], age_read[t] < TickModulus PROVE age_read[t] > IdleTimeout
    <3>1. /\ count[t] \in Ticks /\ age_read[t] \in Ticks
          /\ last_activity[con[t]] = Elapsed(count[t], age_read[t])
      BY <1>13, <2>a DEF CompareIdle, ReadOK, TypeOK, Ticks, Ages
    <3> QED
      BY <1>13, <3>1, ElapsedSince DEF CompareIdle, Idle
  <2>b. age_read[t] \in Ages
    BY DEF TypeOK
  <2>1. TypeOK'
    BY <1>13 DEF CompareIdle, clockVars, connVars, stampVars, socketVars, idleVars,
       TypeOK, Ticks, Ages, Phases
  <2>2. StampOK'
    BY <1>13 DEF CompareIdle, clockVars, connVars, stampVars, socketVars, idleVars,
       StampOK, TypeOK, InUse
  <2>3. WalkOK'
    BY <1>13 DEF CompareIdle, clockVars, connVars, stampVars, socketVars, idleVars,
       WalkOK, TypeOK, Stored
  <2>4. ReadOK'
    BY <1>13 DEF CompareIdle, clockVars, connVars, stampVars, socketVars, idleVars,
       ReadOK, WalkOK, TypeOK, Stored
  <2>5. HandleOK'
    BY <1>13 DEF CompareIdle, clockVars, connVars, stampVars, socketVars, idleVars,
       HandleOK, WalkOK, TypeOK
  <2>6. JustifiedShutdown'
    BY <1>13, <2>a, <2>b DEF CompareIdle, clockVars, connVars, stampVars, socketVars, idleVars,
       JustifiedShutdown, WalkOK, TypeOK, Stored, Ages
  <2> QED
    BY <2>1, <2>2, <2>3, <2>4, <2>5, <2>6
<1>14. ASSUME NEW t \in Timers, Shutdown(t) PROVE IInv'
  <2>1. TypeOK'
    BY <1>14 DEF Shutdown, Return, clockVars, stampVars,
       Connected, WalkOK, TypeOK, Ticks, Ages, Phases
  <2>2. StampOK'
    BY <1>14 DEF Shutdown, Return, clockVars, stampVars,
       StampOK, TypeOK, InUse
  <2>3. WalkOK'
    BY <1>14 DEF Shutdown, Return, clockVars, stampVars,
       WalkOK, TypeOK, Stored
  <2>4. ReadOK'
    BY <1>14 DEF Shutdown, Return, clockVars, stampVars,
       ReadOK, WalkOK, TypeOK, Stored
  <2>5. HandleOK'
    BY <1>14 DEF Shutdown, Return, clockVars, stampVars,
       HandleOK, WalkOK, TypeOK
  <2>6. JustifiedShutdown'
    BY <1>14 DEF Shutdown, Return, clockVars, stampVars,
       JustifiedShutdown, WalkOK, TypeOK, Stored
  <2> QED
    BY <2>1, <2>2, <2>3, <2>4, <2>5, <2>6
<1>15. ASSUME NEW t \in Timers, TraverseEnd(t) PROVE IInv'
  <2>1. TypeOK'
    BY <1>15 DEF TraverseEnd, clockVars, connVars, stampVars, socketVars, idleVars,
       TypeOK, Ticks, Ages, Phases
  <2>2. StampOK'
    BY <1>15 DEF TraverseEnd, clockVars, connVars, stampVars, socketVars, idleVars,
       StampOK, TypeOK, InUse
  <2>3. WalkOK'
    BY <1>15 DEF TraverseEnd, clockVars, connVars, stampVars, socketVars, idleVars,
       WalkOK, TypeOK, Stored
  <2>4. ReadOK'
    BY <1>15 DEF TraverseEnd, clockVars, connVars, stampVars, socketVars, idleVars,
       ReadOK, WalkOK, TypeOK, Stored
  <2>5. HandleOK'
    BY <1>15 DEF TraverseEnd, clockVars, connVars, stampVars, socketVars, idleVars,
       HandleOK, WalkOK, TypeOK
  <2>6. JustifiedShutdown'
    BY <1>15 DEF TraverseEnd, clockVars, connVars, stampVars, socketVars, idleVars,
       JustifiedShutdown, WalkOK, TypeOK, Stored
  <2> QED
    BY <2>1, <2>2, <2>3, <2>4, <2>5, <2>6
<1>16. CASE UNCHANGED vars
  <2> USE <1>16 DEF vars, clockVars, connVars, stampVars, socketVars, timerVars, idleVars
  <2>1. TypeOK' /\ StampOK' /\ HandleOK'
    BY DEF TypeOK, StampOK, HandleOK
  <2>2. WalkOK' /\ ReadOK' /\ JustifiedShutdown'
    BY DEF WalkOK, ReadOK, JustifiedShutdown
  <2> QED
    BY <2>1, <2>2
<1> QED
  BY <1>1, <1>2, <1>3, <1>4, <1>5, <1>6, <1>7, <1>8, <1>9, <1>10, <1>11, <1>12, <1>13, <1>14, <1>15, <1>16 DEF Next, Worker, Walk

------------------------------------------------------------------------------
LEMMA SpecInv == Spec => []IInv
BY InitInv, StepInv, PTL DEF Spec

\* Every variable keeps its range.
THEOREM TypeCorrect == Spec => []TypeOK
BY SpecInv, PTL DEF IInv

\* idle_check (lines 503-511) shuts down only what was idle, or was used while
\* it looked: for every width of the tick counter, when it wraps included.
THEOREM Justified == Spec => []JustifiedShutdown
BY SpecInv, PTL DEF IInv

\* What idle_check shuts down is the connection it visits, or one that has been
\* given the handle of the one it visits after line 730 closed it.
THEOREM HitsVisited == Spec => ShutdownHitsVisited
<1> DEFINE Hits(h) ==
      \E t \in Timers :
        /\ con[t] # None /\ handle[con[t]] = h
        /\ \/ owner[h] = con[t] /\ phase[con[t]] = "stored"
           \/ phase[con[t]] = "closed"
<1>1. ASSUME IInv, [Next]_vars PROVE \A h \in shut' \ shut : Hits(h)
  <2>1. ASSUME NEW t \in Timers, Shutdown(t) PROVE \A h \in shut' \ shut : Hits(h)
    <3>1. con[t] \in Contexts /\ phase[con[t]] \in Stored
      BY <1>1, <2>1 DEF IInv, WalkOK, Shutdown
    <3>2. \A h \in shut' \ shut : h = handle[con[t]]
      BY <2>1 DEF Shutdown
    <3>3. phase[con[t]] = "stored" => owner[handle[con[t]]] = con[t]
      BY <1>1, <3>1 DEF IInv, HandleOK
    <3> QED
      BY <3>1, <3>2, <3>3 DEF Stored
  <2>2. ASSUME NEW c \in Contexts, SocketClose(c) PROVE shut' \subseteq shut
    BY <2>2 DEF SocketClose
  <2>3. \/ \E t \in Timers : Shutdown(t)
        \/ \E c \in Contexts : SocketClose(c)
        \/ shut' = shut
    BY <1>1 DEF Next, Worker, Walk, Tick, TimerFires, InitAccept, Connect, Accepted,
       StorageAdd, Activity, StorageDelete, TraverseStart, ReadTick, CompareActive,
       CompareIdle, TraverseEnd, vars, clockVars, connVars, socketVars, timerVars
  <2> QED
    BY <2>1, <2>2, <2>3
<1>2. IInv /\ [Next]_vars => [\A h \in shut' \ shut : Hits(h)]_vars
  BY <1>1
<1> QED
  BY SpecInv, <1>2, PTL DEF Spec, ShutdownHitsVisited

==============================================================================
