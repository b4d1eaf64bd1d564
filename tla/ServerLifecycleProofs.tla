----------------------- MODULE ServerLifecycleProofs -----------------------
(***************************************************************************)
(* Proofs about ServerLifecycle, for any number of workers, accepts and    *)
(* clients, whether or not there are more threads than the system can wait *)
(* for, and whether or not the program calls qs_stop from its callbacks.   *)
(***************************************************************************)
EXTENDS ServerLifecycle, FiniteSetTheorems, TLAPS

\* qs_start has made the storage, and qs_stop has not freed it.
Made == \/ call \in {"start_threads", "start_post"}
        \/ status = "runned" /\ call # "stop_reset"

\* No worker is left of the last run, nor has the next one any.
Empty == \/ status = "not_runned" /\ call \notin {"start_threads", "start_post"}
         \/ call \in {"stop_free", "stop_reset"}

\* Which call can be in progress, by the status, and what it finds.
CallOK ==
  /\ instance = "none" => status = "not_runned" /\ call = "none"
  /\ call = "create" => broken # "no"
  /\ call \in StartCalls =>
       status = "not_runned" /\ params_set /\ instance = "allocated"
  /\ call \in {"start_bind", "start_storage"} => starts < MaxStarts
  /\ call \in StopCalls => status = "runned"
  /\ call \in {"stop_free", "stop_reset"} => port # "open"
  /\ status = "runned" => params_set
  /\ Made => storage \in live /\ storage # 0 /\ listener # "none"
  /\ Made /\ call # "stop_free" => listener = "open"

\* Unless there were once too many of them to wait for, every thread is one of
\* the last start, and none is left when the storage is freed.
ThreadsOK ==
  /\ \A w \in Workers : thread[w] # "none" =>
       params_set /\ storage # 0 /\ listener # "none"
  /\ instance = "none" /\ broken = "no" => \A w \in Workers : thread[w] = "none"
  /\ call = "start_post" \/ (status = "runned" /\ call # "stop_reset") =>
       Cardinality(threads) = count /\ (overfull \/ count <= MaxWaitObjects)
  /\ ~overfull =>
       /\ \A w \in Workers : thread[w] # "none" => w \in threads
       /\ Empty => \A w \in Workers : thread[w] = "none"
       /\ call = "stop_close" => \A w \in threads : thread[w] = "exited"

\* A worker leaves an open port only for a stop packet.
ExitsOK ==
  /\ stop_packets > 0 => call \in {"stop_wait", "stop_close"}
  /\ port = "open" /\ call \notin {"stop_wait", "stop_close"} =>
       \A w \in Workers : thread[w] # "exited"

\* A worker that called qs_stop is still in its callback.
CallerOK ==
  /\ caller \in Workers => call \in StopCalls /\ thread[caller] = "callback"
  /\ SelfStopNeverEnds

\* A callback of the timer that is not late finds the storage of a server that
\* runs.
TimerOK ==
  /\ timer = "active" =>
       /\ timed /\ storage \in live /\ storage # 0 /\ instance = "allocated"
       /\ \/ call = "start_post"
          \/ status = "runned" /\ call \in {"none", "enum", "stop_timer"}
  /\ tick_pc # "idle" /\ timer # "active" => tick_late
  /\ tick_pc = "dangling" => tick_late
  /\ tick_pc = "fired" => storage # 0 /\ instance = "allocated"
  /\ tick_pc \in {"enter", "walk"} =>
       tick_storage # 0 /\ (tick_late \/ tick_storage = storage)

BrokenOK == WorkersOutlived /\ OnlyLateTimerDangles /\ OnlyCreateCriesBlind

IInv == /\ TypeOK /\ CallOK /\ ThreadsOK /\ ExitsOK /\ CallerOK /\ TimerOK
        /\ BrokenOK

USE ActorAssumption, WorkersAssumption, BoundAssumption

------------------------------------------------------------------------------
LEMMA CountsNat == WorkerCounts \subseteq Nat
BY FS_CardinalityType

LEMMA ThreadsFinite ==
  ASSUME TypeOK
  PROVE  IsFiniteSet(threads) /\ (Cardinality(threads) = 0 => threads = {})
BY FS_Subset, FS_EmptySet DEF TypeOK

LEMMA InitInv == Init => IInv
<1> SUFFICES ASSUME Init PROVE IInv
  OBVIOUS
<1>a. /\ params_set \in BOOLEAN /\ timed \in BOOLEAN /\ overfull \in BOOLEAN
      /\ tick_late \in BOOLEAN /\ start_packet \in BOOLEAN
  BY ONLY Init, Zenon DEF Init
<1>1. TypeOK
  BY <1>a DEF Init, TypeOK, StartCalls, StopCalls, Callers
<1>2. CallOK /\ ExitsOK /\ TimerOK /\ BrokenOK
  BY DEF Init, CallOK, ExitsOK, TimerOK, BrokenOK, Made, StartCalls, StopCalls,
     WorkersOutlived, OnlyLateTimerDangles, OnlyCreateCriesBlind
<1>3. ThreadsOK /\ CallerOK
  BY DEF Init, ThreadsOK, CallerOK, SelfStopNeverEnds, Empty
<1> QED
  BY <1>1, <1>2, <1>3 DEF IInv

LEMMA StepInv == IInv /\ [Next]_vars => IInv'
<1> SUFFICES ASSUME IInv, [Next]_vars PROVE IInv'
  OBVIOUS
<1> USE DEF IInv
<1>1. ASSUME broken = "no", Create PROVE IInv'
  <2>b. params_set' \in BOOLEAN
    BY ONLY <1>1, Zenon DEF Create
  <2>1. TypeOK'
    BY <1>1, <2>b DEF Create, Cry, tickVars, packetVars, TypeOK, StartCalls,
       StopCalls, Callers
  <2>2. CallOK'
    BY <1>1 DEF Create, Cry, tickVars, packetVars, CallOK, TypeOK, Made,
       StartCalls, StopCalls
  <2>3. ThreadsOK'
    BY <1>1 DEF Create, Cry, tickVars, packetVars, ThreadsOK, CallOK, TypeOK,
       Made, Empty, StartCalls, StopCalls
  <2>4. ExitsOK'
    BY <1>1 DEF Create, Cry, tickVars, packetVars, ExitsOK, TypeOK, ThreadsOK
  <2>5. CallerOK'
    BY <1>1 DEF Create, Cry, tickVars, packetVars, CallerOK,
       SelfStopNeverEnds, StopCalls, TypeOK
  <2>6. TimerOK'
    BY <1>1 DEF Create, Cry, tickVars, packetVars, TimerOK, CallOK, TypeOK,
       Made, StartCalls, StopCalls
  <2>7. BrokenOK'
    BY <1>1 DEF Create, Cry, tickVars, packetVars, BrokenOK, WorkersOutlived,
       OnlyLateTimerDangles, OnlyCreateCriesBlind
  <2> QED
    BY <2>1, <2>2, <2>3, <2>4, <2>5, <2>6, <2>7
<1>2. ASSUME broken = "no", Delete PROVE IInv'
  <2>1. TypeOK'
    BY <1>2 DEF Delete, storeVars, callVars, packetVars, TypeOK, StartCalls,
       StopCalls, Callers
  <2>2. CallOK'
    BY <1>2 DEF Delete, storeVars, callVars, packetVars, CallOK, TypeOK, Made,
       StartCalls, StopCalls
  <2>3. ThreadsOK'
    BY <1>2 DEF Delete, storeVars, callVars, packetVars, ThreadsOK, CallOK,
       TypeOK, Made, Empty, StartCalls, StopCalls
  <2>4. ExitsOK'
    BY <1>2 DEF Delete, storeVars, callVars, packetVars, ExitsOK, TypeOK
  <2>5. CallerOK'
    BY <1>2 DEF Delete, storeVars, callVars, packetVars, CallerOK,
       SelfStopNeverEnds, StopCalls, TypeOK
  <2>6. TimerOK'
    BY <1>2 DEF Delete, storeVars, callVars, packetVars, TimerOK, CallOK,
       TypeOK, Made, StartCalls, StopCalls
  <2>7. BrokenOK'
    BY <1>2 DEF Delete, storeVars, callVars, packetVars, BrokenOK,
       WorkersOutlived, OnlyLateTimerDangles, OnlyCreateCriesBlind, ThreadsOK,
       Empty
  <2> QED
    BY <2>1, <2>2, <2>3, <2>4, <2>5, <2>6, <2>7
<1>3. ASSUME broken = "no", Start PROVE IInv'
  <2>1. TypeOK'
    BY <1>3, CountsNat DEF Start, Cry, storeVars, tickVars, packetVars,
       TypeOK, StartCalls, StopCalls, Callers
  <2>2. CallOK'
    BY <1>3 DEF Start, Cry, storeVars, tickVars, packetVars, CallOK, TypeOK,
       Made, StartCalls, StopCalls
  <2>3. ThreadsOK'
    BY <1>3 DEF Start, Cry, storeVars, tickVars, packetVars, ThreadsOK,
       CallOK, TypeOK, Made, Empty, StartCalls, StopCalls
  <2>4. ExitsOK'
    BY <1>3 DEF Start, Cry, storeVars, tickVars, packetVars, ExitsOK, TypeOK
  <2>5. CallerOK'
    BY <1>3 DEF Start, Cry, storeVars, tickVars, packetVars, CallerOK,
       SelfStopNeverEnds, StopCalls, TypeOK
  <2>6. TimerOK'
    BY <1>3 DEF Start, Cry, storeVars, tickVars, packetVars, TimerOK, CallOK,
       TypeOK, Made, StartCalls, StopCalls
  <2>7. BrokenOK'
    BY <1>3 DEF Start, Cry, storeVars, tickVars, packetVars, BrokenOK,
       WorkersOutlived, OnlyLateTimerDangles, OnlyCreateCriesBlind
  <2> QED
    BY <2>1, <2>2, <2>3, <2>4, <2>5, <2>6, <2>7
<1>4. ASSUME broken = "no", StartBind PROVE IInv'
  <2>1. TypeOK'
    BY <1>4 DEF StartBind, Cry, At, Goto, Return, objectVars, systemVars,
       storeVars, tickVars, packetVars, TypeOK, StartCalls, StopCalls, Callers
  <2>2. CallOK'
    BY <1>4 DEF StartBind, Cry, At, Goto, Return, objectVars, systemVars,
       storeVars, tickVars, packetVars, CallOK, TypeOK, Made, StartCalls,
       StopCalls
  <2>3. ThreadsOK'
    BY <1>4 DEF StartBind, Cry, At, Goto, Return, objectVars, systemVars,
       storeVars, tickVars, packetVars, ThreadsOK, CallOK, TypeOK, Made,
       Empty, StartCalls, StopCalls
  <2>4. ExitsOK'
    BY <1>4 DEF StartBind, Cry, At, Goto, Return, objectVars, systemVars,
       storeVars, tickVars, packetVars, ExitsOK, TypeOK
  <2>5. CallerOK'
    BY <1>4 DEF StartBind, Cry, At, Goto, Return, objectVars, systemVars,
       storeVars, tickVars, packetVars, CallerOK, SelfStopNeverEnds,
       StopCalls, TypeOK
  <2>6. TimerOK'
    BY <1>4 DEF StartBind, Cry, At, Goto, Return, objectVars, systemVars,
       storeVars, tickVars, packetVars, TimerOK, CallOK, TypeOK, Made,
       StartCalls, StopCalls
  <2>7. BrokenOK'
    BY <1>4 DEF StartBind, Cry, At, Goto, Return, objectVars, systemVars,
       storeVars, tickVars, packetVars, BrokenOK, WorkersOutlived,
       OnlyLateTimerDangles, OnlyCreateCriesBlind, CallOK, StartCalls
  <2> QED
    BY <2>1, <2>2, <2>3, <2>4, <2>5, <2>6, <2>7
<1>5. ASSUME broken = "no", StartStorage PROVE IInv'
  <2>1. TypeOK'
    BY <1>5 DEF StartStorage, At, objectVars, tickVars, packetVars, TypeOK,
       StartCalls, StopCalls, Callers, CallOK
  <2>2. CallOK'
    BY <1>5 DEF StartStorage, At, objectVars, tickVars, packetVars, CallOK,
       TypeOK, Made, StartCalls, StopCalls
  <2>3. ThreadsOK'
    BY <1>5 DEF StartStorage, At, objectVars, tickVars, packetVars, ThreadsOK,
       CallOK, TypeOK, Made, Empty, StartCalls, StopCalls
  <2>4. ExitsOK'
    BY <1>5 DEF StartStorage, At, objectVars, tickVars, packetVars, ExitsOK,
       TypeOK
  <2>5. CallerOK'
    BY <1>5 DEF StartStorage, At, objectVars, tickVars, packetVars, CallerOK,
       SelfStopNeverEnds, StopCalls, TypeOK
  <2>6. TimerOK'
    BY <1>5 DEF StartStorage, At, objectVars, tickVars, packetVars, TimerOK,
       CallOK, TypeOK, Made, StartCalls, StopCalls
  <2>7. BrokenOK'
    BY <1>5 DEF StartStorage, At, objectVars, tickVars, packetVars, BrokenOK,
       WorkersOutlived, OnlyLateTimerDangles, OnlyCreateCriesBlind
  <2> QED
    BY <2>1, <2>2, <2>3, <2>4, <2>5, <2>6, <2>7
<1>6. ASSUME broken = "no", StartThread PROVE IInv'
  <2>1. TypeOK'
    BY <1>6 DEF StartThread, At, objectVars, systemVars, storeVars, callVars,
       tickVars, packetVars, TypeOK, StartCalls, StopCalls, Callers
  <2>2. CallOK'
    BY <1>6 DEF StartThread, At, objectVars, systemVars, storeVars, callVars,
       tickVars, packetVars, CallOK, TypeOK, Made, StartCalls, StopCalls
  <2>3. ThreadsOK'
    BY <1>6 DEF StartThread, At, objectVars, systemVars, storeVars, callVars,
       tickVars, packetVars, ThreadsOK, CallOK, TypeOK, Made, Empty,
       StartCalls, StopCalls
  <2>4. ExitsOK'
    BY <1>6 DEF StartThread, At, objectVars, systemVars, storeVars, callVars,
       tickVars, packetVars, ExitsOK, TypeOK
  <2>5. CallerOK'
    BY <1>6 DEF StartThread, At, objectVars, systemVars, storeVars, callVars,
       tickVars, packetVars, CallerOK, SelfStopNeverEnds, StopCalls, TypeOK
  <2>6. TimerOK'
    BY <1>6 DEF StartThread, At, objectVars, systemVars, storeVars, callVars,
       tickVars, packetVars, TimerOK, CallOK, TypeOK, Made, StartCalls,
       StopCalls
  <2>7. BrokenOK'
    BY <1>6 DEF StartThread, At, objectVars, systemVars, storeVars, callVars,
       tickVars, packetVars, BrokenOK, WorkersOutlived, OnlyLateTimerDangles,
       OnlyCreateCriesBlind
  <2> QED
    BY <2>1, <2>2, <2>3, <2>4, <2>5, <2>6, <2>7
<1>7. ASSUME broken = "no", StartTimer PROVE IInv'
  <2>a. ~overfull' => ~overfull /\ ~(count > MaxWaitObjects)
    BY ONLY <1>7, ZenonT(20) DEF StartTimer
  <2>b. ~overfull' => ~overfull /\ count <= MaxWaitObjects
    BY <2>a DEF TypeOK
  <2>c. /\ call = "start_threads" /\ call' = "start_post"
        /\ Cardinality(threads) = count
        /\ UNCHANGED <<objectVars, listener, storeVars, threads, thread>>
    BY <1>7 DEF StartTimer, At
  <2>d. overfull' \/ count <= MaxWaitObjects
    BY <2>b
  <2>1. TypeOK'
    BY <1>7 DEF StartTimer, At, objectVars, storeVars, tickVars, packetVars,
       TypeOK, StartCalls, StopCalls, Callers
  <2>2. CallOK'
    BY <1>7 DEF StartTimer, At, objectVars, storeVars, tickVars, packetVars,
       CallOK, TypeOK, Made, StartCalls, StopCalls
  <2>3. ThreadsOK'
    BY <1>7, <2>b, <2>c, <2>d DEF StartTimer, At, objectVars, storeVars,
       tickVars, packetVars, ThreadsOK, CallOK, TypeOK, Made, Empty,
       StartCalls, StopCalls
  <2>4. ExitsOK'
    BY <1>7 DEF StartTimer, At, objectVars, storeVars, tickVars, packetVars,
       ExitsOK, TypeOK
  <2>5. CallerOK'
    BY <1>7 DEF StartTimer, At, objectVars, storeVars, tickVars, packetVars,
       CallerOK, SelfStopNeverEnds, StopCalls, TypeOK
  <2>6. TimerOK'
    BY <1>7 DEF StartTimer, At, objectVars, storeVars, tickVars, packetVars,
       TimerOK, CallOK, TypeOK, Made, StartCalls, StopCalls
  <2>7. BrokenOK'
    BY <1>7 DEF StartTimer, At, objectVars, storeVars, tickVars, packetVars,
       BrokenOK, WorkersOutlived, OnlyLateTimerDangles, OnlyCreateCriesBlind
  <2> QED
    BY <2>1, <2>2, <2>3, <2>4, <2>5, <2>6, <2>7
<1>8. ASSUME broken = "no", StartPost PROVE IInv'
  <2>1. TypeOK'
    BY <1>8 DEF StartPost, At, Return, systemVars, storeVars, tickVars,
       TypeOK, StartCalls, StopCalls, Callers
  <2>2. CallOK'
    BY <1>8 DEF StartPost, At, Return, systemVars, storeVars, tickVars,
       CallOK, TypeOK, Made, StartCalls, StopCalls
  <2>3. ThreadsOK'
    BY <1>8 DEF StartPost, At, Return, systemVars, storeVars, tickVars,
       ThreadsOK, CallOK, TypeOK, Made, Empty, StartCalls, StopCalls
  <2>4. ExitsOK'
    BY <1>8 DEF StartPost, At, Return, systemVars, storeVars, tickVars,
       ExitsOK, TypeOK
  <2>5. CallerOK'
    BY <1>8 DEF StartPost, At, Return, systemVars, storeVars, tickVars,
       CallerOK, SelfStopNeverEnds, StopCalls, TypeOK
  <2>6. TimerOK'
    BY <1>8 DEF StartPost, At, Return, systemVars, storeVars, tickVars,
       TimerOK, CallOK, TypeOK, Made, StartCalls, StopCalls
  <2>7. BrokenOK'
    BY <1>8 DEF StartPost, At, Return, systemVars, storeVars, tickVars,
       BrokenOK, WorkersOutlived, OnlyLateTimerDangles, OnlyCreateCriesBlind
  <2> QED
    BY <2>1, <2>2, <2>3, <2>4, <2>5, <2>6, <2>7
<1>9. ASSUME broken = "no", StopTimer PROVE IInv'
  <2>1. TypeOK'
    BY <1>9 DEF StopTimer, At, Goto, objectVars, storeVars, packetVars,
       TypeOK, StartCalls, StopCalls, Callers
  <2>2. CallOK'
    BY <1>9 DEF StopTimer, At, Goto, objectVars, storeVars, packetVars,
       CallOK, TypeOK, Made, StartCalls, StopCalls
  <2>3. ThreadsOK'
    BY <1>9 DEF StopTimer, At, Goto, objectVars, storeVars, packetVars,
       ThreadsOK, CallOK, TypeOK, Made, Empty, StartCalls, StopCalls
  <2>4. ExitsOK'
    BY <1>9 DEF StopTimer, At, Goto, objectVars, storeVars, packetVars,
       ExitsOK, TypeOK
  <2>5. CallerOK'
    BY <1>9 DEF StopTimer, At, Goto, objectVars, storeVars, packetVars,
       CallerOK, SelfStopNeverEnds, StopCalls, TypeOK
  <2>6. TimerOK'
    BY <1>9 DEF StopTimer, At, Goto, objectVars, storeVars, packetVars,
       TimerOK, CallOK, TypeOK, Made, StartCalls, StopCalls
  <2>7. BrokenOK'
    BY <1>9 DEF StopTimer, At, Goto, objectVars, storeVars, packetVars,
       BrokenOK, WorkersOutlived, OnlyLateTimerDangles, OnlyCreateCriesBlind
  <2> QED
    BY <2>1, <2>2, <2>3, <2>4, <2>5, <2>6, <2>7
<1>10. ASSUME broken = "no", StopPost PROVE IInv'
  <2>1. TypeOK'
    BY <1>10, CountsNat DEF StopPost, At, Goto, objectVars, systemVars,
       storeVars, tickVars, TypeOK, StartCalls, StopCalls, Callers
  <2>2. CallOK'
    BY <1>10 DEF StopPost, At, Goto, objectVars, systemVars, storeVars,
       tickVars, CallOK, TypeOK, Made, StartCalls, StopCalls
  <2>3. ThreadsOK'
    BY <1>10 DEF StopPost, At, Goto, objectVars, systemVars, storeVars,
       tickVars, ThreadsOK, CallOK, TypeOK, Made, Empty, StartCalls, StopCalls
  <2>4. ExitsOK'
    BY <1>10 DEF StopPost, At, Goto, objectVars, systemVars, storeVars,
       tickVars, ExitsOK, TypeOK
  <2>5. CallerOK'
    BY <1>10 DEF StopPost, At, Goto, objectVars, systemVars, storeVars,
       tickVars, CallerOK, SelfStopNeverEnds, StopCalls, TypeOK
  <2>6. TimerOK'
    BY <1>10 DEF StopPost, At, Goto, objectVars, systemVars, storeVars,
       tickVars, TimerOK, CallOK, TypeOK, Made, StartCalls, StopCalls
  <2>7. BrokenOK'
    BY <1>10 DEF StopPost, At, Goto, objectVars, systemVars, storeVars,
       tickVars, BrokenOK, WorkersOutlived, OnlyLateTimerDangles,
       OnlyCreateCriesBlind
  <2> QED
    BY <2>1, <2>2, <2>3, <2>4, <2>5, <2>6, <2>7
<1>11. ASSUME broken = "no", StopWait PROVE IInv'
  <2>a. IsFiniteSet(threads) /\ (Cardinality(threads) = 0 => threads = {})
    BY ThreadsFinite
  <2>b. ASSUME ~overfull, caller \in Workers PROVE FALSE
    <3>1. caller \in threads /\ thread[caller] # "exited"
      BY <2>b DEF CallerOK, ThreadsOK
    <3>2. Cardinality(threads) = count /\ count <= MaxWaitObjects /\ count \in Nat
      BY <1>11, <2>b DEF StopWait, At, ThreadsOK, CallOK, StopCalls, TypeOK
    <3> QED
      BY <1>11, <2>a, <3>1, <3>2 DEF StopWait
  <2>1. TypeOK'
    BY <1>11 DEF StopWait, At, Goto, objectVars, systemVars, storeVars,
       tickVars, packetVars, TypeOK, StartCalls, StopCalls, Callers
  <2>2. CallOK'
    BY <1>11 DEF StopWait, At, Goto, objectVars, systemVars, storeVars,
       tickVars, packetVars, CallOK, TypeOK, Made, StartCalls, StopCalls
  <2>3. ThreadsOK'
    BY <1>11, <2>a DEF StopWait, At, Goto, objectVars, systemVars, storeVars,
       tickVars, packetVars, ThreadsOK, CallOK, TypeOK, Made, Empty,
       StartCalls, StopCalls
  <2>4. ExitsOK'
    BY <1>11 DEF StopWait, At, Goto, objectVars, systemVars, storeVars,
       tickVars, packetVars, ExitsOK, TypeOK
  <2>5. CallerOK'
    BY <1>11, <2>b DEF StopWait, At, Goto, objectVars, systemVars, storeVars,
       tickVars, packetVars, CallerOK, SelfStopNeverEnds, StopCalls, TypeOK,
       ThreadsOK, Callers
  <2>6. TimerOK'
    BY <1>11 DEF StopWait, At, Goto, objectVars, systemVars, storeVars,
       tickVars, packetVars, TimerOK, CallOK, TypeOK, Made, StartCalls,
       StopCalls
  <2>7. BrokenOK'
    BY <1>11 DEF StopWait, At, Goto, objectVars, systemVars, storeVars,
       tickVars, packetVars, BrokenOK, WorkersOutlived, OnlyLateTimerDangles,
       OnlyCreateCriesBlind
  <2> QED
    BY <2>1, <2>2, <2>3, <2>4, <2>5, <2>6, <2>7
<1>12. ASSUME broken = "no", StopClose PROVE IInv'
  <2>b. start_packet' \in BOOLEAN
    BY ONLY <1>12, Zenon DEF StopClose
  <2>1. TypeOK'
    BY <1>12, <2>b DEF StopClose, At, Goto, objectVars, storeVars, tickVars,
       TypeOK, StartCalls, StopCalls, Callers
  <2>2. CallOK'
    BY <1>12 DEF StopClose, At, Goto, objectVars, storeVars, tickVars, CallOK,
       TypeOK, Made, StartCalls, StopCalls
  <2>3. ThreadsOK'
    BY <1>12 DEF StopClose, At, Goto, objectVars, storeVars, tickVars,
       ThreadsOK, CallOK, TypeOK, Made, Empty, StartCalls, StopCalls
  <2>4. ExitsOK'
    BY <1>12 DEF StopClose, At, Goto, objectVars, storeVars, tickVars,
       ExitsOK, TypeOK
  <2>5. CallerOK'
    BY <1>12 DEF StopClose, At, Goto, objectVars, storeVars, tickVars,
       CallerOK, SelfStopNeverEnds, StopCalls, TypeOK, ThreadsOK
  <2>6. TimerOK'
    BY <1>12 DEF StopClose, At, Goto, objectVars, storeVars, tickVars,
       TimerOK, CallOK, TypeOK, Made, StartCalls, StopCalls
  <2>7. BrokenOK'
    BY <1>12 DEF StopClose, At, Goto, objectVars, storeVars, tickVars,
       BrokenOK, WorkersOutlived, OnlyLateTimerDangles, OnlyCreateCriesBlind
  <2> QED
    BY <2>1, <2>2, <2>3, <2>4, <2>5, <2>6, <2>7
<1>13. ASSUME broken = "no", StopFree PROVE IInv'
  <2>1. TypeOK'
    BY <1>13 DEF StopFree, At, Goto, objectVars, systemVars, tickVars,
       packetVars, TypeOK, StartCalls, StopCalls, Callers
  <2>2. CallOK'
    BY <1>13 DEF StopFree, At, Goto, objectVars, systemVars, tickVars,
       packetVars, CallOK, TypeOK, Made, StartCalls, StopCalls
  <2>3. ThreadsOK'
    BY <1>13 DEF StopFree, At, Goto, objectVars, systemVars, tickVars,
       packetVars, ThreadsOK, CallOK, TypeOK, Made, Empty, StartCalls,
       StopCalls
  <2>4. ExitsOK'
    BY <1>13 DEF StopFree, At, Goto, objectVars, systemVars, tickVars,
       packetVars, ExitsOK, TypeOK
  <2>5. CallerOK'
    BY <1>13 DEF StopFree, At, Goto, objectVars, systemVars, tickVars,
       packetVars, CallerOK, SelfStopNeverEnds, StopCalls, TypeOK
  <2>6. TimerOK'
    BY <1>13 DEF StopFree, At, Goto, objectVars, systemVars, tickVars,
       packetVars, TimerOK, CallOK, TypeOK, Made, StartCalls, StopCalls
  <2>7. BrokenOK'
    BY <1>13 DEF StopFree, At, Goto, objectVars, systemVars, tickVars,
       packetVars, BrokenOK, WorkersOutlived, OnlyLateTimerDangles,
       OnlyCreateCriesBlind
  <2> QED
    BY <2>1, <2>2, <2>3, <2>4, <2>5, <2>6, <2>7
<1>14. ASSUME broken = "no", StopReset PROVE IInv'
  <2>1. TypeOK'
    BY <1>14 DEF StopReset, At, systemVars, storeVars, tickVars, packetVars,
       TypeOK, StartCalls, StopCalls, Callers
  <2>2. CallOK'
    BY <1>14 DEF StopReset, At, systemVars, storeVars, tickVars, packetVars,
       CallOK, TypeOK, Made, StartCalls, StopCalls
  <2>3. ThreadsOK'
    BY <1>14 DEF StopReset, At, systemVars, storeVars, tickVars, packetVars,
       ThreadsOK, CallOK, TypeOK, Made, Empty, StartCalls, StopCalls
  <2>4. ExitsOK'
    BY <1>14 DEF StopReset, At, systemVars, storeVars, tickVars, packetVars,
       ExitsOK, TypeOK
  <2>5. CallerOK'
    BY <1>14 DEF StopReset, At, systemVars, storeVars, tickVars, packetVars,
       CallerOK, SelfStopNeverEnds, StopCalls, TypeOK, Callers
  <2>6. TimerOK'
    BY <1>14 DEF StopReset, At, systemVars, storeVars, tickVars, packetVars,
       TimerOK, CallOK, TypeOK, Made, StartCalls, StopCalls
  <2>7. BrokenOK'
    BY <1>14 DEF StopReset, At, systemVars, storeVars, tickVars, packetVars,
       BrokenOK, WorkersOutlived, OnlyLateTimerDangles, OnlyCreateCriesBlind
  <2> QED
    BY <2>1, <2>2, <2>3, <2>4, <2>5, <2>6, <2>7
<1>15. ASSUME broken = "no", EnumStart PROVE IInv'
  <2>1. TypeOK'
    BY <1>15 DEF EnumStart, objectVars, systemVars, tickVars, packetVars,
       TypeOK, StartCalls, StopCalls, Callers
  <2>2. CallOK'
    BY <1>15 DEF EnumStart, objectVars, systemVars, tickVars, packetVars,
       CallOK, TypeOK, Made, StartCalls, StopCalls
  <2>3. ThreadsOK'
    BY <1>15 DEF EnumStart, objectVars, systemVars, tickVars, packetVars,
       ThreadsOK, CallOK, TypeOK, Made, Empty, StartCalls, StopCalls
  <2>4. ExitsOK'
    BY <1>15 DEF EnumStart, objectVars, systemVars, tickVars, packetVars,
       ExitsOK, TypeOK
  <2>5. CallerOK'
    BY <1>15 DEF EnumStart, objectVars, systemVars, tickVars, packetVars,
       CallerOK, SelfStopNeverEnds, StopCalls, TypeOK
  <2>6. TimerOK'
    BY <1>15 DEF EnumStart, objectVars, systemVars, tickVars, packetVars,
       TimerOK, CallOK, TypeOK, Made, StartCalls, StopCalls
  <2>7. BrokenOK'
    BY <1>15 DEF EnumStart, objectVars, systemVars, tickVars, packetVars,
       BrokenOK, WorkersOutlived, OnlyLateTimerDangles, OnlyCreateCriesBlind
  <2> QED
    BY <2>1, <2>2, <2>3, <2>4, <2>5, <2>6, <2>7
<1>16. ASSUME broken = "no", EnumEnd PROVE IInv'
  <2>1. TypeOK'
    BY <1>16 DEF EnumEnd, At, Return, objectVars, systemVars, tickVars,
       packetVars, TypeOK, StartCalls, StopCalls, Callers
  <2>2. CallOK'
    BY <1>16 DEF EnumEnd, At, Return, objectVars, systemVars, tickVars,
       packetVars, CallOK, TypeOK, Made, StartCalls, StopCalls
  <2>3. ThreadsOK'
    BY <1>16 DEF EnumEnd, At, Return, objectVars, systemVars, tickVars,
       packetVars, ThreadsOK, CallOK, TypeOK, Made, Empty, StartCalls,
       StopCalls
  <2>4. ExitsOK'
    BY <1>16 DEF EnumEnd, At, Return, objectVars, systemVars, tickVars,
       packetVars, ExitsOK, TypeOK
  <2>5. CallerOK'
    BY <1>16 DEF EnumEnd, At, Return, objectVars, systemVars, tickVars,
       packetVars, CallerOK, SelfStopNeverEnds, StopCalls, TypeOK
  <2>6. TimerOK'
    BY <1>16 DEF EnumEnd, At, Return, objectVars, systemVars, tickVars,
       packetVars, TimerOK, CallOK, TypeOK, Made, StartCalls, StopCalls
  <2>7. BrokenOK'
    BY <1>16 DEF EnumEnd, At, Return, objectVars, systemVars, tickVars,
       packetVars, BrokenOK, WorkersOutlived, OnlyLateTimerDangles,
       OnlyCreateCriesBlind
  <2> QED
    BY <2>1, <2>2, <2>3, <2>4, <2>5, <2>6, <2>7
<1>17. ASSUME broken = "no", TimerFires PROVE IInv'
  <2>b. tick_late' \in BOOLEAN
    BY ONLY <1>17, Zenon DEF TimerFires
  <2>1. TypeOK'
    BY <1>17, <2>b DEF TimerFires, objectVars, systemVars, storeVars,
       callVars, packetVars, TypeOK, StartCalls, StopCalls, Callers
  <2>2. CallOK'
    BY <1>17 DEF TimerFires, objectVars, systemVars, storeVars, callVars,
       packetVars, CallOK, TypeOK, Made, StartCalls, StopCalls
  <2>3. ThreadsOK'
    BY <1>17 DEF TimerFires, objectVars, systemVars, storeVars, callVars,
       packetVars, ThreadsOK, CallOK, TypeOK, Made, Empty, StartCalls,
       StopCalls
  <2>4. ExitsOK'
    BY <1>17 DEF TimerFires, objectVars, systemVars, storeVars, callVars,
       packetVars, ExitsOK, TypeOK
  <2>5. CallerOK'
    BY <1>17 DEF TimerFires, objectVars, systemVars, storeVars, callVars,
       packetVars, CallerOK, SelfStopNeverEnds, StopCalls, TypeOK
  <2>6. TimerOK'
    BY <1>17 DEF TimerFires, objectVars, systemVars, storeVars, callVars,
       packetVars, TimerOK, CallOK, TypeOK, Made, StartCalls, StopCalls
  <2>7. BrokenOK'
    BY <1>17 DEF TimerFires, objectVars, systemVars, storeVars, callVars,
       packetVars, BrokenOK, WorkersOutlived, OnlyLateTimerDangles,
       OnlyCreateCriesBlind
  <2> QED
    BY <2>1, <2>2, <2>3, <2>4, <2>5, <2>6, <2>7
<1>18. ASSUME broken = "no", TimerReads PROVE IInv'
  <2>1. TypeOK'
    BY <1>18 DEF TimerReads, objectVars, systemVars, storeVars, callVars,
       tickVars, packetVars, TypeOK, StartCalls, StopCalls, Callers
  <2>2. CallOK'
    BY <1>18 DEF TimerReads, objectVars, systemVars, storeVars, callVars,
       tickVars, packetVars, CallOK, TypeOK, Made, StartCalls, StopCalls
  <2>3. ThreadsOK'
    BY <1>18 DEF TimerReads, objectVars, systemVars, storeVars, callVars,
       tickVars, packetVars, ThreadsOK, CallOK, TypeOK, Made, Empty,
       StartCalls, StopCalls
  <2>4. ExitsOK'
    BY <1>18 DEF TimerReads, objectVars, systemVars, storeVars, callVars,
       tickVars, packetVars, ExitsOK, TypeOK
  <2>5. CallerOK'
    BY <1>18 DEF TimerReads, objectVars, systemVars, storeVars, callVars,
       tickVars, packetVars, CallerOK, SelfStopNeverEnds, StopCalls, TypeOK
  <2>6. TimerOK'
    BY <1>18 DEF TimerReads, objectVars, systemVars, storeVars, callVars,
       tickVars, packetVars, TimerOK, CallOK, TypeOK, Made, StartCalls,
       StopCalls
  <2>7. BrokenOK'
    BY <1>18 DEF TimerReads, objectVars, systemVars, storeVars, callVars,
       tickVars, packetVars, BrokenOK, WorkersOutlived, OnlyLateTimerDangles,
       OnlyCreateCriesBlind, TimerOK
  <2> QED
    BY <2>1, <2>2, <2>3, <2>4, <2>5, <2>6, <2>7
<1>19. ASSUME broken = "no", TimerEnters PROVE IInv'
  <2>1. TypeOK'
    BY <1>19 DEF TimerEnters, objectVars, systemVars, callVars, packetVars,
       TypeOK, StartCalls, StopCalls, Callers
  <2>2. CallOK'
    BY <1>19 DEF TimerEnters, objectVars, systemVars, callVars, packetVars,
       CallOK, TypeOK, Made, StartCalls, StopCalls
  <2>3. ThreadsOK'
    BY <1>19 DEF TimerEnters, objectVars, systemVars, callVars, packetVars,
       ThreadsOK, CallOK, TypeOK, Made, Empty, StartCalls, StopCalls
  <2>4. ExitsOK'
    BY <1>19 DEF TimerEnters, objectVars, systemVars, callVars, packetVars,
       ExitsOK, TypeOK
  <2>5. CallerOK'
    BY <1>19 DEF TimerEnters, objectVars, systemVars, callVars, packetVars,
       CallerOK, SelfStopNeverEnds, StopCalls, TypeOK
  <2>6. TimerOK'
    BY <1>19 DEF TimerEnters, objectVars, systemVars, callVars, packetVars,
       TimerOK, CallOK, TypeOK, Made, StartCalls, StopCalls
  <2>7. BrokenOK'
    BY <1>19 DEF TimerEnters, objectVars, systemVars, callVars, packetVars,
       BrokenOK, WorkersOutlived, OnlyLateTimerDangles, OnlyCreateCriesBlind,
       TimerOK
  <2> QED
    BY <2>1, <2>2, <2>3, <2>4, <2>5, <2>6, <2>7
<1>20. ASSUME broken = "no", TimerLeaves PROVE IInv'
  <2>b. tick_late' \in BOOLEAN
    BY ONLY <1>20, TypeOK, Zenon DEF TimerLeaves, TypeOK
  <2>1. TypeOK'
    BY <1>20, <2>b DEF TimerLeaves, objectVars, systemVars, callVars,
       packetVars, TypeOK, StartCalls, StopCalls, Callers
  <2>2. CallOK'
    BY <1>20 DEF TimerLeaves, objectVars, systemVars, callVars, packetVars,
       CallOK, TypeOK, Made, StartCalls, StopCalls
  <2>3. ThreadsOK'
    BY <1>20 DEF TimerLeaves, objectVars, systemVars, callVars, packetVars,
       ThreadsOK, CallOK, TypeOK, Made, Empty, StartCalls, StopCalls
  <2>4. ExitsOK'
    BY <1>20 DEF TimerLeaves, objectVars, systemVars, callVars, packetVars,
       ExitsOK, TypeOK
  <2>5. CallerOK'
    BY <1>20 DEF TimerLeaves, objectVars, systemVars, callVars, packetVars,
       CallerOK, SelfStopNeverEnds, StopCalls, TypeOK
  <2>6. TimerOK'
    BY <1>20 DEF TimerLeaves, objectVars, systemVars, callVars, packetVars,
       TimerOK, CallOK, TypeOK, Made, StartCalls, StopCalls
  <2>7. BrokenOK'
    BY <1>20 DEF TimerLeaves, objectVars, systemVars, callVars, packetVars,
       BrokenOK, WorkersOutlived, OnlyLateTimerDangles, OnlyCreateCriesBlind,
       TimerOK
  <2> QED
    BY <2>1, <2>2, <2>3, <2>4, <2>5, <2>6, <2>7
<1>21. ASSUME NEW by \in Callers, broken = "no", Stop(by) PROVE IInv'
  <2>1. TypeOK'
    BY <1>21 DEF Stop, MayStop, objectVars, systemVars, storeVars, tickVars,
       packetVars, TypeOK, StartCalls, StopCalls, Callers
  <2>2. CallOK'
    BY <1>21 DEF Stop, MayStop, objectVars, systemVars, storeVars, tickVars,
       packetVars, CallOK, TypeOK, Made, StartCalls, StopCalls
  <2>3. ThreadsOK'
    BY <1>21 DEF Stop, MayStop, objectVars, systemVars, storeVars, tickVars,
       packetVars, ThreadsOK, CallOK, TypeOK, Made, Empty, StartCalls,
       StopCalls
  <2>4. ExitsOK'
    BY <1>21 DEF Stop, MayStop, objectVars, systemVars, storeVars, tickVars,
       packetVars, ExitsOK, TypeOK
  <2>5. CallerOK'
    BY <1>21 DEF Stop, MayStop, objectVars, systemVars, storeVars, tickVars,
       packetVars, CallerOK, SelfStopNeverEnds, StopCalls, TypeOK, MayStop
  <2>6. TimerOK'
    BY <1>21 DEF Stop, MayStop, objectVars, systemVars, storeVars, tickVars,
       packetVars, TimerOK, CallOK, TypeOK, Made, StartCalls, StopCalls
  <2>7. BrokenOK'
    BY <1>21 DEF Stop, MayStop, objectVars, systemVars, storeVars, tickVars,
       packetVars, BrokenOK, WorkersOutlived, OnlyLateTimerDangles,
       OnlyCreateCriesBlind
  <2> QED
    BY <2>1, <2>2, <2>3, <2>4, <2>5, <2>6, <2>7
<1>22. ASSUME NEW w \in Workers, broken = "no", WorkerNoPort(w) PROVE IInv'
  <2>1. TypeOK'
    BY <1>22 DEF WorkerNoPort, Becomes, objectVars, systemVars, storeVars,
       callVars, tickVars, packetVars, TypeOK, StartCalls, StopCalls, Callers
  <2>2. CallOK'
    BY <1>22 DEF WorkerNoPort, Becomes, objectVars, systemVars, storeVars,
       callVars, tickVars, packetVars, CallOK, TypeOK, Made, StartCalls,
       StopCalls
  <2>3. ThreadsOK'
    BY <1>22 DEF WorkerNoPort, Becomes, objectVars, systemVars, storeVars,
       callVars, tickVars, packetVars, ThreadsOK, CallOK, TypeOK, Made, Empty,
       StartCalls, StopCalls
  <2>4. ExitsOK'
    BY <1>22 DEF WorkerNoPort, Becomes, objectVars, systemVars, storeVars,
       callVars, tickVars, packetVars, ExitsOK, TypeOK
  <2>5. CallerOK'
    BY <1>22 DEF WorkerNoPort, Becomes, objectVars, systemVars, storeVars,
       callVars, tickVars, packetVars, CallerOK, SelfStopNeverEnds, StopCalls,
       TypeOK
  <2>6. TimerOK'
    BY <1>22 DEF WorkerNoPort, Becomes, objectVars, systemVars, storeVars,
       callVars, tickVars, packetVars, TimerOK, CallOK, TypeOK, Made,
       StartCalls, StopCalls
  <2>7. BrokenOK'
    BY <1>22 DEF WorkerNoPort, Becomes, objectVars, systemVars, storeVars,
       callVars, tickVars, packetVars, BrokenOK, WorkersOutlived,
       OnlyLateTimerDangles, OnlyCreateCriesBlind
  <2> QED
    BY <2>1, <2>2, <2>3, <2>4, <2>5, <2>6, <2>7
<1>23. ASSUME NEW w \in Workers, broken = "no", WorkerStartPacket(w) PROVE IInv'
  <2>b. start_packet' \in BOOLEAN
    BY ONLY <1>23, Zenon DEF WorkerStartPacket
  <2>1. TypeOK'
    BY <1>23, <2>b DEF WorkerStartPacket, objectVars, systemVars, storeVars,
       callVars, tickVars, TypeOK, StartCalls, StopCalls, Callers
  <2>2. CallOK'
    BY <1>23 DEF WorkerStartPacket, objectVars, systemVars, storeVars,
       callVars, tickVars, CallOK, TypeOK, Made, StartCalls, StopCalls
  <2>3. ThreadsOK'
    BY <1>23 DEF WorkerStartPacket, objectVars, systemVars, storeVars,
       callVars, tickVars, ThreadsOK, CallOK, TypeOK, Made, Empty, StartCalls,
       StopCalls
  <2>4. ExitsOK'
    BY <1>23 DEF WorkerStartPacket, objectVars, systemVars, storeVars,
       callVars, tickVars, ExitsOK, TypeOK
  <2>5. CallerOK'
    BY <1>23 DEF WorkerStartPacket, objectVars, systemVars, storeVars,
       callVars, tickVars, CallerOK, SelfStopNeverEnds, StopCalls, TypeOK
  <2>6. TimerOK'
    BY <1>23 DEF WorkerStartPacket, objectVars, systemVars, storeVars,
       callVars, tickVars, TimerOK, CallOK, TypeOK, Made, StartCalls,
       StopCalls
  <2>7. BrokenOK'
    BY <1>23 DEF WorkerStartPacket, objectVars, systemVars, storeVars,
       callVars, tickVars, BrokenOK, WorkersOutlived, OnlyLateTimerDangles,
       OnlyCreateCriesBlind
  <2> QED
    BY <2>1, <2>2, <2>3, <2>4, <2>5, <2>6, <2>7
<1>24. ASSUME NEW w \in Workers, broken = "no", WorkerStopPacket(w) PROVE IInv'
  <2>1. TypeOK'
    BY <1>24 DEF WorkerStopPacket, Becomes, objectVars, systemVars, storeVars,
       callVars, tickVars, TypeOK, StartCalls, StopCalls, Callers
  <2>2. CallOK'
    BY <1>24 DEF WorkerStopPacket, Becomes, objectVars, systemVars, storeVars,
       callVars, tickVars, CallOK, TypeOK, Made, StartCalls, StopCalls
  <2>3. ThreadsOK'
    BY <1>24 DEF WorkerStopPacket, Becomes, objectVars, systemVars, storeVars,
       callVars, tickVars, ThreadsOK, CallOK, TypeOK, Made, Empty, StartCalls,
       StopCalls
  <2>4. ExitsOK'
    BY <1>24 DEF WorkerStopPacket, Becomes, objectVars, systemVars, storeVars,
       callVars, tickVars, ExitsOK, TypeOK
  <2>5. CallerOK'
    BY <1>24 DEF WorkerStopPacket, Becomes, objectVars, systemVars, storeVars,
       callVars, tickVars, CallerOK, SelfStopNeverEnds, StopCalls, TypeOK
  <2>6. TimerOK'
    BY <1>24 DEF WorkerStopPacket, Becomes, objectVars, systemVars, storeVars,
       callVars, tickVars, TimerOK, CallOK, TypeOK, Made, StartCalls,
       StopCalls
  <2>7. BrokenOK'
    BY <1>24 DEF WorkerStopPacket, Becomes, objectVars, systemVars, storeVars,
       callVars, tickVars, BrokenOK, WorkersOutlived, OnlyLateTimerDangles,
       OnlyCreateCriesBlind
  <2> QED
    BY <2>1, <2>2, <2>3, <2>4, <2>5, <2>6, <2>7
<1>25. ASSUME NEW w \in Workers, broken = "no", WorkerPacket(w) PROVE IInv'
  <2>1. TypeOK'
    BY <1>25 DEF WorkerPacket, Becomes, objectVars, systemVars, storeVars,
       callVars, tickVars, TypeOK, StartCalls, StopCalls, Callers
  <2>2. CallOK'
    BY <1>25 DEF WorkerPacket, Becomes, objectVars, systemVars, storeVars,
       callVars, tickVars, CallOK, TypeOK, Made, StartCalls, StopCalls
  <2>3. ThreadsOK'
    BY <1>25 DEF WorkerPacket, Becomes, objectVars, systemVars, storeVars,
       callVars, tickVars, ThreadsOK, CallOK, TypeOK, Made, Empty, StartCalls,
       StopCalls
  <2>4. ExitsOK'
    BY <1>25 DEF WorkerPacket, Becomes, objectVars, systemVars, storeVars,
       callVars, tickVars, ExitsOK, TypeOK
  <2>5. CallerOK'
    BY <1>25 DEF WorkerPacket, Becomes, objectVars, systemVars, storeVars,
       callVars, tickVars, CallerOK, SelfStopNeverEnds, StopCalls, TypeOK
  <2>6. TimerOK'
    BY <1>25 DEF WorkerPacket, Becomes, objectVars, systemVars, storeVars,
       callVars, tickVars, TimerOK, CallOK, TypeOK, Made, StartCalls,
       StopCalls
  <2>7. BrokenOK'
    BY <1>25 DEF WorkerPacket, Becomes, objectVars, systemVars, storeVars,
       callVars, tickVars, BrokenOK, WorkersOutlived, OnlyLateTimerDangles,
       OnlyCreateCriesBlind
  <2> QED
    BY <2>1, <2>2, <2>3, <2>4, <2>5, <2>6, <2>7
<1>26. ASSUME NEW w \in Workers, broken = "no", WorkerStorage(w) PROVE IInv'
  <2>1. TypeOK'
    BY <1>26 DEF WorkerStorage, Becomes, objectVars, systemVars, storeVars,
       callVars, tickVars, packetVars, TypeOK, StartCalls, StopCalls, Callers
  <2>2. CallOK'
    BY <1>26 DEF WorkerStorage, Becomes, objectVars, systemVars, storeVars,
       callVars, tickVars, packetVars, CallOK, TypeOK, Made, StartCalls,
       StopCalls
  <2>3. ThreadsOK'
    BY <1>26 DEF WorkerStorage, Becomes, objectVars, systemVars, storeVars,
       callVars, tickVars, packetVars, ThreadsOK, CallOK, TypeOK, Made, Empty,
       StartCalls, StopCalls
  <2>4. ExitsOK'
    BY <1>26 DEF WorkerStorage, Becomes, objectVars, systemVars, storeVars,
       callVars, tickVars, packetVars, ExitsOK, TypeOK
  <2>5. CallerOK'
    BY <1>26 DEF WorkerStorage, Becomes, objectVars, systemVars, storeVars,
       callVars, tickVars, packetVars, CallerOK, SelfStopNeverEnds, StopCalls,
       TypeOK
  <2>6. TimerOK'
    BY <1>26 DEF WorkerStorage, Becomes, objectVars, systemVars, storeVars,
       callVars, tickVars, packetVars, TimerOK, CallOK, TypeOK, Made,
       StartCalls, StopCalls
  <2>7. BrokenOK'
    BY <1>26 DEF WorkerStorage, Becomes, objectVars, systemVars, storeVars,
       callVars, tickVars, packetVars, BrokenOK, WorkersOutlived,
       OnlyLateTimerDangles, OnlyCreateCriesBlind, ThreadsOK, CallOK, Made,
       Empty, TypeOK, StartCalls, StopCalls
  <2> QED
    BY <2>1, <2>2, <2>3, <2>4, <2>5, <2>6, <2>7
<1>27. ASSUME NEW w \in Workers, broken = "no", WorkerReturns(w) PROVE IInv'
  <2>1. TypeOK'
    BY <1>27 DEF WorkerReturns, Becomes, objectVars, systemVars, storeVars,
       callVars, tickVars, TypeOK, StartCalls, StopCalls, Callers
  <2>2. CallOK'
    BY <1>27 DEF WorkerReturns, Becomes, objectVars, systemVars, storeVars,
       callVars, tickVars, CallOK, TypeOK, Made, StartCalls, StopCalls
  <2>3. ThreadsOK'
    BY <1>27 DEF WorkerReturns, Becomes, objectVars, systemVars, storeVars,
       callVars, tickVars, ThreadsOK, CallOK, TypeOK, Made, Empty, StartCalls,
       StopCalls
  <2>4. ExitsOK'
    BY <1>27 DEF WorkerReturns, Becomes, objectVars, systemVars, storeVars,
       callVars, tickVars, ExitsOK, TypeOK
  <2>5. CallerOK'
    BY <1>27 DEF WorkerReturns, Becomes, objectVars, systemVars, storeVars,
       callVars, tickVars, CallerOK, SelfStopNeverEnds, StopCalls, TypeOK
  <2>6. TimerOK'
    BY <1>27 DEF WorkerReturns, Becomes, objectVars, systemVars, storeVars,
       callVars, tickVars, TimerOK, CallOK, TypeOK, Made, StartCalls,
       StopCalls
  <2>7. BrokenOK'
    BY <1>27 DEF WorkerReturns, Becomes, objectVars, systemVars, storeVars,
       callVars, tickVars, BrokenOK, WorkersOutlived, OnlyLateTimerDangles,
       OnlyCreateCriesBlind
  <2> QED
    BY <2>1, <2>2, <2>3, <2>4, <2>5, <2>6, <2>7
<1>28. CASE UNCHANGED vars
  <2> USE <1>28 DEF vars, objectVars, systemVars, storeVars, callVars, tickVars,
          packetVars
  <2>1. TypeOK' /\ CallOK' /\ ExitsOK'
    BY DEF TypeOK, CallOK, ExitsOK, Made
  <2>2. ThreadsOK' /\ CallerOK'
    BY DEF ThreadsOK, CallerOK, SelfStopNeverEnds, Empty
  <2>3. TimerOK' /\ BrokenOK'
    BY DEF TimerOK, BrokenOK, WorkersOutlived, OnlyLateTimerDangles,
       OnlyCreateCriesBlind
  <2> QED
    BY <2>1, <2>2, <2>3
<1> QED
  BY <1>1, <1>2, <1>3, <1>4, <1>5, <1>6, <1>7, <1>8, <1>9, <1>10,
     <1>11, <1>12, <1>13, <1>14, <1>15, <1>16, <1>17, <1>18, <1>19, <1>20,
     <1>21, <1>22, <1>23, <1>24, <1>25, <1>26, <1>27, <1>28
     DEF Next, StartSteps, StopSteps, TimerSteps, Worker

------------------------------------------------------------------------------
LEMMA SpecInv == Spec => []IInv
BY InitInv, StepInv, PTL DEF Spec

\* Every variable keeps its range.
THEOREM TypeCorrect == Spec => []TypeOK
BY SpecInv, PTL DEF IInv

\* qs_stop frees the storage (line 546) when no worker is left that could use
\* it, unless line 537 cannot wait for that many threads.
THEOREM Outlived == Spec => []WorkersOutlived
BY SpecInv, PTL DEF IInv, BrokenOK

\* Only a callback of the timer that had begun before line 528 deleted the
\* timer can touch what qs_stop and qs_delete free.
THEOREM LateTimer == Spec => []OnlyLateTimerDangles
BY SpecInv, PTL DEF IInv, BrokenOK

\* The callback that cry reads (lines 182-204) is set, except in a qs_create
\* that fails.
THEOREM BlindCry == Spec => []OnlyCreateCriesBlind
BY SpecInv, PTL DEF IInv, BrokenOK

\* A thread finds the parameters, the storage and the listener made before it,
\* whatever the order in which the threads of qs_start run.
THEOREM FoundServer == Spec => []ThreadsFindServer
<1>1. IInv => ThreadsFindServer
  BY DEF IInv, ThreadsOK, TimerOK, ThreadsFindServer
<1> QED
  BY SpecInv, <1>1, PTL

\* A server that reports success and has an open port has its storage, its
\* listener and all its workers.
THEOREM Works == Spec => []ServingWorks
<1>1. ASSUME IInv, Serving PROVE ServingWorks
  <2>1. Made /\ call \notin StopCalls
    BY <1>1 DEF Serving, Stopping, Made, StopCalls
  <2>2. /\ storage \in live /\ listener = "open"
        /\ Cardinality(threads) = count
    BY <1>1, <2>1 DEF IInv, CallOK, ThreadsOK, Serving, StopCalls
  <2>3. \A w \in threads : thread[w] # "exited"
    BY <1>1, <2>1 DEF IInv, ExitsOK, TypeOK, Serving, StopCalls
  <2> QED
    BY <2>2, <2>3 DEF ServingWorks
<1>2. IInv => ServingWorks
  BY <1>1 DEF ServingWorks
<1> QED
  BY SpecInv, <1>2, PTL

\* A worker that calls qs_stop from its callback waits on line 537 for ever.
THEOREM SelfStop == Spec => []SelfStopNeverEnds
BY SpecInv, PTL DEF IInv, CallerOK

------------------------------------------------------------------------------
\* The state of the server in the contract.
Server == IF instance = "none" \/ call = "create" THEN "none"
          ELSE IF Serving THEN "serving"
          ELSE IF port = "open" /\ wsa > 0 /\ ~ Stopping THEN "created"
          ELSE "spent"

Moves(from, to) == Server = from /\ Server' = to

ContractStep == \/ Moves("none", "created")
                \/ Moves("created", "serving")
                \/ Moves("created", "spent") \/ Moves("serving", "spent")
                \/ Moves("created", "none") \/ Moves("spent", "none")

LEMMA StepServer ==
  ASSUME IInv, [Next]_vars
  PROVE  ContractStep \/ UNCHANGED Server
<1> USE DEF Server, Serving, Stopping, StopCalls, StartCalls, IInv
<1>1. CASE broken = "no" /\ Create
  BY <1>1 DEF Create, CallOK, TypeOK, Moves, ContractStep
<1>2. CASE broken = "no" /\ Delete
  BY <1>2 DEF Delete, CallOK, callVars, Moves, ContractStep
<1>3. CASE broken = "no" /\ Start
  <2>1. wsa \in Nat
    BY DEF TypeOK
  <2>2. /\ instance = "allocated" /\ status = "not_runned" /\ call = "none"
        /\ UNCHANGED <<instance, status, port>>
        /\ call' \in {"none", "start_bind"}
    BY <1>3 DEF Start
  <2>3. wsa' = wsa \/ wsa' = IF wsa > 0 THEN wsa - 1 ELSE 0
    BY ONLY <1>3, Zenon DEF Start
  <2> QED
    BY <2>1, <2>2, <2>3 DEF Moves, ContractStep
<1>4. CASE broken = "no" /\ StartPost
  BY <1>4 DEF StartPost, At, Return, systemVars, CallOK, Moves, ContractStep
<1>5. CASE broken = "no" /\ (\E by \in Callers : Stop(by))
  BY <1>5 DEF Stop, MayStop, objectVars, systemVars, CallOK, Moves, ContractStep
<1>6. CASE broken = "no" /\ StopClose
  BY <1>6 DEF StopClose, At, Goto, objectVars, CallOK
<1>7. CASE broken = "no" /\ StopReset
  BY <1>7 DEF StopReset, At, systemVars, CallOK
<1>8. CASE broken = "no" /\ (StopTimer \/ StopPost \/ StopWait \/ StopFree)
  BY <1>8 DEF StopTimer, StopPost, StopWait, StopFree, At, Goto, objectVars,
     systemVars, CallOK
<1>9. CASE broken = "no" /\ (StartBind \/ StartStorage \/ StartThread \/ StartTimer)
  BY <1>9 DEF StartBind, StartStorage, StartThread, StartTimer, At, Goto, Return,
     objectVars, systemVars, callVars, CallOK
<1>10. CASE broken = "no" /\ (EnumStart \/ EnumEnd)
  BY <1>10 DEF EnumStart, EnumEnd, At, Return, objectVars, systemVars
<1>11. CASE broken = "no" /\ (TimerFires \/ TimerSteps)
  BY <1>11 DEF TimerFires, TimerSteps, TimerReads, TimerEnters, TimerLeaves,
     objectVars, systemVars, callVars
<1>12. CASE broken = "no" /\ (\E w \in Workers : Worker(w))
  BY <1>12 DEF Worker, WorkerNoPort, WorkerStartPacket, WorkerStopPacket,
     WorkerPacket, WorkerStorage, WorkerReturns, objectVars, systemVars, callVars
<1>13. CASE UNCHANGED vars
  BY <1>13 DEF vars, objectVars, systemVars, callVars
<1> QED
  BY <1>1, <1>2, <1>3, <1>4, <1>5, <1>6, <1>7, <1>8, <1>9, <1>10, <1>11, <1>12,
     <1>13 DEF Next, StartSteps, StopSteps

\* A server serves once: what qs_start and qs_stop do, with every step of the
\* threads and the timer, implements ServerContract.
THEOREM Refinement == Spec => ServesOnce
<1>1. Init => Contract!Init
  BY DEF Init, Contract!Init
<1>2. ContractStep \/ UNCHANGED Server => [Contract!Next]_Server
  BY DEF ContractStep, Moves, Server, Contract!Next, Contract!Create,
     Contract!Serve, Contract!Spend, Contract!Delete
<1>3. IInv /\ [Next]_vars => [Contract!Next]_Server
  BY StepServer, <1>2
<1> QED
  BY SpecInv, <1>1, <1>3, PTL DEF Spec, ServesOnce, Contract!Spec, Server

==============================================================================
