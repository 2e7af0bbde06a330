-------------------------- MODULE Lifecycle_proofs --------------------------
(* Proofs about Lifecycle: its safety properties, for any number of requests,*)
(* signals and faults.                                                       *)
EXTENDS Lifecycle, TLAPS

USE LifecycleAssumption

(* The invariant that ties every thread, the socket and the pool to the      *)
(* place main() has reached holds at the start and is kept by every step.    *)
LEMMA Inductive == Spec => []LInv
<1>1. Init => LInv
  BY DEF Init, LInv, TypeOK, CleanExit, DeafOnlyIfEarly, JoinsNeedSignal,
         ThreadsFollowMain, PoolFollowsMain, SocketFollowsMain,
         WatcherSawFlag, EarlyKnown, Starting, Leaving, Alive, ShuttingDown, Running, Up, Unstopped
<1>2. LInv /\ [Next]_vars => LInv'
  <2> SUFFICES ASSUME LInv, [Next]_vars PROVE LInv'
    OBVIOUS
  <2> USE DEF LInv, TypeOK, CleanExit, DeafOnlyIfEarly, JoinsNeedSignal,
              ThreadsFollowMain, PoolFollowsMain, SocketFollowsMain,
              WatcherSawFlag, EarlyKnown, Starting, Leaving, Alive, ShuttingDown, Running, Up, Unstopped
  <2> USE DEF server, threads, outside, Exits, Fault, Caught
  <2>1. CASE Boot \/ Spawn \/ Bind \/ Listen
    <3>1. CASE Boot
      BY <3>1 DEF Boot
    <3>2. CASE Spawn
      BY <3>2 DEF Spawn
    <3>3. CASE Bind
      BY <3>3 DEF Bind
    <3>4. CASE Listen
      BY <3>4 DEF Listen
    <3>5. QED
      BY <2>1, <3>1, <3>2, <3>3, <3>4
  <2>2. CASE SocketClosed \/ Drain
    <3>1. CASE SocketClosed
      BY <3>1 DEF SocketClosed
    <3>2. CASE Drain
      BY <3>2 DEF Drain, Drained
    <3>3. QED
      BY <2>2, <3>1, <3>2
  <2>3. CASE JoinWatcher
    BY <2>3 DEF JoinWatcher
  <2>4. CASE JoinIngester
    BY <2>4 DEF JoinIngester
  <2>5. CASE Watcher
    <3>1. CASE WatcherWakes
      BY <3>1 DEF WatcherWakes
    <3>2. CASE StopServer
      <4>1. main \in Starting => signal \subseteq {"early"}
        OBVIOUS
      <4>2. signal # {}
        BY <3>2 DEF StopServer
      <4>3. main \in Starting => "early" \in signal /\ "heard" \notin signal
        BY <4>1, <4>2
      <4>4. socket' = "open" => main \in Starting
        BY <3>2 DEF StopServer, Stoppable
      <4>5. DeafOnlyIfEarly'
        BY <3>2, <4>3, <4>4 DEF StopServer
      <4>6. QED
        BY <3>2, <4>5 DEF StopServer, Stoppable
    <3>3. QED
      BY <2>5, <3>1, <3>2 DEF Watcher
  <2>6. CASE YpThread
    <3>1. CASE Settle \/ CycleEnds \/ Wake
      <4>1. /\ UNCHANGED <<main, server, exit, signal, watcher, outside>>
            /\ Alive /\ ingester \in {"settle", "cycle", "nap"}
            /\ ingester' \in {"check", "nap"}
        BY <3>1 DEF Settle, CycleEnds, Wake
      <4>2. QED
        BY <4>1
    <3>2. CASE CheckFlag
      BY <3>2 DEF CheckFlag, LoopAgain
    <3>3. QED
      BY <2>6, <3>1, <3>2 DEF YpThread
  <2>7. CASE BootFails
    BY <2>7 DEF BootFails
  <2>8. CASE BindFails \/ AcceptFails \/ Crash
    <3>1. CASE BindFails
      BY <3>1 DEF BindFails
    <3>2. CASE AcceptFails
      BY <3>2 DEF AcceptFails
    <3>3. CASE Crash
      BY <3>3 DEF Crash
    <3>4. QED
      BY <2>8, <3>1, <3>2, <3>3
  <2>9. CASE Accept
    BY <2>9 DEF Accept
  <2>10. CASE Answer
    BY <2>10 DEF Answer
  <2>11. CASE Terminate \/ Reload
    <3>1. CASE Terminate
      BY <3>1 DEF Terminate
    <3>2. CASE Reload
      BY <3>2 DEF Reload
    <3>3. QED
      BY <2>11, <3>1, <3>2
  <2>12. CASE StopTimesOut \/ Supervise
    <3>1. CASE StopTimesOut
      BY <3>1 DEF StopTimesOut
    <3>2. CASE Supervise
      <4>1. CASE Restarts
        BY <3>2, <4>1 DEF Supervise
      <4>2. CASE ~ Restarts
        BY <3>2, <4>2 DEF Supervise
      <4>3. QED
        BY <4>1, <4>2
    <3>3. QED
      BY <2>12, <3>1, <3>2
  <2>13. CASE UNCHANGED vars
    BY <2>13 DEF vars
  <2>14. QED
    BY <2>1, <2>2, <2>3, <2>4, <2>5, <2>6, <2>7, <2>8, <2>9, <2>10, <2>11,
       <2>12, <2>13 DEF Next, MainThread, Failures
<1>3. QED
  BY <1>1, <1>2, PTL DEF Spec

(* Every thread is at one of its points.                                     *)
THEOREM LifecycleTypes == Spec => []TypeOK
BY Inductive, PTL DEF LInv

(* A process that returns from main() has answered what it accepted and      *)
(* joined what it started.                                                   *)
THEOREM ExitsClean == Spec => []CleanExit
BY Inductive, PTL DEF LInv

(* Only a server that was signalled before it ran is deaf, to that signal    *)
(* and to all that follow.                                                   *)
THEOREM DeafnessExplained == Spec => []DeafOnlyIfEarly
BY Inductive, PTL DEF LInv

(* Without a signal, main() never gets past the join of the watcher.         *)
THEOREM EndNeedsSignal == Spec => []JoinsNeedSignal
BY Inductive, PTL DEF LInv

=============================================================================
