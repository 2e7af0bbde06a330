----------------------------- MODULE Lifecycle -----------------------------
(***************************************************************************)
(* The threads of the tagstackd process from start to exit                 *)
(* (daemon/src/main.cpp:33-43, 182-218, 2750-2806), the listen and stop of *)
(* its HTTP server (daemon/include/httplib.h) and the systemd unit that    *)
(* supervises it (packaging/debian/tagstackd.service).                     *)
(*                                                                         *)
(* A signal of any kind only sets g_shutting_down. The watcher thread      *)
(* polls the flag, calls svr.stop() once and ends; stop() does nothing     *)
(* unless the server is already running. main() listens until the socket   *)
(* is closed, drains the worker pool and joins the two threads.            *)
(***************************************************************************)
EXTENDS Naturals

CONSTANTS
  MaxJobs,     \* bound: requests in the pool at a time
  MaxSignals,  \* bound: signals sent
  MaxFaults    \* bound: crashes and failing socket or TLS calls

ASSUME LifecycleAssumption ==
  MaxJobs \in Nat /\ MaxSignals \in Nat /\ MaxFaults \in Nat

VARIABLES
  main,      \* where main() is
  ret,       \* what svr.listen returns: true, false
  exit,      \* how the process ended: none, clean (0), failure (1, 2), killed
  signal,    \* g_shutting_down: set by any signal; which ones came: early
             \*   (is_running_ not set), heard, or deaf (the server listens,
             \*   and the watcher's stop() is over)
  socket,    \* svr_sock_: none, open, closed
  jobs,      \* requests accepted and not yet answered
  watcher,   \* the shutdown watcher: off, wait, stop, done
  ingester,  \* the YP ingester: off, settle, check, cycle, nap, done
  unit,      \* systemd: started, reloading (asked this process to reload),
             \*   stopping (asked it to stop), inactive
  signals, faults

server  == <<ret, socket, jobs>>
threads == <<watcher, ingester>>
outside == <<unit, signals, faults>>
vars == <<main, server, exit, signal, threads, outside>>

Alive == main # "exited"

(* g_shutting_down.load() *)
ShuttingDown == signal # {}

(* Server::is_running_: true exactly inside listen_internal. *)
Running == main \in {"serve", "drain"}

Init ==
  /\ main = "boot" /\ ret = "true" /\ exit = "none"
  /\ signal = {} /\ socket = "none" /\ jobs = 0
  /\ watcher = "off" /\ ingester = "off"
  /\ unit = "started"
  /\ signals = 0 /\ faults = 0

Fault == faults < MaxFaults /\ faults' = faults + 1

Exits(how) == main' = "exited" /\ exit' = how

-----------------------------------------------------------------------------
(* main() *)

(* Configuration, the database probe, the TLS server object. *)
Boot ==
  /\ main = "boot"
  /\ main' = "spawn"
  /\ UNCHANGED <<server, exit, signal, threads, outside>>

(* The configuration is refused, or the SSLServer not valid: 2, before any   *)
(* thread exists.                                                            *)
BootFails ==
  /\ main = "boot"
  /\ Fault
  /\ Exits("failure")
  /\ UNCHANGED <<server, signal, threads, unit, signals>>

(* The ingester, if the directory is configured, then the watcher. *)
Spawn ==
  /\ main = "spawn"
  /\ main' = "bind"
  /\ watcher' = "wait"
  /\ ingester' \in {"off", "settle"}
  /\ UNCHANGED <<server, exit, signal, outside>>

(* Mutant of Bind: listen_internal runs whatever bind_to_port returned. *)
BindUnchecked ==
  /\ main = "bind"
  /\ main' = "listen"
  /\ socket' \in {"none", "open"}
  /\ UNCHANGED <<ret, jobs, exit, signal, threads, outside>>

(* svr.listen: bind_to_port, *)
Bind ==
  /\ main = "bind"
  /\ main' = "listen"
  /\ socket' = "open"
  /\ UNCHANGED <<ret, jobs, exit, signal, threads, outside>>

(* or a port that is taken: listen returns false at once; *)
BindFails ==
  /\ main = "bind"
  /\ Fault
  /\ main' = "joinWatcher"
  /\ ret' = "false"
  /\ UNCHANGED <<socket, jobs, exit, signal, threads, unit, signals>>

(* then listen_internal: is_running_ = true and the accept loop. *)
Listen ==
  /\ main = "listen"
  /\ main' = "serve"
  /\ UNCHANGED <<server, exit, signal, threads, outside>>

Accept ==
  /\ main = "serve" /\ socket = "open"
  /\ jobs < MaxJobs
  /\ jobs' = jobs + 1
  /\ UNCHANGED <<main, ret, socket, exit, signal, threads, outside>>

(* accept fails for good: the loop closes the socket itself, ret = false. *)
AcceptFails ==
  /\ main = "serve" /\ socket = "open"
  /\ Fault
  /\ main' = "drain"
  /\ socket' = "closed"
  /\ ret' = "false"
  /\ UNCHANGED <<jobs, exit, signal, threads, unit, signals>>

SocketClosed ==
  /\ main = "serve" /\ socket = "closed"
  /\ main' = "drain"
  /\ UNCHANGED <<server, exit, signal, threads, outside>>

(* A worker of the pool answers its request. *)
Answer ==
  /\ Alive /\ jobs > 0
  /\ jobs' = jobs - 1
  /\ UNCHANGED <<main, ret, socket, exit, signal, threads, outside>>

(* Mutant of Drained: the pool is detached instead of joined. *)
Detached == jobs <= MaxJobs

(* task_queue->shutdown(): the workers finish what is queued and are joined. *)
Drained == jobs = 0

Drain ==
  /\ main = "drain" /\ Drained
  /\ main' = "joinWatcher"
  /\ UNCHANGED <<server, exit, signal, threads, outside>>

JoinWatcher ==
  /\ main = "joinWatcher" /\ watcher = "done"
  /\ main' = "joinIngester"
  /\ UNCHANGED <<server, exit, signal, threads, outside>>

(* if (yp_ingester.joinable()) join, and return ok ? 0 : 1. *)
JoinIngester ==
  /\ main = "joinIngester" /\ ingester \in {"off", "done"}
  /\ Exits(IF ret = "true" THEN "clean" ELSE "failure")
  /\ UNCHANGED <<server, signal, threads, outside>>

-----------------------------------------------------------------------------
(* The shutdown watcher. *)

WatcherWakes ==
  /\ Alive /\ watcher = "wait" /\ ShuttingDown
  /\ watcher' = "stop"
  /\ UNCHANGED <<main, server, exit, signal, ingester, outside>>

(* Mutant of Stoppable: a server with requests in progress is left alone. *)
StoppableWhenIdle == Running /\ jobs = 0

(* Server::stop: if (is_running_) *)
Stoppable == Running

(* shutdown and close the socket, or nothing at all. The watcher ends. *)
StopServer ==
  /\ Alive /\ watcher = "stop"
  /\ socket' = IF Stoppable THEN "closed" ELSE socket
  /\ watcher' = "done"
  /\ UNCHANGED <<main, ret, jobs, exit, signal, ingester, outside>>

-----------------------------------------------------------------------------
(* The YP ingester: 5s, then cycle and sleep until the flag is seen. *)

Settle ==
  /\ Alive /\ ingester = "settle"
  /\ ingester' = "check"
  /\ UNCHANGED <<main, server, exit, signal, watcher, outside>>

(* Mutant of LoopAgain: while (true). *)
LoopForever == "cycle"

(* while (!g_shutting_down) *)
LoopAgain == IF ShuttingDown THEN "done" ELSE "cycle"

CheckFlag ==
  /\ Alive /\ ingester = "check"
  /\ ingester' = LoopAgain
  /\ UNCHANGED <<main, server, exit, signal, watcher, outside>>

(* run_ingest does not look at the flag: the cycle runs to its end or throws. *)
CycleEnds ==
  /\ Alive /\ ingester = "cycle"
  /\ ingester' = "nap"
  /\ UNCHANGED <<main, server, exit, signal, watcher, outside>>

(* Chunks of at most 2s: the interval is over, or the flag is set. *)
Wake ==
  /\ Alive /\ ingester = "nap"
  /\ ingester' = "check"
  /\ UNCHANGED <<main, server, exit, signal, watcher, outside>>

-----------------------------------------------------------------------------
(* Outside the process: systemd, the operator, the kernel. *)

(* stop() was called, and the server goes on listening. *)
Unstopped == Alive /\ socket = "open" /\ watcher = "done"

(* The handler of SIGINT, SIGTERM and SIGHUP. *)
Caught ==
  signal' = signal \union {IF ~ Running THEN "early"
                           ELSE IF Unstopped THEN "deaf" ELSE "heard"}

Up == unit \in {"started", "reloading"}

(* systemctl stop: SIGTERM. *)
Terminate ==
  /\ Alive /\ Up /\ signals < MaxSignals
  /\ signals' = signals + 1
  /\ unit' = "stopping"
  /\ Caught
  /\ UNCHANGED <<main, server, exit, threads, faults>>

(* systemctl reload: ExecReload=/bin/kill -HUP $MAINPID. *)
Reload ==
  /\ Alive /\ Up /\ signals < MaxSignals
  /\ signals' = signals + 1
  /\ unit' = "reloading"
  /\ Caught
  /\ UNCHANGED <<main, server, exit, threads, faults>>

(* A crash: every thread and every request of the process is gone. *)
Crash ==
  /\ Alive
  /\ Fault
  /\ Exits("killed")
  /\ jobs' = 0
  /\ UNCHANGED <<ret, socket, signal, threads, unit, signals>>

(* The unit sets no TimeoutStopSec: 90s after systemctl stop, a process that *)
(* is still there, whatever it is doing, gets SIGKILL.                       *)
StopTimesOut ==
  /\ Alive /\ unit = "stopping"
  /\ Exits("killed")
  /\ jobs' = 0
  /\ UNCHANGED <<ret, socket, signal, threads, outside>>

(* Mutant of Restarts: Restart=no. *)
RestartsNever == exit = "none"

(* Restart=on-failure, unless the unit was asked to stop. *)
Restarts == Up /\ exit # "clean"

Supervise ==
  /\ main = "exited" /\ unit # "inactive"
  /\ IF Restarts
     THEN /\ main' = "boot" /\ ret' = "true" /\ exit' = "none"
          /\ signal' = {} /\ socket' = "none" /\ jobs' = 0
          /\ watcher' = "off" /\ ingester' = "off"
          /\ unit' = "started"
     ELSE /\ unit' = "inactive"
          /\ UNCHANGED <<main, server, exit, signal, threads>>
  /\ UNCHANGED <<signals, faults>>

-----------------------------------------------------------------------------
MainThread ==
  \/ Boot \/ Spawn \/ Bind \/ Listen \/ SocketClosed \/ Drain
  \/ JoinWatcher \/ JoinIngester

Watcher  == WatcherWakes \/ StopServer
YpThread == Settle \/ CheckFlag \/ CycleEnds \/ Wake
Failures == BootFails \/ BindFails \/ AcceptFails \/ Crash

Next ==
  \/ MainThread \/ Watcher \/ YpThread \/ Failures
  \/ Accept \/ Answer \/ Terminate \/ Reload
  \/ StopTimesOut \/ Supervise

Spec == Init /\ [][Next]_vars

(* Every thread is scheduled, handlers and ingest cycles end, and systemd    *)
(* reacts. Nothing has to arrive or to fail.                                 *)
Fairness ==
  /\ WF_vars(MainThread) /\ WF_vars(Watcher) /\ WF_vars(YpThread)
  /\ WF_vars(Answer) /\ WF_vars(StopTimesOut) /\ WF_vars(Supervise)

FairSpec == Spec /\ Fairness

-----------------------------------------------------------------------------
(* Each thread is at one of its points, and the server's state fits where    *)
(* main() is (main.cpp:2789-2805, httplib.h:6425, 6820).                      *)
TypeOK ==
  /\ main \in {"boot", "spawn", "bind", "listen", "serve", "drain",
               "joinWatcher", "joinIngester", "exited"}
  /\ exit \in {"none", "clean", "failure", "killed"}
  /\ ret \in {"true", "false"}
  /\ signal \subseteq {"early", "heard", "deaf"}
  /\ socket \in {"none", "open", "closed"}
  /\ jobs \in 0..MaxJobs
  /\ watcher \in {"off", "wait", "stop", "done"}
  /\ ingester \in {"off", "settle", "check", "cycle", "nap", "done"}
  /\ unit \in {"started", "reloading", "stopping", "inactive"}
  /\ signals \in 0..MaxSignals /\ faults \in 0..MaxFaults
  /\ main \in {"serve", "drain"} => socket # "none"
  /\ exit = "none" <=> Alive

(* A process that returns from main() has answered every request it accepted *)
(* and joined every thread it started, whatever ended the listening: no      *)
(* std::thread is destroyed while joinable (main.cpp:2800-2805).              *)
CleanExit ==
  exit \in {"clean", "failure"} =>
    jobs = 0 /\ watcher \in {"off", "done"} /\ ingester \in {"off", "done"}

(* The watcher has one stop(). A server that goes on listening once it is    *)
(* spent was signalled before it was running, and every later signal has     *)
(* been lost on it; signals to a running server are lost only then           *)
(* (main.cpp:2789-2793, httplib.h:6426).                                     *)
DeafOnlyIfEarly ==
  /\ Unstopped => "early" \in signal /\ "heard" \notin signal
  /\ "deaf" \in signal => "early" \in signal

(* The ingester and the watcher both start from the flag: nobody reaches the *)
(* join of the ingester before a signal was received, so a process that ends *)
(* by itself was told to, or never started its threads (main.cpp:2802-2805).  *)
JoinsNeedSignal ==
  (main = "joinIngester" \/ exit = "clean") => ShuttingDown

Serving == main = "serve" /\ socket = "open" /\ ~ ShuttingDown

(* stop() came too early and will not be called again. *)
DeafServer ==
  /\ main = "serve" /\ unit # "stopping"
  /\ ShuttingDown /\ Unstopped

(* listen() returned false, and the join waits for a signal. *)
ListenFailed == main = "joinWatcher" /\ ret = "false" /\ ~ ShuttingDown

(* Whatever has happened, once signals and failures end the service ends up  *)
(* serving or stopped, or in one of the two states it does not leave by      *)
(* itself: no other hang of the three threads' joins exists                  *)
(* (main.cpp:2789-2805).                                                     *)
Settles ==
  <>[](unit = "inactive" \/ Serving \/ DeafServer \/ ListenFailed)

(* A process that crashed or failed at any point, with requests in progress, *)
(* in the middle of a shutdown or before it listened, is followed by one     *)
(* that serves, unless another failure or a signal comes first: nothing it   *)
(* leaves behind stands in the way (tagstackd.service:14-15,                 *)
(* main.cpp:2750-2805).                                                      *)
ServesAgain ==
  \A n \in 0..MaxFaults, m \in 0..MaxSignals :
    (~ Alive /\ exit # "clean" /\ Up /\ faults = n /\ signals = m)
      ~> (Serving \/ faults > n \/ signals > m)

-----------------------------------------------------------------------------
(* deploy.rb:42 is to "Reload the systemd unit" and every deploy ends with    *)
(* it (deploy.rb:45, 79), so a running service that is asked to reload, and  *)
(* not to stop, serves again. SIGHUP has the shutdown handler, the process   *)
(* exits with 0 and Restart=on-failure leaves the unit down.                 *)
ReloadKeepsService ==
  (unit = "reloading" /\ "heard" \in signal) ~> (Serving \/ unit = "stopping")

-----------------------------------------------------------------------------
(* The inductive invariant behind the safety properties: how far main() has  *)
(* come says which threads exist, who holds the socket and what is drained.  *)

Starting == {"boot", "spawn", "bind", "listen"}
Leaving  == {"joinWatcher", "joinIngester"}

ThreadsFollowMain ==
  /\ main \in {"boot", "spawn"} => watcher = "off" /\ ingester = "off"
  /\ main = "joinIngester" => watcher = "done"

PoolFollowsMain ==
  main \in Starting \union Leaving => jobs = 0

SocketFollowsMain ==
  /\ main \in {"boot", "spawn", "bind"} => socket = "none"
  /\ main = "listen" => socket = "open"
  /\ main \in {"drain"} \union Leaving => socket # "open"

WatcherSawFlag ==
  watcher \in {"stop", "done"} => ShuttingDown

EarlyKnown ==
  main \in Starting => signal \subseteq {"early"}

LInv ==
  /\ TypeOK /\ CleanExit /\ DeafOnlyIfEarly /\ JoinsNeedSignal
  /\ ThreadsFollowMain /\ PoolFollowsMain /\ SocketFollowsMain
  /\ WatcherSawFlag /\ EarlyKnown

=============================================================================
