------------------------------ MODULE Shutdown ------------------------------
(***************************************************************************)
(* main.rs: the proxy server alone (run_proxy_only) or beside the API      *)
(* server (run_with_api), the broadcast channel that stops them, and how   *)
(* the process ends.  Listeners and connections are tasks of their own,    *)
(* nobody here waits for them, and they go with the process.               *)
(***************************************************************************)
CONSTANT None

VARIABLES
  mode,         \* "with_api" or "proxy_only"
  main,         \* where main's future is; at the end, its result
  branch,       \* the branch its select! took
  server,       \* of each server: "running", its result, or "dropped"
  taken,        \* the JoinHandle has given its output
  told,         \* a shutdown message waits for the server
  waited,       \* how main's wait for the server ended
  signal        \* SIGTERM or SIGINT has arrived

vars == <<mode, main, branch, server, taken, told, waited, signal>>

Servers == {"api", "proxy"}
Results == {"ok", "err"}
Over(s) == server[s] \in Results
Exited == main \in Results \cup {"panicked"}

\* The API server of run_proxy_only does not exist.
Init ==
  /\ mode \in {"with_api", "proxy_only"}
  /\ main = "select" /\ branch = None
  /\ server = [s \in Servers |-> IF s = "proxy" \/ mode = "with_api" THEN "running" ELSE "dropped"]
  /\ taken = [s \in Servers |-> FALSE]
  /\ told = [s \in Servers |-> FALSE]
  /\ waited = [s \in Servers |-> "no"]
  /\ signal = FALSE

-----------------------------------------------------------------------------
(* Outside main                                                            *)

\* setup_shutdown_signal completes.  A handler that could not be installed is a
\* signal that never comes.
Signal ==
  /\ ~Exited /\ ~signal
  /\ signal' = TRUE
  /\ UNCHANGED <<mode, main, branch, server, taken, told, waited>>

\* The server's own future is over: start_api_server cannot bind, a listener
\* failed, start_all found a bad configuration, or all its listeners ended,
\* which it returns as Ok.  A panic in its task is an error to who joins it.
ServerEnds(s) ==
  /\ ~Exited /\ server[s] = "running"
  /\ \E result \in Results : server' = [server EXCEPT ![s] = result]
  /\ UNCHANGED <<mode, main, branch, taken, told, waited, signal>>

\* run_api_server and run_proxy_server: shutdown_rx.recv() wins the select!,
\* the server's future is dropped and the task's result is Ok.
ShutdownReceived(s) ==
  /\ ~Exited /\ server[s] = "running" /\ told[s]
  /\ server' = [server EXCEPT ![s] = "ok"]
  /\ told' = [told EXCEPT ![s] = FALSE]
  /\ UNCHANGED <<mode, main, branch, taken, waited, signal>>

\* The runtime ends with main, and every task with the runtime.
DropTasks == server' = [s \in Servers |-> IF server[s] = "running" THEN "dropped" ELSE server[s]]

-----------------------------------------------------------------------------
(* run_proxy_only                                                          *)

\* Mutant: the server's error is logged and not returned.
ProxyOnlyEnds_LogsError ==
  /\ mode = "proxy_only" /\ main = "select"
  /\ \/ Over("proxy") /\ branch' = "proxy" /\ main' = "ok"
     \/ signal /\ branch' = "signal" /\ main' = "ok"
  /\ DropTasks
  /\ UNCHANGED <<mode, taken, told, waited, signal>>

\* Its select! ends with the server, whose result it returns, or the signal.
ProxyOnlyEnds ==
  /\ mode = "proxy_only" /\ main = "select"
  /\ \/ Over("proxy") /\ branch' = "proxy" /\ main' = server["proxy"]
     \/ signal /\ branch' = "signal" /\ main' = "ok"
  /\ DropTasks
  /\ UNCHANGED <<mode, taken, told, waited, signal>>

-----------------------------------------------------------------------------
(* run_with_api                                                            *)

\* shutdown_tx.send(()): every server that still has its receiver.
SendShutdown == told' = [s \in Servers |-> server[s] = "running"]

\* Mutant: only the proxy server's end is waited for.
SelectServer_ProxyOnly(s) ==
  /\ mode = "with_api" /\ main = "select" /\ s = "proxy" /\ Over(s)
  /\ taken' = [taken EXCEPT ![s] = TRUE]
  /\ SendShutdown
  /\ branch' = s
  /\ main' = "await_api"
  /\ UNCHANGED <<mode, server, waited, signal>>

\* A server's JoinHandle completes the select!, which takes its output and
\* logs an error.
SelectServer(s) ==
  /\ mode = "with_api" /\ main = "select" /\ Over(s)
  /\ taken' = [taken EXCEPT ![s] = TRUE]
  /\ SendShutdown
  /\ branch' = s
  /\ main' = "await_api"
  /\ UNCHANGED <<mode, server, waited, signal>>

\* Mutant: a server that has ended by then is joined on the spot.
SelectSignal_Joins ==
  /\ mode = "with_api" /\ main = "select" /\ signal
  /\ taken' = [s \in Servers |-> Over(s)]
  /\ SendShutdown
  /\ branch' = "signal"
  /\ main' = "await_api"
  /\ UNCHANGED <<mode, server, waited, signal>>

\* The signal completes the select!; the handles stay as they are.
SelectSignal ==
  /\ mode = "with_api" /\ main = "select" /\ signal
  /\ SendShutdown
  /\ branch' = "signal"
  /\ main' = "await_api"
  /\ UNCHANGED <<mode, server, taken, waited, signal>>

\* The wait that main is in, and where it goes from there.
AwaitOf(s) == IF s = "api" THEN "await_api" ELSE "await_proxy"

\* main leaves a wait: on to the next server, or out with Ok, whatever the
\* servers' results are.
LeaveWait(s, how) ==
  /\ waited' = [waited EXCEPT ![s] = how]
  /\ main' = IF s = "api" THEN "await_proxy" ELSE "ok"
  /\ IF s = "api" THEN UNCHANGED server ELSE DropTasks
  /\ UNCHANGED <<mode, branch, taken, told, signal>>

\* timeout(30 s, handle): the handle completes,
AwaitDone(s) ==
  /\ main = AwaitOf(s) /\ Over(s) /\ ~taken[s]
  /\ LeaveWait(s, "done")

\* or the time is over; the handle was moved into the timeout, so the abort()
\* behind it never runs.
AwaitTimeout(s) ==
  /\ main = AwaitOf(s) /\ server[s] = "running"
  /\ LeaveWait(s, "timeout")

\* external: tokio panics when a JoinHandle is polled after it has completed.
\* The panic leaves main, and the runtime ends.
AwaitAgain(s) ==
  /\ main = AwaitOf(s) /\ taken[s]
  /\ main' = "panicked"
  /\ DropTasks
  /\ UNCHANGED <<mode, branch, taken, told, waited, signal>>

-----------------------------------------------------------------------------
MainStep ==
  \/ ProxyOnlyEnds \/ SelectSignal
  \/ \E s \in Servers : SelectServer(s) \/ AwaitDone(s) \/ AwaitTimeout(s) \/ AwaitAgain(s)

Next ==
  \/ MainStep \/ Signal
  \/ \E s \in Servers : ServerEnds(s) \/ ShutdownReceived(s)

Spec == Init /\ [][Next]_vars

\* The runtime polls main and the servers and fires the timers.  No server has
\* to end by itself, and nobody has to send a signal.
FairSpec == /\ Spec /\ WF_vars(MainStep)
            /\ \A s \in Servers : WF_vars(ShutdownReceived(s))

-----------------------------------------------------------------------------
(* Properties                                                              *)

\* Neither server outlives the other, and a signal ends both.
OneDownAllDown ==
  (signal \/ \E s \in Servers : Over(s)) ~> Exited

\* After a signal main waits for both servers before it returns, also when a
\* server ends by itself at the same moment.
SignalWaitsForBoth ==
  mode = "with_api" /\ branch = "signal" /\ Exited =>
    main = "ok" /\ \A s \in Servers : waited[s] # "no"

\* A process that goes down because a server failed does not end in success:
\* run_proxy_only returns the error, and run_with_api, which only logs it and
\* would return Ok, never gets there.
FailureIsNotSuccess ==
  branch \in Servers /\ server[branch] = "err" => main # "ok"

\* main.rs: "Wait for both servers to finish (with timeout)".  A server whose
\* output the select! took has finished.
WaitsForBoth ==
  mode = "with_api" /\ Exited => \A s \in Servers : taken[s] \/ waited[s] # "no"
=============================================================================
