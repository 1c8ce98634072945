-------------------------- MODULE Shutdown_proofs --------------------------
(***************************************************************************)
(* Proofs about the end of the process: told by a signal, main waits for   *)
(* both servers, and a server's failure never becomes the process's        *)
(* success.                                                                *)
(***************************************************************************)
EXTENDS Shutdown, TLAPS

-----------------------------------------------------------------------------
(* Where main can be, and the fields the invariants read                   *)

Places == {"select", "await_api", "await_proxy", "ok", "err", "panicked"}

Shape ==
  /\ mode \in {"with_api", "proxy_only"} /\ main \in Places
  /\ server \in [Servers -> {"running", "ok", "err", "dropped"}]
  /\ taken \in [Servers -> BOOLEAN]
  /\ waited \in [Servers -> {"no", "done", "timeout"}]
  /\ mode = "proxy_only" => main \in {"select", "ok", "err"}

\* A server that is over stays as it is when the runtime drops the tasks.
LEMMA DropKeeps ==
  ASSUME Shape, DropTasks
  PROVE  /\ server' \in [Servers -> {"running", "ok", "err", "dropped"}]
         /\ \A s \in Servers : Over(s) => server'[s] = server[s]
  BY DEF Shape, DropTasks, Over, Results, Servers

\* Each step of main, of the servers and of the outside keeps the shape.
LEMMA ShapeStep == Shape /\ [Next]_vars => Shape'
  <1> SUFFICES ASSUME Shape, [Next]_vars PROVE Shape'
    OBVIOUS
  <1> USE DEF Shape, Places
  <1>1. CASE UNCHANGED vars \/ Signal
    BY <1>1 DEF vars, Signal
  <1>2. ASSUME NEW s \in Servers, ServerEnds(s) \/ ShutdownReceived(s)
        PROVE  Shape'
    BY <1>2 DEF ServerEnds, ShutdownReceived, Results
  <1>3. CASE ProxyOnlyEnds
    <2>1. main' \in {"ok", "err"} /\ UNCHANGED <<mode, taken, waited>>
      BY <1>3 DEF ProxyOnlyEnds, Over, Results
    <2> QED
      BY <1>3, <2>1, DropKeeps DEF ProxyOnlyEnds
  <1>4. CASE SelectSignal
    BY <1>4 DEF SelectSignal
  <1>5. ASSUME NEW s \in Servers, SelectServer(s)
        PROVE  Shape'
    BY <1>5 DEF SelectServer
  <1>6. ASSUME NEW s \in Servers, main = AwaitOf(s), NEW how \in {"done", "timeout"},
               LeaveWait(s, how)
        PROVE  Shape'
    <2>1. server' \in [Servers -> {"running", "ok", "err", "dropped"}]
      BY <1>6, DropKeeps DEF LeaveWait
    <2> QED
      BY <1>6, <2>1 DEF LeaveWait, AwaitOf
  <1>7. ASSUME NEW s \in Servers, AwaitDone(s) \/ AwaitTimeout(s)
        PROVE  Shape'
    BY <1>6, <1>7 DEF AwaitDone, AwaitTimeout
  <1>8. ASSUME NEW s \in Servers, AwaitAgain(s)
        PROVE  Shape'
    BY <1>8, DropKeeps DEF AwaitAgain, AwaitOf
  <1> QED
    BY <1>1, <1>2, <1>3, <1>4, <1>5, <1>7, <1>8 DEF Next, MainStep

\* And the process starts in it.
LEMMA ShapeInit == Init => Shape
  BY DEF Init, Shape, Places, Servers

-----------------------------------------------------------------------------
(* The signal                                                              *)

\* Once the signal has completed the select!, no output of a handle has been
\* taken, so neither wait can panic, and main has waited for the servers it has
\* passed.  Before the select! is over no handle has given its output.
SignalInv ==
  /\ main = "select" => \A s \in Servers : ~taken[s]
  /\ mode = "with_api" /\ branch = "signal" /\ main # "select" =>
       /\ main \in {"await_api", "await_proxy", "ok"}
       /\ \A s \in Servers : ~taken[s]
       /\ main \in {"await_proxy", "ok"} => waited["api"] # "no"
       /\ main = "ok" => waited["proxy"] # "no"

\* Every step keeps it.
LEMMA SignalStep == Shape /\ SignalInv /\ [Next]_vars => SignalInv'
  <1> SUFFICES ASSUME Shape, SignalInv, [Next]_vars PROVE SignalInv'
    OBVIOUS
  <1> USE DEF Shape, Servers, SignalInv
  <1>1. ASSUME UNCHANGED <<mode, main, branch, taken, waited>>
        PROVE  SignalInv'
    BY <1>1
  <1>2. CASE \/ UNCHANGED vars \/ Signal
             \/ \E s \in Servers : ServerEnds(s) \/ ShutdownReceived(s)
    BY <1>1, <1>2 DEF vars, Signal, ServerEnds, ShutdownReceived
  <1>3. CASE ProxyOnlyEnds
    <2>1. mode' = "proxy_only" /\ main' # "select"
      BY <1>3 DEF ProxyOnlyEnds, Over, Results
    <2> QED
      BY <2>1
  <1>4. CASE SelectSignal
    BY <1>4 DEF SelectSignal
  <1>5. ASSUME NEW s \in Servers, SelectServer(s)
        PROVE  SignalInv'
    BY <1>5 DEF SelectServer
  <1>6. ASSUME NEW s \in Servers, main = AwaitOf(s), NEW how \in {"done", "timeout"},
               LeaveWait(s, how)
        PROVE  SignalInv'
    BY <1>6 DEF LeaveWait, AwaitOf
  <1>7. ASSUME NEW s \in Servers, AwaitDone(s) \/ AwaitTimeout(s)
        PROVE  SignalInv'
    BY <1>6, <1>7 DEF AwaitDone, AwaitTimeout
  <1>8. ASSUME NEW s \in Servers, AwaitAgain(s)
        PROVE  SignalInv'
    BY <1>8 DEF AwaitAgain, AwaitOf
  <1> QED
    BY <1>2, <1>3, <1>4, <1>5, <1>7, <1>8 DEF Next, MainStep

\* After a signal run_with_api waits for both servers before it returns, also
\* when a server ends by itself while main leaves its select!; in particular
\* it never polls a JoinHandle that has already given its output.
THEOREM SignalSafe == Spec => []SignalWaitsForBoth
  <1>1. Init => SignalInv
    BY DEF Init, SignalInv
  <1>2. Shape /\ SignalInv => SignalWaitsForBoth
    BY DEF Shape, Places, SignalInv, SignalWaitsForBoth, Exited, Results, Servers
  <1> QED
    BY <1>1, <1>2, ShapeInit, ShapeStep, SignalStep, PTL DEF Spec

-----------------------------------------------------------------------------
(* A server's failure                                                      *)

\* The branch of a server, past the select!.  run_proxy_only has returned that
\* server's result.  run_with_api has taken the output of a handle it is still
\* going to poll, so the one way out of its waits is the panic.
FailureInv ==
  branch \in Servers /\ main # "select" =>
    /\ Over(branch)
    /\ mode = "proxy_only" => main = server[branch]
    /\ mode = "with_api" =>
         /\ taken[branch]
         /\ main \in {"await_api", "await_proxy", "panicked"}
         /\ main = "await_proxy" => branch = "proxy"

\* Every step keeps it.
LEMMA FailureStep == Shape /\ FailureInv /\ [Next]_vars => FailureInv'
  <1> SUFFICES ASSUME Shape, FailureInv, [Next]_vars PROVE FailureInv'
    OBVIOUS
  <1> USE DEF FailureInv
  <1>1. CASE UNCHANGED vars \/ Signal
    BY <1>1 DEF vars, Signal, Over
  <1>2. ASSUME NEW s \in Servers, ServerEnds(s) \/ ShutdownReceived(s)
        PROVE  FailureInv'
    <2>1. UNCHANGED <<mode, main, branch, taken>>
      BY <1>2 DEF ServerEnds, ShutdownReceived
    <2>2. \A t \in Servers : Over(t) => server'[t] = server[t]
      BY <1>2 DEF Shape, ServerEnds, ShutdownReceived, Over, Results
    <2> QED
      BY <2>1, <2>2 DEF Over
  <1>3. CASE ProxyOnlyEnds
    <2>1. CASE Over("proxy") /\ branch' = "proxy" /\ main' = server["proxy"]
      <3>1. server'["proxy"] = server["proxy"] /\ mode' = "proxy_only"
        BY <1>3, <2>1, DropKeeps DEF ProxyOnlyEnds, Servers
      <3> QED
        BY <2>1, <3>1 DEF Over
    <2>2. CASE branch' = "signal"
      BY <2>2 DEF Servers
    <2> QED
      BY <1>3, <2>1, <2>2 DEF ProxyOnlyEnds
  <1>4. CASE SelectSignal
    BY <1>4 DEF SelectSignal, Servers
  <1>5. ASSUME NEW s \in Servers, SelectServer(s)
        PROVE  FailureInv'
    BY <1>5 DEF SelectServer, Over, Shape
  <1>6. ASSUME NEW s \in Servers, AwaitDone(s) \/ AwaitTimeout(s)
        PROVE  FailureInv'
    <2>1. mode = "with_api" /\ main = AwaitOf(s) /\ main # "select"
      BY <1>6 DEF AwaitDone, AwaitTimeout, AwaitOf, Shape
    <2>2. branch \in Servers => branch # s
      BY <1>6, <2>1 DEF AwaitDone, AwaitTimeout, Over, Results
    <2>3. branch \in Servers => s = "api" /\ branch = "proxy"
      BY <2>1, <2>2 DEF AwaitOf, Servers
    <2>4. PICK how \in {"done", "timeout"} : LeaveWait(s, how)
      BY <1>6 DEF AwaitDone, AwaitTimeout
    <2> QED
      BY <2>1, <2>3, <2>4 DEF LeaveWait, AwaitOf, Over
  <1>7. ASSUME NEW s \in Servers, AwaitAgain(s)
        PROVE  FailureInv'
    <2>1. mode = "with_api" /\ main # "select"
      BY <1>7 DEF AwaitAgain, AwaitOf, Shape
    <2>2. main' = "panicked" /\ UNCHANGED <<mode, branch, taken>>
      BY <1>7 DEF AwaitAgain
    <2>3. \A t \in Servers : Over(t) => server'[t] = server[t]
      BY <1>7, DropKeeps DEF AwaitAgain
    <2> QED
      BY <2>1, <2>2, <2>3 DEF Over
  <1> QED
    BY <1>1, <1>2, <1>3, <1>4, <1>5, <1>6, <1>7 DEF Next, MainStep

\* A process that goes down because a server failed does not end in success.
\* run_proxy_only returns the error; run_with_api only logs it and ends in Ok(()),
\* and never reaches that line, because it polls the failed server's handle again.
THEOREM FailureSafe == Spec => []FailureIsNotSuccess
  <1>1. Init => FailureInv
    BY DEF Init, FailureInv
  <1>2. Shape /\ FailureInv => FailureIsNotSuccess
    BY DEF Shape, FailureInv, FailureIsNotSuccess
  <1> QED
    BY <1>1, <1>2, ShapeInit, ShapeStep, FailureStep, PTL DEF Spec
=============================================================================
