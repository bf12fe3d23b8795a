-------------------------- MODULE LifecycleProofs --------------------------
(***************************************************************************)
(* Proofs about Lifecycle for any number of processes, on either network.  *)
(***************************************************************************)
EXTENDS Lifecycle, TLAPS

USE DEF TypeOK, RunsOnlyInProcess, WgCountsTheAgent, ClosedIsDone,
        AgentIsTold, ListensWhileServing, IInv

LEMMA InitIInv == Init => IInv
  BY LifecycleAssumption, SMT DEF Init

(* Every step of a process, whoever runs beside it, keeps the invariant:   *)
(* only Listen takes the socket, only a process that serves has it, and    *)
(* the wait group reaches zero after the listener is closed.               *)
LEMMA StepIInv == IInv /\ [Next]_vars => IInv'
<1> SUFFICES ASSUME IInv, [Next]_vars
             PROVE  IInv'
  OBVIOUS
<1> USE LifecycleAssumption
<1>1. ASSUME NEW p \in Processes,
             \/ Start(p) \/ MainSteps(p) \/ AgentSteps(p) \/ CloseWhenDone(p)
             \/ ServeReturns(p) \/ Interrupt(p) \/ Kill(p)
      PROVE  IInv'
  <2>1. CASE Start(p)
    BY <2>1, SMT DEF Start, Main
  <2>2. CASE BadFlags(p)
    BY <2>2, SMT DEF BadFlags, Ends
  <2>3. CASE Setup(p)
    BY <2>3, SMT DEF Setup, Main
  <2>4. CASE SelectSignal(p)
    BY <2>4, SMT DEF SelectSignal, Main
  <2>5. CASE SelectError(p)
    BY <2>5, SMT DEF SelectError, Ends
  <2>6. CASE Receive(p)
    BY <2>6, SMT DEF Receive, Ends, Leaves
  <2>7. CASE CloseWhenDone(p)
    BY <2>7, SMT DEF CloseWhenDone
  <2>8. CASE ConfigFatal(p)
    BY <2>8, SMT DEF ConfigFatal, Ends
  <2>9. CASE LoadConfig(p)
    BY <2>9, SMT DEF LoadConfig, Agent
  <2>10. CASE Listen(p)
    BY <2>10, SMT DEF Listen, Agent
  <2>11. CASE ListenFails(p)
    BY <2>11, SMT DEF ListenFails, Agent
  <2>12. CASE ServeReturns(p)
    BY <2>12, SMT DEF ServeReturns, Agent
  <2>13. CASE CloseListener(p)
    BY <2>13, SMT DEF CloseListener, Agent
  <2>14. CASE Done(p)
    BY <2>14, SMT DEF Done, Agent
  <2>15. CASE Interrupt(p)
    <3>1. CASE main[p] = "flags" \/ closed[p]
      <4>1. socket # p
        BY <3>1, SMT
      <4>2. Ends(p) /\ socket' = socket
        BY <2>15, <3>1, SMT DEF Interrupt
      <4> QED
        BY <4>1, <4>2, SMT DEF Ends
    <3>2. CASE ~(main[p] = "flags" \/ closed[p])
      <4>1. /\ main[p] \in {"select", "waits"}
            /\ signal' = [signal EXCEPT ![p] = TRUE]
            /\ UNCHANGED <<main, agent, cancelled, wg, closed, socket>>
        BY <2>15, <3>2, SMT DEF Interrupt
      <4> QED
        BY <4>1, SMT
    <3> QED
      BY <3>1, <3>2
  <2>16. CASE Kill(p)
    BY <2>16, SMT DEF Kill, Ends, Leaves
  <2> QED
    BY <1>1, <2>1, <2>2, <2>3, <2>4, <2>5, <2>6, <2>7, <2>8, <2>9, <2>10, <2>11, <2>12, <2>13, <2>14, <2>15, <2>16
       DEF MainSteps, AgentSteps
<1>2. CASE RemoveFile
  BY <1>2, SMT DEF RemoveFile
<1>3. CASE UNCHANGED vars
  BY <1>3, SMT DEF vars
<1> QED
  BY <1>1, <1>2, <1>3, Zenon DEF Next

(* No file without its process, no process that serves without its file.   *)
(* (runBerghain, net.Listen)                                               *)
THEOREM LifecycleInvariant == Spec => []IInv
<1>1. IInv /\ [Next]_vars => IInv'
  BY StepIInv
<1> QED
  BY InitIInv, <1>1, PTL DEF Spec

(* Whoever is not killed or interrupted twice closes the listener before   *)
(* the process ends, so that the next one can listen. (main, runBerghain)  *)
THEOREM SocketIsAlwaysCleaned == Spec => []SocketIsCleaned
<1>1. IInv => SocketIsCleaned
  BY SMT DEF SocketIsCleaned
<1> QED
  BY LifecycleInvariant, <1>1, PTL

(* However many processes are started on one address, at most one serves.  *)
(* (net.Listen, listen.Close)                                              *)
THEOREM ServesAlone == Spec => []OneServer
<1>1. IInv => OneServer
  BY SMT DEF OneServer
<1> QED
  BY LifecycleInvariant, <1>1, PTL

(* A process that has not ended and serves nobody has a step of its own.   *)
(* (main's select and receives, wg, c, ec, ctx)                            *)
THEOREM NothingIsStuck == Spec => []NeverStuck
<1>1. IInv => NeverStuck
  <2> SUFFICES ASSUME IInv, NEW p \in Processes,
                      main[p] \notin {"ended", "flags"},
                      agent[p] \notin {"config", "listen", "close", "returns"}
               PROVE  \/ main[p] = "select" /\ (signal[p] \/ agent[p] \in {"serve", "sends"})
                      \/ main[p] = "waits" /\ (signal[p] \/ closed[p] \/ wg[p] = 0)
                      \/ agent[p] = "serve" /\ cancelled[p]
    BY DEF NeverStuck
  <2>1. main[p] \in {"select", "waits"} /\ agent[p] \in {"serve", "sends"}
    BY SMT
  <2>2. main[p] = "waits" /\ agent[p] = "sends" => wg[p] = 0
    BY SMT
  <2>3. main[p] = "waits" => cancelled[p]
    OBVIOUS
  <2> QED
    BY <2>1, <2>2, <2>3
<1> QED
  BY LifecycleInvariant, <1>1, PTL

Nearer(q) ==
  main[q] # "ended" /\ main'[q] # "ended" /\ Where(q)' # Where(q)
    => StepsAhead(q)' < StepsAhead(q)

LEMMA AheadType ==
  ASSUME TypeOK, NEW p \in Processes
  PROVE  /\ AgentAhead[agent[p]] \in 0 .. 5
         /\ main[p] # "ended" => MainAhead[main[p]] \in 0 .. 7
<1>1. /\ AgentAhead["none"] = 0 /\ AgentAhead["config"] = 5
      /\ AgentAhead["listen"] = 4 /\ AgentAhead["serve"] = 3
      /\ AgentAhead["close"] = 2 /\ AgentAhead["returns"] = 1
      /\ AgentAhead["sends"] = 0
  BY DEF AgentAhead
<1>2. /\ MainAhead["flags"] = 7 /\ MainAhead["select"] = 1
      /\ MainAhead["waits"] = 0
  BY DEF MainAhead
<1> QED
  BY <1>1, <1>2

LEMMA StepNearer ==
  ASSUME IInv, NEW p \in Processes, NEW q \in Processes,
         \/ Start(p) \/ MainSteps(p) \/ AgentSteps(p) \/ CloseWhenDone(p)
         \/ ServeReturns(p) \/ Interrupt(p) \/ Kill(p)
  PROVE  Nearer(q)
<1>1. CASE Start(p)
  BY <1>1 DEF Start, Main, Nearer, Where
<1>2. CASE Setup(p)
  <2>1. main[p] = "flags" /\ agent[p] = "none"
    BY <1>2 DEF Setup, Main
  <2> QED
    BY <1>2, <2>1 DEF Setup, Main, Nearer, Where, StepsAhead, MainAhead, AgentAhead
<1>3. CASE SelectSignal(p)
  BY <1>3, AheadType DEF SelectSignal, Main, Nearer, Where, StepsAhead, MainAhead, AgentAhead
<1>4. CASE CloseWhenDone(p)
  <2>1. /\ main' = main /\ agent' = agent /\ main[p] = "waits"
        /\ ~closed[p] /\ closed' = [closed EXCEPT ![p] = TRUE]
    BY <1>4 DEF CloseWhenDone
  <2>2. CASE q = p
    <3>1. AgentAhead[agent[p]] \in Nat /\ MainAhead[main[p]] \in Nat
      <4>1. /\ AgentAhead[agent[p]] \in 0 .. 5
            /\ main[p] # "ended" => MainAhead[main[p]] \in 0 .. 7
        BY AheadType
      <4>2. main[p] # "ended"
        BY <2>1
      <4> QED
        BY <4>1, <4>2
    <3>2. closed'[p]
      BY <2>1
    <3>3. /\ StepsAhead(p)' = MainAhead[main[p]] + AgentAhead[agent[p]] + 0
          /\ StepsAhead(p) = MainAhead[main[p]] + AgentAhead[agent[p]] + 1
      BY <2>1, <3>2 DEF StepsAhead
    <3> QED
      BY <2>2, <3>1, <3>3 DEF Nearer
  <2>3. CASE q # p
    BY <2>1, <2>3 DEF Nearer, Where
  <2> QED
    BY <2>2, <2>3
<1>5. CASE LoadConfig(p)
  BY <1>5 DEF LoadConfig, Agent, Nearer, Where, StepsAhead, MainAhead, AgentAhead
<1>6. CASE Listen(p)
  BY <1>6 DEF Listen, Agent, Nearer, Where, StepsAhead, MainAhead, AgentAhead
<1>7. CASE ListenFails(p)
  BY <1>7 DEF ListenFails, Agent, Nearer, Where, StepsAhead, MainAhead, AgentAhead
<1>8. CASE ServeReturns(p)
  BY <1>8 DEF ServeReturns, Agent, Nearer, Where, StepsAhead, MainAhead, AgentAhead
<1>9. CASE CloseListener(p)
  BY <1>9 DEF CloseListener, Agent, Nearer, Where, StepsAhead, MainAhead, AgentAhead
<1>10. CASE Done(p)
  BY <1>10 DEF Done, Agent, Nearer, Where, StepsAhead, MainAhead, AgentAhead
<1>11. ASSUME Ends(p) PROVE Nearer(q)
  BY <1>11 DEF Ends, Nearer, Where
<1>12. CASE BadFlags(p) \/ SelectError(p) \/ Receive(p) \/ ConfigFatal(p) \/ Kill(p)
  BY <1>11, <1>12 DEF BadFlags, SelectError, Receive, ConfigFatal, Kill
<1>13. CASE Interrupt(p)
  <2>1. Ends(p) \/ UNCHANGED <<main, agent, closed>>
    BY <1>13 DEF Interrupt
  <2> QED
    BY <1>11, <2>1 DEF Nearer, Where
<1> QED
  BY <1>1, <1>2, <1>3, <1>4, <1>5, <1>6, <1>7, <1>8, <1>9, <1>10, <1>12, <1>13
     DEF MainSteps, AgentSteps

(* No process goes in circles: it takes at most eight steps before the one *)
(* that ends it. (main, runBerghain)                                       *)
THEOREM ProcessesComeToAnEnd == Spec => EveryStepIsNearer
<1>1. IInv /\ [Next]_vars => \A q \in Processes : Nearer(q)
  <2> SUFFICES ASSUME IInv, [Next]_vars, NEW q \in Processes PROVE Nearer(q)
    OBVIOUS
  <2>1. CASE \E p \in Processes :
               \/ Start(p) \/ MainSteps(p) \/ AgentSteps(p) \/ CloseWhenDone(p)
               \/ ServeReturns(p) \/ Interrupt(p) \/ Kill(p)
    BY <2>1, StepNearer
  <2>2. CASE RemoveFile \/ UNCHANGED vars
    BY <2>2 DEF RemoveFile, vars, Nearer, Where
  <2> QED
    BY <2>1, <2>2 DEF Next
<1>2. IInv /\ [Next]_vars =>
        [\A p \in Processes :
           /\ main[p] # "ended" /\ main'[p] # "ended"
           /\ Where(p)' # Where(p)
           => StepsAhead(p)' < StepsAhead(p)]_vars
  BY <1>1 DEF Nearer
<1> QED
  BY LifecycleInvariant, <1>2, PTL DEF Spec, EveryStepIsNearer
=============================================================================
