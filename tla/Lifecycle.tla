----------------------------- MODULE Lifecycle -----------------------------
(***************************************************************************)
(* Agent processes of one configuration, from start to end (cmd/spop/      *)
(* main.go): main and the goroutine that runs the agent, the channels they *)
(* tell each other their end by, and the unix socket that outlives a       *)
(* process which does not close its listener.                              *)
(***************************************************************************)
EXTENDS Naturals

CONSTANTS
  Processes,  \* processes that may run at the same time, restarted at will
  Network,    \* what ParseListener has read from the configuration
  Nobody,     \* no process listens on the address, no file is there
  Abandoned   \* the file is there, its process is not

ASSUME LifecycleAssumption ==
  /\ Network \in {"unix", "tcp"}
  /\ Nobody \notin Processes /\ Abandoned \notin Processes
  /\ Nobody # Abandoned

VARIABLES
  main,       \* main[p]: where the main goroutine is
  agent,      \* agent[p]: where the goroutine with runBerghain is
  signal,     \* signal[p]: whether c holds a signal; it has room for one
  cancelled,  \* cancelled[p]: whether ctx is cancelled
  wg,         \* wg[p]: the count of the wait group
  closed,     \* closed[p]: whether c is closed
  socket      \* the process listening on the address, or whom it is left by

vars == <<main, agent, signal, cancelled, wg, closed, socket>>

Init ==
  /\ main = [p \in Processes |-> "ended"]
  /\ agent = [p \in Processes |-> "none"]
  /\ signal = [p \in Processes |-> FALSE]
  /\ cancelled = [p \in Processes |-> FALSE]
  /\ wg = [p \in Processes |-> 0]
  /\ closed = [p \in Processes |-> FALSE]
  /\ socket = Nobody

(* Nothing of a process is left but, if it had not been closed, the file   *)
(* of its unix socket.                                                     *)
Ends(p) ==
  /\ main' = [main EXCEPT ![p] = "ended"]
  /\ agent' = [agent EXCEPT ![p] = "none"]
  /\ signal' = [signal EXCEPT ![p] = FALSE]
  /\ cancelled' = [cancelled EXCEPT ![p] = FALSE]
  /\ wg' = [wg EXCEPT ![p] = 0]
  /\ closed' = [closed EXCEPT ![p] = FALSE]

Leaves(p) ==
  socket' = IF socket # p THEN socket
            ELSE IF Network = "unix" THEN Abandoned ELSE Nobody

Main(p, from, to)  == main[p] = from /\ main' = [main EXCEPT ![p] = to]
Agent(p, from, to) == agent[p] = from /\ agent' = [agent EXCEPT ![p] = to]

------------------------------------------------------------------------------
(* main                                                                    *)

Start(p) ==
  /\ Main(p, "ended", "flags")
  /\ UNCHANGED <<agent, signal, cancelled, wg, closed, socket>>

BadFlags(p) == main[p] = "flags" /\ Ends(p) /\ UNCHANGED socket

(* signal.Notify, the context, the channel of errors, the goroutine.       *)
Setup(p) ==
  /\ Main(p, "flags", "select")
  /\ agent' = [agent EXCEPT ![p] = "config"]
  /\ wg' = [wg EXCEPT ![p] = 1]
  /\ UNCHANGED <<signal, cancelled, closed, socket>>

(* Mutant: the agent is not told.                                          *)
KeepsServing(p) ==
  /\ Main(p, "select", "waits") /\ signal[p]
  /\ signal' = [signal EXCEPT ![p] = FALSE]
  /\ UNCHANGED <<agent, cancelled, wg, closed, socket>>

SelectSignal(p) ==
  /\ Main(p, "select", "waits") /\ signal[p]
  /\ signal' = [signal EXCEPT ![p] = FALSE]
  /\ cancelled' = [cancelled EXCEPT ![p] = TRUE]
  /\ UNCHANGED <<agent, wg, closed, socket>>

(* Mutant: the error is logged, and main goes on to select.                *)
Lingers(p) ==
  /\ main[p] = "select" /\ Agent(p, "sends", "none")
  /\ UNCHANGED <<main, signal, cancelled, wg, closed, socket>>

(* The receive of an error and Fatal, which runs no deferred call.         *)
SelectError(p) ==
  /\ main[p] = "select" /\ agent[p] = "sends"
  /\ Ends(p) /\ UNCHANGED socket

(* <-c once more: a closed channel, or a second interrupt that does not    *)
(* wait for the agent.                                                     *)
Receive(p) ==
  /\ main[p] = "waits" /\ (signal[p] \/ closed[p])
  /\ Ends(p)
  /\ IF closed[p] THEN UNCHANGED socket ELSE Leaves(p)

(* Mutant: the channel is closed at once.                                  *)
ClosesAtOnce(p) ==
  /\ main[p] = "waits" /\ ~closed[p]
  /\ closed' = [closed EXCEPT ![p] = TRUE]
  /\ UNCHANGED <<main, agent, signal, cancelled, wg, socket>>

(* The goroutine behind wg.Wait, started when the context is cancelled.    *)
CloseWhenDone(p) ==
  /\ main[p] = "waits" /\ wg[p] = 0 /\ ~closed[p]
  /\ closed' = [closed EXCEPT ![p] = TRUE]
  /\ UNCHANGED <<main, agent, signal, cancelled, wg, socket>>

------------------------------------------------------------------------------
(* runBerghain                                                             *)

ConfigFatal(p) == agent[p] = "config" /\ Ends(p) /\ UNCHANGED socket

LoadConfig(p) ==
  /\ Agent(p, "config", "listen")
  /\ UNCHANGED <<main, signal, cancelled, wg, closed, socket>>

(* Mutant: whatever file is there is removed first.                        *)
StealsSocket(p) ==
  /\ Agent(p, "listen", "serve") /\ socket' = p
  /\ UNCHANGED <<main, signal, cancelled, wg, closed>>

Listen(p) ==
  /\ socket = Nobody
  /\ Agent(p, "listen", "serve") /\ socket' = p
  /\ UNCHANGED <<main, signal, cancelled, wg, closed>>

(* Mutant: it is tried again from the start.                               *)
TriesAgain(p) ==
  /\ Agent(p, "listen", "config")
  /\ UNCHANGED <<main, signal, cancelled, wg, closed, socket>>

(* net.Listen fails on an address in use, be it by a file without a        *)
(* process, and for reasons of its own.                                    *)
ListenFails(p) ==
  /\ Agent(p, "listen", "returns")
  /\ UNCHANGED <<main, signal, cancelled, wg, closed, socket>>

(* Serve returns because of the context or of an error of Accept. It may   *)
(* have closed the listener itself.                                        *)
ServeReturns(p) ==
  /\ Agent(p, "serve", "close")
  /\ socket' \in {socket, Nobody}
  /\ UNCHANGED <<main, signal, cancelled, wg, closed>>

(* Mutant: the listener is left to Serve.                                  *)
LeftToServe(p) ==
  /\ Agent(p, "close", "returns")
  /\ UNCHANGED <<main, signal, cancelled, wg, closed, socket>>

(* The deferred calls, the last one first: listen.Close, which removes the *)
(* file it has created, then wg.Done.                                      *)
CloseListener(p) ==
  /\ Agent(p, "close", "returns")
  /\ socket' = IF socket = p THEN Nobody ELSE socket
  /\ UNCHANGED <<main, signal, cancelled, wg, closed>>

Done(p) ==
  /\ Agent(p, "returns", "sends")
  /\ wg' = [wg EXCEPT ![p] = @ - 1]
  /\ UNCHANGED <<main, signal, cancelled, closed, socket>>

------------------------------------------------------------------------------
(* The surroundings                                                        *)

(* Until Notify an interrupt kills. Then it is dropped when c is full, and *)
(* a panic when c is closed.                                               *)
Interrupt(p) ==
  /\ main[p] # "ended"
  /\ IF main[p] = "flags" \/ closed[p]
     THEN Ends(p) /\ UNCHANGED socket
     ELSE /\ signal' = [signal EXCEPT ![p] = TRUE]
          /\ UNCHANGED <<main, agent, cancelled, wg, closed, socket>>

(* No other signal is asked for.                                           *)
Kill(p) == main[p] # "ended" /\ Ends(p) /\ Leaves(p)

(* Somebody removes the file that is left.                                 *)
RemoveFile ==
  /\ socket = Abandoned /\ socket' = Nobody
  /\ UNCHANGED <<main, agent, signal, cancelled, wg, closed>>

MainSteps(p) ==
  \/ BadFlags(p) \/ Setup(p)
  \/ SelectSignal(p) \/ SelectError(p) \/ Receive(p)

AgentSteps(p) ==
  \/ ConfigFatal(p) \/ LoadConfig(p) \/ Listen(p) \/ ListenFails(p)
  \/ CloseListener(p) \/ Done(p)

Next ==
  \/ \E p \in Processes :
       \/ Start(p) \/ MainSteps(p) \/ AgentSteps(p) \/ CloseWhenDone(p)
       \/ ServeReturns(p) \/ Interrupt(p) \/ Kill(p)
  \/ RemoveFile

Spec == Init /\ [][Next]_vars

(* Goroutines run, and Serve comes to an end once its context is cancelled.*)
FairSpec ==
  /\ Spec
  /\ \A p \in Processes :
       /\ WF_vars(MainSteps(p)) /\ WF_vars(AgentSteps(p))
       /\ WF_vars(CloseWhenDone(p))
       /\ WF_vars(cancelled[p] /\ ServeReturns(p))

------------------------------------------------------------------------------
(* Every variable keeps its type.                                          *)
TypeOK ==
  /\ main \in [Processes -> {"flags", "select", "waits", "ended"}]
  /\ agent \in [Processes -> {"none", "config", "listen", "serve", "close",
                              "returns", "sends"}]
  /\ signal \in [Processes -> BOOLEAN]
  /\ cancelled \in [Processes -> BOOLEAN]
  /\ wg \in [Processes -> 0 .. 1]
  /\ closed \in [Processes -> BOOLEAN]
  /\ socket \in Processes \cup {Nobody, Abandoned}

(* A process that ends with its listener open, and so leaves a socket file *)
(* no later process can listen on, was killed or interrupted a second time *)
(* before the agent had stopped (those ends say so, by Abandoned). Neither *)
(* an error, nor a late interrupt that meets the closed channel, nor any   *)
(* order of deferred calls, wg, c and ec ends one so. (main, runBerghain)  *)
SocketIsCleaned == \A p \in Processes : main[p] = "ended" => socket # p

(* At most one process serves the address. (net.Listen; no file is ever    *)
(* taken from a process that listens)                                      *)
OneServer ==
  \A p, q \in Processes : agent[p] = "serve" /\ agent[q] = "serve" => p = q

(* An interrupt that main has been asked for ends the process, whatever    *)
(* the agent is doing, one that has failed and can never send its error    *)
(* included. (signal.Notify, wg.Wait)                                      *)
InterruptEnds == \A p \in Processes : signal[p] ~> main[p] = "ended"

(* An agent that cannot listen, or stops listening, does not leave a       *)
(* process behind that answers nobody. (ec)                                *)
FailureEnds == \A p \in Processes : agent[p] = "returns" ~> main[p] = "ended"

(* No process hangs: one that has not ended serves, or has a step to take  *)
(* that needs nobody else, with main and agent never both waiting for the  *)
(* other; and one that is to end does not go on serving untold. (main's    *)
(* select and receives, the goroutine behind wg.Wait, ec, ctx)             *)
NeverStuck ==
  \A p \in Processes :
    \/ main[p] \in {"ended", "flags"}
    \/ agent[p] \in {"config", "listen", "close", "returns"}
    \/ main[p] = "select" /\ (signal[p] \/ agent[p] \in {"serve", "sends"})
    \/ main[p] = "waits" /\ (signal[p] \/ closed[p] \/ wg[p] = 0)
    \/ agent[p] = "serve" /\ cancelled[p]

(* How many steps of main, the agent and the goroutine that closes c are   *)
(* ahead of a process, at most.                                            *)
MainAhead  == [flags |-> 7, select |-> 1, waits |-> 0]
AgentAhead == [none |-> 0, config |-> 5, listen |-> 4, serve |-> 3, close |-> 2,
               returns |-> 1, sends |-> 0]
StepsAhead(p) ==
  MainAhead[main[p]] + AgentAhead[agent[p]] + (IF closed[p] THEN 0 ELSE 1)

Where(p) == <<main[p], agent[p], closed[p]>>

(* ... nor does it go in circles: every step a process takes, in whatever  *)
(* order its goroutines take them and failures come, brings it nearer to   *)
(* its end. With NeverStuck and fair goroutines that makes it end. (main,  *)
(* runBerghain)                                                            *)
EveryStepIsNearer ==
  [][\A p \in Processes :
       /\ main[p] # "ended" /\ main'[p] # "ended"
       /\ Where(p)' # Where(p)
       => StepsAhead(p)' < StepsAhead(p)]_vars

------------------------------------------------------------------------------
(* What makes them inductive                                               *)

RunsOnlyInProcess ==
  \A p \in Processes :
    /\ main[p] \in {"ended", "flags"} =>
         agent[p] = "none" /\ wg[p] = 0 /\ ~closed[p] /\ ~signal[p]
    /\ main[p] \in {"select", "waits"} => agent[p] # "none"
    /\ closed[p] => main[p] = "waits"

WgCountsTheAgent ==
  \A p \in Processes : wg[p] = 0 <=> agent[p] \in {"none", "sends"}

ClosedIsDone == \A p \in Processes : closed[p] => wg[p] = 0

AgentIsTold == \A p \in Processes : main[p] = "waits" => cancelled[p]

ListensWhileServing ==
  \A p \in Processes :
    /\ socket = p => agent[p] \in {"serve", "close"}
    /\ agent[p] = "serve" => socket = p

IInv ==
  /\ TypeOK
  /\ RunsOnlyInProcess /\ WgCountsTheAgent /\ ClosedIsDone /\ AgentIsTold
  /\ ListensWhileServing
=============================================================================
