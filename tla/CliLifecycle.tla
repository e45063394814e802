---------------------------- MODULE CliLifecycle ----------------------------
(***************************************************************************)
(* The commands start, stop, restart and status (internal/cli) and the     *)
(* server process they manage through one PID file and one port.  Every    *)
(* command is a process of its own, and a process that starts the server   *)
(* becomes the server.  The commands share no lock: each looks at the file *)
(* and at the process table, and acts on what it saw in a later step.      *)
(*                                                                         *)
(* Abstracted: reading the file and probing the process it names is one    *)
(* step; a half-written file reads as no file; the runtime directories,    *)
(* the kubeconfig check and the log file, whose failure ends a start       *)
(* before it touches file or port.  A killed process is gone at once: the  *)
(* half second that restart sleeps is ample.  PIDs are not reused.         *)
(***************************************************************************)
CONSTANTS
    Proc,           \* PIDs, one for every command that is ever given
    NoPID,          \* no PID file, and a free port
    Slow,           \* processes whose server takes longer than 15 s to answer
    Hung            \* processes that hang once their server is up: they keep
                    \* the port, and in the end neither answer nor stop

ASSUME CliAssumption ==
    /\ NoPID \notin Proc
    /\ Slow \subseteq Proc
    /\ Hung \subseteq Proc

Command == {"start", "stop", "restart", "status"}

VARIABLES
    pc,             \* where each process is
    restarting,     \* the processes whose command is restart
    seen,           \* the PID a stop has read, or the process a start has asked
    pidFile,        \* the PID in the file
    port,           \* the process that listens on the port
    signalled,      \* processes with a SIGTERM in their signal channel
    overlapped      \* history: a command was given while another still ran

vars == <<pc, restarting, seen, pidFile, port, signalled, overlapped>>

Place == {"fresh", "gone",                                  \* no process
          "check", "probe", "write", "starting", "asking",  \* RunStart
          "bound", "waiting", "failing", "leaving", "exiting",
          "read", "stale", "term", "wait", "remove",        \* RunStop
          "query", "clean"}                                 \* RunStatus

Init ==
    /\ pc = [p \in Proc |-> "fresh"]
    /\ restarting = {}
    /\ seen = [p \in Proc |-> NoPID]
    /\ pidFile = NoPID
    /\ port = NoPID
    /\ signalled = {}
    /\ overlapped = FALSE

IsProcessAlive(p) == p # NoPID /\ pc[p] \notin {"fresh", "gone"}

Goto(p, from, to) == pc[p] = from /\ pc' = [pc EXCEPT ![p] = to]

(* The end of process q frees its port.                                    *)
PortWithout(q) == IF port = q THEN NoPID ELSE port

(* Nothing is under way: a command given now overlaps with no other.       *)
Settled ==
    \A p \in Proc : \/ pc[p] \in {"fresh", "gone"}
                   \/ (pc[p] = "waiting" /\ port = p /\ p \notin signalled)

FirstPlace(c) == CASE c = "start" -> "check"
                   [] c = "status" -> "query"
                   [] c \in {"stop", "restart"} -> "read"

Launch(p, c) ==
    /\ Goto(p, "fresh", FirstPlace(c))
    /\ restarting' = IF c = "restart" THEN restarting \cup {p} ELSE restarting
    /\ overlapped' = (overlapped \/ ~Settled)
    /\ UNCHANGED <<seen, pidFile, port, signalled>>

-----------------------------------------------------------------------------
(* RunStart.                                                               *)

CheckRunning(p) ==
    /\ Goto(p, "check", IF IsProcessAlive(pidFile) THEN "gone" ELSE "probe")
    /\ UNCHANGED <<restarting, seen, pidFile, port, signalled, overlapped>>

(* The probe closes its listener: the port is only taken later.            *)
ProbePort(p) ==
    /\ Goto(p, "probe", IF port = NoPID THEN "write" ELSE "gone")
    /\ UNCHANGED <<restarting, seen, pidFile, port, signalled, overlapped>>

WritePID(p) ==
    /\ Goto(p, "write", "starting")
    /\ pidFile' = p
    /\ UNCHANGED <<restarting, seen, port, signalled, overlapped>>

Bind(p) ==
    /\ p \notin Slow
    /\ port = NoPID
    /\ Goto(p, "starting", "bound")
    /\ port' = p
    /\ UNCHANGED <<restarting, seen, pidFile, signalled, overlapped>>

(* Between two questions: the server cannot listen, or 15 s have passed.   *)
FailToStart(p) ==
    /\ p \in Slow \/ port # NoPID
    /\ Goto(p, "starting", "failing")
    /\ UNCHANGED <<restarting, seen, pidFile, port, signalled, overlapped>>

(* The readiness check asks whoever listens on the port.                   *)
AnsweredByAnother(p) ==
    /\ port # NoPID
    /\ Goto(p, "starting", "waiting")
    /\ UNCHANGED <<restarting, seen, pidFile, port, signalled, overlapped>>

(* The question has no timeout: a process that hangs takes the connection  *)
(* and does not answer; neither the 15 s nor the error of the command's    *)
(* own server is looked at before the connection ends, with that process.  *)
AskHung(p) ==
    /\ port \in Hung
    /\ pc[port] = "waiting"
    /\ Goto(p, "starting", "asking")
    /\ seen' = [seen EXCEPT ![p] = port]
    /\ UNCHANGED <<restarting, pidFile, port, signalled, overlapped>>

AskFails(p) ==
    /\ ~IsProcessAlive(seen[p])
    /\ \E next \in {"starting", "failing"} : Goto(p, "asking", next)
    /\ seen' = [seen EXCEPT ![p] = NoPID]
    /\ UNCHANGED <<restarting, pidFile, port, signalled, overlapped>>

(* Ready: from now on SIGTERM goes to a channel.                           *)
Notify(p) ==
    /\ Goto(p, "bound", "waiting")
    /\ UNCHANGED <<restarting, seen, pidFile, port, signalled, overlapped>>

(* The server of a process another has answered for: it finds the port     *)
(* free by now, or its error ends the process.                             *)
BindLate(p) ==
    /\ pc[p] = "waiting"
    /\ port = NoPID
    /\ port' = p
    /\ UNCHANGED <<pc, restarting, seen, pidFile, signalled, overlapped>>

ServerError(p) ==
    /\ port \notin {p, NoPID}
    /\ Goto(p, "waiting", "leaving")
    /\ UNCHANGED <<restarting, seen, pidFile, port, signalled, overlapped>>

TakeSignal(p) ==
    /\ p \in signalled \ Hung
    /\ Goto(p, "waiting", "leaving")
    /\ UNCHANGED <<restarting, seen, pidFile, port, signalled, overlapped>>

(* The deferred RemovePID, whatever the file holds.                        *)
DeferredRemove(p) ==
    /\ pc[p] \in {"failing", "leaving"}
    /\ pc' = [pc EXCEPT ![p] = "exiting"]
    /\ pidFile' = NoPID
    /\ UNCHANGED <<restarting, seen, port, signalled, overlapped>>

Exit(p) ==
    /\ Goto(p, "exiting", "gone")
    /\ port' = PortWithout(p)
    /\ signalled' = signalled \ {p}
    /\ UNCHANGED <<restarting, seen, pidFile, overlapped>>

(* A signal for q: it ends a process that has not yet asked for a channel. *)
Killed(q) == pc[q] \in {"starting", "asking", "bound", "failing"}
Signal(q) ==
    \/ /\ Killed(q)
       /\ port' = PortWithout(q)
       /\ UNCHANGED signalled
    \/ /\ pc[q] \in {"waiting", "leaving", "exiting"}
       /\ signalled' = signalled \cup {q}
       /\ UNCHANGED port

(* The operator presses Ctrl+C, or the server dies on its own.             *)
Interrupt(p) ==
    /\ Signal(p)
    /\ pc' = [pc EXCEPT ![p] = IF Killed(p) THEN "gone" ELSE @]
    /\ overlapped' = (overlapped \/ ~Settled)
    /\ UNCHANGED <<restarting, seen, pidFile>>

Crash(p) ==
    /\ Goto(p, "waiting", "gone")
    /\ port' = PortWithout(p)
    /\ signalled' = signalled \ {p}
    /\ UNCHANGED <<restarting, seen, pidFile, overlapped>>

-----------------------------------------------------------------------------
(* RunStop, and RunRestart, which goes on with RunStart.                   *)

Stopped(p) == IF p \in restarting THEN "check" ELSE "gone"

(* Mutant: the error of ReadPID is not looked at.                          *)
ReadTargetUnchecked(p) ==
    /\ Goto(p, "read", "term")
    /\ seen' = [seen EXCEPT ![p] = pidFile]
    /\ UNCHANGED <<restarting, pidFile, port, signalled, overlapped>>

(* No PID file: there is nothing to stop.                                  *)
NothingToStop(p) ==
    /\ pidFile = NoPID
    /\ Goto(p, "read", Stopped(p))
    /\ UNCHANGED <<restarting, seen, pidFile, port, signalled, overlapped>>

ReadTarget(p) ==
    /\ pidFile # NoPID
    /\ Goto(p, "read", IF IsProcessAlive(pidFile) THEN "term" ELSE "stale")
    /\ seen' = [seen EXCEPT ![p] = pidFile]
    /\ UNCHANGED <<restarting, pidFile, port, signalled, overlapped>>

(* SIGTERM, unless the process has gone in the meantime.  When it goes     *)
(* just before the signal, the stop fails and leaves the file behind.      *)
Terminate(p) ==
    /\ pc[p] = "term"
    /\ LET q == seen[p] IN
       \/ /\ ~IsProcessAlive(q)
          /\ \E place \in {"remove", Stopped(p)} : pc' = [pc EXCEPT ![p] = place]
          /\ UNCHANGED <<port, signalled>>
       \/ /\ Signal(q)
          /\ pc' = [pc EXCEPT ![p] = "wait", ![q] = IF Killed(q) THEN "gone" ELSE @]
    /\ UNCHANGED <<restarting, seen, pidFile, overlapped>>

(* Mutant: stop does not kill a process that is still there after 5 s.     *)
AwaitExitNoKill(p) ==
    /\ Goto(p, "wait", "remove")
    /\ UNCHANGED <<restarting, seen, pidFile, port, signalled, overlapped>>

(* Mutant: stop waits for as long as the process takes.                    *)
AwaitExitForever(p) ==
    /\ ~IsProcessAlive(seen[p])
    /\ Goto(p, "wait", "remove")
    /\ UNCHANGED <<restarting, seen, pidFile, port, signalled, overlapped>>

(* The process has gone, or is killed after 5 s.                           *)
AwaitExit(p) ==
    /\ pc[p] = "wait"
    /\ LET q == seen[p] IN
       \/ /\ ~IsProcessAlive(q)
          /\ pc' = [pc EXCEPT ![p] = "remove"]
          /\ UNCHANGED <<port, signalled>>
       \/ /\ IsProcessAlive(q)
          /\ pc' = [pc EXCEPT ![p] = "remove", ![q] = "gone"]
          /\ port' = PortWithout(q)
          /\ signalled' = signalled \ {q}
    /\ UNCHANGED <<restarting, seen, pidFile, overlapped>>

(* The file is removed, whatever it holds by now.                          *)
RemoveAfterStop(p) ==
    /\ \/ Goto(p, "stale", Stopped(p))
       \/ Goto(p, "remove", Stopped(p))
    /\ pidFile' = NoPID
    /\ seen' = [seen EXCEPT ![p] = NoPID]
    /\ UNCHANGED <<restarting, port, signalled, overlapped>>

(* Mutant: status removes the file of a process that is alive, too.        *)
QueryAndClean(p) ==
    /\ Goto(p, "query", IF pidFile # NoPID THEN "clean" ELSE "gone")
    /\ UNCHANGED <<restarting, seen, pidFile, port, signalled, overlapped>>

(* RunStatus, which removes the file of a process that has gone.           *)
QueryStatus(p) ==
    /\ Goto(p, "query", IF pidFile # NoPID /\ ~IsProcessAlive(pidFile)
                        THEN "clean" ELSE "gone")
    /\ UNCHANGED <<restarting, seen, pidFile, port, signalled, overlapped>>

CleanStale(p) ==
    /\ Goto(p, "clean", "gone")
    /\ pidFile' = NoPID
    /\ UNCHANGED <<restarting, seen, port, signalled, overlapped>>

Step(p) ==
    \/ CheckRunning(p) \/ ProbePort(p) \/ WritePID(p) \/ Bind(p) \/ FailToStart(p)
    \/ AnsweredByAnother(p) \/ AskHung(p) \/ AskFails(p)
    \/ Notify(p) \/ BindLate(p) \/ ServerError(p)
    \/ TakeSignal(p) \/ DeferredRemove(p) \/ Exit(p)
    \/ NothingToStop(p) \/ ReadTarget(p) \/ Terminate(p) \/ AwaitExit(p)
    \/ RemoveAfterStop(p)
    \/ QueryStatus(p) \/ CleanStale(p)

Next ==
    \E p \in Proc :
        \/ \E c \in Command : Launch(p, c)
        \/ Interrupt(p) \/ Crash(p)
        \/ Step(p)

Spec == Init /\ [][Next]_vars

(* A process that can go on does; operators promise nothing.               *)
FairSpec == Spec /\ \A p \in Proc : WF_vars(Step(p))

-----------------------------------------------------------------------------
(* Properties.                                                             *)

(* The types; only a process on its way from listening to its end holds    *)
(* the port; a stop past its reading knows whom, a start past its asking.  *)
TypeOK ==
    /\ pc \in [Proc -> Place]
    /\ restarting \subseteq Proc
    /\ seen \in [Proc -> Proc \cup {NoPID}]
    /\ pidFile \in Proc \cup {NoPID}
    /\ port \in Proc \cup {NoPID}
    /\ signalled \subseteq Proc
    /\ overlapped \in BOOLEAN
    /\ port # NoPID => pc[port] \in {"bound", "waiting", "leaving", "exiting"}
    /\ \A p \in Proc :
           pc[p] \in {"term", "wait", "remove", "asking"} => seen[p] # NoPID

(* As long as commands are given one at a time, a server that waits for    *)
(* its signal has the port and is the one the PID file names: stop, status *)
(* and start all find it there, whatever crashed or was killed before.     *)
ServerIsNamed ==
    ~overlapped =>
        \A p \in Proc : pc[p] = "waiting" => port = p /\ pidFile = p

(* `garund stop` says that Garund is not running only when no server is    *)
(* serving.                                                                *)
StopTellsTruth ==
    [][\A p, q \in Proc :
           NothingToStop(p) => ~(pc[q] = "waiting" /\ port = q)]_vars

(* `garund restart`, given on its own, ends with a server of its own that  *)
(* serves, whatever it finds: a server, one that does not handle SIGTERM,  *)
(* a stale file or nothing.                                                *)
ServiceRestored ==
    \A p \in Proc \ Slow :
        p \in restarting /\ pc[p] = "read" /\ ~overlapped
            ~> overlapped \/ (pc[p] = "waiting" /\ port = p)

(* However commands overlap, each comes to an end or becomes a server,     *)
(* with one exception that is for good: a start whose readiness check has  *)
(* asked a hung server that nobody ends.  The waits of StopProcess are     *)
(* bounded, and a start waits for nothing but its server, an answer and    *)
(* the 15 s.                                                               *)
HeldUp(p) == pc[p] = "asking" /\ seen[p] \in Hung /\ port = seen[p]

CommandsEnd ==
    \A p \in Proc :
        IsProcessAlive(p) ~> pc[p] \in {"waiting", "gone"} \/ []HeldUp(p)
=============================================================================
