------------------------ MODULE CliLifecycleProofs ------------------------
(* Proofs about CliLifecycle, for any number of commands.                  *)
EXTENDS CliLifecycle, TLAPS

-----------------------------------------------------------------------------
(* Types.                                                                  *)

(* Whatever the commands are, and however they overlap: only a process on  *)
(* its way from listening to its end holds the port, and a stop knows      *)
(* whom to stop.                                                           *)
LEMMA TypeStep == TypeOK /\ [Next]_vars => TypeOK'
<1> SUFFICES ASSUME TypeOK, [Next]_vars PROVE TypeOK'
  OBVIOUS
<1> USE CliAssumption DEF TypeOK, Place, Goto
<1>1. CASE UNCHANGED vars
  BY <1>1 DEF vars
<1>2. ASSUME NEW p \in Proc, NEW c \in Command, Launch(p, c) PROVE TypeOK'
  <2>1. FirstPlace(c) \in {"check", "query", "read"}
    BY DEF FirstPlace, Command
  <2>2. overlapped' \in BOOLEAN
    BY <1>2 DEF Launch, Settled
  <2>3. QED
    BY <1>2, <2>1, <2>2 DEF Launch
<1>3. ASSUME NEW p \in Proc, CheckRunning(p) PROVE TypeOK'
  BY <1>3 DEF CheckRunning
<1>4. ASSUME NEW p \in Proc, ProbePort(p) PROVE TypeOK'
  BY <1>4 DEF ProbePort
<1>5. ASSUME NEW p \in Proc, WritePID(p) PROVE TypeOK'
  BY <1>5 DEF WritePID
<1>6. ASSUME NEW p \in Proc, Bind(p) PROVE TypeOK'
  BY <1>6 DEF Bind
<1>7. ASSUME NEW p \in Proc, FailToStart(p) \/ AnsweredByAnother(p) PROVE TypeOK'
  BY <1>7 DEF FailToStart, AnsweredByAnother
<1>8. ASSUME NEW p \in Proc, AskHung(p) \/ AskFails(p) PROVE TypeOK'
  BY <1>8 DEF AskHung, AskFails
<1>9. ASSUME NEW p \in Proc, Notify(p) \/ ServerError(p) \/ TakeSignal(p) PROVE TypeOK'
  BY <1>9 DEF Notify, ServerError, TakeSignal
<1>10. ASSUME NEW p \in Proc, BindLate(p) PROVE TypeOK'
  BY <1>10 DEF BindLate
<1>11. ASSUME NEW p \in Proc, DeferredRemove(p) PROVE TypeOK'
  BY <1>11 DEF DeferredRemove
<1>12. ASSUME NEW p \in Proc, Exit(p) PROVE TypeOK'
  BY <1>12 DEF Exit, PortWithout
<1>13. ASSUME NEW p \in Proc, Crash(p) PROVE TypeOK'
  BY <1>13 DEF Crash, PortWithout
<1>14. ASSUME NEW p \in Proc, Interrupt(p) PROVE TypeOK'
  <2>1. overlapped' \in BOOLEAN
    BY <1>14 DEF Interrupt, Settled
  <2>2. CASE Killed(p)
    BY <1>14, <2>1, <2>2 DEF Interrupt, Signal, Killed, PortWithout
  <2>3. CASE ~Killed(p)
    BY <1>14, <2>1, <2>3 DEF Interrupt, Signal
  <2>4. QED
    BY <2>2, <2>3
<1>15. ASSUME NEW p \in Proc, NothingToStop(p) PROVE TypeOK'
  BY <1>15 DEF NothingToStop, Stopped
<1>16. ASSUME NEW p \in Proc, ReadTarget(p) PROVE TypeOK'
  BY <1>16 DEF ReadTarget
<1>17. ASSUME NEW p \in Proc, Terminate(p) PROVE TypeOK'
  <2> DEFINE q == seen[p]
  <2>1. q \in Proc /\ pc[p] = "term"
    BY <1>17 DEF Terminate
  <2>2. CASE ~IsProcessAlive(q) /\ UNCHANGED <<port, signalled>>
    BY <1>17, <2>1, <2>2 DEF Terminate, Stopped, Signal, Killed, IsProcessAlive
  <2>3. CASE Killed(q)
    <3>1. p # q
      BY <2>1, <2>3 DEF Killed
    <3>2. port' = PortWithout(q) /\ UNCHANGED signalled
      BY <1>17, <2>1, <2>3 DEF Terminate, Signal, Killed, IsProcessAlive
    <3>3. pc' = [pc EXCEPT ![p] = "wait", ![q] = "gone"]
      BY <1>17, <2>1, <2>3, <3>1 DEF Terminate, Killed, IsProcessAlive
    <3>4. QED
      BY <1>17, <2>1, <2>3, <3>1, <3>2, <3>3 DEF Terminate, PortWithout
  <2>4. CASE pc[q] \in {"waiting", "leaving", "exiting"}
    <3>1. port' = port /\ signalled' = signalled \cup {q} /\ p # q
      BY <1>17, <2>1, <2>4 DEF Terminate, Signal, Killed, IsProcessAlive
    <3>2. pc' = [pc EXCEPT ![p] = "wait"]
      BY <1>17, <2>1, <2>4, <3>1 DEF Terminate, Killed, IsProcessAlive
    <3>3. QED
      BY <1>17, <2>1, <3>1, <3>2 DEF Terminate
  <2>5. QED
    BY <1>17, <2>2, <2>3, <2>4 DEF Terminate, Signal
<1>18. ASSUME NEW p \in Proc, AwaitExit(p) PROVE TypeOK'
  <2> DEFINE q == seen[p]
  <2>1. q \in Proc /\ pc[p] = "wait" /\ port # p
    BY <1>18 DEF AwaitExit
  <2>2. CASE ~IsProcessAlive(q)
    BY <1>18, <2>1, <2>2 DEF AwaitExit
  <2>3. CASE IsProcessAlive(q)
    <3>1. /\ pc' = [pc EXCEPT ![p] = "remove", ![q] = "gone"]
          /\ port' = PortWithout(q)
          /\ signalled' = signalled \ {q}
      BY <1>18, <2>3 DEF AwaitExit
    <3>2. QED
      BY <1>18, <2>1, <3>1 DEF AwaitExit, PortWithout
  <2>4. QED
    BY <2>2, <2>3
<1>19. ASSUME NEW p \in Proc, RemoveAfterStop(p) PROVE TypeOK'
  BY <1>19 DEF RemoveAfterStop, Stopped
<1>20. ASSUME NEW p \in Proc, QueryStatus(p) \/ CleanStale(p) PROVE TypeOK'
  BY <1>20 DEF QueryStatus, CleanStale
<1>21. QED
  BY <1>1, <1>2, <1>3, <1>4, <1>5, <1>6, <1>7, <1>8, <1>9, <1>10, <1>11, <1>12,
     <1>13, <1>14, <1>15, <1>16, <1>17, <1>18, <1>19, <1>20 DEF Next, Step

(* The PID file, the port and what a stop has read name processes, and     *)
(* only a process with a server holds the port, however commands overlap.  *)
THEOREM TypeCorrect == Spec => []TypeOK
<1>1. Init => TypeOK
  BY DEF Init, TypeOK, Place
<1>2. QED
  BY <1>1, TypeStep, PTL DEF Spec

-----------------------------------------------------------------------------
(* The inductive invariant.                                                *)

(* The processes that have a server, until they have ended.                *)
Serving(p) == pc[p] \in {"waiting", "leaving", "exiting"}

(* The processes whose command is under way.                               *)
Commanded(p) == pc[p] \notin {"fresh", "gone", "waiting", "leaving", "exiting"}

(* As long as commands are given one at a time one command is under way,   *)
(* and one process has a server.                                           *)
OneCommand == \A p, q \in Proc : Commanded(p) /\ Commanded(q) => p = q
OneServer  == \A p, q \in Proc : Serving(p) /\ Serving(q) => p = q

(* What a command under way knows of a server: none is signalled before    *)
(* the command that will stop it has it in mind, and once a command has    *)
(* looked at the file, or waited for its server, there is none left.       *)
CommandKnows ==
    \A p, s \in Proc : Commanded(p) /\ Serving(s) =>
        /\ pc[p] \in {"check", "read", "query", "term", "wait"}
        /\ pc[p] # "wait" => pc[s] = "waiting" /\ s \notin signalled
        /\ pc[p] \in {"term", "wait"} => seen[p] = s

(* A process that starts a server has written its PID, and holds the port  *)
(* once its server listens.                                                *)
StarterNamed ==
    \A p \in Proc : /\ pc[p] \in {"starting", "asking", "bound"} => pidFile = p
                    /\ pc[p] = "bound" => port = p

Orderly == ServerIsNamed /\ OneCommand /\ OneServer /\ CommandKnows /\ StarterNamed

CliInv == TypeOK /\ (~overlapped => Orderly)

-----------------------------------------------------------------------------
(* The steps, as long as no command overlaps with another.                 *)

LEMMA StepOrderly ==
    ASSUME TypeOK, Orderly, ~overlapped, ~overlapped', [Next]_vars
    PROVE  Orderly'
<1> USE CliAssumption
    DEF Orderly, ServerIsNamed, OneCommand, OneServer, CommandKnows, StarterNamed,
        Commanded, Serving, TypeOK, Place, Goto
<1>1. CASE UNCHANGED vars
  BY <1>1 DEF vars
<1>2. ASSUME NEW p \in Proc, NEW c \in Command, Launch(p, c) PROVE Orderly'
  <2>1. FirstPlace(c) \in {"check", "query", "read"}
    BY DEF FirstPlace, Command
  <2>2. Settled
    BY <1>2 DEF Launch
  <2>3. QED
    BY <1>2, <2>1, <2>2 DEF Launch, Settled
<1>3. ASSUME NEW p \in Proc, CheckRunning(p) PROVE Orderly'
  BY <1>3 DEF CheckRunning, IsProcessAlive
<1>4. ASSUME NEW p \in Proc, ProbePort(p) PROVE Orderly'
  BY <1>4 DEF ProbePort
<1>5. ASSUME NEW p \in Proc, WritePID(p) PROVE Orderly'
  BY <1>5 DEF WritePID
<1>6. ASSUME NEW p \in Proc, Bind(p) PROVE Orderly'
  BY <1>6 DEF Bind
<1>7. ASSUME NEW p \in Proc, FailToStart(p) PROVE Orderly'
  BY <1>7 DEF FailToStart
<1>8. ASSUME NEW p \in Proc, AnsweredByAnother(p) PROVE Orderly'
  BY <1>8 DEF AnsweredByAnother
<1>9. ASSUME NEW p \in Proc, AskHung(p) PROVE Orderly'
  <2>1. pc[p] = "starting" /\ port \in Proc /\ pc[port] = "waiting"
    BY <1>9 DEF AskHung
  <2>2. QED
    BY <2>1
<1>10. ASSUME NEW p \in Proc, AskFails(p) PROVE Orderly'
  BY <1>10 DEF AskFails
<1>11. ASSUME NEW p \in Proc, Notify(p) PROVE Orderly'
  BY <1>11 DEF Notify
<1>12. ASSUME NEW p \in Proc, ServerError(p) \/ TakeSignal(p) PROVE Orderly'
  BY <1>12 DEF ServerError, TakeSignal
<1>13. ASSUME NEW p \in Proc, BindLate(p) PROVE Orderly'
  BY <1>13 DEF BindLate
<1>14. ASSUME NEW p \in Proc, DeferredRemove(p) PROVE Orderly'
  BY <1>14 DEF DeferredRemove
<1>15. ASSUME NEW p \in Proc, Exit(p) PROVE Orderly'
  BY <1>15 DEF Exit, PortWithout
<1>16. ASSUME NEW p \in Proc, Crash(p) PROVE Orderly'
  BY <1>16 DEF Crash, PortWithout
<1>17. ASSUME NEW p \in Proc, Interrupt(p) PROVE Orderly'
  <2>1. Settled
    BY <1>17 DEF Interrupt
  <2>2. pc[p] = "waiting" /\ pc' = pc /\ UNCHANGED <<port, pidFile, seen>>
    BY <1>17, <2>1 DEF Interrupt, Signal, Settled, Killed
  <2>3. QED
    BY <2>1, <2>2 DEF Settled
<1>18. ASSUME NEW p \in Proc, NothingToStop(p) PROVE Orderly'
  BY <1>18 DEF NothingToStop, Stopped
<1>19. ASSUME NEW p \in Proc, ReadTarget(p) PROVE Orderly'
  BY <1>19 DEF ReadTarget, IsProcessAlive
<1>20. ASSUME NEW p \in Proc, Terminate(p) PROVE Orderly'
  BY <1>20 DEF Terminate, Signal, Killed, IsProcessAlive, Stopped
<1>21. ASSUME NEW p \in Proc, AwaitExit(p) PROVE Orderly'
  BY <1>21 DEF AwaitExit, IsProcessAlive, PortWithout
<1>22. ASSUME NEW p \in Proc, RemoveAfterStop(p) PROVE Orderly'
  BY <1>22 DEF RemoveAfterStop, Stopped
<1>23. ASSUME NEW p \in Proc, QueryStatus(p) PROVE Orderly'
  BY <1>23 DEF QueryStatus, IsProcessAlive
<1>24. ASSUME NEW p \in Proc, CleanStale(p) PROVE Orderly'
  BY <1>24 DEF CleanStale
<1>25. QED
  BY <1>1, <1>2, <1>3, <1>4, <1>5, <1>6, <1>7, <1>8, <1>9, <1>10, <1>11, <1>12,
     <1>13, <1>14, <1>15, <1>16, <1>17, <1>18, <1>19, <1>20, <1>21, <1>22, <1>23,
     <1>24
     DEF Next, Step

(* Overlapping, once it has happened, stays on record.                     *)
LEMMA OverlappedStays == [Next]_vars /\ overlapped => overlapped'
  BY DEF Next, Step, Launch, Interrupt, Crash, CheckRunning, ProbePort, WritePID, Bind,
         FailToStart, AnsweredByAnother, AskHung, AskFails, Notify, BindLate, ServerError, TakeSignal,
         DeferredRemove, Exit, NothingToStop, ReadTarget, Terminate, AwaitExit,
         RemoveAfterStop, QueryStatus, CleanStale, vars

-----------------------------------------------------------------------------
(* Theorems.                                                               *)

THEOREM CommandsInOrder == Spec => []CliInv
<1>1. Init => CliInv
  <2> SUFFICES ASSUME Init PROVE CliInv
    OBVIOUS
  <2>1. TypeOK
    BY DEF Init, TypeOK, Place
  <2>2. Orderly
    BY DEF Init, Orderly, ServerIsNamed, OneCommand, OneServer, CommandKnows,
           StarterNamed, Commanded, Serving
  <2>3. QED
    BY <2>1, <2>2 DEF CliInv
<1>2. CliInv /\ [Next]_vars => CliInv'
  <2> SUFFICES ASSUME CliInv, [Next]_vars PROVE CliInv'
    OBVIOUS
  <2>1. TypeOK /\ TypeOK'
    BY TypeStep DEF CliInv
  <2>2. ASSUME ~overlapped' PROVE Orderly'
    <3>1. ~overlapped
      BY <2>2, OverlappedStays
    <3>2. Orderly
      BY <3>1 DEF CliInv
    <3>3. QED
      BY <2>1, <2>2, <3>1, <3>2, StepOrderly
  <2>3. QED
    BY <2>1, <2>2 DEF CliInv
<1>3. QED
  BY <1>1, <1>2, PTL DEF Spec

(* A server that waits for its signal has the port and is the one the PID  *)
(* file names, for any number of commands given one at a time: whatever    *)
(* crashed, was interrupted, came up too late or had to be killed before.  *)
THEOREM ServerAlwaysNamed == Spec => []ServerIsNamed
<1>1. CliInv => ServerIsNamed
  BY DEF CliInv, Orderly, ServerIsNamed
<1>2. QED
  BY <1>1, CommandsInOrder, PTL

(* What two starts at a time refute, RunStop telling that nothing runs     *)
(* while a server serves, cannot happen to commands given one at a time.   *)
TellsTruth ==
    \A p, q \in Proc : NothingToStop(p) => ~(pc[q] = "waiting" /\ port = q)

THEOREM AloneStopTellsTruth == Spec => [][~overlapped => TellsTruth]_vars
<1>1. CliInv /\ [Next]_vars => [~overlapped => TellsTruth]_vars
  <2> SUFFICES ASSUME CliInv, ~overlapped, NEW p \in Proc, NEW q \in Proc,
                      NothingToStop(p), pc[q] = "waiting"
               PROVE  FALSE
    BY DEF TellsTruth
  <2>1. pidFile = q
    BY DEF CliInv, Orderly, ServerIsNamed
  <2>2. pidFile = NoPID
    BY DEF NothingToStop
  <2>3. QED
    BY <2>1, <2>2, CliAssumption
<1>2. QED
  BY <1>1, CommandsInOrder, PTL DEF Spec
=============================================================================
