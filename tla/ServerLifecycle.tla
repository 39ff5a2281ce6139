-------------------------- MODULE ServerLifecycle --------------------------
(***************************************************************************)
(* The lifecycle manager that starts, watches and stops the Minecraft      *)
(* server process of a room.                                               *)
(*                                                                         *)
(* Source: apps/desktop/src/runtime/node-local-runtime.mjs,                *)
(* createLocalServerLifecycleManager with launchLocalServer and            *)
(* observeProcess.  Commands reach a manager one at a time (the host       *)
(* process awaits each frame before it reads the next), but each of them   *)
(* waits inside: for the launch checks, for the process to exit, for a     *)
(* write to its stdin.  Meanwhile processes print, die and are reported,   *)
(* and the two timers of stop() fire.  Code between two awaits runs in one *)
(* macrotask with its microtasks and is one action; this is why stop()     *)
(* resumes inside the action that settles the promise it awaits.           *)
(*                                                                         *)
(* The manager's observers carry no process identity: whichever process    *)
(* they hear from, they update the one manager state.                      *)
(***************************************************************************)
EXTENDS Naturals, FiniteSets, ServerContract

CONSTANTS
  MaxProcesses,  (* bound: processes spawned                                *)
  KillMayFail,   (* BOOLEAN: process.kill() can emit 'error'                *)
  LateOutput     (* BOOLEAN: 'exit' can come before the last 'data'         *)

ASSUME LifecycleAssumption ==
  /\ MaxProcesses \in Nat
  /\ KillMayFail \in BOOLEAN
  /\ LateOutput \in BOOLEAN

\* Processes are numbered as they are spawned; processRef = null is process 0.
ProcessIds == 1..MaxProcesses
NoProcess == 0

\* HostRuntimeStates a manager is ever in.  RESTARTING is not among them:
\* restart() sets it and stop() replaces it before anything else can run.
States == ServerStates

\* The log lines that matter: one matches readyLogPattern, one crashLogPattern.
Lines == {"ready", "crash"}

VARIABLES
  state, processRef, processExited,   (* the manager's own variables        *)
  call,       (* the command in progress: what it is, where it waits        *)
  timers,     (* of the stop() in progress: "none", "armed" or "killed"     *)
  procs       (* the operating system's processes and their event streams   *)

vars == <<state, processRef, processExited, call, timers, procs>>

Command == {"start", "stop", "restart", "send"}

Call == {[op |-> "none"]}
          \cup [op : Command, at : {"launching", "write"}]
          \cup [op : Command, at : {"exit"}, of : ProcessIds]

\* said: lines printed; unread: those still in the pipes (stdout and stderr are
\* not ordered with each other); buffered: lines received without their newline.
Proc == [life : {"unborn", "stillborn", "alive", "dead"},
         said : SUBSET Lines, unread : SUBSET Lines, buffered : SUBSET Lines,
         reported : SUBSET {"exit", "error"}]

NoCall == [op |-> "none"]

Init ==
  /\ state = "stopped"
  /\ processRef = NoProcess
  /\ processExited = TRUE
  /\ call = NoCall
  /\ timers = "none"
  /\ procs = [p \in ProcessIds |->
                [life |-> "unborn", said |-> {}, unread |-> {}, buffered |-> {},
                 reported |-> {}]]

hasProcess == processRef # NoProcess /\ ~processExited

waitsFor(at) == call # NoCall /\ call.at = at

\* The stop() in progress awaits the exitPromise of process p.
stopAwaits(p) == waitsFor("exit") /\ call.of = p

-----------------------------------------------------------------------------
(* Commands.                                                               *)

\* Fault: start() does not look for a running process.
startFault ==
  /\ call = NoCall
  /\ call' = [op |-> "start", at |-> "launching"]
  /\ UNCHANGED <<state, processRef, processExited, timers, procs>>

\* start() of a manager whose process runs is refused; otherwise it awaits the
\* checks of launchLocalServer.
start ==
  /\ call = NoCall
  /\ ~hasProcess
  /\ call' = [op |-> "start", at |-> "launching"]
  /\ UNCHANGED <<state, processRef, processExited, timers, procs>>

\* A missing artifact, an untrusted command or a spawn() that throws.
launchFails ==
  /\ waitsFor("launching")
  /\ state' = "failed"
  /\ call' = NoCall
  /\ UNCHANGED <<processRef, processExited, timers, procs>>

\* spawn() returns a child that runs, or one whose 'error' is still to come.
launchSucceeds(p) ==
  /\ waitsFor("launching")
  /\ procs[p].life = "unborn"
  /\ \A q \in 1..(p - 1) : procs[q].life # "unborn"
  /\ \E life \in {"alive", "stillborn"} : procs' = [procs EXCEPT ![p].life = life]
  /\ processRef' = p
  /\ processExited' = FALSE
  /\ state' = "starting"
  /\ call' = NoCall
  /\ UNCHANGED timers

\* The branch of stop() with a process: "stop\n" is written to its stdin and
\* both timers are set.
stopProcess(op) ==
  /\ hasProcess
  /\ state' = "stopping"
  /\ call' = [op |-> op, at |-> "exit", of |-> processRef]
  /\ timers' = "armed"
  /\ UNCHANGED <<processRef, processExited, procs>>

stop ==
  /\ call = NoCall
  /\ \/ stopProcess("stop")
     \/ /\ ~hasProcess
        /\ state' = "stopped"
        /\ UNCHANGED <<processRef, processExited, call, timers, procs>>

\* stop(), then start()
restart ==
  /\ call = NoCall
  /\ \/ stopProcess("restart")
     \/ /\ ~hasProcess
        /\ state' = "stopped"
        /\ call' = [op |-> "restart", at |-> "launching"]
        /\ UNCHANGED <<processRef, processExited, timers, procs>>

\* sendCommand awaits the write of one line.
sendCommand ==
  /\ call = NoCall
  /\ hasProcess
  /\ call' = [op |-> "send", at |-> "write"]
  /\ UNCHANGED <<state, processRef, processExited, timers, procs>>

writeDone ==
  /\ waitsFor("write")
  /\ call' = NoCall
  /\ UNCHANGED <<state, processRef, processExited, timers, procs>>

-----------------------------------------------------------------------------
(* What the manager hears of its processes.                                *)

\* Fault: the ready line is believed in any state.
onLogFault(current, lines) ==
  IF "crash" \in lines THEN "crashed"
  ELSE IF "ready" \in lines THEN "running" ELSE current

\* The state after onLog has seen some complete lines.
onLog(current, lines) ==
  IF "crash" \in lines THEN "crashed"
  ELSE IF "ready" \in lines /\ current = "starting" THEN "running" ELSE current

\* Fault: a clean exit code hides the crash that was logged.
onExitFault(current, code) ==
  IF current # "stopping" /\ code # 0 THEN "crashed" ELSE "stopped"

onExit(current, code) ==
  IF current = "stopping" THEN "stopped"
  ELSE IF current = "crashed" \/ code # 0 THEN "crashed" ELSE "stopped"

\* A complete line arrives, or the rest of a buffered one.
logLine(p, line) ==
  /\ line \in procs[p].unread \cup procs[p].buffered
  /\ procs' = [procs EXCEPT ![p].unread = @ \ {line}, ![p].buffered = @ \ {line}]
  /\ state' = onLog(state, {line})
  /\ UNCHANGED <<processRef, processExited, call, timers>>

\* The chunk ends before the line does: it waits in the line buffer.
partialLine(p, line) ==
  /\ line \in procs[p].unread
  /\ procs' = [procs EXCEPT ![p].unread = @ \ {line}, ![p].buffered = @ \cup {line}]
  /\ UNCHANGED <<state, processRef, processExited, call, timers>>

\* What stop() does when the promise it awaits settles with an exit: it reports
\* success, and a restart goes on to start().
stopReturns ==
  /\ state' = "stopped"
  /\ call' = IF call.op = "restart" THEN [op |-> "restart", at |-> "launching"]
                                    ELSE NoCall
  /\ timers' = "none"

\* The 'exit' event: onExit, then the promise settles, once, and what the line
\* buffers still hold is logged.
exit(p, code) ==
  /\ procs[p].life = "dead"
  /\ "exit" \notin procs[p].reported
  /\ LateOutput \/ procs[p].unread = {}
  /\ LET settles == procs[p].reported = {}
         flushed == IF settles THEN procs[p].buffered ELSE {}
     IN /\ procs' = [procs EXCEPT ![p].reported = @ \cup {"exit"},
                                  ![p].buffered = @ \ flushed]
        /\ IF stopAwaits(p)
           THEN stopReturns
           ELSE /\ state' = onLog(onExit(state, code), flushed)
                /\ UNCHANGED <<call, timers>>
  /\ processRef' = NoProcess
  /\ processExited' = TRUE

\* The 'error' event, for a process that could not be spawned or be killed.  A
\* stop() that awaits it fails, and so does a restart().
error(p) ==
  /\ procs' = [procs EXCEPT ![p].reported = @ \cup {"error"}, ![p].buffered = {}]
  /\ state' = onLog("failed", IF stopAwaits(p) THEN {} ELSE procs[p].buffered)
  /\ IF stopAwaits(p)
     THEN call' = NoCall /\ timers' = "none"
     ELSE UNCHANGED <<call, timers>>
  /\ processRef' = NoProcess
  /\ processExited' = TRUE

spawnError(p) ==
  /\ procs[p].life = "stillborn"
  /\ procs[p].reported = {}
  /\ error(p)

-----------------------------------------------------------------------------
(* The timers of stop(): stopTimeoutMs, and 5 seconds after it the hard    *)
(* timeout.                                                                *)

killTimer ==
  /\ timers = "armed"
  /\ \/ /\ timers' = "killed"     \* the signal is sent; the process may yet run on
        /\ UNCHANGED <<state, processRef, processExited, call, procs>>
     \/ /\ KillMayFail
        /\ processRef \in ProcessIds
        /\ procs[processRef].life = "alive"
        /\ error(processRef)

\* Fault: once the signal is sent, only the exit of the process counts.
hardTimerDropped ==
  /\ timers = "killed"
  /\ \A p \in ProcessIds : procs[p].life # "alive"
  /\ state' = "failed"
  /\ call' = NoCall
  /\ timers' = "none"
  /\ UNCHANGED <<processRef, processExited, procs>>

\* stop() gives up.  The process stays the manager's process.
hardTimer ==
  /\ timers = "killed"
  /\ state' = "failed"
  /\ call' = NoCall
  /\ timers' = "none"
  /\ UNCHANGED <<processRef, processExited, procs>>

-----------------------------------------------------------------------------
(* The processes themselves (external).                                    *)

print(p, line) ==
  /\ procs[p].life = "alive"
  /\ line \notin procs[p].said
  /\ procs' = [procs EXCEPT ![p].said = @ \cup {line}, ![p].unread = @ \cup {line}]
  /\ UNCHANGED <<state, processRef, processExited, call, timers>>

die(p) ==
  /\ procs[p].life = "alive"
  /\ procs' = [procs EXCEPT ![p].life = "dead"]
  /\ UNCHANGED <<state, processRef, processExited, call, timers>>

Next ==
  \/ start \/ launchFails \/ stop \/ restart \/ sendCommand \/ writeDone
  \/ killTimer \/ hardTimer
  \/ \E p \in ProcessIds :
       \/ launchSucceeds(p) \/ spawnError(p) \/ die(p)
       \/ \E code \in {0, 1} : exit(p, code)
       \/ \E line \in Lines : print(p, line) \/ logLine(p, line) \/ partialLine(p, line)

\* Timers run out, file checks and pipe writes answer.  Nothing is assumed of
\* the server: it may ignore "stop", and the signal, for ever.
Fairness ==
  /\ WF_vars(launchFails \/ \E p \in ProcessIds : launchSucceeds(p))
  /\ WF_vars(writeDone)
  /\ WF_vars(killTimer)
  /\ WF_vars(hardTimer)

Spec == Init /\ [][Next]_vars /\ Fairness

-----------------------------------------------------------------------------
(* Properties.                                                             *)

\* The manager's variables and the process table have the shape the code gives
\* them, and timers are set exactly while stop() waits.
TypeOK ==
  /\ state \in States
  /\ processRef \in ProcessIds \cup {NoProcess}
  /\ processExited \in BOOLEAN
  /\ call \in Call
  /\ timers \in {"none", "armed", "killed"}
  /\ (timers # "none") = waitsFor("exit")
  /\ procs \in [ProcessIds -> Proc]

live == {p \in ProcessIds : procs[p].life = "alive"}

\* No kill() has failed: 'error' was only heard of children never spawned.  A
\* kill() that fails makes the manager forget a server that still runs and prints
\* (see OneLiveServer); the properties below are about the time before.
signalsWorked ==
  \A p \in ProcessIds : "error" \in procs[p].reported => procs[p].life = "stillborn"

\* A server that is alive is always the manager's process: it can be stopped, no
\* second server is started on the same world, and "stopped" is only said of a
\* room whose server is gone.  start(), onExit and the three ways stop() ends, by
\* the exit, by a crash that overtakes it and by giving up, must agree on when
\* processRef is given up.
LiveServerIsHeld ==
  /\ TypeOK
  /\ signalsWorked => \A p \in live : processRef = p /\ ~processExited
  /\ signalsWorked /\ state = "stopped" => live = {}

\* "running" is said of a server that itself printed the ready line and has not
\* been heard crashing (tests "marks running after Done log" and "keeps crash
\* state after later ready logs").
RunningMeansReady ==
  signalsWorked /\ state = "running" =>
    /\ processRef # NoProcess
    /\ LET proc  == procs[processRef]
           heard == proc.said \ (proc.unread \cup proc.buffered)
       IN "ready" \in heard /\ "crash" \notin heard

\* Every command is answered although the server may never react: stop() is
\* bounded by its hard timeout.
CommandsEnd == (call # NoCall) ~> (call = NoCall)

\* The manager as its callers see it through start(), stop() and status().
view == [state |-> state, held |-> hasProcess, alive |-> hasProcess /\ processRef \in live,
         stopping |-> timers # "none"]

\* Until a signal fails, every step of the manager and its processes is a step of
\* the contract the room host relies on: a start is never taken while a process
\* is held, a stop ends in "stopped" only with the process gone, and the state
\* says "running" only of a held process that was starting.
ImplementsContract ==
  /\ view = NoServer
  /\ [][signalsWorked' => view' \in Step(view)]_view

\* The test "rejects duplicate starts" expects one process at a time.
\* The code does not keep it (README, section 4).
OneLiveServer == Cardinality(live) <= 1
=============================================================================
