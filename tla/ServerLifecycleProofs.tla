----------------------- MODULE ServerLifecycleProofs -----------------------
(***************************************************************************)
(* Proofs about ServerLifecycle, for every number of processes, whether or *)
(* not kill() may fail, and for the manager with its metrics.              *)
(*                                                                         *)
(* The manager keeps one processRef and its observers do not say which     *)
(* process they heard, so everything rests on one fact: while no signal    *)
(* has failed, the process it holds is the only one that has not reported  *)
(* its end.                                                                *)
(***************************************************************************)
EXTENDS ServerMetrics, TLAPS

\* NoProcess is not the number of a process.
LEMMA NoProcessIsNone == NoProcess \notin ProcessIds
BY LifecycleAssumption DEF NoProcess, ProcessIds

-----------------------------------------------------------------------------
(* The inductive invariant.                                                *)

\* What holds of the manager's variables whether or not signals work.
Shape ==
  /\ TypeOK
  /\ processExited <=> processRef = NoProcess
  /\ waitsFor("launching") => processRef = NoProcess
  /\ \A p \in ProcessIds :
       /\ procs[p].life = "unborn" => procs[p].reported = {}
       /\ procs[p].life \in {"unborn", "stillborn"} =>
            procs[p].said = {} /\ procs[p].unread = {} /\ procs[p].buffered = {}
       /\ procs[p].unread \cup procs[p].buffered \subseteq procs[p].said

\* The process held is the one born that has not reported, and a stop() waits for it.
HeldIsUnreported ==
  /\ \A p \in ProcessIds :
       /\ procs[p].life # "unborn" => (processRef = p <=> procs[p].reported = {})
       /\ procs[p].life = "unborn" => processRef # p
       /\ procs[p].life = "alive" => procs[p].reported = {}
  /\ waitsFor("exit") => processRef # NoProcess /\ call.of = processRef
  /\ state = "stopped" => processRef = NoProcess

LifecycleInv == Shape /\ (signalsWorked => HeldIsUnreported)

heard(p) == procs[p].said \ (procs[p].unread \cup procs[p].buffered)

\* Output comes from the process held, and the state says what it has printed.
OutputIsCurrent ==
  /\ \A p \in ProcessIds :
       processRef # p => procs[p].unread = {} /\ procs[p].buffered = {}
  /\ state \in {"starting", "running"} =>
       processRef # NoProcess /\ "crash" \notin heard(processRef)
  /\ state = "running" => "ready" \in heard(processRef)

OutputInv == signalsWorked => OutputIsCurrent

\* onLog and onExit stay among the states a manager is ever in.
LEMMA LogAndExitStates ==
  ASSUME NEW current \in States, NEW lines, NEW code
  PROVE  /\ onLog(current, lines) \in States
         /\ onLog(current, lines) = "stopped" => current = "stopped"
         /\ onExit(current, code) \in States
BY DEF onLog, onExit, States, ServerStates

\* Only the entry of p changes, and that of its reports and buffers only.
Reports(p) ==
  /\ procs'[p].life = procs[p].life
  /\ procs'[p].said = procs[p].said
  /\ procs'[p].unread = procs[p].unread
  /\ procs'[p].buffered \subseteq procs[p].buffered
  /\ \A q \in ProcessIds : q # p => procs'[q] = procs[q]

\* The 'exit' event as the invariants see it.
LEMMA ExitStep ==
  ASSUME Shape, NEW p \in ProcessIds, NEW code \in {0, 1}, exit(p, code)
  PROVE  /\ procs' \in [ProcessIds -> Proc]
         /\ Reports(p)
         /\ procs[p].life = "dead"
         /\ "exit" \notin procs[p].reported
         /\ procs'[p].reported = procs[p].reported \cup {"exit"}
         /\ ~LateOutput => procs[p].unread = {}
         /\ procs[p].reported = {} => procs'[p].buffered = {}
         /\ processRef' = NoProcess /\ processExited' = TRUE
         /\ IF stopAwaits(p)
            THEN stopReturns
            ELSE /\ \E lines : state' = onLog(onExit(state, code), lines)
                 /\ UNCHANGED <<call, timers>>
<1> DEFINE flushed == IF procs[p].reported = {} THEN procs[p].buffered ELSE {}
<1>1. /\ procs' = [procs EXCEPT ![p].reported = @ \cup {"exit"}, ![p].buffered = @ \ flushed]
      /\ procs[p] \in Proc
      /\ procs \in [ProcessIds -> Proc]
  BY DEF exit, Shape, TypeOK
<1> DEFINE told == [procs[p] EXCEPT !.reported = procs[p].reported \cup {"exit"},
                                    !.buffered = procs[p].buffered \ flushed]
<1>2. procs' = [procs EXCEPT ![p] = told]
  BY <1>1
<1>3. told \in Proc
  BY <1>1 DEF Proc
<1>4. procs' \in [ProcessIds -> Proc] /\ procs'[p] = told
  BY <1>1, <1>2, <1>3
<1>5. /\ procs'[p].life = procs[p].life
      /\ procs'[p].said = procs[p].said
      /\ procs'[p].unread = procs[p].unread
      /\ procs'[p].reported = procs[p].reported \cup {"exit"}
      /\ procs'[p].buffered = procs[p].buffered \ flushed
      /\ \A q \in ProcessIds : q # p => procs'[q] = procs[q]
  <2> HIDE DEF flushed
  <2> QED
    BY <1>1, <1>2, <1>4 DEF Proc
<1>6. Reports(p) /\ (procs[p].reported = {} => procs'[p].buffered = {})
  BY <1>5 DEF Reports
<1>7. IF stopAwaits(p)
      THEN stopReturns
      ELSE /\ state' = onLog(onExit(state, code), flushed)
           /\ UNCHANGED <<call, timers>>
  BY DEF exit
<1>8. /\ procs[p].life = "dead"
      /\ "exit" \notin procs[p].reported
      /\ ~LateOutput => procs[p].unread = {}
      /\ processRef' = NoProcess /\ processExited' = TRUE
  BY DEF exit
<1> HIDE DEF flushed, told
<1>9. IF stopAwaits(p)
      THEN stopReturns
      ELSE /\ \E lines : state' = onLog(onExit(state, code), lines)
           /\ UNCHANGED <<call, timers>>
  BY <1>7
<1> QED
  BY <1>4, <1>5, <1>6, <1>8, <1>9

\* The 'error' event as the invariants see it.
LEMMA ErrorStep ==
  ASSUME Shape, NEW p \in ProcessIds, error(p)
  PROVE  /\ procs' \in [ProcessIds -> Proc]
         /\ Reports(p)
         /\ procs'[p].reported = procs[p].reported \cup {"error"}
         /\ procs'[p].buffered = {}
         /\ processRef' = NoProcess /\ processExited' = TRUE
         /\ state' \in {"failed", "crashed"}
         /\ IF stopAwaits(p)
            THEN state' = "failed" /\ call' = NoCall /\ timers' = "none"
            ELSE UNCHANGED <<call, timers>>
<1> DEFINE told == [procs[p] EXCEPT !.reported = procs[p].reported \cup {"error"},
                                    !.buffered = {}]
<1>1. /\ procs[p] \in Proc
      /\ procs \in [ProcessIds -> Proc]
      /\ procs' = [procs EXCEPT ![p] = told]
  BY DEF error, Shape, TypeOK
<1>2. told \in Proc
  BY <1>1 DEF Proc
<1>3. procs' \in [ProcessIds -> Proc] /\ procs'[p] = told
  BY <1>1, <1>2
<1> QED
  BY <1>1, <1>3 DEF error, Reports, Proc, onLog

\* A line moves from the pipe or the line buffer to the log, or to the buffer.
LEMMA LineStep ==
  ASSUME Shape, NEW p \in ProcessIds, NEW line \in Lines,
         logLine(p, line) \/ partialLine(p, line)
  PROVE  /\ procs' \in [ProcessIds -> Proc]
         /\ procs'[p].life = procs[p].life
         /\ procs'[p].said = procs[p].said
         /\ procs'[p].reported = procs[p].reported
         /\ procs'[p].unread \cup procs'[p].buffered
              \subseteq procs[p].unread \cup procs[p].buffered
         /\ \A q \in ProcessIds : q # p => procs'[q] = procs[q]
BY DEF logLine, partialLine, Shape, TypeOK, Proc

\* A process prints.
LEMMA PrintStep ==
  ASSUME Shape, NEW p \in ProcessIds, NEW line \in Lines, print(p, line)
  PROVE  /\ procs' \in [ProcessIds -> Proc]
         /\ procs[p].life = "alive"
         /\ procs'[p].life = "alive"
         /\ procs'[p].said = procs[p].said \cup {line}
         /\ line \notin procs[p].said
         /\ procs'[p].unread = procs[p].unread \cup {line}
         /\ procs'[p].buffered = procs[p].buffered
         /\ procs'[p].reported = procs[p].reported
         /\ \A q \in ProcessIds : q # p => procs'[q] = procs[q]
BY DEF print, Shape, TypeOK, Proc

\* A process is spawned, or dies: only its life changes.
LEMMA LifeStep ==
  ASSUME Shape, NEW p \in ProcessIds, launchSucceeds(p) \/ die(p)
  PROVE  /\ procs' \in [ProcessIds -> Proc]
         /\ launchSucceeds(p) => procs[p].life = "unborn"
                                 /\ procs'[p].life \in {"alive", "stillborn"}
         /\ die(p) => procs[p].life = "alive" /\ procs'[p].life = "dead"
         /\ procs'[p].said = procs[p].said
         /\ procs'[p].unread = procs[p].unread
         /\ procs'[p].buffered = procs[p].buffered
         /\ procs'[p].reported = procs[p].reported
         /\ \A q \in ProcessIds : q # p => procs'[q] = procs[q]
BY DEF launchSucceeds, die, Shape, TypeOK, Proc

-----------------------------------------------------------------------------
(* Shape.                                                                  *)

\* A manager without a process, over processes not yet born.
LEMMA InitShape == Init => Shape /\ HeldIsUnreported /\ OutputIsCurrent
<1> SUFFICES ASSUME Init
             PROVE  Shape /\ HeldIsUnreported /\ OutputIsCurrent
  OBVIOUS
<1>1. TypeOK
  BY DEF Init, TypeOK, States, ServerStates, Call, NoCall, Proc, waitsFor
<1> QED
  BY <1>1, NoProcessIsNone
     DEF Init, Shape, HeldIsUnreported, OutputIsCurrent, NoCall, waitsFor, heard

\* Every command, timer and event keeps the manager's variables in step.
LEMMA NextShape == Shape /\ [Next]_vars => Shape'
<1> SUFFICES ASSUME Shape, [Next]_vars
             PROVE  Shape'
  OBVIOUS
<1> USE NoProcessIsNone
<1>1. CASE start \/ sendCommand
  BY <1>1 DEF start, sendCommand, hasProcess, Shape, TypeOK, Call, NoCall, Command, waitsFor
<1>2. CASE launchFails \/ writeDone
  BY <1>2 DEF launchFails, writeDone, Shape, TypeOK, Call, NoCall, waitsFor,
              States, ServerStates
<1>3. ASSUME NEW op \in {"stop", "restart"}, call = NoCall, stopProcess(op)
      PROVE  Shape'
  <2>1. call' = [op |-> op, at |-> "exit", of |-> processRef] /\ processRef \in ProcessIds
    BY <1>3 DEF stopProcess, hasProcess, Shape, TypeOK
  <2>2. call' \in Call /\ call' # NoCall /\ call'.at = "exit"
    BY <2>1 DEF Call, NoCall, Command
  <2> QED
    BY <1>3, <2>2 DEF stopProcess, Shape, TypeOK, waitsFor, States, ServerStates
<1>4. CASE stop
  BY <1>3, <1>4 DEF stop, Shape, TypeOK, waitsFor, States, ServerStates
<1>5. CASE restart
  <2>1. CASE stopProcess("restart")
    BY <1>3, <1>5, <2>1 DEF restart
  <2>2. CASE ~hasProcess /\ call' = [op |-> "restart", at |-> "launching"]
    BY <1>5, <2>2 DEF restart, stopProcess, hasProcess, Shape, TypeOK, Call, NoCall,
                      Command, waitsFor, States, ServerStates
  <2> QED
    BY <1>5, <2>1, <2>2 DEF restart
<1>6. ASSUME NEW p \in ProcessIds, launchSucceeds(p)
      PROVE  Shape'
  <2>1. /\ processRef' = p /\ processExited' = FALSE /\ state' = "starting"
        /\ call' = NoCall /\ UNCHANGED timers /\ waitsFor("launching")
    BY <1>6 DEF launchSucceeds
  <2>2. TypeOK'
    BY <1>6, <2>1, LifeStep DEF Shape, TypeOK, Call, NoCall, waitsFor, States, ServerStates
  <2> QED
    BY <1>6, <2>1, <2>2, LifeStep DEF Shape, NoCall, waitsFor
<1>7. ASSUME NEW p \in ProcessIds, die(p)
      PROVE  Shape'
  <2>1. UNCHANGED <<state, processRef, processExited, call, timers>>
    BY <1>7 DEF die
  <2> QED
    BY <1>7, <2>1, LifeStep DEF Shape, TypeOK, waitsFor
<1>8. ASSUME NEW p \in ProcessIds, NEW code \in {0, 1}, exit(p, code)
      PROVE  Shape'
  <2>1. /\ procs' \in [ProcessIds -> Proc]
        /\ Reports(p)
        /\ procs[p].life = "dead"
        /\ processRef' = NoProcess /\ processExited' = TRUE
        /\ IF stopAwaits(p)
           THEN stopReturns
           ELSE /\ \E lines : state' = onLog(onExit(state, code), lines)
                /\ UNCHANGED <<call, timers>>
    BY <1>8, ExitStep
  <2>2. /\ state' \in States
        /\ call' \in Call
        /\ timers' \in {"none", "armed", "killed"}
        /\ (timers' # "none") = waitsFor("exit")'
    <3>1. CASE stopAwaits(p)
      <4>1. /\ state' = "stopped" /\ timers' = "none"
            /\ call' \in {NoCall, [op |-> "restart", at |-> "launching"]}
        BY <2>1, <3>1 DEF stopReturns
      <4> QED
        BY <4>1 DEF waitsFor, Call, NoCall, Command, States, ServerStates
    <3>2. CASE ~stopAwaits(p)
      <4>1. UNCHANGED <<call, timers>>
        BY <2>1, <3>2
      <4>2. state' \in States
        BY <2>1, <3>2, LogAndExitStates DEF Shape, TypeOK
      <4> QED
        BY <4>1, <4>2 DEF waitsFor, Shape, TypeOK
    <3> QED
      BY <3>1, <3>2
  <2>3. \A q \in ProcessIds :
         /\ procs'[q].life = "unborn" => procs'[q].reported = {}
         /\ procs'[q].life \in {"unborn", "stillborn"} =>
              procs'[q].said = {} /\ procs'[q].unread = {} /\ procs'[q].buffered = {}
         /\ procs'[q].unread \cup procs'[q].buffered \subseteq procs'[q].said
    BY <2>1 DEF Reports, Shape
  <2> QED
    BY <2>1, <2>2, <2>3 DEF Shape, TypeOK
<1>9. ASSUME NEW p \in ProcessIds, procs[p].life # "unborn", error(p)
      PROVE  Shape'
  <2>1. /\ procs' \in [ProcessIds -> Proc]
        /\ Reports(p)
        /\ processRef' = NoProcess /\ processExited' = TRUE
        /\ state' \in {"failed", "crashed"}
        /\ IF stopAwaits(p)
           THEN state' = "failed" /\ call' = NoCall /\ timers' = "none"
           ELSE UNCHANGED <<call, timers>>
    BY <1>9, ErrorStep
  <2>2. /\ state' \in States
        /\ call' \in Call
        /\ timers' \in {"none", "armed", "killed"}
        /\ (timers' # "none") = waitsFor("exit")'
    BY <2>1 DEF Shape, TypeOK, waitsFor, Call, NoCall, States, ServerStates
  <2>3. \A q \in ProcessIds :
         /\ procs'[q].life = "unborn" => procs'[q].reported = {}
         /\ procs'[q].life \in {"unborn", "stillborn"} =>
              procs'[q].said = {} /\ procs'[q].unread = {} /\ procs'[q].buffered = {}
         /\ procs'[q].unread \cup procs'[q].buffered \subseteq procs'[q].said
    BY <1>9, <2>1 DEF Reports, Shape
  <2> QED
    BY <2>1, <2>2, <2>3 DEF Shape, TypeOK
<1>10. ASSUME NEW p \in ProcessIds, spawnError(p)
       PROVE  Shape'
  BY <1>9, <1>10 DEF spawnError
<1>11. CASE killTimer
  <2>1. CASE timers' = "killed" /\ UNCHANGED <<state, processRef, processExited, call, procs>>
    BY <1>11, <2>1 DEF killTimer, Shape, TypeOK, waitsFor
  <2>2. CASE processRef \in ProcessIds /\ procs[processRef].life = "alive" /\ error(processRef)
    BY <1>9, <2>2
  <2> QED
    BY <1>11, <2>1, <2>2 DEF killTimer
<1>12. CASE hardTimer
  BY <1>12 DEF hardTimer, Shape, TypeOK, waitsFor, Call, NoCall, States, ServerStates
<1>13. ASSUME NEW p \in ProcessIds, NEW line \in Lines, print(p, line)
       PROVE  Shape'
  <2>1. UNCHANGED <<state, processRef, processExited, call, timers>>
    BY <1>13 DEF print
  <2> QED
    BY <1>13, <2>1, PrintStep DEF Shape, TypeOK, waitsFor
<1>14. ASSUME NEW p \in ProcessIds, NEW line \in Lines,
              logLine(p, line) \/ partialLine(p, line)
       PROVE  Shape'
  <2>1. UNCHANGED <<processRef, processExited, call, timers>> /\ state' \in States
    BY <1>14, LogAndExitStates DEF logLine, partialLine, Shape, TypeOK
  <2> QED
    BY <1>14, <2>1, LineStep DEF Shape, TypeOK, waitsFor
<1>15. CASE UNCHANGED vars
  BY <1>15 DEF vars, Shape, TypeOK, waitsFor
<1> QED
  BY <1>1, <1>2, <1>4, <1>5, <1>6, <1>7, <1>8, <1>10, <1>11, <1>12, <1>13, <1>14, <1>15
     DEF Next

-----------------------------------------------------------------------------
(* The process held.                                                       *)

\* A signal that failed is never forgotten: signalsWorked is about the whole past.
LEMMA SignalsWorkedBefore == Shape /\ [Next]_vars /\ signalsWorked' => signalsWorked
<1> SUFFICES ASSUME Shape, [Next]_vars, signalsWorked',
                    NEW p \in ProcessIds, "error" \in procs[p].reported
             PROVE  procs[p].life = "stillborn"
  BY DEF signalsWorked
<1>1. procs[p].life # "unborn"
  BY DEF Shape
<1>2. "error" \in procs'[p].reported => procs'[p].life = "stillborn"
  BY DEF signalsWorked
<1>3. CASE procs' = procs
  BY <1>2, <1>3
<1>4. ASSUME NEW q \in ProcessIds, launchSucceeds(q) \/ die(q)
      PROVE  procs[p].life = "stillborn"
  BY <1>1, <1>2, <1>4, LifeStep
<1>5. ASSUME NEW q \in ProcessIds, NEW code \in {0, 1}, exit(q, code)
      PROVE  procs[p].life = "stillborn"
  BY <1>2, <1>5, ExitStep DEF Reports
<1>6. ASSUME NEW q \in ProcessIds, error(q)
      PROVE  procs[p].life = "stillborn"
  BY <1>2, <1>6, ErrorStep DEF Reports
<1>7. ASSUME NEW q \in ProcessIds, NEW line \in Lines,
             print(q, line) \/ logLine(q, line) \/ partialLine(q, line)
      PROVE  procs[p].life = "stillborn"
  BY <1>2, <1>7, PrintStep, LineStep
<1> QED
  BY <1>3, <1>4, <1>5, <1>6, <1>7
     DEF Next, vars, start, launchFails, stop, stopProcess, restart, sendCommand, writeDone,
         killTimer, hardTimer, spawnError

\* While signals work, only the process held can report: an exit or an error that
\* clears processRef is its own.
LEMMA ReporterIsHeld ==
  ASSUME HeldIsUnreported, signalsWorked, NEW p \in ProcessIds,
         \/ procs[p].life = "dead" /\ "exit" \notin procs[p].reported
         \/ procs[p].life = "stillborn" /\ procs[p].reported = {},
         procs \in [ProcessIds -> Proc]
  PROVE  processRef = p /\ procs[p].reported = {}
<1>1. procs[p].life = "dead" /\ "exit" \notin procs[p].reported => procs[p].reported = {}
  BY DEF signalsWorked, Proc
<1> QED
  BY <1>1 DEF HeldIsUnreported

\* start() needs the last process gone; stop() gives it up only when it reports;
\* so there is never a second one.
LEMMA NextHeld ==
  ASSUME Shape, Shape', HeldIsUnreported, signalsWorked, signalsWorked', [Next]_vars
  PROVE  HeldIsUnreported'
<1> USE NoProcessIsNone
<1>1. CASE start \/ sendCommand \/ launchFails \/ writeDone
  BY <1>1 DEF start, sendCommand, launchFails, writeDone, HeldIsUnreported, waitsFor, NoCall
<1>2. ASSUME NEW op \in {"stop", "restart"}, stopProcess(op)
      PROVE  HeldIsUnreported'
  BY <1>2 DEF stopProcess, hasProcess, HeldIsUnreported, waitsFor, NoCall
<1>3. CASE ~hasProcess /\ (stop \/ restart)
  <2>1. processRef = NoProcess
    BY <1>3 DEF Shape, hasProcess
  <2>2. UNCHANGED <<processRef, procs>> /\ ~waitsFor("exit")'
    BY <1>3 DEF stop, restart, stopProcess, hasProcess, waitsFor, NoCall
  <2> QED
    BY <2>1, <2>2 DEF HeldIsUnreported
<1>4. ASSUME NEW p \in ProcessIds, launchSucceeds(p)
      PROVE  HeldIsUnreported'
  <2>1. /\ processRef = NoProcess
        /\ processRef' = p
        /\ state' = "starting"
        /\ ~waitsFor("exit")'
    BY <1>4 DEF launchSucceeds, Shape, waitsFor
  <2>2. procs[p].reported = {}
    BY <1>4, LifeStep DEF Shape
  <2> QED
    BY <1>4, <2>1, <2>2, LifeStep DEF HeldIsUnreported
<1>5. ASSUME NEW p \in ProcessIds, die(p)
      PROVE  HeldIsUnreported'
  <2>1. UNCHANGED <<state, processRef, call>>
    BY <1>5 DEF die
  <2> QED
    BY <1>5, <2>1, LifeStep DEF HeldIsUnreported, waitsFor
<1>6. ASSUME NEW p \in ProcessIds, processRef = p, procs[p].life # "unborn",
             Reports(p), procs'[p].reported # {}, procs'[p].life # "alive",
             processRef' = NoProcess,
             ~waitsFor("exit")' \/ (UNCHANGED call /\ ~stopAwaits(p))
      PROVE  HeldIsUnreported'
  <2>1. ~waitsFor("exit")'
    BY <1>6 DEF HeldIsUnreported, stopAwaits, waitsFor
  <2> QED
    BY <1>6, <2>1 DEF HeldIsUnreported, Reports
<1>7. ASSUME NEW p \in ProcessIds, NEW code \in {0, 1}, exit(p, code)
      PROVE  HeldIsUnreported'
  <2>1. /\ Reports(p)
        /\ procs[p].life = "dead" /\ "exit" \notin procs[p].reported
        /\ procs'[p].reported = procs[p].reported \cup {"exit"}
        /\ processRef' = NoProcess
        /\ stopAwaits(p) => stopReturns
        /\ ~stopAwaits(p) => UNCHANGED call
    BY <1>7, ExitStep
  <2>2. processRef = p
    BY <2>1, ReporterIsHeld DEF Shape, TypeOK
  <2>3. stopAwaits(p) => ~waitsFor("exit")'
    BY <2>1 DEF stopReturns, waitsFor, NoCall
  <2> QED
    BY <1>6, <2>1, <2>2, <2>3 DEF Reports
<1>8. ASSUME NEW p \in ProcessIds, spawnError(p)
      PROVE  HeldIsUnreported'
  <2>1. /\ Reports(p)
        /\ procs[p].life = "stillborn" /\ procs[p].reported = {}
        /\ procs'[p].reported = procs[p].reported \cup {"error"}
        /\ processRef' = NoProcess
        /\ stopAwaits(p) => call' = NoCall
        /\ ~stopAwaits(p) => UNCHANGED call
    BY <1>8, ErrorStep DEF spawnError
  <2>2. processRef = p
    BY <2>1, ReporterIsHeld DEF Shape, TypeOK
  <2>3. stopAwaits(p) => ~waitsFor("exit")'
    BY <2>1 DEF waitsFor
  <2> QED
    BY <1>6, <2>1, <2>2, <2>3 DEF Reports
<1>9. CASE killTimer
  <2>1. UNCHANGED <<state, processRef, processExited, call, procs>>
    <3>1. ASSUME processRef \in ProcessIds, procs[processRef].life = "alive", error(processRef)
          PROVE  FALSE
      <4>1. /\ procs'[processRef].life = "alive"
            /\ "error" \in procs'[processRef].reported
        BY <3>1, ErrorStep DEF Reports
      <4> QED
        BY <3>1, <4>1 DEF signalsWorked
    <3> QED
      BY <1>9, <3>1 DEF killTimer
  <2> QED
    BY <2>1 DEF HeldIsUnreported, waitsFor
<1>10. CASE hardTimer
  BY <1>10 DEF hardTimer, HeldIsUnreported, waitsFor
<1>11. ASSUME NEW p \in ProcessIds, NEW line \in Lines, print(p, line)
       PROVE  HeldIsUnreported'
  <2>1. UNCHANGED <<state, processRef, call>>
    BY <1>11 DEF print
  <2> QED
    BY <1>11, <2>1, PrintStep DEF HeldIsUnreported, waitsFor
<1>12. ASSUME NEW p \in ProcessIds, NEW line \in Lines,
              logLine(p, line) \/ partialLine(p, line)
       PROVE  HeldIsUnreported'
  <2>1. /\ UNCHANGED <<processRef, call>>
        /\ state' = "stopped" => state = "stopped"
    BY <1>12, LogAndExitStates DEF logLine, partialLine, Shape, TypeOK
  <2> QED
    BY <1>12, <2>1, LineStep DEF HeldIsUnreported, waitsFor
<1>13. CASE UNCHANGED vars
  BY <1>13 DEF vars, HeldIsUnreported, waitsFor
<1> QED
  BY <1>1, <1>2, <1>3, <1>4, <1>5, <1>7, <1>8, <1>9, <1>10, <1>11, <1>12, <1>13
     DEF Next, stop, restart

\* The invariant of the manager, in every state that commands, timers and its
\* processes can bring about.
LEMMA NextLifecycleInv == LifecycleInv /\ [Next]_vars => LifecycleInv'
BY NextShape, SignalsWorkedBefore, NextHeld DEF LifecycleInv

\* The three ways a stop() ends, the exits and the errors in between agree on when
\* processRef is given up.
THEOREM LifecycleInvariant == Init /\ [][Next]_vars => []LifecycleInv
<1>1. Init => LifecycleInv
  BY InitShape DEF LifecycleInv
<1>2. LifecycleInv /\ [Next]_vars => LifecycleInv'
  BY NextLifecycleInv
<1> QED
  BY <1>1, <1>2, PTL

\* A server that is alive is held, and "stopped" is only said when none is alive.
THEOREM LiveServersAreHeld == Spec => []LiveServerIsHeld
<1>1. LifecycleInv => LiveServerIsHeld
  BY NoProcessIsNone
     DEF LifecycleInv, Shape, HeldIsUnreported, LiveServerIsHeld, live
<1> QED
  BY <1>1, LifecycleInvariant, PTL DEF Spec

-----------------------------------------------------------------------------
(* What the state says of the server's output.  Node may deliver the last  *)
(* output of a process after its exit (LateOutput); a line of the old      *)
(* server is then taken for one of the new one, so this half is about      *)
(* output that is delivered in time.                                       *)

\* Only the process held has lines to be heard, so a line that changes the state is
\* its line.
LEMMA NextOutput ==
  ASSUME ~LateOutput, Shape, HeldIsUnreported, HeldIsUnreported', signalsWorked,
         signalsWorked', OutputIsCurrent, [Next]_vars
  PROVE  OutputIsCurrent'
<1> USE NoProcessIsNone
<1>1. CASE start \/ sendCommand \/ launchFails \/ writeDone \/ hardTimer
  BY <1>1 DEF start, sendCommand, launchFails, writeDone, hardTimer, OutputIsCurrent, heard
<1>2. CASE stop \/ restart
  BY <1>2 DEF stop, restart, stopProcess, OutputIsCurrent, heard
<1>3. ASSUME NEW p \in ProcessIds, launchSucceeds(p)
      PROVE  OutputIsCurrent'
  <2>1. processRef = NoProcess /\ processRef' = p /\ state' = "starting"
    BY <1>3 DEF launchSucceeds, Shape
  <2>2. procs[p].said = {}
    BY <1>3, LifeStep DEF Shape
  <2> QED
    BY <1>3, <2>1, <2>2, LifeStep DEF OutputIsCurrent, heard
<1>4. ASSUME NEW p \in ProcessIds, die(p)
      PROVE  OutputIsCurrent'
  <2>1. UNCHANGED <<state, processRef>> /\ processRef \in ProcessIds \cup {NoProcess}
    BY <1>4 DEF die, Shape, TypeOK
  <2> QED
    BY <1>4, <2>1, LifeStep DEF OutputIsCurrent, heard
<1>5. ASSUME NEW p \in ProcessIds, NEW code \in {0, 1}, exit(p, code)
      PROVE  OutputIsCurrent'
  <2>1. /\ Reports(p)
        /\ procs[p].life = "dead" /\ "exit" \notin procs[p].reported
        /\ procs[p].unread = {}
        /\ procs[p].reported = {} => procs'[p].buffered = {}
        /\ processRef' = NoProcess
    BY <1>5, ExitStep
  <2>2. processRef = p /\ procs[p].reported = {}
    BY <2>1, ReporterIsHeld DEF Shape, TypeOK
  <2>3. state' \notin {"starting", "running"}
    <3>1. CASE stopAwaits(p)
      BY <1>5, <3>1, ExitStep DEF stopReturns
    <3>2. CASE ~stopAwaits(p)
      <4>1. PICK lines : state' = onLog(onExit(state, code), lines)
        BY <1>5, <3>2, ExitStep
      <4> QED
        BY <4>1 DEF onLog, onExit
    <3> QED
      BY <3>1, <3>2
  <2> QED
    BY <2>1, <2>2, <2>3 DEF OutputIsCurrent, Reports
<1>6. ASSUME NEW p \in ProcessIds, spawnError(p)
      PROVE  OutputIsCurrent'
  <2>1. /\ Reports(p)
        /\ procs[p].life = "stillborn" /\ procs[p].reported = {}
        /\ procs'[p].buffered = {}
        /\ processRef' = NoProcess
        /\ state' \in {"failed", "crashed"}
    BY <1>6, ErrorStep DEF spawnError
  <2>2. processRef = p /\ procs[p].unread = {}
    BY <2>1, ReporterIsHeld DEF Shape, TypeOK
  <2> QED
    BY <2>1, <2>2 DEF OutputIsCurrent, Reports
<1>7. CASE killTimer
  <2>1. ASSUME processRef \in ProcessIds, procs[processRef].life = "alive", error(processRef)
        PROVE  FALSE
    <3>1. /\ procs'[processRef].life = "alive"
          /\ "error" \in procs'[processRef].reported
      BY <2>1, ErrorStep DEF Reports
    <3> QED
      BY <2>1, <3>1 DEF signalsWorked
  <2> QED
    BY <1>7, <2>1 DEF killTimer, OutputIsCurrent, heard
<1>8. ASSUME NEW p \in ProcessIds, NEW line \in Lines, print(p, line)
      PROVE  OutputIsCurrent'
  <2>1. processRef = p /\ UNCHANGED <<state, processRef>>
    BY <1>8, PrintStep DEF print, HeldIsUnreported
  <2>2. heard(p)' = heard(p)
    BY <1>8, PrintStep DEF heard, Shape
  <2> QED
    BY <1>8, <2>1, <2>2, PrintStep DEF OutputIsCurrent
<1>9. ASSUME NEW p \in ProcessIds, NEW line \in Lines,
             logLine(p, line) \/ partialLine(p, line)
      PROVE  OutputIsCurrent'
  <2>1. processRef = p /\ UNCHANGED processRef
    BY <1>9 DEF logLine, partialLine, OutputIsCurrent
  <2>2. CASE partialLine(p, line)
    <3>1. heard(p)' = heard(p)
      BY <2>2 DEF partialLine, heard, Shape, TypeOK, Proc
    <3>2. UNCHANGED state
      BY <2>2 DEF partialLine
    <3>3. \A q \in ProcessIds : q # p => procs'[q] = procs[q]
      BY <1>9, LineStep
    <3> QED
      BY <2>1, <3>1, <3>2, <3>3 DEF OutputIsCurrent
  <2>3. CASE logLine(p, line)
    <3>1. heard(p)' = heard(p) \cup {line}
      BY <2>3 DEF logLine, heard, Shape, TypeOK, Proc
    <3>2. state' = onLog(state, {line})
      BY <2>3 DEF logLine
    <3>3. \A q \in ProcessIds : q # p => procs'[q] = procs[q]
      BY <1>9, LineStep
    <3> QED
      BY <2>1, <3>1, <3>2, <3>3 DEF OutputIsCurrent, onLog, Lines
  <2> QED
    BY <1>9, <2>2, <2>3
<1>10. CASE UNCHANGED vars
  BY <1>10 DEF vars, OutputIsCurrent, heard
<1> QED
  BY <1>1, <1>2, <1>3, <1>4, <1>5, <1>6, <1>7, <1>8, <1>9, <1>10 DEF Next

\* "running" is only said of a server that printed the ready line and was not heard
\* crashing, however its lines are cut into chunks, and whatever ran before it.
THEOREM RunningServersAreReady ==
  ASSUME ~LateOutput
  PROVE  Spec => []RunningMeansReady
<1>1. Init => OutputInv
  BY InitShape DEF OutputInv
<1>2. LifecycleInv /\ LifecycleInv' /\ OutputInv /\ [Next]_vars => OutputInv'
  BY SignalsWorkedBefore, NextOutput DEF LifecycleInv, OutputInv
<1>3. OutputInv => RunningMeansReady
  BY DEF OutputInv, OutputIsCurrent, RunningMeansReady, heard
<1> QED
  BY <1>1, <1>2, <1>3, LifecycleInvariant, PTL DEF Spec

-----------------------------------------------------------------------------
(* The contract.                                                           *)

\* What status() shows, field by field.
ViewShape ==
  /\ view \in [state : {state}, held : BOOLEAN, alive : BOOLEAN, stopping : BOOLEAN]
  /\ view.held <=> hasProcess
  /\ view.alive <=> hasProcess /\ processRef \in live
  /\ view.stopping <=> timers # "none"

\* The fields are what view makes of the manager's variables.
LEMMA ViewHasShape == ViewShape
<1>1. /\ hasProcess \in BOOLEAN
      /\ (hasProcess /\ processRef \in live) \in BOOLEAN
      /\ (timers # "none") \in BOOLEAN
  BY DEF hasProcess
<1> QED
  BY <1>1 DEF view, ViewShape

\* And so they are after a step.
LEMMA ViewHasShapeNext == ViewShape'
BY ViewHasShape, PTL

\* Every step of the manager and its processes is a step of ServerContract: the
\* room host and the desktop shell may rely on the contract alone.
LEMMA NextContract ==
  ASSUME ~LateOutput, Shape, HeldIsUnreported, signalsWorked, signalsWorked',
         OutputIsCurrent, Next
  PROVE  view' \in Step(view) \/ UNCHANGED view
<1> USE NoProcessIsNone
<1>a. /\ hasProcess <=> processRef # NoProcess
      /\ timers # "none" <=> waitsFor("exit")
  BY DEF Shape, TypeOK, hasProcess
<1>v. ViewShape /\ ViewShape'
  BY ViewHasShape, ViewHasShapeNext
\* a step is told by the fields it changes
<1>u. ASSUME UNCHANGED <<state, timers>>, hasProcess' <=> hasProcess,
             hasProcess => (processRef' \in live' <=> processRef \in live)
      PROVE  UNCHANGED view
  BY <1>u, <1>v DEF ViewShape
<1>s. ASSUME UNCHANGED timers, hasProcess' <=> hasProcess,
             hasProcess => (processRef' \in live' <=> processRef \in live)
      PROVE  view' = [view EXCEPT !.state = state']
  BY <1>s, <1>v DEF ViewShape
<1>g. ASSUME timers' = "none", hasProcess' <=> hasProcess,
             hasProcess => (processRef' \in live' <=> processRef \in live)
      PROVE  view' = [view EXCEPT !.state = state', !.stopping = FALSE]
  BY <1>g, <1>v DEF ViewShape
<1>e. ASSUME ~hasProcess', processRef \notin live
      PROVE  /\ timers' = "none" =>
                  view' = [view EXCEPT !.state = state', !.stopping = FALSE, !.held = FALSE]
             /\ UNCHANGED timers => view' = [view EXCEPT !.state = state', !.held = FALSE]
  BY <1>e, <1>v DEF ViewShape
<1>1. CASE start \/ sendCommand \/ writeDone
  BY <1>1, <1>u DEF start, sendCommand, writeDone, hasProcess, live
<1>2. CASE launchFails
  <2>1. ~hasProcess /\ ~hasProcess' /\ UNCHANGED timers /\ state' = "failed"
    BY <1>2, <1>a DEF launchFails, Shape, hasProcess
  <2>2. view' = [view EXCEPT !.state = "failed"] /\ ~view.held
    BY <1>s, <1>v, <2>1 DEF ViewShape
  <2> QED
    BY <2>2 DEF Started, Step
<1>3. CASE stop \/ restart
  <2>1. ~view.stopping
    BY <1>3, <1>a, <1>v DEF stop, restart, waitsFor, ViewShape
  <2>2. CASE hasProcess
    <3>1. /\ state' = "stopping" /\ timers' = "armed"
          /\ hasProcess'
          /\ processRef' = processRef /\ live' = live
      BY <1>3, <2>2 DEF stop, restart, stopProcess, hasProcess, live
    <3>2. view' = [view EXCEPT !.state = "stopping", !.stopping = view.held] /\ view.held
      BY <1>v, <2>2, <3>1 DEF ViewShape
    <3> QED
      BY <2>1, <3>2 DEF StopCalled, Step
  <2>3. CASE ~hasProcess
    <3>1. /\ state' = "stopped" /\ UNCHANGED timers
          /\ ~hasProcess'
      BY <1>3, <2>3 DEF stop, restart, stopProcess, hasProcess
    <3>2. view' = [view EXCEPT !.state = "stopped", !.stopping = view.held] /\ ~view.held
      BY <1>v, <2>1, <2>3, <3>1 DEF ViewShape
    <3> QED
      BY <2>1, <3>2 DEF StopCalled, Step
  <2> QED
    BY <2>2, <2>3
<1>4. ASSUME NEW p \in ProcessIds, launchSucceeds(p)
      PROVE  view' \in Step(view)
  <2>1. ~hasProcess /\ hasProcess' /\ state' = "starting" /\ UNCHANGED timers
    BY <1>4, <1>a DEF launchSucceeds, Shape, hasProcess
  <2>2. /\ view' = [view EXCEPT !.state = "starting", !.held = TRUE, !.alive = view'.alive]
        /\ view'.alive \in BOOLEAN
        /\ ~view.held
    BY <1>v, <2>1 DEF ViewShape
  <2> QED
    BY <2>2 DEF Started, Step
<1>5. ASSUME NEW p \in ProcessIds, die(p)
      PROVE  view' \in Step(view)
  <2>1. processRef = p /\ hasProcess /\ hasProcess' /\ UNCHANGED <<state, timers>>
    BY <1>5, <1>a DEF die, HeldIsUnreported, hasProcess
  <2>2. processRef' \notin live'
    BY <1>5, <2>1, LifeStep DEF die, live
  <2>3. view' = [view EXCEPT !.alive = FALSE] /\ view.held
    BY <1>v, <2>1, <2>2 DEF ViewShape
  <2> QED
    BY <2>3 DEF Happened, Step
<1>6. ASSUME NEW p \in ProcessIds, NEW code \in {0, 1}, exit(p, code)
      PROVE  view' \in Step(view)
  <2>1. /\ procs[p].life = "dead" /\ "exit" \notin procs[p].reported
        /\ processRef' = NoProcess /\ processExited' = TRUE
        /\ stopAwaits(p) => stopReturns
        /\ ~stopAwaits(p) =>
             /\ \E lines : state' = onLog(onExit(state, code), lines)
             /\ UNCHANGED <<call, timers>>
    BY <1>6, ExitStep
  <2>2. processRef = p
    BY <2>1, ReporterIsHeld DEF Shape, TypeOK
  <2>3. hasProcess /\ ~hasProcess' /\ processRef \notin live
    BY <1>a, <2>1, <2>2 DEF hasProcess, live
  <2>4. view.held /\ ~view.alive
    BY <1>v, <2>3 DEF ViewShape
  <2>5. CASE stopAwaits(p)
    <3>1. timers # "none" /\ state' = "stopped" /\ timers' = "none"
      BY <1>a, <2>1, <2>5 DEF stopAwaits, stopReturns
    <3>2. view.stopping
      BY <1>v, <3>1 DEF ViewShape
    <3>3. view' = [view EXCEPT !.state = "stopped", !.stopping = FALSE, !.held = FALSE]
      BY <1>e, <2>3, <3>1
    <3> QED
      BY <2>4, <3>2, <3>3 DEF StopEnded, Step
  <2>6. CASE ~stopAwaits(p)
    <3>1. timers = "none" /\ UNCHANGED timers
      BY <1>a, <2>1, <2>2, <2>6 DEF HeldIsUnreported, stopAwaits
    <3>2. state' \in IF state = "crashed" THEN {"crashed"} ELSE {"stopped", "crashed"}
      BY <2>1, <2>6 DEF onLog, onExit
    <3>3. ~view.stopping /\ view.state = state
      BY <1>v, <3>1 DEF ViewShape
    <3>4. view' = [view EXCEPT !.state = state', !.held = FALSE]
      BY <1>e, <2>3, <3>1
    <3> QED
      BY <2>4, <3>2, <3>3, <3>4 DEF Happened, Step
  <2> QED
    BY <2>5, <2>6
<1>7. ASSUME NEW p \in ProcessIds, spawnError(p)
      PROVE  view' \in Step(view)
  <2>1. /\ procs[p].life = "stillborn" /\ procs[p].reported = {}
        /\ processRef' = NoProcess /\ processExited' = TRUE
        /\ state' \in {"failed", "crashed"}
        /\ stopAwaits(p) => state' = "failed" /\ timers' = "none"
        /\ ~stopAwaits(p) => UNCHANGED <<call, timers>>
    BY <1>7, ErrorStep DEF spawnError
  <2>2. processRef = p
    BY <2>1, ReporterIsHeld DEF Shape, TypeOK
  <2>3. hasProcess /\ ~hasProcess' /\ processRef \notin live
    BY <1>a, <2>1, <2>2 DEF hasProcess, live
  <2>4. view.held /\ ~view.alive
    BY <1>v, <2>3 DEF ViewShape
  <2>5. CASE stopAwaits(p)
    <3>1. timers # "none" /\ state' = "failed" /\ timers' = "none"
      BY <1>a, <2>1, <2>5 DEF stopAwaits
    <3>2. view.stopping
      BY <1>v, <3>1 DEF ViewShape
    <3>3. view' = [view EXCEPT !.state = "failed", !.stopping = FALSE, !.held = FALSE]
      BY <1>e, <2>3, <3>1
    <3> QED
      BY <2>4, <3>2, <3>3 DEF StopEnded, Step
  <2>6. CASE ~stopAwaits(p)
    <3>1. timers = "none" /\ UNCHANGED timers
      BY <1>a, <2>1, <2>2, <2>6 DEF HeldIsUnreported, stopAwaits
    <3>2. ~view.stopping
      BY <1>v, <3>1 DEF ViewShape
    <3>3. view' = [view EXCEPT !.state = state', !.held = FALSE]
      BY <1>e, <2>3, <3>1
    <3> QED
      BY <2>1, <2>4, <3>2, <3>3 DEF Happened, Step
  <2> QED
    BY <2>5, <2>6
<1>8. CASE killTimer
  <2>1. ASSUME processRef \in ProcessIds, procs[processRef].life = "alive", error(processRef)
        PROVE  FALSE
    <3>1. /\ procs'[processRef].life = "alive"
          /\ "error" \in procs'[processRef].reported
      BY <2>1, ErrorStep DEF Reports
    <3> QED
      BY <2>1, <3>1 DEF signalsWorked
  <2>2. /\ timers # "none" /\ timers' # "none"
        /\ UNCHANGED <<state, processRef, processExited, procs>>
    BY <1>8, <2>1 DEF killTimer
  <2> QED
    BY <1>v, <2>2 DEF ViewShape, hasProcess, live
<1>9. CASE hardTimer
  <2>1. /\ timers # "none" /\ timers' = "none" /\ state' = "failed"
        /\ UNCHANGED <<processRef, processExited, procs>>
    BY <1>9 DEF hardTimer
  <2>2. view.stopping
    BY <1>v, <2>1 DEF ViewShape
  <2>3. view' = [view EXCEPT !.state = "failed", !.stopping = FALSE]
    BY <1>g, <2>1 DEF hasProcess, live
  <2> QED
    BY <2>2, <2>3 DEF StopEnded, Step
<1>10. ASSUME NEW p \in ProcessIds, NEW line \in Lines, print(p, line)
       PROVE  UNCHANGED view
  <2>1. live' = live /\ UNCHANGED <<state, processRef, processExited, timers>>
    BY <1>10, PrintStep DEF print, live
  <2> QED
    BY <1>u, <2>1 DEF hasProcess
<1>11. ASSUME NEW p \in ProcessIds, NEW line \in Lines,
              logLine(p, line) \/ partialLine(p, line)
       PROVE  view' \in Step(view) \/ UNCHANGED view
  <2>1. live' = live /\ UNCHANGED <<processRef, processExited, timers>>
    BY <1>11, LineStep DEF logLine, partialLine, live
  <2>2. processRef = p
    BY <1>11 DEF logLine, partialLine, OutputIsCurrent
  <2>3. hasProcess /\ hasProcess'
    BY <1>a, <2>1, <2>2 DEF hasProcess
  <2>4. state' \in {state, "crashed", IF state = "starting" THEN "running" ELSE state}
    BY <1>11 DEF logLine, partialLine, onLog
  <2>5. view' = [view EXCEPT !.state = state']
    BY <1>s, <2>1, <2>3
  <2>6. view.held /\ view.state = state
    BY <1>v, <2>3 DEF ViewShape
  <2>7. CASE state' = state
    BY <1>u, <2>1, <2>3, <2>7
  <2>8. CASE state' # state
    BY <2>4, <2>5, <2>6, <2>8 DEF Happened, Step
  <2> QED
    BY <2>7, <2>8
<1> QED
  BY <1>1, <1>2, <1>3, <1>4, <1>5, <1>6, <1>7, <1>8, <1>9, <1>10, <1>11 DEF Next

\* The manager implements the contract until a signal fails.
THEOREM ContractImplemented ==
  ASSUME ~LateOutput
  PROVE  Spec => ImplementsContract
<1>1. Init => view = NoServer
  BY DEF Init, view, NoServer, hasProcess, NoProcess
<1>2. Init => OutputInv
  BY InitShape DEF OutputInv
<1>3. LifecycleInv /\ LifecycleInv' /\ OutputInv /\ [Next]_vars => OutputInv'
  BY SignalsWorkedBefore, NextOutput DEF LifecycleInv, OutputInv
<1>4. LifecycleInv /\ OutputInv /\ [Next]_vars
        => [signalsWorked' => view' \in Step(view)]_view
  <2> SUFFICES ASSUME LifecycleInv, OutputInv, [Next]_vars, signalsWorked'
               PROVE  view' \in Step(view) \/ UNCHANGED view
    OBVIOUS
  <2>1. signalsWorked
    BY SignalsWorkedBefore DEF LifecycleInv
  <2>2. CASE Next
    BY <2>1, <2>2, NextContract DEF LifecycleInv, OutputInv
  <2>3. CASE UNCHANGED vars
    BY <2>3 DEF vars, view, hasProcess, live
  <2> QED
    BY <2>2, <2>3
<1> QED
  BY <1>1, <1>2, <1>3, <1>4, LifecycleInvariant, PTL DEF Spec, ImplementsContract

-----------------------------------------------------------------------------
(* Metrics.                                                                *)

\* Sampling metrics, late readings included, never changes what the manager does:
\* all of the above holds of the manager that is polled.
THEOREM MetricsDoNotInterfere == MetricsSpec => Init /\ [][Next]_vars
<1>1. MetricsInit => Init
  BY DEF MetricsInit
<1>2. [MetricsNext]_allVars => [Next]_vars
  BY DEF MetricsNext, allVars, Next, ended, signalled, unmeasured, status, launched,
         storeProcessMetrics, emitMetricsUnavailable
<1> QED
  BY <1>1, <1>2, PTL DEF MetricsSpec
=============================================================================
