--------------------------- MODULE ServerContract ---------------------------
(***************************************************************************)
(* What the lifecycle manager of ServerLifecycle promises its callers, in  *)
(* the words of its status(): the state it reports and whether it holds a  *)
(* process.  ServerLifecycle implements it (ImplementsContract there); the *)
(* room host and the desktop shell are composed with it.                   *)
(***************************************************************************)

\* alive: the process the manager holds runs.  stopping: a stop() waits for it.
ServerStates == {"stopped", "starting", "running", "stopping", "crashed", "failed"}

Server == [state : ServerStates, held : BOOLEAN, alive : BOOLEAN, stopping : BOOLEAN]

NoServer == [state |-> "stopped", held |-> FALSE, alive |-> FALSE, stopping |-> FALSE]

\* start() of a manager that holds no process: launched, or failed.  A launched
\* process may turn out never to have been born.
Started(s) ==
  IF s.held THEN {}
  ELSE {[s EXCEPT !.state = "failed"]}
         \cup {[s EXCEPT !.state = "starting", !.held = TRUE, !.alive = born] :
                 born \in BOOLEAN}

\* The call of stop(): answered at once when there is nothing to stop.
StopCalled(s) ==
  IF s.stopping THEN {}
  ELSE {[s EXCEPT !.state = IF s.held THEN "stopping" ELSE "stopped",
                  !.stopping = s.held]}

\* Fault: without the hard timeout only the end of the process answers.
StopEndedFault(s) ==
  {[s EXCEPT !.state = "stopped", !.stopping = FALSE, !.held = FALSE] :
     x \in IF s.stopping /\ ~s.alive THEN {1} ELSE {}}

\* The answer of a waiting stop(): the process exited, was never born, or
\* outlived the hard timeout and is still held.
StopEnded(s) ==
  IF ~s.stopping THEN {}
  ELSE {[s EXCEPT !.state = "failed", !.stopping = FALSE]}
         \cup {[s EXCEPT !.state = state, !.stopping = FALSE, !.held = FALSE] :
                 state \in IF s.alive THEN {} ELSE {"stopped", "failed"}}

\* What happens by itself: the process dies, a log line is read, or the end of
\* the process is heard.
Happened(s) ==
  IF ~s.held THEN {}
  ELSE {[s EXCEPT !.alive = FALSE], [s EXCEPT !.state = "crashed"]}
         \cup {[s EXCEPT !.state = IF s.state = "starting" THEN "running" ELSE s.state]}
         \cup {[s EXCEPT !.state = state, !.held = FALSE] :
                 state \in {x \in {"stopped", "crashed", "failed"} :
                              /\ ~s.alive /\ ~s.stopping
                              /\ s.state = "crashed" => x # "stopped"}}

Step(s) == Started(s) \cup StopCalled(s) \cup StopEnded(s) \cup Happened(s)
=============================================================================
