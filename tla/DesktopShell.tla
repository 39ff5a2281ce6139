---------------------------- MODULE DesktopShell ----------------------------
(***************************************************************************)
(* The renderer of the desktop composed with the broker that answers it:   *)
(* what the host of a room sees, which buttons are enabled, and the timer  *)
(* that asks for the room's status.                                        *)
(*                                                                         *)
(* Source: apps/desktop/app.js and apps/desktop/state.js, in the Tauri     *)
(* webview (apps/desktop/bridge.js then only forwards).                    *)
(***************************************************************************)
EXTENDS CommandBroker

VARIABLES
  view,      (* roomState                                                   *)
  polling    (* statusPollTimer is set                                      *)

vars == <<queue, wire, host, server, orphans, inbox, passes, view, polling>>

InitialView == [prepared |-> FALSE, open |-> FALSE, status |-> "idle",
                pending |-> "none", link |-> FALSE]

Statuses == ServerStates \cup
  {"idle", "preparing", "ready", "opening", "closing", "blocked", "invalid_request",
   "unknown_command"}

Messages ==
  [kind : {"result"}, cmd : Commands, state : Statuses, link : BOOLEAN, failure : BOOLEAN]
    \cup [kind : {"event"}, type : {"ready", "crashed", "failure", "exit"},
          state : ServerStates]

\* The message a request that is refused is blocked with keeps its state.
shown(status) == IF status = "invalid_request" THEN "blocked" ELSE status

pendingStatus ==
  [prepare |-> "preparing", open |-> "opening", close |-> "closing",
   restart |-> "opening", send |-> "commanding"]

OPENING_ROOM_STATUSES == {"starting", "running"}

-----------------------------------------------------------------------------
(* The reducer.                                                            *)

bridgePending(v, cmd) ==
  [v EXCEPT !.pending = cmd, !.status = IF cmd = "send" THEN @ ELSE pendingStatus[cmd]]

\* Fault: whatever failed leaves the room as it was shown.
applyBridgeResultFault(v, r) ==
  LET status == IF r.failure THEN v.status ELSE shown(r.state)
      open == IF r.failure THEN v.open ELSE status = "running"
  IN [prepared |-> v.prepared \/ open \/ status \in {"ready", "starting", "running"},
      open |-> open, status |-> status, pending |-> "none", link |-> open /\ r.link]

\* Any result ends the pending command, a poll's too; a failed console command
\* leaves the room as it was shown.
applyBridgeResult(v, r) ==
  LET preserve == r.cmd = "send" /\ r.failure
      status == IF preserve /\ shown(r.state) \in {"blocked", "failed"}
                THEN v.status ELSE shown(r.state)
      open == IF preserve THEN v.open ELSE status = "running"
  IN [prepared |-> v.prepared \/ open \/ status \in {"ready", "starting", "running"},
      open |-> open, status |-> status, pending |-> "none", link |-> open /\ r.link]

\* Fault: the end of the server leaves the link shown.
applyRuntimeEventFault(v, e) ==
  IF e.type = "ready"
  THEN [v EXCEPT !.status = "running", !.open = TRUE, !.prepared = TRUE]
  ELSE [v EXCEPT !.status = e.state, !.open = FALSE]

applyRuntimeEvent(v, e) ==
  IF e.type = "ready"
  THEN [v EXCEPT !.status = "running", !.open = TRUE, !.prepared = TRUE]
  ELSE [v EXCEPT !.status = e.state, !.open = FALSE, !.link = FALSE]

\* shouldPollStatus
shouldPollStatus(v) ==
  \/ v.prepared \/ v.open
  \/ v.status \in {"starting", "running", "stopping", "blocked"}

-----------------------------------------------------------------------------
(* The buttons.                                                            *)

isRoomOperationPending == view.pending \notin {"none", "send"}
activeRuntime == view.open \/ view.status \in OPENING_ROOM_STATUSES

Buttons == Commands \ {"status"}

\* renderRoomStatus and canSendConsoleCommand.
enabled(cmd) ==
  /\ ~isRoomOperationPending
  /\ cmd = "prepare" => ~view.prepared
  /\ cmd = "open" => /\ view.prepared /\ ~activeRuntime
                     /\ view.status \notin {"closing", "stopping"}
  /\ cmd \in {"close", "send"} => activeRuntime
  /\ cmd = "restart" => view.open
  /\ cmd = "send" => view.pending = "none"

invoke(cmd) == queue' = Append(queue, cmd)

\* runBridgeCommand, up to its await.
runBridgeCommand(cmd) ==
  /\ Len(queue) < MaxCalls
  /\ enabled(cmd)
  /\ view' = bridgePending(view, cmd)
  /\ invoke(cmd)
  /\ UNCHANGED <<wire, host, server, orphans, inbox, passes, polling>>

resetClicked ==
  /\ Len(queue) < MaxCalls
  /\ enabled("reset")
  /\ polling' = FALSE
  /\ view' = InitialView
  /\ invoke("reset")
  /\ UNCHANGED <<wire, host, server, orphans, inbox, passes>>

\* The timer fires: another status call, whether or not the last one is answered.
refreshStatus ==
  /\ polling
  /\ IF ~shouldPollStatus(view)
     THEN polling' = FALSE /\ UNCHANGED queue
     ELSE /\ view.pending = "none"
          /\ Len(queue) < MaxCalls
          /\ invoke("status")
          /\ UNCHANGED polling
  /\ UNCHANGED <<wire, host, server, orphans, inbox, passes, view>>

\* The rest of runBridgeCommand, of refreshStatus, of the reset handler, or the
\* listener of runtime events.
dispatch ==
  /\ inbox # <<>>
  /\ inbox' = Tail(inbox)
  /\ LET m == Head(inbox)
     IN /\ view' = CASE m.kind = "event"                      -> applyRuntimeEvent(view, m)
                     [] m.kind = "result" /\ m.cmd = "reset"   -> view
                     [] m.kind = "result" /\ m.cmd # "reset"   -> applyBridgeResult(view, m)
        /\ polling' = \/ polling
                      \/ /\ m.kind = "result" /\ m.cmd \notin {"reset", "status"}
                         /\ shouldPollStatus(view')
  /\ UNCHANGED <<queue, wire, host, server, orphans, passes>>

-----------------------------------------------------------------------------
Init ==
  /\ BrokerInit
  /\ view = InitialView
  /\ polling = FALSE

broker(A) == A /\ UNCHANGED <<passes, view, polling>>

Next ==
  \/ \E cmd \in Buttons \ {"reset"} : runBridgeCommand(cmd)
  \/ resetClicked \/ refreshStatus \/ dispatch
  \/ broker(BrokerNext)

\* The broker, the host and the webview take their steps, the manager's hard
\* timeout fires, and the timer of the status polls keeps firing.  Nobody need
\* click, and no server need start, crash or stop.
Fairness ==
  /\ WF_vars(broker(Invocation))
  /\ WF_vars(broker(recv_timeout))
  /\ WF_vars(broker(serverStops))
  /\ WF_vars(dispatch)
  /\ SF_vars(refreshStatus)

Spec == Init /\ [][Next]_vars

LiveSpec == Spec /\ Fairness

-----------------------------------------------------------------------------
TypeOK ==
  /\ queue \in Seq(Commands) /\ Len(queue) <= MaxCalls
  /\ wire.at \in {"idle", "send", "write", "sent", "stopping", "answered"}
  /\ wire.cmd \in Commands \cup {"none"} /\ wire.tries \in 0..2 /\ wire.ran \in Nat
  /\ wire.state \in Statuses \cup {"none"}
  /\ host.life \in {"none", "alive", "dead"}
  /\ host.last \in {"stopped", "ready", "blocked"}
  /\ server \in Server
  /\ orphans \in 0..MaxOrphans
  /\ passes \in Brokers
  /\ \A i \in DOMAIN inbox : inbox[i] \in Messages
  /\ view \in [prepared : BOOLEAN, open : BOOLEAN, status : Statuses,
               pending : Commands \cup {"none"}, link : BOOLEAN]
  /\ polling \in BOOLEAN

\* A command is executed at most once, although the broker sends its frame again
\* to a second host: it does so only on an answer that says the first host did
\* not know the command (main.rs should_retry_after_stale_host_response).
ExecutedOnce == wire.ran <= 1

\* The invite link is shown only with a room that is shown open, whatever order
\* results, polls and runtime events come in (state.js inviteReadinessComplete,
\* applyRuntimeEvent).
LinkOnlyForOpenRooms == TypeOK /\ (view.link => view.open)

\* A click is answered in the end: however the host hangs, dies or drops the
\* answer, the broker's timeout frees the buttons again (main.rs recv_timeout,
\* state.js applyBridgeResult).
PendingEnds == (view.pending # "none") ~> (view.pending = "none")

\* A room whose server has ended is not shown open for ever, as long as the
\* status is polled: the exit event or the next poll corrects the view, although
\* answers and events cross and a killed host sends neither (app.js
\* refreshStatus, state.js applyBridgeResult).
ViewCatchesUp == (<>[](polling /\ ~server.held)) => <>[](~view.open)

\* A request to prepare or open a room is not refused for the fields the
\* renderer itself puts into it (app.js prepareRoomButton, openRoomButton).  The broker of
\* main.rs does not keep it (README, section 4).
RequestsAreAccepted == \A i \in DOMAIN queue : sanitize_request(queue[i])
=============================================================================
