--------------------------- MODULE CommandBroker ---------------------------
(***************************************************************************)
(* The Tauri side of the desktop: the broker that passes the renderer's    *)
(* commands, one at a time, to a Node host process it starts, times and    *)
(* kills.                                                                  *)
(*                                                                         *)
(* Source: apps/desktop/src-tauri/src/main.rs.  The host is RoomHost with  *)
(* services that answer, reduced to what its frames do to the server and   *)
(* what they are answered; the server is ServerContract's.  The webview    *)
(* receives results and runtime events in the order they were emitted: an  *)
(* event goes out when the host prints it, a result when the broker's call *)
(* returns, which may be later than an event printed after it.             *)
(***************************************************************************)
EXTENDS Naturals, Sequences, ServerContract

CONSTANTS
  Brokers,        (* what may be let through: sets of RendererFields        *)
  Slow,           (* commands whose handler may outlast COMMAND_TIMEOUT     *)
  HostMayDie, HostMayBeOld, HistoryMayGrow,    (* BOOLEAN                   *)
  MaxCalls,       (* bound: commands waiting for the broker                 *)
  MaxInbox,       (* bound: messages waiting for the webview                *)
  MaxOrphans      (* bound: unheld servers are counted up to it             *)

Configured == {"prepare", "open", "restart"}
Commands == Configured \cup {"close", "send", "status", "reset"}

\* Fields of requests and answers that the renderer works with.  The broker of
\* main.rs lets neither through: is_valid_request_value knows no catalogModId, and
\* redaction drops relay.session.  The other sets are of a broker without that.
RendererFields == {"catalogModId", "relay.session"}

ASSUME BrokerAssumption ==
  /\ Brokers \subseteq SUBSET RendererFields
  /\ Slow \subseteq Commands
  /\ {HostMayDie, HostMayBeOld, HistoryMayGrow} \subseteq BOOLEAN
  /\ {MaxCalls, MaxInbox, MaxOrphans} \subseteq Nat

VARIABLES
  queue,     (* invocations waiting for the broker's mutex                  *)
  wire,      (* the invocation that holds it                                *)
  host,      (* the Node host                                               *)
  server,    (* of the host's lifecycle manager                             *)
  orphans,   (* servers whose host was killed                               *)
  inbox,     (* what the webview has yet to handle                          *)
  passes     (* the RendererFields this broker lets through, for good       *)

brokerVars == <<queue, wire, host, server, orphans, inbox>>

\* ran: how often a host has executed the command; tries: frames sent.
NoWire == [at |-> "idle", cmd |-> "none", tries |-> 0, ran |-> 0,
           state |-> "none", link |-> FALSE, failure |-> FALSE]

\* last: the bridge's lastState while there is no manager; old: its script does
\* not know sendServerCommand; long: its events no longer fit into a response.
NoHost == [life |-> "none", old |-> FALSE, manager |-> FALSE, last |-> "stopped",
           long |-> FALSE]

BrokerInit ==
  /\ queue = <<>>
  /\ wire = NoWire
  /\ host = NoHost
  /\ server = NoServer
  /\ orphans = 0
  /\ inbox = <<>>
  /\ passes \in Brokers

result(cmd, state, link, failure) ==
  [kind |-> "result", cmd |-> cmd, state |-> state, link |-> link, failure |-> failure]

event(type, state) == [kind |-> "event", type |-> type, state |-> state]

\* What the host prints when its manager goes from s to t.
printed(s, t) ==
  IF s.held /\ ~t.held
  THEN IF t.state = "failed" THEN <<event("failure", "failed")>>
       ELSE <<event("exit", t.state)>>
  ELSE IF ~s.held /\ t.state = "failed" /\ s # t THEN <<event("failure", "failed")>>
  ELSE IF s.state = "starting" /\ t.state = "running" THEN <<event("ready", "running")>>
  ELSE IF s.state # "crashed" /\ t.state = "crashed" THEN <<event("crashed", "crashed")>>
  ELSE <<>>

\* The manager takes a step; every event is also kept for later answers.
serverStep(next) ==
  /\ server' = next
  /\ LET said == printed(server, next)
     IN /\ inbox' = inbox \o said
        /\ \/ UNCHANGED host
           \/ HistoryMayGrow /\ said # <<>> /\ host' = [host EXCEPT !.long = TRUE]

answered(state, link, failure) ==
  wire' = [wire EXCEPT !.at = "answered", !.state = state, !.link = link,
                       !.failure = failure, !.ran = @ + 1]

-----------------------------------------------------------------------------
(* The broker.                                                             *)

\* An invocation's return hands its result to the webview.
return(r) ==
  /\ wire' = NoWire
  /\ inbox' = Append(inbox, r)

\* sanitize_request: the renderer puts catalogModId into these requests.
sanitize_request(cmd) == cmd \in Configured => "catalogModId" \in passes

canTake == wire.at = "idle" /\ queue # <<>> /\ Len(inbox) < MaxInbox

refuseRequest ==
  /\ canTake
  /\ ~sanitize_request(Head(queue))
  /\ queue' = Tail(queue)
  /\ return(result(Head(queue), "invalid_request", FALSE, TRUE))
  /\ UNCHANGED <<host, server, orphans>>

\* The mutex is taken.
invoke_desktop_command ==
  /\ canTake
  /\ sanitize_request(Head(queue))
  /\ queue' = Tail(queue)
  /\ wire' = [NoWire EXCEPT !.at = "send", !.cmd = Head(queue)]
  /\ UNCHANGED <<host, server, orphans, inbox>>

\* The server of a host that is gone lives on.
serverLost ==
  /\ server' = NoServer
  /\ orphans' = IF server.alive /\ orphans < MaxOrphans THEN orphans + 1 ELSE orphans

\* clear_node_host: the process is killed, its server is not.
clear_node_host ==
  /\ host' = NoHost
  /\ serverLost

\* ensure_node_host starts a host unless one runs, or fails to.
ensure_node_host ==
  /\ wire.at = "send"
  /\ \/ /\ wire' = [wire EXCEPT !.at = "write"]
        /\ IF host.life = "alive" THEN UNCHANGED host
           ELSE \E old \in {HostMayBeOld /\ wire.tries = 0, FALSE} :
                  host' = [NoHost EXCEPT !.life = "alive", !.old = old]
        /\ UNCHANGED inbox
     \/ /\ host.life # "alive"
        /\ host' = NoHost
        /\ return(result(wire.cmd, "blocked", FALSE, TRUE))
  /\ UNCHANGED <<queue, server, orphans>>

\* The frame is written; a host that has just died need not take it.
send_node_host_frame ==
  /\ wire.at = "write"
  /\ \/ /\ wire' = [wire EXCEPT !.at = "sent", !.tries = @ + 1]
        /\ UNCHANGED <<host, server, orphans, inbox>>
     \/ /\ host.life = "dead"
        /\ clear_node_host
        /\ return(result(wire.cmd, "blocked", FALSE, TRUE))
  /\ UNCHANGED queue

\* An answer that carries the bridge's events, all of them, since the host began.
carriesEvents == wire.cmd \in {"status", "send"}

\* Fault: no timeout is set.
recv_timeoutFault ==
  /\ FALSE
  /\ UNCHANGED brokerVars

\* recv_timeout runs out: the host is slow, is dead (its pending sender is never
\* dropped), or its answer was too long for the reader thread to route.
recv_timeout ==
  /\ \/ wire.at \in {"sent", "stopping"} /\ (host.life = "dead" \/ wire.cmd \in Slow)
     \/ wire.at = "answered" /\ carriesEvents /\ host.long
  /\ clear_node_host
  /\ return(result(wire.cmd, "blocked", FALSE, TRUE))
  /\ UNCHANGED queue

\* Fault: every failed command is sent again.
should_retryFault == wire.failure

\* should_retry_after_stale_host_response
should_retry == wire.state = "unknown_command"

retryFrame ==
  /\ wire.at = "answered"
  /\ should_retry
  /\ wire.tries = 1
  /\ clear_node_host
  /\ wire' = [NoWire EXCEPT !.at = "send", !.cmd = wire.cmd, !.tries = 1, !.ran = wire.ran]
  /\ UNCHANGED <<queue, inbox>>

\* The answer, without the fields sanitize_response drops.
parse_host_response ==
  /\ wire.at = "answered"
  /\ ~(carriesEvents /\ host.long)
  /\ should_retry => wire.tries = 2
  /\ return(result(wire.cmd, wire.state, wire.link /\ "relay.session" \in passes,
                   wire.failure))
  /\ UNCHANGED <<queue, host, server, orphans>>

-----------------------------------------------------------------------------
(* The host, as RoomHost has it.                                           *)

executes(cmds) == wire.at = "sent" /\ host.life = "alive" /\ wire.cmd \in cmds

hostState == IF host.manager THEN server.state ELSE host.last

unknownCommand ==
  /\ executes({"send"})
  /\ host.old
  /\ wire' = [wire EXCEPT !.at = "answered", !.state = "unknown_command", !.failure = TRUE]
  /\ UNCHANGED <<queue, host, server, orphans, inbox>>

prepareRoom ==
  /\ executes({"prepare"})
  /\ \E state \in {"ready", "blocked"} :
       /\ host' = [host EXCEPT !.last = state]
       /\ answered(state, FALSE, state = "blocked")
  /\ UNCHANGED <<queue, server, orphans, inbox>>

\* Refused, failed before the manager's start(), or started.
openRoom ==
  /\ \/ executes({"open"})
     \/ executes({"restart"}) /\ ~server.held
     \/ wire.at = "stopping" /\ wire.cmd = "restart" /\ server.state = "stopped"
        /\ host.life = "alive"
  /\ ~server.stopping
  /\ \/ /\ answered("blocked", FALSE, TRUE)
        /\ host' = [host EXCEPT !.last = "blocked"]
        /\ UNCHANGED <<server, inbox>>
     \/ /\ ~server.held
        /\ \E next \in Started(server) :
             /\ server' = next
             /\ inbox' = inbox \o printed(server, next)
             /\ host' = [host EXCEPT !.manager = TRUE]
             /\ IF next.state = "starting" THEN answered("starting", FALSE, FALSE)
                                           ELSE answered("blocked", FALSE, TRUE)
  /\ UNCHANGED <<queue, orphans>>

\* close, reset and restart stop a server that is held.
stopRoom ==
  /\ executes({"close", "reset", "restart"})
  /\ server.held
  /\ server' \in StopCalled(server)
  /\ wire' = [wire EXCEPT !.at = "stopping"]
  /\ UNCHANGED <<queue, host, orphans, inbox>>

roomStopped ==
  /\ \/ executes({"close", "reset"}) /\ ~server.held
     \/ wire.at = "stopping" /\ ~server.stopping /\ host.life = "alive"
  /\ wire.cmd = "restart" => server.state # "stopped"
  /\ IF wire.cmd = "reset"
     THEN /\ host' = [host EXCEPT !.manager = FALSE, !.last = "stopped"]
          /\ serverLost
          /\ answered("idle", FALSE, FALSE)
     ELSE /\ host' = [host EXCEPT !.last = "stopped"]
          /\ server' = IF server.held THEN server ELSE [server EXCEPT !.state = "stopped"]
          /\ IF server'.state = "stopped" THEN answered("stopped", FALSE, FALSE)
                                          ELSE answered("failed", FALSE, TRUE)
          /\ UNCHANGED orphans
  /\ UNCHANGED <<queue, inbox>>

sendServerCommand ==
  /\ executes({"send"})
  /\ ~host.old
  /\ LET open == server.held /\ server.state \in {"starting", "running"}
     IN answered(hostState, FALSE, ~open)
  /\ UNCHANGED <<queue, host, server, orphans, inbox>>

\* A running server is answered with the link of its room.
statusRoom ==
  /\ executes({"status"})
  /\ answered(hostState, hostState = "running", FALSE)
  /\ UNCHANGED <<queue, host, server, orphans, inbox>>

hostDies ==
  /\ HostMayDie
  /\ host.life = "alive"
  /\ host' = [NoHost EXCEPT !.life = "dead"]
  /\ serverLost
  /\ UNCHANGED <<queue, wire, inbox>>

serverHappens ==
  /\ Len(inbox) < MaxInbox
  /\ \E next \in Happened(server) \ {server} : serverStep(next)
  /\ UNCHANGED <<queue, wire, orphans>>

serverStops ==
  /\ Len(inbox) < MaxInbox
  /\ \E next \in StopEnded(server) : serverStep(next)
  /\ UNCHANGED <<queue, wire, orphans>>

orphanDies ==
  /\ orphans > 0
  /\ orphans' = orphans - 1
  /\ UNCHANGED <<queue, wire, host, server, inbox>>

Invocation ==
  \/ refuseRequest \/ invoke_desktop_command \/ ensure_node_host
  \/ send_node_host_frame \/ retryFrame \/ parse_host_response
  \/ unknownCommand \/ prepareRoom \/ openRoom \/ stopRoom \/ roomStopped
  \/ sendServerCommand \/ statusRoom

BrokerNext ==
  \/ Invocation \/ recv_timeout
  \/ hostDies \/ serverHappens \/ serverStops \/ orphanDies
=============================================================================
