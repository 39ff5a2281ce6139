------------------------------ MODULE TcpRelay ------------------------------
(***************************************************************************)
(* The TCP relay preview (services/relay/src/local-tcp-relay-preview.mjs): *)
(* a friend's connection sends an open frame and a newline, then the bytes *)
(* of the game; the relay checks the frame against its sessions, connects  *)
(* to the host and pipes.  TCP cuts the bytes into chunks as it likes: a   *)
(* chunk is a prefix of what the relay has not read.  Each friend has the  *)
(* session bound to it.                                                    *)
(***************************************************************************)
EXTENDS Naturals, Sequences, SequencesExt

CONSTANTS
  Callers,            (* the friends that connect                              *)
  Frames,             (* open frames: [kind, size]                             *)
  MaxOpenFrame        (* maxOpenFrameBytes, in the unit of a frame's size      *)

Kinds == {"bound", "malformed", "no session", "foreign", "other target"}

ASSUME TcpAssumption == Frames \subseteq [kind : Kinds, size : Nat] /\ MaxOpenFrame \in Nat

VARIABLES
  conns,              (* [Callers -> connection]                               *)
  opened              (* openedStreams: the callers it names                   *)

relayVars == <<conns, opened>>

NoConn ==
  [state |-> "none", kind |-> "bound", sent |-> <<>>, wire |-> <<>>,
   buffer |-> <<>>, received |-> <<>>]

Live == {"framing", "connecting", "piped"}

TcpInit == conns = [f \in Callers |-> NoConn] /\ opened = {}

\* The friend's client connects, and writes the frame and the bytes of the game.
friendConnects(f, frame, payload) ==
  /\ conns[f].state = "none"
  /\ conns' = [conns EXCEPT ![f] =
       [NoConn EXCEPT !.state = "framing", !.kind = frame.kind, !.sent = payload,
          !.wire = [i \in 1..frame.size |-> frame.kind] \o <<"newline">> \o payload]]
  /\ UNCHANGED opened

newlineIndex(buffer) == SelectInSeq(buffer, LAMBDA x : x = "newline")

\* Fault: all that was read is forwarded.
remainderFault(buffer) == buffer

\* What was read behind the newline.
remainder(buffer) == SubSeq(buffer, newlineIndex(buffer) + 1, Len(buffer))

\* parseOpenFrame, sessions.get, sessionBindingMatches and isArbitraryTarget.
accepts(kind) == kind = "bound"

tooLarge(buffer) ==
  IF newlineIndex(buffer) = 0 THEN Len(buffer) > MaxOpenFrame
                              ELSE newlineIndex(buffer) > MaxOpenFrame + 1

\* onInitialData: what is read is kept until the newline is there.
onInitialData(c, chunk) ==
  LET buffer == c.buffer \o chunk
  IN CASE ~tooLarge(buffer) /\ newlineIndex(buffer) = 0 ->
            [c EXCEPT !.buffer = buffer]
       [] ~tooLarge(buffer) /\ newlineIndex(buffer) # 0 /\ accepts(c.kind) ->
            [c EXCEPT !.state = "connecting", !.buffer = remainder(buffer)]
       [] OTHER -> [NoConn EXCEPT !.state = "rejected"]

\* Nobody listens between off("data") and the host's connect, and the stream
\* flows on.
onData(c, chunk) ==
  CASE c.state = "framing" -> onInitialData(c, chunk)
    [] c.state = "piped"   -> [c EXCEPT !.received = @ \o chunk]
    [] OTHER               -> c

relayReads(f) ==
  /\ conns[f].state \in Live
  /\ \E n \in 1..Len(conns[f].wire) :
       LET c == onData([conns[f] EXCEPT !.wire = SubSeq(@, n + 1, Len(@))],
                       SubSeq(conns[f].wire, 1, n))
       IN /\ conns' = [conns EXCEPT ![f] = c]
          /\ opened' = IF c.state # "connecting" THEN opened ELSE opened \cup {f}

\* "connect": the remainder first, then the pipes.
hostConnects(f) ==
  /\ conns[f].state = "connecting"
  /\ conns' = [conns EXCEPT ![f].state = "piped", ![f].buffer = <<>>,
                            ![f].received = conns[f].buffer]
  /\ UNCHANGED opened

\* The host's socket fails or ends, or the friend's closes: both are gone.
streamEnds(f) ==
  /\ conns[f].state \in Live \cup {"rejected"}
  /\ conns' = [conns EXCEPT ![f] = NoConn]
  /\ UNCHANGED opened

\* A reset before the frame is accepted, when friendSocket has no "error" listener,
\* is an uncaught exception: the process ends with every stream, and is started again.
relayRestarts ==
  /\ conns' = [f \in Callers |-> NoConn]
  /\ opened' = {}

friendResets(f) == conns[f].state \in {"framing", "rejected"} /\ relayRestarts

\* What is kept of a frame that has not ended is bounded (onInitialData).
TcpTypeOK ==
  /\ \A f \in Callers :
       /\ conns[f].state \in Live \cup {"none", "rejected"}
       /\ conns[f].kind \in Kinds
       /\ conns[f].state = "framing" => Len(conns[f].buffer) <= MaxOpenFrame
  /\ opened \subseteq Callers
=============================================================================
