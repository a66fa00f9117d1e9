--------------------------- MODULE ExtensionBridge ---------------------------
(***************************************************************************)
(* The bridge to the Chrome extension: the extension's WebSocket, its      *)
(* reconnects and the rotation over the sidecars' ports                    *)
(* (chrome-extension/background.js), and the sidecar's requests over the   *)
(* socket it saw last (local_sidecar.py).  WebSocket semantics: a socket   *)
(* the other side closes is CLOSING for a moment, a failed one is closed   *)
(* at once.                                                                *)
(***************************************************************************)
EXTENDS Integers, FiniteSets

CONSTANTS
  NoSocket,
  Sockets,           \* socket objects; one that is closed is used again
  Ports,             \* 0 .. Ports - 1: SIDECAR_PORTS
  SidecarPort,       \* the one this sidecar listens on
  BridgeRequests,
  MaxStarts,         \* bound on the sidecar's starts
  MaxKills           \* and on the ends of the extension's service worker

ASSUME BridgeAssumption ==
  NoSocket \notin Sockets /\ Ports \in Nat \ {0} /\ SidecarPort \in 0 .. Ports - 1 /\ MaxStarts \in Nat /\ MaxKills \in Nat

VARIABLES
  sockets,           \* socket -> its readyState and port
  sidecarWs, portIdx, everOpened, timers,   \* the extension's globals; reconnects due
  extensionWs,       \* the sidecar's global
  serving, starts, kills,
  requests           \* request -> where it is

bridgeVars == <<sockets, sidecarWs, portIdx, everOpened, timers, extensionWs, serving, starts, kills, requests>>
extensionVars == <<sidecarWs, portIdx, everOpened, timers, kills>>

Closed == [state |-> "closed", port |-> 0]
In(states) == {s \in Sockets : sockets[s].state \in states}
BridgeInit ==
  /\ sockets = [s \in Sockets |-> Closed] /\ sidecarWs = NoSocket /\ portIdx = 0 /\ everOpened = FALSE
  /\ timers = 1 /\ extensionWs = NoSocket /\ serving = FALSE /\ starts = 0 /\ kills = 0
  /\ requests = [q \in BridgeRequests |-> [at |-> "none", via |-> NoSocket]]

Connected == sidecarWs \in In({"connecting", "open"})
\* connectSidecarWS, for a reconnect that is due, and for the alarm and the
\* browser's events; no-op while connected.
Connect ==
  IF Connected THEN UNCHANGED <<sockets, sidecarWs, everOpened>>
  ELSE \E s \in In({"closed"}) \ {extensionWs} :
         /\ sockets' = [sockets EXCEPT ![s] = [state |-> "connecting", port |-> portIdx]]
         /\ sidecarWs' = s /\ everOpened' = FALSE
TimerFires ==
  /\ timers > 0 /\ timers' = timers - 1 /\ Connect
  /\ UNCHANGED <<portIdx, kills, extensionWs, serving, starts, requests>>
Alarm == Connect /\ UNCHANGED <<portIdx, timers, kills, extensionWs, serving, starts, requests>>

\* onopen, and the sidecar's accept: it takes the latest socket.
Opens(s) ==
  /\ sockets[s].state = "connecting" /\ serving /\ sockets[s].port = SidecarPort
  /\ sockets' = [sockets EXCEPT ![s].state = "open"] /\ everOpened' = TRUE /\ extensionWs' = s
  /\ UNCHANGED <<sidecarWs, portIdx, timers, kills, serving, starts, requests>>

\* Deviation: the port stays.
SamePort == portIdx
\* onclose forgets whichever socket is current, and goes on to the next port
\* if that one never opened.
NextPort == IF everOpened THEN portIdx ELSE (portIdx + 1) % Ports
OnClose(s) ==
  /\ sockets' = [sockets EXCEPT ![s] = Closed] /\ sidecarWs' = NoSocket
  /\ portIdx' = NextPort /\ timers' = IF timers < Cardinality(Sockets) THEN timers + 1 ELSE timers
Fails(s) ==
  /\ sockets[s].state = "connecting" /\ ~(serving /\ sockets[s].port = SidecarPort) /\ OnClose(s)
  /\ UNCHANGED <<everOpened, kills, extensionWs, serving, starts, requests>>
Closes(s) ==
  /\ sockets[s].state = "closing" /\ OnClose(s)
  /\ UNCHANGED <<everOpened, kills, extensionWs, serving, starts, requests>>

-----------------------------------------------------------------------------
(* The sidecar.                                                            *)

\* send_extension_request: 503 without a socket.
Ask(q) ==
  /\ serving /\ requests[q].at = "none"
  /\ requests' = [requests EXCEPT ![q] =
       IF extensionWs = NoSocket THEN [at |-> "refused", via |-> NoSocket] ELSE [at |-> "sent", via |-> extensionWs]]
  /\ UNCHANGED <<sockets, extensionVars, extensionWs, serving, starts>>

\* The handler's finally.
ForgottenIfCurrent(gone) == IF extensionWs \in gone THEN NoSocket ELSE extensionWs

\* onmessage answers on the socket that is current by then; if that is none, or
\* not the sidecar's, or the request went down with its socket, nobody hears it.
AnswerSent(q) ==
  /\ requests[q].at \in {"sent", "timing out"} /\ requests[q].via \in In({"open"})
  /\ sidecarWs \in In({"open"})
  /\ IF requests[q].at = "sent"
     THEN requests' = [requests EXCEPT ![q].at = "answered"] /\ UNCHANGED <<sockets, extensionWs>>
     ELSE \* the future is cancelled but still registered: set_result ends the handler
          /\ sockets' = [sockets EXCEPT ![sidecarWs].state = "closing"]
          /\ extensionWs' = ForgottenIfCurrent({sidecarWs})
          /\ requests' = [requests EXCEPT ![q].at = "timed out"]
  /\ UNCHANGED <<extensionVars, serving, starts>>
\* wait_for cancels the future; the request is taken out one turn later.
TimesOut(q) ==
  /\ requests[q].at \in {"sent", "timing out"}
  /\ requests' = [requests EXCEPT ![q].at = IF @ = "sent" THEN "timing out" ELSE "timed out"]
  /\ UNCHANGED <<sockets, extensionVars, extensionWs, serving, starts>>

SidecarServes ==
  /\ ~serving /\ starts < MaxStarts /\ serving' = TRUE /\ starts' = starts + 1
  /\ UNCHANGED <<sockets, extensionVars, extensionWs, requests>>
SidecarEnds ==
  /\ serving /\ serving' = FALSE /\ extensionWs' = NoSocket
  /\ sockets' = [s \in Sockets |-> IF sockets[s].state = "open" THEN [sockets[s] EXCEPT !.state = "closing"] ELSE sockets[s]]
  /\ requests' = [q \in BridgeRequests |-> IF requests[q].at \in {"sent", "timing out"}
                                             THEN [requests[q] EXCEPT !.at = "lost"] ELSE requests[q]]
  /\ UNCHANGED <<extensionVars, starts>>

\* Chrome ends the worker: its sockets and timers are gone; the alarm wakes a
\* new one that starts from the first port.
WorkerKilled ==
  /\ kills < MaxKills /\ kills' = kills + 1
  /\ sockets' = [s \in Sockets |-> Closed] /\ sidecarWs' = NoSocket
  /\ portIdx' = 0 /\ everOpened' = FALSE /\ timers' = 1
  /\ extensionWs' = ForgottenIfCurrent(In({"open"}))
  /\ UNCHANGED <<serving, starts, requests>>

BridgeNext ==
  \/ \E s \in Sockets : Opens(s) \/ Fails(s) \/ Closes(s)
  \/ \E q \in BridgeRequests : Ask(q) \/ AnswerSent(q) \/ TimesOut(q)
  \/ TimerFires \/ Alarm \/ SidecarServes \/ SidecarEnds \/ WorkerKilled

SocketSettles(s) == Opens(s) \/ Fails(s) \/ Closes(s)
BridgeFairness ==
  /\ \A s \in Sockets : WF_bridgeVars(SocketSettles(s))
  /\ WF_bridgeVars(TimerFires) /\ WF_bridgeVars(Alarm)
BridgeSpec == BridgeInit /\ [][BridgeNext]_bridgeVars /\ BridgeFairness

-----------------------------------------------------------------------------
BridgeTypeOK ==
  /\ extensionWs \in In({"open"}) \cup {NoSocket} /\ sidecarWs \in Sockets \cup {NoSocket}
  /\ portIdx \in 0 .. Ports - 1 /\ timers \in 0 .. Cardinality(Sockets)
  /\ \A q \in BridgeRequests : requests[q].at = "sent" => serving

\* As long as the sidecar serves, requests come to be answered: it has a socket
\* to send them down and the extension one to answer on, whichever port was
\* tried last and however many sockets a closing one has left behind.
BridgeComesBack == <>[]serving => <>[](extensionWs # NoSocket /\ sidecarWs \in In({"open"}))
=============================================================================
