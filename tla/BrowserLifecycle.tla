-------------------------- MODULE BrowserLifecycle --------------------------
(***************************************************************************)
(* How browser sessions of the web explorer start and end.  The app keeps  *)
(* one session at a time (WebExplorerContext.tsx); the sidecar serves each *)
(* socket in a handler of its own, which launches a browser, registers the *)
(* session, and cleans up when the socket is gone (local_sidecar.py).      *)
(* A DELETE call cleans up as well, and may overtake either.               *)
(***************************************************************************)
EXTENDS Naturals, FiniteSets

CONSTANTS
  BrowserSessions,  \* the session ids the sidecar ever hands out
  NoSession,
  InOrder           \* a session is started when the calls that end the one before
                    \* have been answered, gets its id at once, and takes longer
                    \* to launch than a socket takes to close

ASSUME BrowserLifecycleAssumption ==
  BrowserSessions # {} /\ NoSession \notin BrowserSessions /\ InOrder \in BOOLEAN

VARIABLES
  shown,       \* the app: its sessionId, socket, and whether it says "connected"
  socket,      \* of each session, as the app has it
  deaf,        \* sessions whose socket's onclose was taken off
  handling,    \* where the sidecar's handler of each session is
  alive,       \* the sessions whose browser runs
  registered,  \* the sidecar's _active_sessions
  managed,     \* BrowserSessionManager._sessions
  deletes      \* DELETE calls: who made them, and how far they are

lifecycleVars == <<shown, socket, deaf, handling, alive, registered, managed, deletes>>

Callers == {"onclose", "disconnect"}

LifecycleTypeOK ==
  /\ shown \in [session: BrowserSessions \union {NoSession}, socket: BrowserSessions \union {NoSession},
                connected: BOOLEAN, starting: BrowserSessions \union {NoSession}]
  /\ socket \in [BrowserSessions -> {"unused", "open", "closing", "closed"}]
  /\ handling \in [BrowserSessions -> {"none", "init", "launching", "serving", "told", "ending", "ended"}]
  /\ UNION {deaf, alive, registered, managed} \subseteq BrowserSessions
  /\ deletes \in [BrowserSessions \X Callers -> {"no", "due", "sent", "closing", "ended", "answered"}]

LifecycleInit ==
  /\ shown = [session |-> NoSession, socket |-> NoSession, connected |-> FALSE, starting |-> NoSession]
  /\ socket = [s \in BrowserSessions |-> "unused"] /\ handling = [s \in BrowserSessions |-> "none"]
  /\ deaf = {} /\ alive = {} /\ registered = {} /\ managed = {}
  /\ deletes = [c \in BrowserSessions \X Callers |-> "no"]

Closing(s) == IF s # NoSession /\ socket[s] = "open" THEN [socket EXCEPT ![s] = "closing"] ELSE socket

-----------------------------------------------------------------------------
(* The app.                                                                *)

\* handleStartBrowser: the button shows while not connected; POST hands out an id.
StartBrowser(s) ==
  /\ ~shown.connected /\ shown.starting = NoSession /\ handling[s] = "none"
  /\ InOrder => \A c \in DOMAIN deletes : c[2] = "disconnect" => deletes[c] \in {"no", "answered"}
  /\ shown' = [shown EXCEPT !.starting = s]
  /\ UNCHANGED <<socket, deaf, handling, alive, registered, managed, deletes>>

\* connectBrowserSession: the socket of an earlier session is closed, its
\* handlers stay.
ConnectBrowser ==
  /\ shown.starting # NoSession
  /\ LET s == shown.starting IN
       /\ socket' = [Closing(shown.socket) EXCEPT ![s] = "open"]
       /\ handling' = [handling EXCEPT ![s] = "init"]
       /\ shown' = [shown EXCEPT !.session = s, !.socket = s, !.starting = NoSession]
  /\ UNCHANGED <<deaf, alive, registered, managed, deletes>>

\* handleDisconnectBrowser, by End Session or at sign-out: the socket's handlers
\* are taken off, and the session the app has is ended by a call.
Disconnect ==
  /\ InOrder => shown.starting = NoSession
  /\ socket' = Closing(shown.socket)
  /\ deaf' = deaf \union ({shown.socket} \ {NoSession})
  /\ IF shown.session = NoSession THEN UNCHANGED deletes
     ELSE /\ deletes[<<shown.session, "disconnect">>] = "no"
          /\ deletes' = [deletes EXCEPT ![<<shown.session, "disconnect">>] = "sent"]
  /\ shown' = [shown EXCEPT !.connected = FALSE]
  /\ UNCHANGED <<handling, alive, registered, managed>>

\* onclose: a call 100 ms later ends the session, even one that has ended.
SocketClosed(s) ==
  /\ socket[s] = "closing"
  /\ socket' = [socket EXCEPT ![s] = "closed"]
  /\ IF s \in deaf THEN UNCHANGED <<shown, deletes>>
     ELSE /\ shown' = [shown EXCEPT !.connected = FALSE]
          /\ deletes' = [deletes EXCEPT ![<<s, "onclose">>] = "due"]
  /\ UNCHANGED <<deaf, handling, alive, registered, managed>>

CallDue(s) ==
  /\ deletes[<<s, "onclose">>] = "due"
  /\ deletes' = [deletes EXCEPT ![<<s, "onclose">>] = "sent"]
  /\ UNCHANGED <<shown, socket, deaf, handling, alive, registered, managed>>

\* The message "status".
Told(s) ==
  /\ handling[s] = "told" /\ socket[s] = "open"
  /\ InOrder => \A t \in BrowserSessions : socket[t] # "closing"
  /\ handling' = [handling EXCEPT ![s] = "serving"]
  /\ shown' = [shown EXCEPT !.connected = TRUE]
  /\ UNCHANGED <<socket, deaf, alive, registered, managed, deletes>>

\* handleCloseSession once its call has succeeded.  It compares the id with the
\* one of the render that made the call: never the same in onclose, always the
\* same in handleDisconnectBrowser.  The socket it closes is the one of now.
\* Deviation: ends what is shown, whoever called.
EndsWhatever(s, c) == c \in Callers
EndsItsOwn(s, c) == c = "disconnect"
Answered(s, c) ==
  /\ deletes[<<s, c>>] = "ended"
  /\ deletes' = [deletes EXCEPT ![<<s, c>>] = "answered"]
  /\ IF EndsItsOwn(s, c)
     THEN /\ socket' = Closing(shown.socket)
          /\ shown' = [shown EXCEPT !.connected = FALSE, !.session = NoSession]
     ELSE UNCHANGED <<socket, shown>>
  /\ UNCHANGED <<deaf, handling, alive, registered, managed>>

-----------------------------------------------------------------------------
(* The sidecar.                                                            *)

\* The handler goes to its finally clause, where it takes the session if it is
\* registered; what was launched but not registered is left alone.
\* Deviation: leaves the session to the app's DELETE, which may have come too early.
HandlerEndsUnlessCalled(s) ==
  handling' = [handling EXCEPT ![s] =
                IF s \in registered /\ deletes[<<s, "disconnect">>] = "no" THEN "ending" ELSE "ended"]
HandlerEnds(s) == handling' = [handling EXCEPT ![s] = IF s \in registered THEN "ending" ELSE "ended"]

\* "init" arrives and a browser is launched, or the socket closes before it.
InitReceived(s) ==
  /\ handling[s] = "init"
  /\ IF socket[s] = "open"
     THEN handling' = [handling EXCEPT ![s] = "launching"] /\ alive' = alive \union {s}
     ELSE HandlerEnds(s) /\ UNCHANGED alive
  /\ UNCHANGED <<shown, socket, deaf, registered, managed, deletes>>

\* The page is open and at its URL, whether or not anyone still listens.
Registered(s) ==
  /\ handling[s] = "launching"
  /\ handling' = [handling EXCEPT ![s] = "told"]
  /\ registered' = registered \union {s} /\ managed' = managed \union {s}
  /\ UNCHANGED <<shown, socket, deaf, alive, deletes>>

\* The loop finds the socket closed.
Hangup(s) ==
  /\ handling[s] \in {"told", "serving"} /\ socket[s] # "open"
  /\ HandlerEnds(s)
  /\ UNCHANGED <<shown, socket, deaf, alive, registered, managed, deletes>>

\* A command raises: the app is told, the handler ends and closes the socket.
HandlerFails(s) ==
  /\ handling[s] = "serving" /\ socket[s] = "open"
  /\ HandlerEnds(s)
  /\ socket' = Closing(s) /\ shown' = [shown EXCEPT !.connected = FALSE]
  /\ UNCHANGED <<deaf, alive, registered, managed, deletes>>

\* After the awaits of the close: deleting an entry that a DELETE has removed
\* raises, before the manager's entry is removed.
Cleanup(s) ==
  /\ handling[s] = "ending"
  /\ handling' = [handling EXCEPT ![s] = "ended"]
  /\ alive' = alive \ {s} /\ registered' = registered \ {s}
  /\ managed' = IF s \in registered THEN managed \ {s} ELSE managed
  /\ UNCHANGED <<shown, socket, deaf, deletes>>

\* DELETE of a session that is not registered succeeds at once.
DeleteCalled(s, c) ==
  /\ deletes[<<s, c>>] = "sent"
  /\ deletes' = [deletes EXCEPT ![<<s, c>>] = IF s \in registered THEN "closing" ELSE "ended"]
  /\ UNCHANGED <<shown, socket, deaf, handling, alive, registered, managed>>

\* It fails if the entry is gone after its awaits.
Deleted(s, c) ==
  /\ deletes[<<s, c>>] = "closing"
  /\ deletes' = [deletes EXCEPT ![<<s, c>>] = IF s \in registered THEN "ended" ELSE "answered"]
  /\ alive' = alive \ {s} /\ registered' = registered \ {s}
  /\ UNCHANGED <<shown, socket, deaf, handling, managed>>

-----------------------------------------------------------------------------
Served(s) ==
  \/ InitReceived(s) \/ Registered(s) \/ Hangup(s) \/ Cleanup(s) \/ SocketClosed(s)
  \/ \E c \in Callers : DeleteCalled(s, c) \/ Deleted(s, c)

LifecycleNext ==
  \/ ConnectBrowser \/ Disconnect
  \/ \E s \in BrowserSessions :
       \/ StartBrowser(s) \/ CallDue(s) \/ Told(s) \/ HandlerFails(s) \/ Served(s)
       \/ \E c \in Callers : Answered(s, c)

LifecycleSpec == LifecycleInit /\ [][LifecycleNext]_lifecycleVars

-----------------------------------------------------------------------------
(* Properties.                                                             *)

\* docs/user-guide/web-explorer/browser-profiles-and-sessions.md:54: End Session
\* terminates the browser session, and a New Session continues the work.  A
\* socket the app uses is closed only when its user ended it or its handler
\* failed, and a session that is served is shown as connected: whatever is still
\* under way for an earlier session does not touch the new one.
SessionStays ==
  \A s \in BrowserSessions :
    /\ socket[s] = "closing" /\ shown.socket = s => s \in deaf \/ handling[s] \in {"ending", "ended"}
    /\ socket[s] = "open" /\ handling[s] = "serving" => shown.connected /\ shown.socket = s

\* Once its socket is closed - before init, during the launch, by either side, and
\* with any number of DELETE calls before or after - a session's browser ends and
\* the sidecar no longer lists it.
SessionsEnd ==
  \A s \in BrowserSessions :
    (socket[s] \in {"closing", "closed"}) ~> (s \notin alive \union registered)
===============================================================================
