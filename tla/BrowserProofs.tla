--------------------------- MODULE BrowserProofs ----------------------------
(***************************************************************************)
(* What holds of a browser session: that it stays, that the app shows the  *)
(* tab the browser shows, and that one at a time drives its page. Each     *)
(* holds while events come in the order the user interface expects; the    *)
(* constant that says so is the theorem's assumption, and the component    *)
(* says what it rules out.                                                 *)
(***************************************************************************)
EXTENDS BrowserLifecycle, BrowserTabs, PageTools, TLAPS

-----------------------------------------------------------------------------
(***************************************************************************)
(* That the socket the app uses is closed only when its user or its        *)
(* handler is done with it, and that the session that is served is the one *)
(* shown, for any number of sessions, while they are started one after the *)
(* other (InOrder).                                                        *)
(*                                                                         *)
(* The reasons are in four places: the app has the only open socket, a     *)
(* sidecar that serves a session has heard nothing from its socket, a      *)
(* handling ends only when something was closed, and whatever closes it    *)
(* was asked for.                                                          *)
(***************************************************************************)

Handlings == {"none", "init", "launching", "serving", "told", "ending", "ended"}
Steps == {"no", "due", "sent", "closing", "ended", "answered"}

LifeTyped ==
  /\ shown \in [session: BrowserSessions \union {NoSession}, socket: BrowserSessions \union {NoSession},
                connected: BOOLEAN, starting: BrowserSessions \union {NoSession}]
  /\ socket \in [BrowserSessions -> {"unused", "open", "closing", "closed"}]
  /\ handling \in [BrowserSessions -> Handlings]
  /\ deletes \in [BrowserSessions \X Callers -> Steps]

\* A session is started when no End Session is under way, and is not known before.
StartsAfresh ==
  shown.starting # NoSession =>
    /\ handling[shown.starting] = "none"
    /\ \A s \in BrowserSessions : deletes[<<s, "disconnect">>] \in {"no", "answered"}

\* The app has the socket of the session it shows, and no other is open; the
\* handlers of that socket are off from End Session until its call is answered.
OneSocket ==
  /\ shown.socket # NoSession => handling[shown.socket] # "none"
  /\ shown.session # NoSession => shown.session = shown.socket
  /\ \A s \in BrowserSessions : deletes[<<s, "disconnect">>] \notin {"no", "answered"} => shown.socket \in deaf
  /\ \A s \in BrowserSessions : socket[s] = "open" => s = shown.socket

\* When a session is served no earlier socket is still closing.
ServedInPeace ==
  \A s \in BrowserSessions : socket[s] = "open" /\ handling[s] = "serving" =>
    shown.connected /\ \A t \in BrowserSessions : socket[t] # "closing"

ClosedForAReason ==
  \A s \in BrowserSessions :
    socket[s] = "closing" /\ shown.socket = s => s \in deaf \/ handling[s] \in {"ending", "ended"}

LifeInv == LifeTyped /\ StartsAfresh /\ OneSocket /\ ServedInPeace /\ ClosedForAReason

-----------------------------------------------------------------------------
LEMMA LifeStart == LifecycleInit => LifeInv
<1> SUFFICES ASSUME LifecycleInit PROVE LifeInv
  OBVIOUS
<1> USE BrowserLifecycleAssumption
<1>1. LifeTyped
  BY DEF LifecycleInit, LifeTyped, Handlings, Steps
<1>2. shown.starting = NoSession /\ shown.session = NoSession /\ shown.socket = NoSession
  BY DEF LifecycleInit
<1>3. \A s \in BrowserSessions : socket[s] = "unused" /\ deletes[<<s, "disconnect">>] = "no"
  BY DEF LifecycleInit, Callers
<1> QED
  BY <1>1, <1>2, <1>3 DEF LifeInv, StartsAfresh, OneSocket, ServedInPeace, ClosedForAReason

\* Closing a socket closes that one, if it is open.
LEMMA ClosingOne ==
  ASSUME LifeTyped, NEW s \in BrowserSessions \union {NoSession}
  PROVE  /\ Closing(s) \in [BrowserSessions -> {"unused", "open", "closing", "closed"}]
         /\ \A t \in BrowserSessions : Closing(s)[t] = IF t = s /\ socket[t] = "open" THEN "closing" ELSE socket[t]
BY BrowserLifecycleAssumption DEF Closing, LifeTyped

\* Steps of the handlers and of the sockets: the session whose handler moves does
\* not begin to be served while a socket closes, and a socket that the app uses is
\* closed after its handlers are off, or by its handler.
LEMMA StartBrowserKeeps ==
  ASSUME InOrder, LifeInv, NEW s \in BrowserSessions, StartBrowser(s)
  PROVE  LifeInv'
<1> USE BrowserLifecycleAssumption DEF LifeInv
<1>1. /\ shown' = [shown EXCEPT !.starting = s] /\ handling[s] = "none" /\ ~shown.connected
      /\ UNCHANGED <<socket, deaf, handling, deletes>>
  BY DEF StartBrowser
<1>2. \A t \in BrowserSessions : deletes[<<t, "disconnect">>] \in {"no", "answered"}
  <2>1. DOMAIN deletes = BrowserSessions \X Callers
    BY DEF LifeTyped
  <2>2. \A c \in DOMAIN deletes : c[2] = "disconnect" => deletes[c] \in {"no", "answered"}
    BY DEF StartBrowser
  <2> QED
    BY <2>1, <2>2 DEF Callers
<1>3. shown'.session = shown.session /\ shown'.socket = shown.socket /\ shown'.connected = shown.connected /\ shown'.starting = s
  BY <1>1 DEF LifeTyped
<1>4. LifeTyped'
  BY <1>1 DEF LifeTyped
<1>5. StartsAfresh'
  BY <1>1, <1>2, <1>3 DEF StartsAfresh
<1>6. OneSocket' /\ ServedInPeace' /\ ClosedForAReason'
  BY <1>1, <1>3 DEF OneSocket, ServedInPeace, ClosedForAReason
<1> QED
  BY <1>4, <1>5, <1>6

LEMMA ConnectKeeps ==
  ASSUME LifeInv, ConnectBrowser
  PROVE  LifeInv'
<1> USE BrowserLifecycleAssumption DEF LifeInv
<1>1. PICK s \in BrowserSessions : s = shown.starting
  BY DEF ConnectBrowser, LifeTyped
<1>2. PICK r \in BrowserSessions \union {NoSession} : r = shown.socket
  BY DEF LifeTyped
<1>3. /\ socket' = [Closing(r) EXCEPT ![s] = "open"] /\ handling' = [handling EXCEPT ![s] = "init"]
      /\ shown' = [shown EXCEPT !.session = s, !.socket = s, !.starting = NoSession]
      /\ UNCHANGED <<deaf, deletes>>
  BY <1>1, <1>2 DEF ConnectBrowser
<1>4. /\ Closing(r) \in [BrowserSessions -> {"unused", "open", "closing", "closed"}]
      /\ \A t \in BrowserSessions : Closing(r)[t] = IF t = r /\ socket[t] = "open" THEN "closing" ELSE socket[t]
  BY ClosingOne
<1>5. shown'.session = s /\ shown'.socket = s /\ shown'.connected = shown.connected /\ shown'.starting = NoSession
  BY <1>3 DEF LifeTyped
<1>6. /\ socket'[s] = "open" /\ handling'[s] = "init"
      /\ \A t \in BrowserSessions \ {s} : socket'[t] = Closing(r)[t] /\ handling'[t] = handling[t]
  BY <1>3, <1>4 DEF LifeTyped
<1>7. LifeTyped'
  <2>1. socket' \in [BrowserSessions -> {"unused", "open", "closing", "closed"}]
    BY <1>3, <1>4
  <2>2. handling' \in [BrowserSessions -> Handlings]
    BY <1>3 DEF LifeTyped, Handlings
  <2> QED
    BY <1>3, <2>1, <2>2 DEF LifeTyped
<1>8. handling[s] = "none" /\ \A t \in BrowserSessions : deletes[<<t, "disconnect">>] \in {"no", "answered"}
  BY <1>1 DEF StartsAfresh
<1>9. \A t \in BrowserSessions \ {s} : socket'[t] # "open"
  BY <1>2, <1>4, <1>6 DEF OneSocket
<1> QED
  BY <1>3, <1>5, <1>6, <1>7, <1>8, <1>9 DEF StartsAfresh, OneSocket, ServedInPeace, ClosedForAReason

LEMMA DisconnectKeeps ==
  ASSUME InOrder, LifeInv, Disconnect
  PROVE  LifeInv'
<1> USE BrowserLifecycleAssumption DEF LifeInv
<1>1. PICK r \in BrowserSessions \union {NoSession} : r = shown.socket
  BY DEF LifeTyped
<1>2. /\ socket' = Closing(r) /\ shown.starting = NoSession /\ deaf' = deaf \union ({r} \ {NoSession})
      /\ shown' = [shown EXCEPT !.connected = FALSE] /\ UNCHANGED handling
      /\ shown.session # NoSession => deletes' = [deletes EXCEPT ![<<shown.session, "disconnect">>] = "sent"]
      /\ shown.session = NoSession => deletes' = deletes
  BY <1>1 DEF Disconnect
<1>3. /\ Closing(r) \in [BrowserSessions -> {"unused", "open", "closing", "closed"}]
      /\ \A t \in BrowserSessions : Closing(r)[t] = IF t = r /\ socket[t] = "open" THEN "closing" ELSE socket[t]
  BY ClosingOne
<1>4. shown'.session = shown.session /\ shown'.socket = r /\ shown'.starting = NoSession
  BY <1>1, <1>2 DEF LifeTyped
<1>5. /\ deletes' \in [BrowserSessions \X Callers -> Steps]
      /\ \A t \in BrowserSessions : deletes'[<<t, "disconnect">>] # deletes[<<t, "disconnect">>] => r # NoSession
  <2>1. CASE shown.session = NoSession
    BY <1>2, <2>1 DEF LifeTyped
  <2>2. CASE shown.session # NoSession
    <3>1. r # NoSession /\ shown.session = r
      BY <1>1, <2>2 DEF OneSocket
    <3> QED
      BY <1>2, <2>2, <3>1 DEF LifeTyped, Steps, Callers
  <2> QED
    BY <2>1, <2>2
<1>6. LifeTyped'
  BY <1>2, <1>3, <1>5 DEF LifeTyped
<1>7. \A t \in BrowserSessions : socket'[t] # "open"
  BY <1>1, <1>2, <1>3 DEF OneSocket
<1>8. r \in deaf' \/ r = NoSession
  BY <1>2
<1>9. \A t \in BrowserSessions : deletes'[<<t, "disconnect">>] \notin {"no", "answered"} => r \in deaf'
  BY <1>1, <1>2, <1>5 DEF OneSocket
<1>10. ClosedForAReason'
  BY <1>4, <1>8 DEF ClosedForAReason
<1> QED
  BY <1>1, <1>2, <1>4, <1>6, <1>7, <1>9, <1>10 DEF StartsAfresh, OneSocket, ServedInPeace

LEMMA SocketClosedKeeps ==
  ASSUME LifeInv, NEW s \in BrowserSessions, SocketClosed(s)
  PROVE  LifeInv'
<1> USE BrowserLifecycleAssumption DEF LifeInv
<1>1. /\ socket[s] = "closing" /\ socket' = [socket EXCEPT ![s] = "closed"] /\ UNCHANGED <<deaf, handling>>
      /\ shown' = shown \/ shown' = [shown EXCEPT !.connected = FALSE]
      /\ deletes' = deletes \/ deletes' = [deletes EXCEPT ![<<s, "onclose">>] = "due"]
  BY DEF SocketClosed
<1>2. shown'.session = shown.session /\ shown'.socket = shown.socket /\ shown'.starting = shown.starting
  BY <1>1 DEF LifeTyped
<1>3. /\ deletes' \in [BrowserSessions \X Callers -> Steps]
      /\ \A t \in BrowserSessions : deletes'[<<t, "disconnect">>] = deletes[<<t, "disconnect">>]
  BY <1>1 DEF LifeTyped, Steps, Callers
<1>4. /\ socket' \in [BrowserSessions -> {"unused", "open", "closing", "closed"}]
      /\ \A t \in BrowserSessions : socket'[t] = IF t = s THEN "closed" ELSE socket[t]
  BY <1>1 DEF LifeTyped
<1>5. LifeTyped'
  <2>1. shown' \in [session: BrowserSessions \union {NoSession}, socket: BrowserSessions \union {NoSession},
                    connected: BOOLEAN, starting: BrowserSessions \union {NoSession}]
    BY <1>1 DEF LifeTyped
  <2> QED
    BY <1>1, <1>3, <1>4, <2>1 DEF LifeTyped
<1>6. ServedInPeace'
  BY <1>1, <1>4 DEF ServedInPeace
<1> QED
  BY <1>1, <1>2, <1>3, <1>4, <1>5, <1>6 DEF StartsAfresh, OneSocket, ClosedForAReason

LEMMA ToldKeeps ==
  ASSUME InOrder, LifeInv, NEW s \in BrowserSessions, Told(s)
  PROVE  LifeInv'
<1> USE BrowserLifecycleAssumption DEF LifeInv
<1>1. /\ handling[s] = "told" /\ socket[s] = "open" /\ \A t \in BrowserSessions : socket[t] # "closing"
      /\ handling' = [handling EXCEPT ![s] = "serving"] /\ shown' = [shown EXCEPT !.connected = TRUE]
      /\ UNCHANGED <<socket, deaf, deletes>>
  BY DEF Told
<1>2. /\ shown'.session = shown.session /\ shown'.socket = shown.socket /\ shown'.starting = shown.starting
      /\ shown'.connected
  BY <1>1 DEF LifeTyped
<1>3. \A t \in BrowserSessions : handling'[t] = IF t = s THEN "serving" ELSE handling[t]
  BY <1>1 DEF LifeTyped
<1>4. LifeTyped'
  BY <1>1 DEF LifeTyped, Handlings
<1>5. StartsAfresh'
  <2> SUFFICES ASSUME shown.starting # NoSession PROVE StartsAfresh'
    BY <1>2 DEF StartsAfresh
  <2>1. shown.starting \in BrowserSessions /\ shown.starting # s
    BY <1>1 DEF StartsAfresh, LifeTyped
  <2> QED
    BY <1>1, <1>2, <1>3, <2>1 DEF StartsAfresh
<1>6. shown.socket # NoSession => handling'[shown.socket] # "none"
  <2>1. shown.socket \in BrowserSessions \union {NoSession}
    BY DEF LifeTyped
  <2> QED
    BY <1>3, <2>1 DEF OneSocket
<1> QED
  BY <1>1, <1>2, <1>3, <1>4, <1>5, <1>6 DEF OneSocket, ServedInPeace, ClosedForAReason

\* Steps of the handlers: one that may be served comes from one that was.
LEMMA HandlerKeeps ==
  ASSUME LifeInv, NEW s \in BrowserSessions, handling[s] \in Handlings \ {"none"},
         NEW h \in Handlings \ {"none", "serving"}, handling[s] = "ended" => h = "ended",
         handling[s] = "ending" => h \in {"ending", "ended"},
         handling' = [handling EXCEPT ![s] = h], UNCHANGED <<shown, socket, deaf, deletes>>
  PROVE  LifeInv'
<1> USE BrowserLifecycleAssumption DEF LifeInv
<1>1. \A t \in BrowserSessions : handling'[t] = IF t = s THEN h ELSE handling[t]
  BY DEF LifeTyped
<1>2. LifeTyped'
  BY DEF LifeTyped
<1>3. {shown.starting, shown.socket} \subseteq BrowserSessions \union {NoSession}
  BY DEF LifeTyped
<1>4. StartsAfresh'
  BY <1>1, <1>3 DEF StartsAfresh
<1>5. OneSocket'
  BY <1>1, <1>3 DEF OneSocket
<1>6. ServedInPeace' /\ ClosedForAReason'
  BY <1>1 DEF ServedInPeace, ClosedForAReason
<1> QED
  BY <1>2, <1>4, <1>5, <1>6

LEMMA HandlerFailsKeeps ==
  ASSUME LifeInv, NEW s \in BrowserSessions, HandlerFails(s)
  PROVE  LifeInv'
<1> USE BrowserLifecycleAssumption DEF LifeInv
<1>1. PICK h \in {"ending", "ended"} :
        /\ handling' = [handling EXCEPT ![s] = h] /\ handling[s] = "serving" /\ socket[s] = "open"
        /\ socket' = Closing(s) /\ shown' = [shown EXCEPT !.connected = FALSE] /\ UNCHANGED <<deaf, deletes>>
  BY DEF HandlerFails, HandlerEnds
<1>2. /\ Closing(s) \in [BrowserSessions -> {"unused", "open", "closing", "closed"}]
      /\ \A t \in BrowserSessions : Closing(s)[t] = IF t = s /\ socket[t] = "open" THEN "closing" ELSE socket[t]
  BY ClosingOne
<1>3. \A t \in BrowserSessions : handling'[t] = IF t = s THEN h ELSE handling[t]
  BY <1>1 DEF LifeTyped
<1>4. shown'.session = shown.session /\ shown'.socket = shown.socket /\ shown'.starting = shown.starting
  BY <1>1 DEF LifeTyped
<1>5. LifeTyped'
  BY <1>1, <1>2 DEF LifeTyped, Handlings
<1>6. \A t \in BrowserSessions : socket'[t] # "open"
  BY <1>1, <1>2 DEF OneSocket
<1>7. {shown.starting, shown.socket} \subseteq BrowserSessions \union {NoSession}
  BY DEF LifeTyped
<1>8. StartsAfresh'
  BY <1>1, <1>3, <1>4, <1>7 DEF StartsAfresh
<1>9. OneSocket'
  BY <1>1, <1>3, <1>4, <1>6, <1>7 DEF OneSocket
<1>10. ServedInPeace' /\ ClosedForAReason'
  BY <1>1, <1>2, <1>3, <1>4, <1>6 DEF ServedInPeace, ClosedForAReason
<1> QED
  BY <1>5, <1>8, <1>9, <1>10

\* Steps of the DELETE calls but the last.
LEMMA CallKeeps ==
  ASSUME LifeInv, NEW c \in BrowserSessions \X Callers, deletes[c] \notin {"no", "answered"}, NEW d \in Steps,
         deletes' = [deletes EXCEPT ![c] = d], UNCHANGED <<shown, socket, deaf, handling>>
  PROVE  LifeInv'
<1> USE BrowserLifecycleAssumption DEF LifeInv
<1>1. /\ LifeTyped' /\ \A b \in BrowserSessions \X Callers : deletes'[b] = IF b = c THEN d ELSE deletes[b]
  BY DEF LifeTyped
<1>2. \A s \in BrowserSessions : <<s, "disconnect">> \in BrowserSessions \X Callers
  BY DEF Callers
<1>3. StartsAfresh'
  BY <1>1, <1>2 DEF StartsAfresh
<1>4. OneSocket'
  BY <1>1, <1>2 DEF OneSocket
<1> QED
  BY <1>1, <1>3, <1>4 DEF ServedInPeace, ClosedForAReason

\* The answer to an End Session: the socket it closes is the one that the user ended.
LEMMA AnsweredKeeps ==
  ASSUME LifeInv, NEW s \in BrowserSessions, NEW c \in Callers, Answered(s, c)
  PROVE  LifeInv'
<1> USE BrowserLifecycleAssumption DEF LifeInv
<1>1. deletes[<<s, c>>] = "ended" /\ deletes' = [deletes EXCEPT ![<<s, c>>] = "answered"] /\ UNCHANGED <<deaf, handling>>
  BY DEF Answered
<1>2. CASE c # "disconnect"
  <2>1. UNCHANGED <<shown, socket>>
    BY <1>2 DEF Answered, EndsItsOwn
  <2> QED
    BY <1>1, <2>1, CallKeeps DEF Steps
<1>3. CASE c = "disconnect"
  <2>1. PICK r \in BrowserSessions \union {NoSession} : r = shown.socket
    BY DEF LifeTyped
  <2>2. /\ socket' = Closing(r) /\ shown' = [shown EXCEPT !.connected = FALSE, !.session = NoSession]
    BY <1>3, <2>1 DEF Answered, EndsItsOwn
  <2>3. /\ Closing(r) \in [BrowserSessions -> {"unused", "open", "closing", "closed"}]
        /\ \A t \in BrowserSessions : Closing(r)[t] = IF t = r /\ socket[t] = "open" THEN "closing" ELSE socket[t]
    BY ClosingOne
  <2>4. shown'.session = NoSession /\ shown'.socket = r /\ shown'.starting = shown.starting
    BY <2>1, <2>2 DEF LifeTyped
  <2>5. r \in deaf /\ shown.starting = NoSession
    BY <1>1, <1>3, <2>1 DEF OneSocket, StartsAfresh
  <2>6. LifeTyped'
    <3>1. deletes' \in [BrowserSessions \X Callers -> Steps]
      BY <1>1 DEF LifeTyped, Steps
    <3>2. shown' \in [session: BrowserSessions \union {NoSession}, socket: BrowserSessions \union {NoSession},
                      connected: BOOLEAN, starting: BrowserSessions \union {NoSession}]
      BY <2>2 DEF LifeTyped
    <3> QED
      BY <1>1, <2>2, <2>3, <3>1, <3>2 DEF LifeTyped
  <2>7. \A t \in BrowserSessions : socket'[t] # "open"
    BY <2>1, <2>2, <2>3 DEF OneSocket
  <2> QED
    BY <1>1, <2>1, <2>4, <2>5, <2>6, <2>7 DEF StartsAfresh, OneSocket, ServedInPeace, ClosedForAReason
<1> QED
  BY <1>2, <1>3

-----------------------------------------------------------------------------
LEMMA LifeStep == ASSUME InOrder, LifeInv, [LifecycleNext]_lifecycleVars PROVE LifeInv'
<1>1. CASE UNCHANGED lifecycleVars
  <2>1. UNCHANGED <<shown, socket, deaf, handling, deletes>>
    BY <1>1 DEF lifecycleVars
  <2> QED
    BY <2>1 DEF LifeInv, LifeTyped, StartsAfresh, OneSocket, ServedInPeace, ClosedForAReason
<1>2. CASE ConnectBrowser
  BY <1>2, ConnectKeeps
<1>3. CASE Disconnect
  BY <1>3, DisconnectKeeps
<1>4. ASSUME NEW s \in BrowserSessions, StartBrowser(s) \/ Told(s) \/ HandlerFails(s) \/ SocketClosed(s) PROVE LifeInv'
  BY <1>4, StartBrowserKeeps, ToldKeeps, HandlerFailsKeeps, SocketClosedKeeps
<1>5. ASSUME NEW s \in BrowserSessions, InitReceived(s) PROVE LifeInv'
  <2>1. PICK h \in {"launching", "ending", "ended"} :
          handling[s] = "init" /\ handling' = [handling EXCEPT ![s] = h] /\ UNCHANGED <<shown, socket, deaf, deletes>>
    BY <1>5 DEF InitReceived, HandlerEnds
  <2> QED
    BY <2>1, HandlerKeeps DEF Handlings
<1>6. ASSUME NEW s \in BrowserSessions, Registered(s) PROVE LifeInv'
  <2>1. handling[s] = "launching" /\ handling' = [handling EXCEPT ![s] = "told"] /\ UNCHANGED <<shown, socket, deaf, deletes>>
    BY <1>6 DEF Registered
  <2> QED
    BY <2>1, HandlerKeeps DEF Handlings
<1>7. ASSUME NEW s \in BrowserSessions, Hangup(s) PROVE LifeInv'
  <2>1. PICK h \in {"ending", "ended"} :
          /\ handling[s] \in {"told", "serving"} /\ handling' = [handling EXCEPT ![s] = h]
          /\ UNCHANGED <<shown, socket, deaf, deletes>>
    BY <1>7 DEF Hangup, HandlerEnds
  <2> QED
    BY <2>1, HandlerKeeps DEF Handlings
<1>8. ASSUME NEW s \in BrowserSessions, Cleanup(s) PROVE LifeInv'
  <2>1. handling[s] = "ending" /\ handling' = [handling EXCEPT ![s] = "ended"] /\ UNCHANGED <<shown, socket, deaf, deletes>>
    BY <1>8 DEF Cleanup
  <2> QED
    BY <2>1, HandlerKeeps DEF Handlings
<1>9. ASSUME NEW s \in BrowserSessions, CallDue(s) PROVE LifeInv'
  <2>1. /\ deletes[<<s, "onclose">>] = "due" /\ deletes' = [deletes EXCEPT ![<<s, "onclose">>] = "sent"]
        /\ UNCHANGED <<shown, socket, deaf, handling>> /\ <<s, "onclose">> \in BrowserSessions \X Callers
    BY <1>9 DEF CallDue, Callers
  <2> QED
    BY <2>1, CallKeeps DEF Steps
<1>10. ASSUME NEW s \in BrowserSessions, NEW c \in Callers, DeleteCalled(s, c) \/ Deleted(s, c) PROVE LifeInv'
  <2>1. PICK d \in Steps :
          /\ deletes[<<s, c>>] \in {"sent", "closing"} /\ deletes' = [deletes EXCEPT ![<<s, c>>] = d]
          /\ UNCHANGED <<shown, socket, deaf, handling>> /\ <<s, c>> \in BrowserSessions \X Callers
    BY <1>10 DEF DeleteCalled, Deleted, Steps
  <2> QED
    BY <2>1, CallKeeps
<1>11. ASSUME NEW s \in BrowserSessions, NEW c \in Callers, Answered(s, c) PROVE LifeInv'
  BY <1>11, AnsweredKeeps
<1> QED
  BY <1>1, <1>2, <1>3, <1>4, <1>5, <1>6, <1>7, <1>8, <1>9, <1>10, <1>11 DEF LifecycleNext, Served

\* Whatever is still under way for an earlier session - its socket closing, its
\* handler's clean-up, the calls that end it and their answers - does not touch
\* the session started after it, for any number of sessions.
THEOREM SessionsStay ==
  ASSUME InOrder
  PROVE  LifecycleSpec => []SessionStays
<1>1. LifeInv => SessionStays
  <2> SUFFICES ASSUME LifeInv, NEW s \in BrowserSessions
               PROVE  /\ socket[s] = "closing" /\ shown.socket = s => s \in deaf \/ handling[s] \in {"ending", "ended"}
                      /\ socket[s] = "open" /\ handling[s] = "serving" => shown.connected /\ shown.socket = s
    BY DEF SessionStays
  <2> QED
    BY DEF LifeInv, OneSocket, ServedInPeace, ClosedForAReason
<1>2. LifeInv /\ [LifecycleNext]_lifecycleVars => LifeInv'
  BY LifeStep
<1> QED
  BY <1>1, <1>2, LifeStart, PTL DEF LifecycleSpec

-----------------------------------------------------------------------------
(***************************************************************************)
(* That the tab the app shows is the one the browser shows, for any number *)
(* of pages and clicks, while pages load one at a time and nothing else    *)
(* happens while one closes (Calm).                                        *)
(*                                                                         *)
(* Most of the time the two differ, so the invariant says by how much: the *)
(* app's tabs are the browser's up to the pages it will be told of and the *)
(* one that closes, and its active one is the browser's up to the switches *)
(* it has asked for.                                                       *)
(***************************************************************************)

TabCommand == [action: {"switch_tab", "close_tab"}, index: Nat] \union [action: {"toggle-inspect"}, enabled: BOOLEAN]
TabMessage == [type: {"tab_opened"}, page: BrowserPages] \union [type: {"tab_closed"}, index: Nat, active: Nat]

TabsTyped ==
  /\ pages \in Seq(BrowserPages) /\ active \in 1..Len(pages) /\ Range(pages) \subseteq opened
  /\ \A i, j \in 1..Len(pages) : pages[i] = pages[j] => i = j
  /\ app \in [tabs: Seq(BrowserPages), active: Nat, inspecting: BOOLEAN]
  /\ commands \in Seq(TabCommand)
  /\ messages \in Seq(TabMessage)

\* No page is being closed.
Switches == {k \in 1..Len(commands) : commands[k].action = "switch_tab"}
Untold == Len(app.tabs) + Len(messages)
\* The app has the pages in their order, up to those it will be told of and the one
\* that loads; and the active one, up to the switches it has asked for.
PagesAnnounced ==
  /\ \/ opening = {} /\ Len(pages) = Untold
     \/ Len(pages) = Untold + 1 /\ opening = {pages[Untold + 1]}
  /\ \A i \in 1..Len(app.tabs) : app.tabs[i] = pages[i]
  /\ \A j \in 1..Len(messages) : messages[j] = [type |-> "tab_opened", page |-> pages[Len(app.tabs) + j]]
SwitchesAsked ==
  /\ \A k \in 1..Len(commands) : commands[k].action # "close_tab"
  /\ Switches = {} => app.active = active
  /\ \A k \in Switches : /\ commands[k].index \in 1..Len(app.tabs)
                         /\ (\A j \in Switches : j <= k) => commands[k].index = app.active
OneStream ==
  /\ streams = {cdp}
  /\ \/ restarts = {} /\ cdp = pages[active]
     \/ restarts = {[page |-> pages[active], old |-> cdp, closed |-> 0, told |-> active]}
Quiet == closing = {} /\ PagesAnnounced /\ SwitchesAsked /\ OneStream

\* A page is being closed, and nothing else happens: asked for, closed, the picture
\* moving to another, the app not yet told.
TabsAgree == app.tabs = pages /\ app.active = active
AskedToClose ==
  /\ closing = {} /\ restarts = {} /\ messages = <<>> /\ TabsAgree /\ cdp = pages[active] /\ streams = {cdp}
  /\ Len(commands) = 1 /\ commands[1].action = "close_tab" /\ commands[1].index \in 1..Len(pages) /\ Len(pages) > 1
PageClosed ==
  /\ restarts = {} /\ messages = <<>> /\ commands = <<>> /\ TabsAgree /\ cdp = pages[active]
  /\ \E p \in Range(pages) : closing = {p} /\ streams = {cdp} \ {p}
PictureMoves ==
  /\ closing = {} /\ messages = <<>> /\ commands = <<>> /\ streams = {}
  /\ \E i \in 1..Len(app.tabs) : /\ pages = TabsWithout(i)
                                 /\ restarts = {[page |-> pages[active], old |-> cdp, closed |-> i, told |-> active]}
ToldClosed ==
  /\ closing = {} /\ restarts = {} /\ commands = <<>> /\ cdp = pages[active] /\ streams = {cdp}
  /\ \E i \in 1..Len(app.tabs) : pages = TabsWithout(i) /\ messages = <<[type |-> "tab_closed", index |-> i, active |-> active]>>
OnlyCloses == opening = {} /\ (AskedToClose \/ PageClosed \/ PictureMoves \/ ToldClosed)

TabsInv == up /\ pages # <<>> => TabsTyped /\ (Quiet \/ OnlyCloses)

-----------------------------------------------------------------------------
LEMMA TabsStart == TabsInit => TabsInv
<1> SUFFICES ASSUME TabsInit PROVE TabsInv
  OBVIOUS
<1> USE BrowserTabsAssumption
<1>1. PICK p \in BrowserPages : /\ pages = <<p>> /\ opened = {p} /\ cdp = p /\ streams = {p}
                                /\ app = [tabs |-> <<p>>, active |-> 1, inspecting |-> FALSE]
  BY DEF TabsInit
<1>2. active = 1 /\ opening = {} /\ closing = {} /\ restarts = {} /\ commands = <<>> /\ messages = <<>>
  BY DEF TabsInit
<1>3. TabsTyped
  BY <1>1, <1>2 DEF TabsTyped, Range
<1>4. PagesAnnounced
  BY <1>1, <1>2 DEF PagesAnnounced, Untold
<1>5. SwitchesAsked
  BY <1>1, <1>2 DEF SwitchesAsked, Switches
<1>6. OneStream
  BY <1>1, <1>2 DEF OneStream
<1> QED
  BY <1>2, <1>3, <1>4, <1>5, <1>6 DEF TabsInv, Quiet

\* Once there is no page, or the loop has ended, it stays so.
LEMMA NoneComesBack ==
  ASSUME Calm, [TabsNext]_tabVars, up', pages' # <<>>
  PROVE  up /\ pages # <<>>
<1>1. ASSUME NEW p \in BrowserPages, PageCloseHandled(p) PROVE up' = up /\ (pages = <<>> => pages' = <<>>)
  <2>1. pages = <<>> => p \notin Range(pages)
    BY DEF Range
  <2> QED
    BY <1>1, <2>1 DEF PageCloseHandled
<1>2. ASSUME NEW p \in BrowserPages, PageOpens(p) PROVE up /\ pages # <<>>
  BY <1>2 DEF PageOpens
<1> QED
  BY <1>1, <1>2
  DEF TabsNext, tabVars, PageLoaded, Navigates, UserClosesPage, Restarted, SwitchTab, CloseTab, ToggleInspect,
      NoPageLeft, UserSwitchesTab, UserClosesTab, UserTogglesInspect, MessageHandled

LEMMA Distinct == ASSUME TabsTyped PROVE \A i, j \in 1..Len(pages) : pages[i] = pages[j] => i = j
BY DEF TabsTyped

LEMMA Announced ==
  ASSUME TabsTyped, PagesAnnounced
  PROVE  /\ Untold = Len(app.tabs) + Len(messages) /\ Untold \in Nat /\ Len(pages) \in Nat
         /\ Len(app.tabs) \in Nat /\ Len(messages) \in Nat
         /\ \/ opening = {} /\ Len(pages) = Untold
            \/ Len(pages) = Untold + 1 /\ opening = {pages[Untold + 1]}
         /\ \A i \in 1..Len(app.tabs) : app.tabs[i] = pages[i]
         /\ \A j \in 1..Len(messages) : messages[j] = [type |-> "tab_opened", page |-> pages[Len(app.tabs) + j]]
<1>1. Len(app.tabs) \in Nat /\ Len(messages) \in Nat /\ Len(pages) \in Nat
  BY DEF TabsTyped
<1> QED
  BY <1>1 DEF PagesAnnounced, Untold

LEMMA TabFacts ==
  ASSUME TabsTyped
  PROVE  /\ Len(pages) \in Nat /\ DOMAIN pages = 1..Len(pages) /\ Range(pages) = {pages[i] : i \in 1..Len(pages)}
         /\ Len(app.tabs) \in Nat /\ Len(messages) \in Nat /\ Len(commands) \in Nat
         /\ app = [tabs |-> app.tabs, active |-> app.active, inspecting |-> app.inspecting]
         /\ app.tabs \in Seq(BrowserPages) /\ app.active \in Nat
         /\ active \in Nat /\ pages[active] \in Range(pages) /\ pages[active] \in BrowserPages
BY DEF TabsTyped, Range

\* While a page is being closed nothing new may be done.
LEMMA ClosesAlone ==
  ASSUME TabsTyped, OnlyCloses
  PROVE  ClosingUnderWay /\ ~TabsAtRest
<1>1. CASE AskedToClose
  BY <1>1 DEF AskedToClose, ClosingUnderWay, TabsAtRest
<1>2. CASE PageClosed
  BY <1>2 DEF PageClosed, ClosingUnderWay, TabsAtRest
<1>3. CASE PictureMoves
  <2>1. PICK i \in 1..Len(app.tabs) : restarts = {[page |-> pages[active], old |-> cdp, closed |-> i, told |-> active]}
    BY <1>3 DEF PictureMoves
  <2>2. \E r \in restarts : r.closed # 0
    BY <2>1, TabFacts
  <2> QED
    BY <2>2 DEF ClosingUnderWay, TabsAtRest
<1>4. CASE ToldClosed
  <2>1. PICK i : messages = <<[type |-> "tab_closed", index |-> i, active |-> active]>>
    BY <1>4 DEF ToldClosed
  <2>2. 1 \in 1..Len(messages) /\ messages[1].type = "tab_closed" /\ messages # <<>>
    BY <2>1
  <2> QED
    BY <2>2 DEF ClosingUnderWay, TabsAtRest
<1> QED
  BY <1>1, <1>2, <1>3, <1>4 DEF OnlyCloses

LEMMA AtRestAgrees ==
  ASSUME TabsTyped, Quiet, TabsAtRest
  PROVE  TabsAgree /\ cdp = pages[active] /\ streams = {cdp}
<1>1. app.tabs = pages
  <2>1. Len(app.tabs) = Len(pages) /\ \A i \in 1..Len(app.tabs) : app.tabs[i] = pages[i]
    <3>1. opening = {} /\ Len(messages) = 0
      BY DEF TabsAtRest
    <3>2. Len(pages) = Untold /\ \A i \in 1..Len(app.tabs) : app.tabs[i] = pages[i]
      <4>1. \A x : opening # {x}
        BY <3>1
      <4> QED
        BY <4>1, Announced DEF Quiet
    <3>3. Untold = Len(app.tabs)
      BY <3>1, Announced DEF Quiet
    <3> QED
      BY <3>2, <3>3
  <2>2. app.tabs \in Seq(BrowserPages) /\ pages \in Seq(BrowserPages)
    BY DEF TabsTyped
  <2> QED
    BY <2>1, <2>2
<1>2. app.active = active
  BY DEF Quiet, SwitchesAsked, Switches, TabsAtRest
<1> QED
  BY <1>1, <1>2 DEF Quiet, OneStream, TabsAtRest, TabsAgree

\* The queue of commands.
LEMMA SwitchesTaken ==
  ASSUME TabsTyped, SwitchesAsked, commands # <<>>, commands' = Tail(commands), UNCHANGED app,
         active' = IF commands[1].action = "switch_tab" THEN commands[1].index ELSE active
  PROVE  SwitchesAsked' /\ commands' \in Seq(TabCommand)
<1>1. /\ commands \in Seq(TabCommand) /\ commands' \in Seq(TabCommand) /\ Len(commands) \in Nat \ {0}
      /\ Len(commands') = Len(commands) - 1 /\ \A k \in 1..Len(commands') : commands'[k] = commands[k + 1]
  BY DEF TabsTyped
<1>2. Switches \subseteq 1..Len(commands) /\ Switches' \subseteq 1..Len(commands')
  BY DEF Switches
<1>3. \A k \in Switches' : k + 1 \in Switches /\ commands'[k] = commands[k + 1] /\ k \in Nat
  BY <1>1 DEF Switches
<1>4. \A j \in Switches : j = 1 \/ (j - 1 \in Switches' /\ j - 1 \in Nat)
  BY <1>1 DEF Switches
<1>5. \A k \in 1..Len(commands') : commands'[k].action # "close_tab"
  BY <1>1 DEF SwitchesAsked
<1>6. ASSUME Switches' = {} PROVE app.active = active'
  <2>1. \A j \in Switches : j = 1
    BY <1>4, <1>6
  <2>2. CASE 1 \in Switches
    <3>1. commands[1].action = "switch_tab" /\ commands[1].index = app.active
      BY <2>1, <2>2 DEF Switches, SwitchesAsked
    <3> QED
      BY <3>1
  <2>3. CASE 1 \notin Switches
    <3>1. Switches = {} /\ commands[1].action # "switch_tab"
      BY <1>1, <2>1, <2>3 DEF Switches
    <3> QED
      BY <3>1 DEF SwitchesAsked
  <2> QED
    BY <2>2, <2>3
<1>7. ASSUME NEW k \in Switches' PROVE /\ commands'[k].index \in 1..Len(app.tabs)
                                       /\ (\A j \in Switches' : j <= k) => commands'[k].index = app.active
  <2>1. k + 1 \in Switches /\ commands'[k] = commands[k + 1] /\ k \in Nat
    BY <1>3, <1>7
  <2>2. ASSUME \A j \in Switches' : j <= k PROVE \A j \in Switches : j <= k + 1
    <3> SUFFICES ASSUME NEW j \in Switches PROVE j <= k + 1
      OBVIOUS
    <3>1. j \in Nat /\ (j = 1 \/ (j - 1 \in Switches' /\ j - 1 \in Nat))
      BY <1>2, <1>4
    <3>2. j = 1 \/ j - 1 <= k
      BY <2>2, <3>1
    <3> QED
      BY <2>1, <3>1, <3>2
  <2> QED
    BY <2>1, <2>2 DEF SwitchesAsked
<1> QED
  BY <1>1, <1>5, <1>6, <1>7 DEF SwitchesAsked

LEMMA SwitchesAdded ==
  ASSUME TabsTyped, SwitchesAsked, NEW c \in TabCommand, c.action # "close_tab", commands' = Append(commands, c),
         UNCHANGED active, app'.tabs = app.tabs,
         c.action = "switch_tab" => c.index \in 1..Len(app.tabs) /\ app'.active = c.index,
         c.action # "switch_tab" => app'.active = app.active
  PROVE  SwitchesAsked' /\ commands' \in Seq(TabCommand)
<1>1. /\ commands \in Seq(TabCommand) /\ commands' \in Seq(TabCommand) /\ Len(commands) \in Nat
      /\ Len(commands') = Len(commands) + 1 /\ commands'[Len(commands')] = c
      /\ \A k \in 1..Len(commands) : commands'[k] = commands[k]
  BY DEF TabsTyped
<1>2. Switches' = IF c.action = "switch_tab" THEN Switches \union {Len(commands) + 1} ELSE Switches
  BY <1>1 DEF Switches
<1>3. Switches \subseteq 1..Len(commands)
  BY DEF Switches
<1>4. \A k \in 1..Len(commands') : commands'[k].action # "close_tab"
  BY <1>1 DEF SwitchesAsked
<1>5. CASE c.action = "switch_tab"
  <2>1. ASSUME NEW k \in Switches', \A j \in Switches' : j <= k PROVE k = Len(commands) + 1
    BY <1>1, <1>2, <1>3, <1>5, <2>1
  <2>2. \A k \in Switches' : commands'[k].index \in 1..Len(app.tabs)
    BY <1>1, <1>2, <1>3, <1>5 DEF SwitchesAsked
  <2> QED
    BY <1>1, <1>2, <1>4, <1>5, <2>1, <2>2 DEF SwitchesAsked
<1>6. CASE c.action # "switch_tab"
  BY <1>1, <1>2, <1>3, <1>4, <1>6 DEF SwitchesAsked
<1> QED
  BY <1>1, <1>5, <1>6

-----------------------------------------------------------------------------
(* In the browser's window.                                                *)

LEMMA PageOpensKeeps ==
  ASSUME Calm, TabsTyped, Quiet \/ OnlyCloses, NEW p \in BrowserPages, PageOpens(p)
  PROVE  TabsTyped' /\ Quiet'
<1>1. Quiet /\ opening = {} /\ p \notin opened
  BY ClosesAlone DEF PageOpens, MayAct
<1>2. /\ opened' = opened \union {p} /\ pages' = Append(pages, p) /\ opening' = {p}
      /\ UNCHANGED <<active, closing, restarts, cdp, streams, commands, messages, app>>
  BY <1>1 DEF PageOpens
<1>3. /\ pages \in Seq(BrowserPages) /\ pages' \in Seq(BrowserPages) /\ Len(pages') = Len(pages) + 1
      /\ pages'[Len(pages) + 1] = p /\ \A i \in 1..Len(pages) : pages'[i] = pages[i]
      /\ Len(pages) \in Nat /\ DOMAIN pages' = 1..(Len(pages) + 1) /\ active \in 1..Len(pages)
  BY <1>2 DEF TabsTyped
<1>4. \A i \in 1..Len(pages) : pages[i] # p
  BY <1>1, <1>3 DEF TabsTyped, Range
<1>5. TabsTyped'
  <2>1. Range(pages') \subseteq opened'
    BY <1>2, <1>3, TabFacts DEF TabsTyped, Range
  <2>2. ASSUME NEW i \in 1..Len(pages'), NEW j \in 1..Len(pages'), pages'[i] = pages'[j] PROVE i = j
    BY <1>3, <1>4, <2>2, Distinct
  <2> QED
    <3>1. active' \in 1..Len(pages')
      BY <1>2, <1>3
    <3>2. \A i, j \in 1..Len(pages') : pages'[i] = pages'[j] => i = j
      BY <2>2
    <3> QED
      BY <1>2, <1>3, <2>1, <3>1, <3>2 DEF TabsTyped
<1>6. PagesAnnounced'
  <2>1. Len(pages) = Untold /\ Untold' = Untold
    BY <1>1, <1>2 DEF Quiet, PagesAnnounced, Untold
  <2>2. /\ \A i \in 1..Len(app.tabs) : app.tabs[i] = pages'[i]
        /\ \A j \in 1..Len(messages) : messages[j] = [type |-> "tab_opened", page |-> pages'[Len(app.tabs) + j]]
    <3>1. Len(pages) = Len(app.tabs) + Len(messages) /\ Len(app.tabs) \in Nat /\ Len(messages) \in Nat
      BY <1>1, <2>1, Announced DEF Quiet
    <3>2. \A i \in 1..Len(app.tabs) : app.tabs[i] = pages[i] /\ i \in 1..Len(pages)
      BY <1>1, <3>1, Announced DEF Quiet
    <3>3. \A j \in 1..Len(messages) : /\ messages[j] = [type |-> "tab_opened", page |-> pages[Len(app.tabs) + j]]
                                       /\ Len(app.tabs) + j \in 1..Len(pages)
      BY <1>1, <3>1, Announced DEF Quiet
    <3> QED
      BY <1>3, <3>2, <3>3
  <2> QED
    BY <1>2, <1>3, <2>1, <2>2 DEF PagesAnnounced
<1>7. SwitchesAsked' /\ OneStream'
  BY <1>1, <1>2, <1>3 DEF Quiet, SwitchesAsked, Switches, OneStream
<1> QED
  BY <1>1, <1>2, <1>5, <1>6, <1>7 DEF Quiet

LEMMA PageLoadedKeeps ==
  ASSUME TabsTyped, Quiet \/ OnlyCloses, up, NEW p \in BrowserPages, PageLoaded(p)
  PROVE  TabsTyped' /\ Quiet'
<1>1. Quiet /\ p \in opening
  BY DEF PageLoaded, OnlyCloses
<1>2. Len(pages) = Untold + 1 /\ opening = {p} /\ p = pages[Untold + 1]
  BY <1>1 DEF Quiet, PagesAnnounced
<1>3. PICK m \in TabMessage : m = [type |-> "tab_opened", page |-> p]
  BY DEF TabMessage
<1>4. /\ opening' = {} /\ messages' = Append(messages, m)
      /\ UNCHANGED <<pages, active, closing, restarts, cdp, streams, commands, app, opened>>
  BY <1>2, <1>3 DEF PageLoaded
<1>5. /\ messages' \in Seq(TabMessage) /\ Len(messages') = Len(messages) + 1 /\ messages'[Len(messages) + 1] = m
      /\ \A j \in 1..Len(messages) : messages'[j] = messages[j]
  BY <1>4 DEF TabsTyped
<1>6. TabsTyped'
  BY <1>4, <1>5 DEF TabsTyped
<1>7. PagesAnnounced'
  <2>1. Len(pages) = Untold' /\ Untold = Len(app.tabs) + Len(messages)
    BY <1>2, <1>4, <1>5, TabFacts DEF Untold
  <2>2. \A j \in 1..Len(messages') : messages'[j] = [type |-> "tab_opened", page |-> pages[Len(app.tabs) + j]]
    <3>1. \A j \in 1..Len(messages) : messages[j] = [type |-> "tab_opened", page |-> pages[Len(app.tabs) + j]]
      BY <1>1 DEF Quiet, PagesAnnounced
    <3>2. m = [type |-> "tab_opened", page |-> pages[Len(app.tabs) + (Len(messages) + 1)]]
      <4>1. Len(app.tabs) + (Len(messages) + 1) = Untold + 1
        <5>1. Untold = Len(app.tabs) + Len(messages) /\ Len(app.tabs) \in Nat /\ Len(messages) \in Nat
          BY TabFacts DEF Untold
        <5>2. \A a, b \in Nat : a + (b + 1) = (a + b) + 1
          BY ONLY SMT
        <5> QED
          BY ONLY <5>1, <5>2
      <4> QED
        BY <1>2, <1>3, <4>1
    <3>3. Len(messages) \in Nat
      BY TabFacts
    <3> SUFFICES ASSUME NEW j \in 1..(Len(messages) + 1)
                 PROVE  messages'[j] = [type |-> "tab_opened", page |-> pages[Len(app.tabs) + j]]
      BY <1>5
    <3>4. CASE j = Len(messages) + 1
      BY <1>5, <3>2, <3>4
    <3>5. CASE j # Len(messages) + 1
      <4>1. j \in 1..Len(messages)
        BY <3>3, <3>5
      <4> QED
        BY <1>5, <3>1, <4>1
    <3> QED
      BY <3>4, <3>5
  <2> QED
    BY <1>1, <1>4, <2>1, <2>2 DEF Quiet, PagesAnnounced
<1>8. SwitchesAsked' /\ OneStream'
  BY <1>1, <1>4 DEF Quiet, SwitchesAsked, Switches, OneStream
<1> QED
  BY <1>1, <1>4, <1>6, <1>7, <1>8 DEF Quiet

LEMMA UserClosesPageKeeps ==
  ASSUME Calm, TabsTyped, Quiet \/ OnlyCloses, NEW p \in BrowserPages, UserClosesPage(p)
  PROVE  TabsTyped' /\ OnlyCloses'
<1>1. TabsAtRest /\ Quiet /\ p \in Range(pages)
  BY ClosesAlone DEF UserClosesPage, MayClose
<1>2. TabsAgree /\ cdp = pages[active] /\ streams = {cdp}
  BY <1>1, AtRestAgrees
<1>3. /\ closing' = {p} /\ streams' = streams \ {p}
      /\ UNCHANGED <<pages, active, opening, restarts, cdp, commands, messages, app, opened>>
  BY <1>1 DEF UserClosesPage, PageGone, TabsAtRest
<1>4. TabsTyped'
  BY <1>3 DEF TabsTyped
<1>5. PageClosed'
  BY <1>1, <1>2, <1>3 DEF PageClosed, TabsAgree, TabsAtRest
<1> QED
  BY <1>1, <1>3, <1>4, <1>5 DEF OnlyCloses, TabsAtRest

-----------------------------------------------------------------------------
(* In the sidecar.                                                         *)

\* What is left of a sequence without its position i.
LEMMA Joined ==
  ASSUME NEW S, NEW s \in Seq(S), NEW t \in Seq(S)
  PROVE  /\ s \o t \in Seq(S) /\ Len(s \o t) = Len(s) + Len(t)
         /\ \A k \in 1..Len(s \o t) : (s \o t)[k] = IF k <= Len(s) THEN s[k] ELSE t[k - Len(s)]
OBVIOUS

LEMMA WithoutOne ==
  ASSUME NEW S, NEW s \in Seq(S), NEW i \in 1..Len(s), NEW t, t = SubSeq(s, 1, i - 1) \o SubSeq(s, i + 1, Len(s))
  PROVE  /\ t \in Seq(S) /\ Len(t) = Len(s) - 1
         /\ \A k \in 1..Len(t) : t[k] = IF k < i THEN s[k] ELSE s[k + 1]
<1>0. Len(s) \in Nat
  OBVIOUS
<1>1. PICK a : a = SubSeq(s, 1, i - 1)
  OBVIOUS
<1>2. PICK b : b = SubSeq(s, i + 1, Len(s))
  OBVIOUS
<1>3. a \in Seq(S) /\ Len(a) = i - 1 /\ \A k \in 1..(i - 1) : a[k] = s[k]
  BY <1>1
<1>4. b \in Seq(S) /\ Len(b) = Len(s) - i /\ \A k \in 1..(Len(s) - i) : b[k] = s[i + k]
  BY <1>2
<1>5. /\ t \in Seq(S) /\ Len(t) = Len(a) + Len(b)
      /\ \A k \in 1..Len(t) : t[k] = IF k <= Len(a) THEN a[k] ELSE b[k - Len(a)]
  <2>1. t = a \o b
    BY <1>1, <1>2
  <2>2. a \in Seq(S) /\ b \in Seq(S)
    BY <1>3, <1>4
  <2> QED
    <3>1. /\ a \o b \in Seq(S) /\ Len(a \o b) = Len(a) + Len(b)
          /\ \A k \in 1..Len(a \o b) : (a \o b)[k] = IF k <= Len(a) THEN a[k] ELSE b[k - Len(a)]
      BY ONLY <2>2, Joined
    <3> QED
      BY ONLY <2>1, <3>1
<1>6. Len(t) = Len(s) - 1
  <2>1. Len(t) = (i - 1) + (Len(s) - i)
    BY <1>3, <1>4, <1>5
  <2> QED
    BY ONLY <1>0, <2>1, i \in 1..Len(s)
<1>7. ASSUME NEW k \in 1..Len(t), k < i PROVE t[k] = s[k]
  <2>1. k \in 1..(i - 1) /\ k <= Len(a)
    BY <1>0, <1>3, <1>6, <1>7
  <2>2. t[k] = a[k]
    BY <1>5, <2>1
  <2> QED
    BY <1>3, <2>1, <2>2
<1>8. ASSUME NEW k \in 1..Len(t), ~(k < i) PROVE t[k] = s[k + 1]
  <2>1. k - (i - 1) \in 1..(Len(s) - i) /\ i + (k - (i - 1)) = k + 1 /\ ~(k <= i - 1)
    <3>1. k \in Nat /\ k <= Len(s) - 1 /\ i <= k /\ i \in Nat /\ 1 <= i
      <4>1. Len(s) - 1 \in Int /\ k \in 1..(Len(s) - 1) /\ ~(k < i) /\ i \in Int /\ 1 <= i
        <5>1. i \in Int /\ 1 <= i
          BY <1>0
        <5>2. Len(s) - 1 \in Int /\ k \in 1..(Len(s) - 1)
          BY ONLY <1>0, <1>6, k \in 1..Len(t)
        <5> QED
          BY <1>8, <5>1, <5>2
      <4> QED
        BY ONLY <1>0, <4>1
    <3> QED
      BY <1>0, <3>1
  <2>2. t[k] = b[k - (i - 1)]
    BY <1>3, <1>5, <2>1
  <2>3. b[k - (i - 1)] = s[i + (k - (i - 1))]
    BY <1>4, <2>1
  <2> QED
    BY <2>1, <2>2, <2>3
<1> QED
  BY <1>5, <1>6, <1>7, <1>8

LEMMA PageCloseHandledKeeps ==
  ASSUME TabsTyped, Quiet \/ OnlyCloses, up, NEW p \in BrowserPages, PageCloseHandled(p), pages' # <<>>
  PROVE  TabsTyped' /\ OnlyCloses'
<1>1. PageClosed /\ p \in closing /\ opening = {}
  BY DEF PageCloseHandled, Quiet, OnlyCloses, AskedToClose, PictureMoves, ToldClosed
<1>2. /\ restarts = {} /\ messages = <<>> /\ commands = <<>> /\ app.tabs = pages /\ app.active = active
      /\ cdp = pages[active] /\ p \in Range(pages) /\ closing = {p} /\ streams = {cdp} \ {p}
  BY <1>1 DEF PageClosed, TabsAgree
<1>3. PICK i \in 1..Len(pages) :
        /\ pages[i] = p /\ pages' = RemoveAt(pages, i) /\ i = CHOOSE n \in 1..Len(pages) : pages[n] = p
    <2>1. \E n \in 1..Len(pages) : pages[n] = p
      BY <1>2, TabFacts
    <2> QED
      BY <1>2, <2>1 DEF PageCloseHandled
<1>4. pages' = TabsWithout(i) /\ pages' = SubSeq(pages, 1, i - 1) \o SubSeq(pages, i + 1, Len(pages))
  BY <1>2, <1>3 DEF TabsWithout, RemoveAt
<1>5. /\ pages' \in Seq(BrowserPages) /\ Len(pages') = Len(pages) - 1
      /\ \A k \in 1..Len(pages') : pages'[k] = IF k < i THEN pages[k] ELSE pages[k + 1]
  <2>1. pages \in Seq(BrowserPages)
    BY DEF TabsTyped
  <2> QED
    <3>1. PICK t : t = SubSeq(pages, 1, i - 1) \o SubSeq(pages, i + 1, Len(pages))
      OBVIOUS
    <3>2. /\ t \in Seq(BrowserPages) /\ Len(t) = Len(pages) - 1
          /\ \A k \in 1..Len(t) : t[k] = IF k < i THEN pages[k] ELSE pages[k + 1]
      BY <2>1, <3>1, WithoutOne
    <3> QED
      BY <1>4, <3>1, <3>2
<1>6. Len(pages) # 1
  BY <1>5
<1>7. PICK now : now = ActiveAfter(i)
  OBVIOUS
<1>8. /\ active' = now /\ closing' = {}
      /\ i = active => /\ restarts' = {[page |-> pages'[now], old |-> cdp, closed |-> i, told |-> now]}
                       /\ messages' = messages
      /\ i # active => /\ messages' = Append(messages, [type |-> "tab_closed", index |-> i, active |-> now])
                       /\ restarts' = restarts
      /\ UNCHANGED <<opening, cdp, streams, commands, app, opened>>
  BY <1>2, <1>3, <1>6, <1>7 DEF PageCloseHandled
<1>9. now \in 1..Len(pages') /\ (i # active => pages'[now] = pages[active])
  <2>1. active \in 1..Len(pages) /\ Len(pages) \in Nat /\ Len(pages') = Len(pages) - 1
    BY <1>5 DEF TabsTyped
  <2>2. now \in 1..Len(pages')
    BY <1>6, <1>7, <2>1 DEF ActiveAfter
  <2>3. ASSUME i < active PROVE pages'[now] = pages[active]
    <3>1. now = active - 1 /\ ~(now < i) /\ now + 1 = active
      BY <1>7, <2>1, <2>3 DEF ActiveAfter
    <3> QED
      BY <1>5, <2>2, <3>1
  <2>4. ASSUME active < i PROVE pages'[now] = pages[active]
    <3>1. now = active
      BY <1>7, <2>1, <2>4 DEF ActiveAfter
    <3> QED
      BY <1>5, <2>2, <2>4, <3>1
  <2> QED
    BY <2>1, <2>2, <2>3, <2>4
<1>10. TabsTyped'
  <2>1. Range(pages') \subseteq opened'
    <3>1. \A k \in 1..Len(pages') : pages'[k] \in Range(pages)
      <4>1. /\ Len(pages') = Len(pages) - 1 /\ Len(pages) \in Nat
            /\ \A k \in 1..Len(pages') : pages'[k] = pages[k] \/ pages'[k] = pages[k + 1]
        BY <1>5, TabFacts
      <4>2. \A k \in 1..Len(pages) : pages[k] \in Range(pages)
        BY TabFacts
      <4> QED
        BY <4>1, <4>2
    <3>2. Range(pages') = {pages'[k] : k \in 1..Len(pages')}
      BY <1>5 DEF Range
    <3> QED
      BY <1>8, <3>1, <3>2 DEF TabsTyped
  <2>2. ASSUME NEW j \in 1..Len(pages'), NEW k \in 1..Len(pages'), pages'[j] = pages'[k] PROVE j = k
    <3>1. Len(pages') = Len(pages) - 1 /\ Len(pages) \in Nat
      BY <1>5, TabFacts
    <3>2. PICK m \in 1..Len(pages) : pages'[j] = pages[m] /\ m = IF j < i THEN j ELSE j + 1
      BY <1>5, <3>1
    <3>3. PICK n \in 1..Len(pages) : pages'[k] = pages[n] /\ n = IF k < i THEN k ELSE k + 1
      BY <1>5, <3>1
    <3>4. m = n
      BY <2>2, <3>2, <3>3, Distinct
    <3> QED
      BY <3>1, <3>2, <3>3, <3>4
  <2>3. messages' \in Seq(TabMessage)
    <3>1. i = active => messages' \in Seq(TabMessage)
      BY <1>8 DEF TabsTyped
    <3>2. [type |-> "tab_closed", index |-> i, active |-> now] \in TabMessage
      BY <1>9, <1>5, TabFacts DEF TabMessage
    <3> QED
      <4>1. ASSUME i # active PROVE messages' \in Seq(TabMessage)
        <5>1. PICK m \in TabMessage : m = [type |-> "tab_closed", index |-> i, active |-> now]
          BY <3>2
        <5>2. messages' = <<m>>
          BY <1>2, <1>8, <4>1, <5>1
        <5> QED
          BY <5>2
      <4> QED
        BY <3>1, <4>1
  <2> QED
    BY <1>5, <1>8, <1>9, <2>1, <2>2, <2>3 DEF TabsTyped
<1>11. pages' = TabsWithout(i)' /\ i \in 1..Len(app'.tabs)
  BY <1>2, <1>4, <1>8 DEF TabsWithout
<1>12. CASE i = active
  <2>1. PictureMoves'
    BY <1>2, <1>3, <1>8, <1>11, <1>12 DEF PictureMoves
  <2> QED
    BY <1>1, <1>8, <1>10, <2>1 DEF OnlyCloses
<1>13. CASE i # active
  <2>1. streams = {cdp}
    BY <1>2, <1>3, <1>13 DEF TabsTyped
  <2>2. messages' = <<[type |-> "tab_closed", index |-> i, active |-> now]>>
    BY <1>2, <1>8, <1>13
  <2>3. ToldClosed'
    BY <1>2, <1>8, <1>9, <1>11, <1>13, <2>1, <2>2 DEF ToldClosed
  <2> QED
    BY <1>1, <1>8, <1>10, <2>3 DEF OnlyCloses
<1> QED
  BY <1>12, <1>13

LEMMA RestartedKeeps ==
  ASSUME TabsTyped, Quiet \/ OnlyCloses, up, NEW r \in restarts, Restarted(r)
  PROVE  TabsTyped' /\ (Quiet' \/ OnlyCloses')
<1>1. CASE Quiet
  <2>1. r = [page |-> pages[active], old |-> cdp, closed |-> 0, told |-> active] /\ restarts = {r} /\ closing = {}
    BY <1>1 DEF Quiet, OneStream
  <2>2. /\ restarts' = {} /\ cdp' = pages[active] /\ streams' = (streams \ {cdp}) \union {pages[active]}
        /\ UNCHANGED <<messages, pages, active, opening, closing, commands, app, opened>>
    BY <2>1, TabFacts DEF Restarted
  <2>3. TabsTyped'
    BY <2>2 DEF TabsTyped
  <2>4. OneStream'
    BY <1>1, <2>2 DEF Quiet, OneStream
  <2>5. PagesAnnounced' /\ SwitchesAsked'
    BY <1>1, <2>2 DEF Quiet, PagesAnnounced, Untold, SwitchesAsked, Switches
  <2> QED
    BY <2>1, <2>2, <2>3, <2>4, <2>5 DEF Quiet
<1>2. CASE OnlyCloses
  <2>1. PictureMoves /\ opening = {}
    BY <1>2 DEF OnlyCloses, AskedToClose, PageClosed, ToldClosed
  <2>2. PICK i \in 1..Len(app.tabs) :
          /\ pages = TabsWithout(i) /\ r = [page |-> pages[active], old |-> cdp, closed |-> i, told |-> active]
          /\ restarts = {r}
    BY <2>1 DEF PictureMoves
  <2>3. PICK m \in TabMessage : m = [type |-> "tab_closed", index |-> i, active |-> active]
    <3>1. i \in Nat /\ active \in Nat
      BY TabFacts
    <3> QED
      BY <3>1 DEF TabMessage
  <2>4. closing = {} /\ streams = {} /\ messages = <<>> /\ commands = <<>> /\ i # 0
    BY <2>1, <2>2, TabFacts DEF PictureMoves
  <2>5. /\ restarts' = {} /\ cdp' = pages[active] /\ streams' = {pages[active]}
        /\ messages' = Append(messages, m)
        /\ UNCHANGED <<pages, active, opening, closing, commands, app, opened>>
    BY <2>2, <2>3, <2>4, TabFacts DEF Restarted
  <2>6. TabsTyped'
    BY <2>5 DEF TabsTyped
  <2>7. messages' = <<m>>
    BY <2>4, <2>5
  <2>8. ToldClosed'
    BY <2>2, <2>3, <2>4, <2>5, <2>7 DEF ToldClosed, TabsWithout
  <2> QED
    BY <2>1, <2>5, <2>6, <2>8 DEF OnlyCloses
<1> QED
  BY <1>1, <1>2

LEMMA SwitchTabKeeps ==
  ASSUME TabsTyped, Quiet \/ OnlyCloses, SwitchTab
  PROVE  TabsTyped' /\ Quiet'
<1>1. /\ commands # <<>> /\ commands[1].action = "switch_tab" /\ ~LoopBusy /\ commands' = Tail(commands)
      /\ UNCHANGED <<pages, opening, closing, cdp, streams, messages, app, opened>>
  BY DEF SwitchTab, CommandIs, TakeCommand
<1>2. Quiet
  BY <1>1 DEF OnlyCloses, AskedToClose, PageClosed, PictureMoves, ToldClosed
<1>3. restarts = {} /\ cdp = pages[active] /\ streams = {cdp}
  <2>1. restarts = {} \/ restarts = {[page |-> pages[active], old |-> cdp, closed |-> 0, told |-> active]}
    BY <1>2 DEF Quiet, OneStream
  <2>2. restarts # {[page |-> pages[active], old |-> cdp, closed |-> 0, told |-> active]}
    <3> SUFFICES ASSUME restarts = {[page |-> pages[active], old |-> cdp, closed |-> 0, told |-> active]} PROVE LoopBusy
      BY <1>1
    <3> QED
      BY DEF LoopBusy
  <2> QED
    BY <1>2, <2>1, <2>2 DEF Quiet, OneStream
<1>4. PICK i : i = commands[1].index
  OBVIOUS
<1>5. i \in 1..Len(pages)
  <2>1. 1 \in Switches
    BY <1>1 DEF Switches, TabsTyped
  <2>2. i \in 1..Len(app.tabs)
    BY <1>2, <1>4, <2>1 DEF Quiet, SwitchesAsked
  <2> QED
    BY <1>2, <2>2, Announced DEF Quiet
<1>6. /\ active' = i
      /\ i = active => restarts' = restarts
      /\ i # active => restarts' = restarts \union {[page |-> pages[i], old |-> cdp, closed |-> 0, told |-> i]}
  BY <1>4, <1>5 DEF SwitchTab
<1>7. SwitchesAsked' /\ commands' \in Seq(TabCommand)
  BY <1>1, <1>2, <1>4, <1>6, SwitchesTaken DEF Quiet
<1>8. TabsTyped'
  BY <1>1, <1>5, <1>6, <1>7 DEF TabsTyped
<1>9. PagesAnnounced'
  BY <1>1, <1>2 DEF Quiet, PagesAnnounced, Untold
<1>10. OneStream'
  <2>1. CASE i = active
    BY <1>1, <1>3, <1>6, <2>1 DEF OneStream
  <2>2. CASE i # active
    BY <1>1, <1>3, <1>6, <2>2 DEF OneStream
  <2> QED
    BY <2>1, <2>2
<1> QED
  BY <1>1, <1>2, <1>7, <1>8, <1>9, <1>10 DEF Quiet

LEMMA CloseTabKeeps ==
  ASSUME TabsTyped, Quiet \/ OnlyCloses, CloseTab
  PROVE  TabsTyped' /\ OnlyCloses'
<1>1. /\ commands # <<>> /\ commands[1].action = "close_tab" /\ commands' = Tail(commands)
      /\ UNCHANGED <<pages, active, opening, restarts, cdp, messages, app, opened>>
  BY DEF CloseTab, CommandIs, TakeCommand
<1>2. ~Quiet
  BY <1>1 DEF Quiet, SwitchesAsked, TabsTyped
<1>3. AskedToClose /\ opening = {}
  BY <1>1, <1>2 DEF OnlyCloses, PageClosed, PictureMoves, ToldClosed
<1>4. PICK p : p = pages[commands[1].index]
  OBVIOUS
<1>5. /\ closing = {} /\ streams = {cdp} /\ commands[1].index \in 1..Len(pages) /\ Len(pages) > 1
      /\ restarts = {} /\ messages = <<>> /\ TabsAgree /\ cdp = pages[active]
  BY <1>3 DEF AskedToClose
<1>6. closing' = {p} /\ streams' = {cdp} \ {p} /\ p \in Range(pages)
  BY <1>4, <1>5, TabFacts DEF CloseTab, PageGone
<1>7. commands' = <<>>
  BY <1>1, <1>3 DEF AskedToClose, TabsTyped
<1>8. TabsTyped'
  BY <1>1, <1>7 DEF TabsTyped
<1>9. PageClosed'
  BY <1>1, <1>5, <1>6, <1>7 DEF PageClosed, TabsAgree
<1> QED
  BY <1>1, <1>3, <1>8, <1>9 DEF OnlyCloses

LEMMA ToggleInspectKeeps ==
  ASSUME TabsTyped, Quiet \/ OnlyCloses, ToggleInspect
  PROVE  TabsTyped' /\ Quiet'
<1>1. /\ commands # <<>> /\ commands[1].action = "toggle-inspect" /\ commands' = Tail(commands)
      /\ UNCHANGED <<pages, active, opening, closing, restarts, cdp, streams, messages, app, opened>>
  BY DEF ToggleInspect, CommandIs, TakeCommand
<1>2. Quiet
  BY <1>1 DEF OnlyCloses, AskedToClose, PageClosed, PictureMoves, ToldClosed
<1>3. SwitchesAsked' /\ commands' \in Seq(TabCommand)
  BY <1>1, <1>2, SwitchesTaken DEF Quiet
<1>4. TabsTyped'
  BY <1>1, <1>3 DEF TabsTyped
<1>5. PagesAnnounced' /\ OneStream'
  BY <1>1, <1>2 DEF Quiet, PagesAnnounced, Untold, OneStream
<1> QED
  BY <1>1, <1>2, <1>3, <1>4, <1>5 DEF Quiet

-----------------------------------------------------------------------------
(* In the app.                                                             *)

LEMMA ClickKeeps ==
  ASSUME Calm, TabsTyped, Quiet \/ OnlyCloses,
         UserTogglesInspect \/ \E i \in 1..Cardinality(BrowserPages) : UserSwitchesTab(i)
  PROVE  TabsTyped' /\ Quiet'
<1>1. Quiet
  BY ClosesAlone DEF UserTogglesInspect, UserSwitchesTab, Click, MayAct
<1>2. /\ UNCHANGED <<pages, active, opening, closing, restarts, cdp, streams, messages, opened>>
  BY DEF UserTogglesInspect, UserSwitchesTab
<1>3. SwitchesAsked' /\ commands' \in Seq(TabCommand) /\ app' \in [tabs: Seq(BrowserPages), active: Nat, inspecting: BOOLEAN]
      /\ app'.tabs = app.tabs
  <2>1. CASE UserTogglesInspect
    <3>1. app' = [app EXCEPT !.inspecting = ~@]
      BY <2>1 DEF UserTogglesInspect
    <3>2. /\ app' \in [tabs: Seq(BrowserPages), active: Nat, inspecting: BOOLEAN]
          /\ app'.tabs = app.tabs /\ app'.active = app.active
      BY <3>1 DEF TabsTyped
    <3>3. PICK c \in TabCommand : c = [action |-> "toggle-inspect", enabled |-> ~app.inspecting]
      <4>1. (~app.inspecting) \in BOOLEAN
        BY Zenon
      <4> QED
        BY <4>1 DEF TabCommand
    <3>4. commands' = Append(commands, c) /\ c.action = "toggle-inspect"
      BY <2>1, <3>3 DEF UserTogglesInspect, SendCommand
    <3> QED
      BY <1>1, <1>2, <3>2, <3>4, SwitchesAdded DEF Quiet
  <2>2. ASSUME NEW i \in 1..Cardinality(BrowserPages), UserSwitchesTab(i) PROVE 
          /\ SwitchesAsked' /\ commands' \in Seq(TabCommand) /\ app' \in [tabs: Seq(BrowserPages), active: Nat, inspecting: BOOLEAN]
          /\ app'.tabs = app.tabs
    <3>1. app' = [app EXCEPT !.active = i] /\ i \in 1..Len(app.tabs)
      BY <2>2 DEF UserSwitchesTab
    <3>2. /\ app' \in [tabs: Seq(BrowserPages), active: Nat, inspecting: BOOLEAN]
          /\ app'.tabs = app.tabs /\ app'.active = i
      <4>1. i \in Nat
        BY <3>1, TabFacts
      <4> QED
        BY <3>1, <4>1 DEF TabsTyped
    <3>3. PICK c \in TabCommand : c = [action |-> "switch_tab", index |-> i]
      <4>1. i \in Nat
        BY <3>1, TabFacts
      <4> QED
        BY <4>1 DEF TabCommand
    <3>4. commands' = Append(commands, c) /\ c.action = "switch_tab" /\ c.index = i
      BY <2>2, <3>3 DEF UserSwitchesTab, SendCommand
    <3> QED
      BY <1>1, <1>2, <3>1, <3>2, <3>4, SwitchesAdded DEF Quiet
  <2> QED
    BY <2>1, <2>2
<1>4. TabsTyped'
  BY <1>2, <1>3 DEF TabsTyped
<1>5. PagesAnnounced' /\ OneStream'
  BY <1>1, <1>2, <1>3 DEF Quiet, PagesAnnounced, Untold, OneStream
<1> QED
  BY <1>1, <1>2, <1>3, <1>4, <1>5 DEF Quiet

LEMMA UserClosesTabKeeps ==
  ASSUME Calm, TabsTyped, Quiet \/ OnlyCloses, NEW i \in 1..Cardinality(BrowserPages), UserClosesTab(i)
  PROVE  TabsTyped' /\ OnlyCloses'
<1>1. TabsAtRest /\ Quiet /\ i \in 2..Len(app.tabs)
  BY ClosesAlone DEF UserClosesTab, MayClose
<1>2. TabsAgree /\ cdp = pages[active] /\ streams = {cdp}
  BY <1>1, AtRestAgrees
<1>3. PICK c \in TabCommand : c = [action |-> "close_tab", index |-> i]
  <2>1. i \in Nat
    BY <1>1, TabFacts
  <2> QED
    BY <2>1 DEF TabCommand
<1>4. /\ commands' = Append(commands, c)
      /\ UNCHANGED <<pages, active, opening, closing, restarts, cdp, streams, messages, app, opened>>
  BY <1>3 DEF UserClosesTab, SendCommand
<1>5. TabsTyped'
  BY <1>4 DEF TabsTyped
<1>6. Len(commands') = 1 /\ commands'[1] = c
  BY <1>1, <1>4 DEF TabsAtRest
<1>7. i \in 1..Len(pages) /\ Len(pages) > 1
  BY <1>1, <1>2, TabFacts DEF TabsAgree
<1>8. AskedToClose'
  BY <1>1, <1>2, <1>3, <1>4, <1>6, <1>7 DEF AskedToClose, TabsAgree, TabsAtRest
<1> QED
  BY <1>1, <1>4, <1>5, <1>8 DEF OnlyCloses, TabsAtRest

LEMMA MessageHandledKeeps ==
  ASSUME TabsTyped, Quiet \/ OnlyCloses, MessageHandled
  PROVE  TabsTyped' /\ Quiet'
<1>1. /\ messages # <<>> /\ messages' = Tail(messages)
      /\ UNCHANGED <<pages, active, opening, closing, restarts, cdp, streams, commands, opened>>
  BY DEF MessageHandled
<1>2. /\ messages' \in Seq(TabMessage) /\ Len(messages) \in Nat \ {0} /\ Len(messages') = Len(messages) - 1
      /\ \A j \in 1..Len(messages') : messages'[j] = messages[j + 1]
  BY <1>1 DEF TabsTyped
<1>3. CASE Quiet
  <2>1. /\ messages[1] = [type |-> "tab_opened", page |-> pages[Len(app.tabs) + 1]]
        /\ Len(app.tabs) + 1 \in 1..Len(pages)
    <3>1. 1 \in 1..Len(messages)
      BY <1>2
    <3> QED
      BY <1>2, <1>3, <3>1, Announced DEF Quiet
  <2>2. PICK p \in BrowserPages : p = pages[Len(app.tabs) + 1]
    BY <2>1 DEF TabsTyped
  <2>3. app' = [app EXCEPT !.tabs = Append(@, p)]
    BY <2>1, <2>2 DEF MessageHandled
  <2>4. /\ app' \in [tabs: Seq(BrowserPages), active: Nat, inspecting: BOOLEAN]
        /\ app'.tabs = Append(app.tabs, p) /\ app'.active = app.active
    <3>1. Append(app.tabs, p) \in Seq(BrowserPages)
      BY TabFacts
    <3> QED
      BY <2>3, <3>1 DEF TabsTyped
  <2>5. /\ Len(app'.tabs) = Len(app.tabs) + 1 /\ app'.tabs[Len(app.tabs) + 1] = p
        /\ \A i \in 1..Len(app.tabs) : app'.tabs[i] = app.tabs[i]
    BY <2>4, TabFacts
  <2>6. TabsTyped'
    BY <1>1, <1>2, <2>4 DEF TabsTyped
  <2>7. PagesAnnounced'
    <3>1. Untold' = Untold
      BY <1>2, <2>5, TabFacts DEF Untold
    <3>2. \A i \in 1..Len(app'.tabs) : app'.tabs[i] = pages[i]
      BY <1>3, <2>2, <2>5, TabFacts DEF Quiet, PagesAnnounced
    <3>3. \A j \in 1..Len(messages') : messages'[j] = [type |-> "tab_opened", page |-> pages[Len(app'.tabs) + j]]
      <4> SUFFICES ASSUME NEW j \in 1..Len(messages')
                   PROVE  messages'[j] = [type |-> "tab_opened", page |-> pages[Len(app'.tabs) + j]]
        OBVIOUS
      <4>1. j + 1 \in 1..Len(messages) /\ messages'[j] = messages[j + 1]
        BY <1>2
      <4>2. Len(app'.tabs) + j = Len(app.tabs) + (j + 1)
        BY <1>2, <2>5, TabFacts
      <4> QED
        BY <1>3, <4>1, <4>2 DEF Quiet, PagesAnnounced
    <3> QED
      BY <1>1, <1>3, <3>1, <3>2, <3>3 DEF Quiet, PagesAnnounced
  <2>8. SwitchesAsked'
    BY <1>1, <1>3, <2>4, <2>5, TabFacts DEF Quiet, SwitchesAsked, Switches
  <2>9. OneStream'
    BY <1>1, <1>3 DEF Quiet, OneStream
  <2> QED
    BY <1>1, <1>3, <2>6, <2>7, <2>8, <2>9 DEF Quiet
<1>4. CASE OnlyCloses
  <2>1. ToldClosed /\ opening = {}
    BY <1>1, <1>4 DEF OnlyCloses, AskedToClose, PageClosed, PictureMoves
  <2>2. PICK i \in 1..Len(app.tabs) :
          pages = TabsWithout(i) /\ messages = <<[type |-> "tab_closed", index |-> i, active |-> active]>>
    BY <2>1 DEF ToldClosed
  <2>3. messages[1].type = "tab_closed" /\ messages[1].index = i /\ messages[1].active = active /\ messages' = <<>>
    BY <1>1, <2>2
  <2>4. app' = [app EXCEPT !.tabs = pages, !.active = active]
    BY <2>2, <2>3 DEF MessageHandled
  <2>5. /\ app' \in [tabs: Seq(BrowserPages), active: Nat, inspecting: BOOLEAN]
        /\ app'.tabs = pages /\ app'.active = active
    BY <2>4, TabFacts DEF TabsTyped
  <2>6. TabsTyped'
    BY <1>1, <1>2, <2>5 DEF TabsTyped
  <2>7. closing = {} /\ restarts = {} /\ commands = <<>> /\ cdp = pages[active] /\ streams = {cdp}
    BY <2>1 DEF ToldClosed
  <2>8. PagesAnnounced'
    <3>1. Untold' = Len(pages) /\ Len(messages') = 0
      BY <2>3, <2>5, TabFacts DEF Untold
    <3> QED
      <4>1. app'.tabs = pages /\ pages' = pages /\ opening' = {}
        BY <1>1, <2>1, <2>5
      <4>2. \A j \in 1..Len(messages') : FALSE
        BY <3>1
      <4> QED
        BY <3>1, <4>1, <4>2 DEF PagesAnnounced
  <2>9. SwitchesAsked' /\ OneStream'
    BY <1>1, <2>5, <2>7 DEF SwitchesAsked, Switches, OneStream
  <2> QED
    BY <1>1, <2>6, <2>7, <2>8, <2>9 DEF Quiet
<1> QED
  BY <1>3, <1>4

-----------------------------------------------------------------------------
LEMMA TabsStep == ASSUME Calm, TabsInv, [TabsNext]_tabVars PROVE TabsInv'
<1> SUFFICES ASSUME up', pages' # <<>> PROVE TabsTyped' /\ (Quiet' \/ OnlyCloses')
  BY DEF TabsInv
<1>1. up /\ pages # <<>>
  BY NoneComesBack
<1>2. TabsTyped /\ (Quiet \/ OnlyCloses)
  BY <1>1 DEF TabsInv
<1>3. ASSUME UNCHANGED <<pages, active, opening, closing, restarts, cdp, streams, commands, messages, app, opened>>
      PROVE  TabsTyped' /\ (Quiet' \/ OnlyCloses')
  <2>1. TabsTyped'
    BY <1>2, <1>3 DEF TabsTyped
  <2>2. Quiet => Quiet'
    BY <1>3 DEF Quiet, PagesAnnounced, Untold, SwitchesAsked, Switches, OneStream
  <2>3. OnlyCloses => OnlyCloses'
    BY <1>3 DEF OnlyCloses, AskedToClose, PageClosed, PictureMoves, ToldClosed, TabsAgree, TabsWithout
  <2> QED
    BY <1>2, <2>1, <2>2, <2>3
<1>4. CASE UNCHANGED tabVars
  BY <1>3, <1>4 DEF tabVars
<1>5. ASSUME NEW p \in BrowserPages, PageOpens(p) \/ PageLoaded(p) \/ UserClosesPage(p) \/ PageCloseHandled(p)
      PROVE  TabsTyped' /\ (Quiet' \/ OnlyCloses')
  BY <1>1, <1>2, <1>5, PageOpensKeeps, PageLoadedKeeps, UserClosesPageKeeps, PageCloseHandledKeeps
<1>6. ASSUME NEW p \in BrowserPages, Navigates(p) PROVE TabsTyped' /\ (Quiet' \/ OnlyCloses')
  BY <1>3, <1>6 DEF Navigates
<1>7. ASSUME NEW r \in restarts, Restarted(r) PROVE TabsTyped' /\ (Quiet' \/ OnlyCloses')
  BY <1>1, <1>2, <1>7, RestartedKeeps
<1>8. CASE SwitchTab \/ CloseTab \/ ToggleInspect \/ MessageHandled
  BY <1>2, <1>8, SwitchTabKeeps, CloseTabKeeps, ToggleInspectKeeps, MessageHandledKeeps
<1>9. CASE NoPageLeft
  BY <1>1, <1>9 DEF NoPageLeft
<1>10. CASE UserTogglesInspect \/ \E i \in 1..Cardinality(BrowserPages) : UserSwitchesTab(i)
  BY <1>2, <1>10, ClickKeeps
<1>11. ASSUME NEW i \in 1..Cardinality(BrowserPages), UserClosesTab(i) PROVE TabsTyped' /\ (Quiet' \/ OnlyCloses')
  BY <1>2, <1>11, UserClosesTabKeeps
<1> QED
  BY <1>4, <1>5, <1>6, <1>7, <1>8, <1>9, <1>10, <1>11 DEF TabsNext

\* The tab strip, the highlighted tab and the picture are those of the browser when
\* everything sent and started has been handled, for any number of pages and
\* clicks: pages come and go one at a time.
THEOREM TabsFollowTheBrowser ==
  ASSUME Calm
  PROVE  TabsSpec => []ShownIsActive
<1>1. TabsInv => ShownIsActive
  <2> SUFFICES ASSUME TabsInv, up, TabsAtRest, pages # <<>>
               PROVE  app.tabs = pages /\ app.active = active /\ streams = {pages[active]}
    BY DEF ShownIsActive
  <2>1. TabsTyped /\ Quiet
    BY ClosesAlone DEF TabsInv
  <2> QED
    BY <2>1, AtRestAgrees DEF TabsAgree
<1>2. TabsInv /\ [TabsNext]_tabVars => TabsInv'
  BY TabsStep
<1> QED
  BY <1>1, <1>2, TabsStart, PTL DEF TabsSpec

-----------------------------------------------------------------------------
(***************************************************************************)
(* That the page is driven by one at a time, and that late results never   *)
(* replace newer ones, for any number of requests and clicks and           *)
(* explorations of any length, while a click waits until the last one      *)
(* shows (Watchful) and nothing else is started during an exploration      *)
(* (Apart).                                                                *)
(*                                                                         *)
(* Each needs the other: an exploration is alone because the buttons know  *)
(* of it, and the buttons know because of messages that are still to come. *)
(* So the invariant says of every kind of button how the messages on their *)
(* way will leave it (Ends), of the overlay who took it off, and of every  *)
(* request that it is later than all that have been answered.              *)
(***************************************************************************)

ToolsTyped ==
  /\ ui \in [exploring: BOOLEAN, verifying: BOOLEAN, recording: BOOLEAN, inspecting: BOOLEAN,
             scan: {"idle", "scanning", "done", "error"}, shows: Nat]
  /\ asks \in 0..MaxAsks /\ toSidecar \in Seq(ToolCommand) /\ toApp \in Seq(ToolMessage)
  /\ loop \in [doing: {"none", "scan", "verify"}, ask: 0..MaxAsks, suspended: BOOLEAN]
  /\ tasks \in [Requests -> [at: {"none", "created", "looking", "acting", "finalizing"},
                             steps: Nat, suspended: BOOLEAN]]
  /\ {exploring, inspectOn, recordingOn, shield} \subseteq BOOLEAN

\* Whether the messages of q that have a type of T end with one of S, or v if there is none.
Among(q, T) == {i \in 1..Len(q) : q[i].type \in T}
Ends(q, T, S, v) ==
  \/ Among(q, T) = {} /\ v
  \/ \E k \in Among(q, T) : q[k].type \in S /\ \A j \in Among(q, T) : j <= k

ScanTypes == {"page_scan_started", "page_scan_result", "page_scan_error", "explore_started", "explore_result", "explore_error"}
ScanStarts == {"page_scan_started", "explore_started"}
ExploreTypes == {"explore_started", "explore_result", "explore_error"}
VerifyTypes == {"verify_started", "verify_result"}
ResultTypes == {"page_scan_result", "explore_result"}

\* What the app sends: one command, or a recording that switches inspect off.
Sent(action) == \E k \in 1..Len(toSidecar) : toSidecar[k].action = action
OneClick ==
  \/ toSidecar = <<>>
  \/ Len(toSidecar) = 1
  \/ Len(toSidecar) = 2 /\ toSidecar[1].action = "start-recording" /\ toSidecar[2] = InspectCommand(FALSE)

Begun(n) == tasks[n].at \in {"looking", "acting", "finalizing"}

\* An exploration is alone with the page.
ExploresAlone ==
  /\ \A m, n \in Requests : Under(m) /\ Under(n) => m = n
  /\ exploring <=> \E n \in Requests : Begun(n)
  /\ Exploration =>
       /\ loop = Idling /\ ~recordingOn /\ ~ui.recording
       /\ ~Sent("scan-page") /\ ~Sent("verify") /\ ~Sent("start-recording")
       /\ \A k \in 1..Len(toSidecar) : toSidecar[k].action = "toggle-inspect" => ~toSidecar[k].enabled
  /\ Sent("explore") => ~recordingOn /\ ~ui.recording

\* Who takes the overlay off puts it back.
ShieldIsKept ==
  /\ loop.doing = "none" => loop = Idling
  /\ loop.doing = "verify" => ~shield /\ loop.suspended = inspectOn
  /\ \A n \in Requests : Begun(n) => ~shield /\ (inspectOn => tasks[n].suspended)
  /\ loop.doing # "verify" /\ ~exploring => shield = inspectOn

\* The buttons are told what is under way; that a scan has started is told before
\* anything else of scans.
StartsFirst ==
  \A i \in 1..Len(toApp) : toApp[i].type = "page_scan_started" =>
    ui.scan = "scanning" /\ \A j \in 1..(i - 1) : toApp[j].type \notin ScanTypes
ButtonsFollow ==
  /\ Ends(toApp, ScanTypes, ScanStarts, ui.scan = "scanning") <=> (loop.doing = "scan" \/ Exploration \/ Sent("scan-page"))
  /\ Ends(toApp, ExploreTypes, {"explore_started"}, ui.exploring) => Exploration
  /\ Ends(toApp, VerifyTypes, {"verify_started"}, ui.verifying) => loop.doing = "verify"
  /\ ui.scan = "scanning" => ui.shows = 0
  /\ Sent("scan-page") => Among(toApp, ScanTypes) = {} /\ loop.doing # "scan"
  /\ StartsFirst

\* The switches of the app and of the session agree, but for what was sent.
SwitchesTold ==
  \A i \in 1..Len(toApp) : /\ toApp[i].type = "recording_started" => ui.recording /\ ~ui.inspecting
                           /\ toApp[i].type = "recording_stopped" => ~ui.recording
SwitchesFollow ==
  /\ ui.recording = IF Sent("start-recording") THEN TRUE ELSE IF Sent("stop-recording") THEN FALSE ELSE recordingOn
  /\ Sent("start-recording") => ~ui.inspecting
  /\ SwitchesTold
  /\ \A k \in 1..Len(toSidecar) : toSidecar[k].action = "toggle-inspect" => ui.inspecting = toSidecar[k].enabled
  /\ ~Sent("toggle-inspect") => ui.inspecting = inspectOn

\* Requests are answered in their order: n is later than all that was answered.
Later(n) == /\ ui.shows < n /\ n <= asks
            /\ \A i \in 1..Len(toApp) : toApp[i].type \in ResultTypes => toApp[i].ask < n
ResultsOrdered ==
  /\ ui.shows <= asks
  /\ \A i \in 1..Len(toApp) : toApp[i].type \in ResultTypes =>
       /\ ui.shows < toApp[i].ask /\ toApp[i].ask <= asks
       /\ \A j \in 1..(i - 1) : toApp[j].type \in ResultTypes => toApp[j].ask < toApp[i].ask
InOrderAnswered ==
  /\ ResultsOrdered
  /\ \A n \in Requests : Under(n) => Later(n)
  /\ loop.doing = "scan" => Later(loop.ask)
  /\ \A k \in 1..Len(toSidecar) : toSidecar[k].action \in {"scan-page", "explore"} =>
       /\ Later(toSidecar[k].ask)
       /\ \A n \in Requests : Under(n) => n < toSidecar[k].ask
       /\ loop.doing = "scan" => loop.ask < toSidecar[k].ask

ToolsInv == ToolsTyped /\ OneClick /\ ExploresAlone /\ ShieldIsKept /\ ButtonsFollow /\ SwitchesFollow /\ InOrderAnswered

-----------------------------------------------------------------------------
(* Messages and commands.                                                  *)

\* What a message does to how a sequence of them ends.
LEMMA EndsTold ==
  ASSUME NEW M, NEW q \in Seq(M), NEW m \in M, NEW T, NEW S, NEW v \in BOOLEAN
  PROVE  /\ m.type \notin T => (Ends(Append(q, m), T, S, v) <=> Ends(q, T, S, v))
         /\ m.type \in T => (Ends(Append(q, m), T, S, v) <=> m.type \in S)
<1>1. PICK p : p = Append(q, m)
  OBVIOUS
<1>2. /\ Len(q) \in Nat /\ Len(p) = Len(q) + 1 /\ p[Len(q) + 1] = m
      /\ \A i \in 1..Len(q) : p[i] = q[i]
  BY <1>1
<1>3. Among(p, T) = IF m.type \in T THEN Among(q, T) \union {Len(q) + 1} ELSE Among(q, T)
  BY <1>2 DEF Among
<1>4. Among(q, T) \subseteq 1..Len(q)
  BY DEF Among
<1>5. CASE m.type \notin T
  BY <1>1, <1>2, <1>3, <1>4, <1>5 DEF Ends
<1>6. CASE m.type \in T
  <2>1. Len(q) + 1 \in Among(p, T) /\ \A j \in Among(p, T) : j <= Len(q) + 1
    BY <1>2, <1>3, <1>4, <1>6
  <2>2. \A k \in Among(p, T) : (\A j \in Among(p, T) : j <= k) => k = Len(q) + 1
    BY <1>2, <1>3, <1>4, <1>6
  <2>3. Ends(p, T, S, v) <=> m.type \in S
    BY <1>2, <2>1, <2>2 DEF Ends
  <2> QED
    BY <1>1, <1>6, <2>3
<1> QED
  BY <1>5, <1>6

LEMMA TailIs ==
  ASSUME NEW M, NEW q \in Seq(M), q # <<>>
  PROVE  /\ Len(q) \in Nat \ {0} /\ q[1] \in M /\ Tail(q) \in Seq(M) /\ Len(Tail(q)) = Len(q) - 1
         /\ \A i \in 1..Len(Tail(q)) : Tail(q)[i] = q[i + 1]
OBVIOUS

LEMMA OneLong == ASSUME NEW M, NEW q \in Seq(M), Len(q) = 1 PROVE q = <<q[1]>>
OBVIOUS

LEMMA TwoLong ==
  ASSUME NEW M, NEW c \in M, NEW d \in M
  PROVE  <<c>> \o <<d>> = <<c, d>> /\ <<c, d>> \in Seq(M)
<1>1. /\ Len(<<c>>) = 1 /\ Len(<<d>>) = 1 /\ <<c>>[1] = c /\ <<d>>[1] = d
      /\ <<c>> \in Seq(M) /\ <<d>> \in Seq(M) /\ <<c, d>> \in Seq(M)
  OBVIOUS
<1>2. PICK s : s = <<c>> \o <<d>>
  OBVIOUS
<1>3. s \in Seq(M) /\ Len(s) = 2 /\ s[1] = c /\ s[2] = d
  BY <1>1, <1>2
<1>4. \A t \in Seq(M) : Len(t) = 2 => t = <<t[1], t[2]>>
  OBVIOUS
<1> QED
  BY <1>1, <1>2, <1>3, <1>4

LEMMA EndsReceived ==
  ASSUME NEW M, NEW q \in Seq(M), q # <<>>, NEW T, NEW S, NEW v \in BOOLEAN, NEW w \in BOOLEAN
  PROVE  /\ q[1].type \notin T /\ w = v => (Ends(Tail(q), T, S, w) <=> Ends(q, T, S, v))
         /\ q[1].type \in T /\ (w <=> q[1].type \in S) => (Ends(Tail(q), T, S, w) <=> Ends(q, T, S, v))
<1>1. PICK p : p = Tail(q)
  OBVIOUS
<1>2. Len(q) \in Nat \ {0} /\ Len(p) = Len(q) - 1 /\ \A i \in 1..Len(p) : p[i] = q[i + 1]
  BY <1>1, TailIs
<1>3. \A i \in Among(p, T) : i \in Nat /\ i + 1 \in Among(q, T) /\ p[i] = q[i + 1]
  BY <1>2 DEF Among
<1>4. \A i \in Among(q, T) : i \in Nat /\ (i = 1 \/ (i - 1 \in Among(p, T) /\ i - 1 \in Nat))
  BY <1>2 DEF Among
<1>5. 1 \in Among(q, T) <=> q[1].type \in T
  BY <1>2 DEF Among
<1>6. CASE Among(p, T) = {}
  <2>1. \A i \in Among(q, T) : i = 1
    BY <1>4, <1>6
  <2>2. q[1].type \notin T => Among(q, T) = {}
    BY <1>5, <2>1
  <2>3. q[1].type \in T => Among(q, T) = {1}
    BY <1>5, <2>1
  <2>4. Ends(p, T, S, w) <=> w
    BY <1>6 DEF Ends
  <2>5. q[1].type \notin T => (Ends(q, T, S, v) <=> v)
    BY <2>2 DEF Ends
  <2>6. q[1].type \in T => (Ends(q, T, S, v) <=> q[1].type \in S)
    BY <2>3 DEF Ends
  <2> QED
    BY <1>1, <2>4, <2>5, <2>6
<1>7. CASE Among(p, T) # {}
  <2>1. PICK i \in Among(p, T) : TRUE
    BY <1>7
  <2>2. ASSUME Ends(p, T, S, w) PROVE Ends(q, T, S, v)
    <3>1. PICK k \in Among(p, T) : p[k].type \in S /\ \A j \in Among(p, T) : j <= k
      BY <1>7, <2>2 DEF Ends
    <3>2. k + 1 \in Among(q, T) /\ q[k + 1].type \in S /\ k \in Nat
      BY <1>3, <3>1
    <3>3. ASSUME NEW j \in Among(q, T) PROVE j <= k + 1
      BY <1>4, <3>1, <3>2
    <3> QED
      BY <3>2, <3>3 DEF Ends
  <2>3. ASSUME Ends(q, T, S, v) PROVE Ends(p, T, S, w)
    <3>1. i + 1 \in Among(q, T) /\ i \in Nat /\ i # 0
      BY <1>3, <2>1 DEF Among
    <3>2. PICK k \in Among(q, T) : q[k].type \in S /\ \A j \in Among(q, T) : j <= k
      BY <2>3, <3>1 DEF Ends
    <3>3. k # 1 /\ k - 1 \in Among(p, T) /\ k - 1 \in Nat /\ k \in Nat
      BY <1>4, <3>1, <3>2
    <3>4. p[k - 1].type \in S
      BY <1>3, <3>2, <3>3
    <3>5. ASSUME NEW j \in Among(p, T) PROVE j <= k - 1
      BY <1>3, <3>2, <3>3
    <3> QED
      BY <3>3, <3>4, <3>5 DEF Ends
  <2> QED
    BY <1>1, <2>2, <2>3
<1> QED
  BY <1>6, <1>7

LEMMA EndsEmpty ==
  ASSUME NEW T, NEW S, NEW v
  PROVE  Ends(<<>>, T, S, v) <=> v
<1>1. Among(<<>>, T) = {}
  BY DEF Among
<1> QED
  BY <1>1 DEF Ends

\* A message told.
LEMMA ToldFacts ==
  ASSUME ToolsTyped, NEW m \in ToolMessage, toApp' = Append(toApp, m)
  PROVE  /\ toApp' \in Seq(ToolMessage) /\ Len(toApp) \in Nat /\ Len(toApp') = Len(toApp) + 1
         /\ toApp'[Len(toApp) + 1] = m /\ \A i \in 1..Len(toApp) : toApp'[i] = toApp[i]
         /\ \A T : m.type \notin T => Among(toApp', T) = Among(toApp, T)
         /\ \A T, S : \A v \in BOOLEAN :
              /\ m.type \notin T => (Ends(toApp', T, S, v) <=> Ends(toApp, T, S, v))
              /\ m.type \in T => (Ends(toApp', T, S, v) <=> m.type \in S)
<1>1. toApp \in Seq(ToolMessage)
  BY DEF ToolsTyped
<1>2. /\ toApp' \in Seq(ToolMessage) /\ Len(toApp) \in Nat /\ Len(toApp') = Len(toApp) + 1
      /\ toApp'[Len(toApp) + 1] = m /\ \A i \in 1..Len(toApp) : toApp'[i] = toApp[i]
  BY <1>1
<1>3. ASSUME NEW T, m.type \notin T PROVE Among(toApp', T) = Among(toApp, T)
  BY <1>2, <1>3 DEF Among
<1>4. ASSUME NEW T, NEW S, NEW v \in BOOLEAN
      PROVE  /\ m.type \notin T => (Ends(toApp', T, S, v) <=> Ends(toApp, T, S, v))
             /\ m.type \in T => (Ends(toApp', T, S, v) <=> m.type \in S)
  BY <1>1, EndsTold
<1> QED
  BY <1>2, <1>3, <1>4

\* Its fields, and those of a command.
LEMMA Fields ==
  /\ \A m \in ToolMessage : m.type \in ResultTypes => m.ask \in Requests
  /\ \A c \in ToolCommand : /\ c.action \in {"scan-page", "verify", "explore"} => c.ask \in Requests
                            /\ c.action = "toggle-inspect" => c.enabled \in BOOLEAN
  /\ \A n \in Requests : n \in Nat /\ n # 0 /\ n \in 0..MaxAsks
BY PageToolsAssumption DEF ToolMessage, ToolCommand, ResultTypes, Requests

LEMMA SayIs ==
  ASSUME NEW t \in {"page_scan_started", "page_scan_error", "explore_started", "explore_step", "explore_error",
                    "verify_started", "verify_result", "recording_started", "recording_stopped"}
  PROVE  Say(t) \in ToolMessage /\ Say(t).type = t
BY DEF ToolMessage, Say

LEMMA UiFields ==
  ASSUME ToolsTyped
  PROVE  /\ {ui.exploring, ui.verifying, ui.recording, ui.inspecting} \subseteq BOOLEAN /\ ui.shows \in Nat
         /\ ui.scan \in {"idle", "scanning", "done", "error"} /\ asks \in Nat /\ (ui.scan = "scanning") \in BOOLEAN
BY PageToolsAssumption DEF ToolsTyped

\* A command taken.
LEMMA TakenFacts ==
  ASSUME ToolsTyped, OneClick, NEW action, Takes(action)
  PROVE  /\ loop = Idling /\ toSidecar[1] \in ToolCommand /\ toSidecar[1].action = action /\ Sent(action)
         /\ 1 \in 1..Len(toSidecar) /\ toSidecar' \in Seq(ToolCommand)
         /\ action # "start-recording" => toSidecar' = <<>> /\ \A a : Sent(a) => a = action
         /\ action = "start-recording" =>
              /\ toSidecar' = <<>> \/ (toSidecar' = <<InspectCommand(FALSE)>> /\ toSidecar[2] = InspectCommand(FALSE)
                                       /\ 2 \in 1..Len(toSidecar))
              /\ \A a : Sent(a) => a \in {"start-recording", "toggle-inspect"}
              /\ toSidecar' = <<>> => ~Sent("toggle-inspect")
<1>1. toSidecar # <<>> /\ toSidecar' = Tail(toSidecar) /\ toSidecar[1].action = action /\ loop = Idling
  BY DEF Takes
<1>2. /\ Len(toSidecar) \in Nat \ {0} /\ toSidecar[1] \in ToolCommand /\ toSidecar' \in Seq(ToolCommand)
      /\ Len(toSidecar') = Len(toSidecar) - 1 /\ \A i \in 1..Len(toSidecar') : toSidecar'[i] = toSidecar[i + 1]
  BY <1>1, TailIs DEF ToolsTyped
<1>3. 1 \in 1..Len(toSidecar) /\ Sent(action)
  BY <1>1, <1>2 DEF Sent
<1>4. CASE Len(toSidecar) = 1
  <2>1. toSidecar' = <<>> /\ \A k \in 1..Len(toSidecar) : k = 1
    BY <1>2, <1>4
  <2>2. \A a : Sent(a) => a = action
    BY <1>1, <2>1 DEF Sent
  <2> QED
    BY <1>1, <1>2, <1>3, <2>1, <2>2
<1>5. CASE Len(toSidecar) # 1
  <2>1. Len(toSidecar) = 2 /\ toSidecar[1].action = "start-recording" /\ toSidecar[2] = InspectCommand(FALSE)
    BY <1>1, <1>5 DEF OneClick
  <2>2. toSidecar' = <<InspectCommand(FALSE)>>
    <3>1. Len(toSidecar') = 1 /\ toSidecar'[1] = InspectCommand(FALSE)
      <4>1. Len(toSidecar') = 1
        BY <1>2, <2>1
      <4>2. 1 \in 1..Len(toSidecar') /\ 1 + 1 = 2
        BY <4>1
      <4>3. toSidecar'[1] = toSidecar[1 + 1]
        BY <1>2, <4>2
      <4> QED
        BY <2>1, <4>1, <4>2, <4>3
    <3> QED
      BY <1>2, <3>1, OneLong
  <2>3. \A k \in 1..Len(toSidecar) : k = 1 \/ k = 2
    BY <2>1
  <2>4. \A a : Sent(a) => a \in {"start-recording", "toggle-inspect"}
    BY <1>1, <2>1, <2>3 DEF Sent, InspectCommand
  <2>5. toSidecar' # <<>> /\ action = "start-recording" /\ 2 \in 1..Len(toSidecar)
    BY <1>1, <2>1, <2>2
  <2> QED
    BY <1>1, <1>2, <1>3, <2>1, <2>2, <2>4, <2>5
<1> QED
  BY <1>4, <1>5

LEMMA SentNone == ASSUME toSidecar = <<>> PROVE \A a : ~Sent(a)
BY DEF Sent
LEMMA SentNoneNext == ASSUME toSidecar' = <<>> PROVE OneClick' /\ \A a : ~Sent(a)'
BY DEF Sent, OneClick
LEMMA SentOneNext ==
  ASSUME NEW c \in ToolCommand, toSidecar' = <<c>>
  PROVE  /\ OneClick' /\ toSidecar' \in Seq(ToolCommand) /\ \A a : Sent(a)' <=> (c.action = a)
         /\ \A k \in 1..Len(toSidecar') : k = 1 /\ toSidecar'[k] = c
<1>1. Len(toSidecar') = 1 /\ toSidecar'[1] = c /\ \A k \in 1..Len(toSidecar') : k = 1
  OBVIOUS
<1> QED
  BY <1>1 DEF OneClick, Sent

-----------------------------------------------------------------------------
LEMMA ToolsStart == ToolsInit => ToolsInv
<1> SUFFICES ASSUME ToolsInit PROVE ToolsInv
  OBVIOUS
<1> USE PageToolsAssumption
<1>1. /\ ui = [exploring |-> FALSE, verifying |-> FALSE, recording |-> FALSE, inspecting |-> FALSE,
               scan |-> "idle", shows |-> 0]
      /\ asks = 0 /\ toSidecar = <<>> /\ toApp = <<>> /\ loop = Idling /\ tasks = [n \in Requests |-> NoTask]
      /\ exploring = FALSE /\ inspectOn = FALSE /\ recordingOn = FALSE /\ shield = FALSE
  BY DEF ToolsInit
<1>2. ToolsTyped
  <2>1. 0 \in Nat /\ 0 \in 0..MaxAsks
    OBVIOUS
  <2>2. toSidecar \in Seq(ToolCommand) /\ toApp \in Seq(ToolMessage)
    BY <1>1
  <2>3. tasks \in [Requests -> [at: {"none", "created", "looking", "acting", "finalizing"},
                              steps: Nat, suspended: BOOLEAN]]
    BY <1>1 DEF NoTask
  <2>4. loop \in [doing: {"none", "scan", "verify"}, ask: 0..MaxAsks, suspended: BOOLEAN]
    BY <1>1, <2>1 DEF Idling
  <2> QED
    BY <1>1, <2>1, <2>2, <2>3, <2>4 DEF ToolsTyped
<1>3. \A n \in Requests : ~Under(n) /\ ~Begun(n)
  BY <1>1 DEF Under, Begun, NoTask
<1>4. OneClick /\ \A a : ~Sent(a)
  BY <1>1, SentNone DEF OneClick
<1>5. ExploresAlone
  BY <1>1, <1>3, <1>4 DEF ExploresAlone, Exploration
<1>6. ShieldIsKept
  BY <1>1, <1>3 DEF ShieldIsKept, Idling
<1>7. ButtonsFollow
  <2>1. Among(toApp, ScanTypes) = {} /\ StartsFirst
    BY <1>1 DEF Among, StartsFirst
  <2>2. ~Exploration /\ loop.doing = "none" /\ ui.scan = "idle" /\ ~ui.exploring /\ ~ui.verifying
    BY <1>1, <1>3 DEF Exploration, Idling
  <2> QED
    BY <1>1, <1>4, <2>1, <2>2, EndsEmpty DEF ButtonsFollow
<1>8. SwitchesFollow
  <2>1. SwitchesTold /\ \A k \in 1..Len(toSidecar) : FALSE
    BY <1>1 DEF SwitchesTold
  <2> QED
    BY <1>1, <1>4, <2>1 DEF SwitchesFollow
<1>9. InOrderAnswered
  BY <1>1, <1>3 DEF InOrderAnswered, ResultsOrdered, Idling
<1> QED
  BY <1>2, <1>4, <1>5, <1>6, <1>7, <1>8, <1>9 DEF ToolsInv

-----------------------------------------------------------------------------
(* The app.                                                                *)

\* A click, when all that was sent has been handled.
LEMMA Clicked ==
  ASSUME ToolsInv, toSidecar = <<>>, toApp = <<>>, NEW c \in ToolCommand, toSidecar' = <<c>>, AppOnly,
         ui' \in [exploring: BOOLEAN, verifying: BOOLEAN, recording: BOOLEAN, inspecting: BOOLEAN,
                  scan: {"idle", "scanning", "done", "error"}, shows: Nat],
         asks' \in 0..MaxAsks, asks <= asks', ui'.shows \in {0, ui.shows},
         c.action \in {"scan-page", "explore"} => c.ask = asks + 1 /\ asks' = asks + 1,
         c.action = "scan-page" => ui'.scan = "scanning" /\ loop.doing # "scan",
         c.action # "scan-page" => ui'.scan = ui.scan /\ ui'.shows = ui.shows,
         ui'.exploring => ui.exploring, ui'.verifying => ui.verifying, ui'.scan = "scanning" => ui'.shows = 0,
         ui'.recording = IF c.action = "start-recording" THEN TRUE
                         ELSE IF c.action = "stop-recording" THEN FALSE ELSE recordingOn,
         c.action = "start-recording" => ~ui'.inspecting,
         ui'.inspecting = IF c.action = "toggle-inspect" THEN c.enabled ELSE inspectOn,
         Exploration => /\ c.action \notin {"scan-page", "verify", "start-recording"} /\ ~ui'.recording
                        /\ c.action = "toggle-inspect" => ~c.enabled,
         c.action = "explore" => ~recordingOn /\ ~ui'.recording
  PROVE  ToolsInv'
<1>1. UNCHANGED <<toApp, loop, tasks, exploring, cancelled, inspectOn, recordingOn, shield>>
  BY DEF AppOnly
<1>2. /\ OneClick' /\ toSidecar' \in Seq(ToolCommand) /\ \A a : Sent(a)' <=> (c.action = a)
      /\ \A k \in 1..Len(toSidecar') : k = 1 /\ toSidecar'[k] = c
  BY SentOneNext
<1>3. \A a : ~Sent(a)
  BY SentNone
<1>4. (\A n \in Requests : (Under(n)' <=> Under(n)) /\ (Begun(n)' <=> Begun(n))) /\ (Exploration' <=> Exploration)
  BY <1>1 DEF Under, Begun, Exploration
<1>5. ToolsTyped'
  BY <1>1, <1>2 DEF ToolsInv, ToolsTyped
<1>6. ExploresAlone'
  BY <1>1, <1>2, <1>4 DEF ToolsInv, ExploresAlone, Idling
<1>7. ShieldIsKept'
  BY <1>1, <1>4 DEF ToolsInv, ShieldIsKept, Idling
<1>8. /\ (ui.scan = "scanning") <=> (loop.doing = "scan" \/ Exploration)
      /\ ui.exploring => Exploration
      /\ ui.verifying => loop.doing = "verify"
  BY <1>3, EndsEmpty DEF ToolsInv, ButtonsFollow
<1>9. ButtonsFollow'
  <2>1. toApp' = <<>> /\ Among(toApp', ScanTypes) = {}
    BY <1>1 DEF Among
  <2>2. StartsFirst'
    BY <2>1 DEF StartsFirst
  <2>3. /\ (ui'.scan = "scanning") <=> (loop'.doing = "scan" \/ Exploration' \/ Sent("scan-page")')
        /\ ui'.exploring => Exploration'
        /\ ui'.verifying => loop'.doing = "verify"
    BY <1>1, <1>2, <1>4, <1>8
  <2>4. Sent("scan-page")' => loop'.doing # "scan"
    BY <1>1, <1>2
  <2> QED
    <3>1. \A T : Among(toApp', T) = {}
      BY <2>1 DEF Among
    <3>3. /\ Ends(toApp', ScanTypes, ScanStarts, ui'.scan = "scanning") <=> (ui'.scan = "scanning")
          /\ Ends(toApp', ExploreTypes, {"explore_started"}, ui'.exploring) <=> ui'.exploring
          /\ Ends(toApp', VerifyTypes, {"verify_started"}, ui'.verifying) <=> ui'.verifying
      BY <3>1 DEF Ends
    <3> QED
      BY <2>1, <2>2, <2>3, <2>4, <3>3 DEF ButtonsFollow
<1>10. SwitchesFollow'
  <2>1. SwitchesTold'
    BY <1>1 DEF SwitchesTold
  <2> QED
    BY <1>1, <1>2, <2>1 DEF SwitchesFollow
<1>11. \A n \in Nat : ui'.shows < n /\ n <= asks' => Later(n)'
  BY <1>1 DEF Later
<1>12. \A n \in Nat : Later(n) => Later(n)' /\ n < asks + 1
  <2>1. asks \in Nat /\ asks' \in Nat /\ ui.shows \in Nat /\ ui'.shows \in Nat
    BY <1>5, UiFields, PageToolsAssumption DEF ToolsInv, ToolsTyped
  <2> QED
    BY <1>11, <2>1 DEF Later
<1>13. InOrderAnswered'
  <2>1. asks \in Nat /\ asks' \in Nat /\ ui.shows \in Nat /\ ui'.shows \in Nat /\ ui.shows <= asks
    BY <1>5, UiFields, PageToolsAssumption DEF ToolsInv, ToolsTyped, InOrderAnswered, ResultsOrdered
  <2>2. ResultsOrdered'
    BY <1>1, <2>1 DEF ResultsOrdered
  <2>3. \A n \in Requests : n \in Nat
    BY Fields
  <2>4. loop.doing = "scan" => Later(loop.ask)' /\ loop.ask < asks + 1
    <3>1. loop.ask \in Nat /\ loop'.ask = loop.ask
      BY <1>1, PageToolsAssumption DEF ToolsInv, ToolsTyped
    <3>2. loop.doing = "scan" => Later(loop.ask)
      BY DEF ToolsInv, InOrderAnswered
    <3>3. PICK a \in Nat : a = loop.ask
      BY <3>1
    <3>4. loop.doing = "scan" => Later(a)' /\ a < asks + 1
      BY <1>12, <3>2, <3>3
    <3> QED
      BY <3>1, <3>3, <3>4 DEF Later
  <2>5. \A n \in Requests : Under(n) => Later(n)' /\ n < asks + 1
    BY <1>12, <2>3 DEF ToolsInv, InOrderAnswered
  <2>6. c.action \in {"scan-page", "explore"} => Later(c.ask)'
    <3>1. PICK a \in Nat : a = asks + 1 /\ ui.shows < a /\ 0 < a
      BY <2>1
    <3>2. c.action \in {"scan-page", "explore"} => c.ask = a /\ asks' = a
      BY <3>1
    <3>3. c.action \in {"scan-page", "explore"} => Later(a)'
      BY <1>11, <3>1, <3>2
    <3> QED
      BY <3>2, <3>3
  <2> QED
    BY <1>1, <1>2, <1>4, <2>2, <2>4, <2>5, <2>6 DEF InOrderAnswered
<1> QED
  BY <1>2, <1>5, <1>6, <1>7, <1>9, <1>10, <1>13 DEF ToolsInv

\* What the app knows at a click.
LEMMA AtClick ==
  ASSUME ToolsInv, Watchful, MayClick
  PROVE  /\ toSidecar = <<>> /\ toApp = <<>> /\ ui.recording = recordingOn /\ ui.inspecting = inspectOn
         /\ (ui.scan = "scanning") <=> (loop.doing = "scan" \/ Exploration)
         /\ ui.scan = "scanning" => ui.shows = 0
         /\ Exploration => ~ui.recording
<1>1. toSidecar = <<>> /\ toApp = <<>> /\ \A a : ~Sent(a)
  BY SentNone DEF MayClick
<1> QED
  BY <1>1, EndsEmpty DEF ToolsInv, ButtonsFollow, SwitchesFollow, ExploresAlone

LEMMA AskIs ==
  ASSUME ToolsTyped, asks < MaxAsks, NEW a \in {"scan-page", "verify", "explore"}
  PROVE  /\ Asks(a) \in ToolCommand /\ Asks(a).action = a /\ Asks(a).ask = asks + 1
         /\ asks + 1 \in 0..MaxAsks /\ asks <= asks + 1
<1>1. asks + 1 \in Requests /\ asks + 1 \in 0..MaxAsks /\ asks <= asks + 1
  BY PageToolsAssumption DEF ToolsTyped, Requests
<1> QED
  BY <1>1 DEF Asks, ToolCommand

LEMMA SendsOne == ASSUME NEW c, toSidecar = <<>>, Sends(<<c>>) PROVE toSidecar' = <<c>>
BY DEF Sends

LEMMA ClickScanKeeps == ASSUME Watchful, ToolsInv, ClickScan PROVE ToolsInv'
<1>1. MayClick /\ asks < MaxAsks /\ ui.scan # "scanning" /\ ~ui.recording
  BY DEF ClickScan, ScanOffered
<1>2. ToolsTyped
  BY DEF ToolsInv
<1>3. PICK c \in ToolCommand : /\ c = Asks("scan-page") /\ c.action = "scan-page" /\ c.ask = asks + 1
                               /\ asks + 1 \in 0..MaxAsks /\ asks <= asks + 1
  BY <1>1, <1>2, AskIs
<1>4. /\ toSidecar' = <<c>> /\ AppOnly /\ asks' = asks + 1 /\ ui' = [ui EXCEPT !.scan = "scanning", !.shows = 0]
  BY <1>1, <1>3, AtClick, SendsOne DEF ClickScan
<1>5. /\ ui' \in [exploring: BOOLEAN, verifying: BOOLEAN, recording: BOOLEAN, inspecting: BOOLEAN,
                  scan: {"idle", "scanning", "done", "error"}, shows: Nat]
      /\ ui'.scan = "scanning" /\ ui'.shows = 0 /\ ui'.exploring = ui.exploring /\ ui'.verifying = ui.verifying
      /\ ui'.recording = ui.recording /\ ui'.inspecting = ui.inspecting
  BY <1>2, <1>4 DEF ToolsTyped
<1> QED
  BY <1>1, <1>3, <1>4, <1>5, AtClick, Clicked

LEMMA AskKeeps ==
  ASSUME Watchful, ToolsInv, MayClick, asks < MaxAsks, NEW a \in {"verify", "explore"}, AppOnly, UNCHANGED ui,
         asks' = asks + 1, Sends(<<Asks(a)>>), a = "verify" => ~Exploration, a = "explore" => ~ui.recording
  PROVE  ToolsInv'
<1>2. ToolsTyped
  BY DEF ToolsInv
<1>3. PICK c \in ToolCommand : /\ c = Asks(a) /\ c.action = a /\ c.ask = asks + 1
                               /\ asks + 1 \in 0..MaxAsks /\ asks <= asks + 1
  BY <1>2, AskIs
<1>4. toSidecar' = <<c>>
  BY <1>3, AtClick, SendsOne
<1>5. ui' \in [exploring: BOOLEAN, verifying: BOOLEAN, recording: BOOLEAN, inspecting: BOOLEAN,
               scan: {"idle", "scanning", "done", "error"}, shows: Nat]
  BY <1>2 DEF ToolsTyped
<1> QED
  BY <1>3, <1>4, <1>5, AtClick, Clicked

LEMMA ClickStopKeeps == ASSUME Watchful, ToolsInv, ClickStop PROVE ToolsInv'
<1>1. MayClick /\ ToolsTyped
  BY DEF ClickStop, ToolsInv
<1>2. PICK c \in ToolCommand : c = [action |-> "stop-explore"]
  BY DEF ToolCommand
<1>3. toSidecar' = <<c>> /\ AppOnly /\ asks' = asks /\ ui' = [ui EXCEPT !.exploring = FALSE]
  BY <1>1, <1>2, AtClick, SendsOne DEF ClickStop
<1>4. /\ ui' \in [exploring: BOOLEAN, verifying: BOOLEAN, recording: BOOLEAN, inspecting: BOOLEAN,
                  scan: {"idle", "scanning", "done", "error"}, shows: Nat]
      /\ ui'.scan = ui.scan /\ ui'.shows = ui.shows /\ ui'.exploring = FALSE /\ ui'.verifying = ui.verifying
      /\ ui'.recording = ui.recording /\ ui'.inspecting = ui.inspecting
  BY <1>1, <1>3 DEF ToolsTyped
<1>5. asks' \in 0..MaxAsks /\ asks <= asks'
  BY <1>1, <1>3, UiFields DEF ToolsTyped
<1> QED
  BY <1>1, <1>2, <1>3, <1>4, <1>5, AtClick, Clicked

LEMMA ClickInspectKeeps == ASSUME Watchful, Apart, ToolsInv, ClickInspect PROVE ToolsInv'
<1>1. MayClick /\ ToolsTyped /\ (Exploration => ui.inspecting)
  BY DEF ClickInspect, ToolsInv
<1>2. ui.inspecting \in BOOLEAN /\ (~ui.inspecting) \in BOOLEAN
  <2>1. ui.inspecting \in BOOLEAN
    BY <1>1, UiFields
  <2> QED
    BY <2>1, Zenon
<1>3. PICK c \in ToolCommand : c = InspectCommand(~ui.inspecting)
  BY <1>2 DEF ToolCommand, InspectCommand
<1>4. c.action = "toggle-inspect" /\ c.enabled = ~ui.inspecting
  BY <1>3 DEF InspectCommand
<1>5. toSidecar' = <<c>> /\ AppOnly /\ asks' = asks /\ ui' = [ui EXCEPT !.inspecting = ~ui.inspecting]
  BY <1>1, <1>3, AtClick, SendsOne DEF ClickInspect, ToggleIn
<1>6. /\ ui' \in [exploring: BOOLEAN, verifying: BOOLEAN, recording: BOOLEAN, inspecting: BOOLEAN,
                  scan: {"idle", "scanning", "done", "error"}, shows: Nat]
      /\ ui'.scan = ui.scan /\ ui'.shows = ui.shows /\ ui'.exploring = ui.exploring /\ ui'.verifying = ui.verifying
      /\ ui'.recording = ui.recording /\ ui'.inspecting = ~ui.inspecting
  BY <1>1, <1>2, <1>5 DEF ToolsTyped
<1>7. asks' \in 0..MaxAsks /\ asks <= asks'
  BY <1>1, <1>5, UiFields DEF ToolsTyped
<1> QED
  BY <1>1, <1>4, <1>5, <1>6, <1>7, AtClick, Clicked

LEMMA ClickRecordKeeps == ASSUME Watchful, Apart, ToolsInv, ClickRecord PROVE ToolsInv'
<1>1. MayClick /\ ToolsTyped /\ ~Exploration /\ AppOnly /\ asks' = asks
  BY DEF ClickRecord, MayDrive, ToolsInv
<1>2. asks' \in 0..MaxAsks /\ asks <= asks'
  BY <1>1, UiFields DEF ToolsTyped
<1>3. CASE ui.recording
  <2>1. PICK c \in ToolCommand : c = [action |-> "stop-recording"]
    BY DEF ToolCommand
  <2>2. toSidecar' = <<c>> /\ ui' = [ui EXCEPT !.recording = FALSE]
    BY <1>1, <1>3, <2>1, AtClick, SendsOne DEF ClickRecord
  <2>3. /\ ui' \in [exploring: BOOLEAN, verifying: BOOLEAN, recording: BOOLEAN, inspecting: BOOLEAN,
                    scan: {"idle", "scanning", "done", "error"}, shows: Nat]
        /\ ui'.scan = ui.scan /\ ui'.shows = ui.shows /\ ui'.exploring = ui.exploring /\ ui'.verifying = ui.verifying
        /\ ui'.recording = FALSE /\ ui'.inspecting = ui.inspecting
    BY <1>1, <2>2 DEF ToolsTyped
  <2> QED
    BY <1>1, <1>2, <2>1, <2>2, <2>3, AtClick, Clicked
<1>4. CASE ~ui.recording
  <2>1. PICK c \in ToolCommand : c = [action |-> "start-recording"]
    BY DEF ToolCommand
  <2>2. ui' = [ui EXCEPT !.recording = TRUE, !.inspecting = FALSE]
    BY <1>4 DEF ClickRecord
  <2>3. /\ ui' \in [exploring: BOOLEAN, verifying: BOOLEAN, recording: BOOLEAN, inspecting: BOOLEAN,
                    scan: {"idle", "scanning", "done", "error"}, shows: Nat]
        /\ ui'.scan = ui.scan /\ ui'.shows = ui.shows /\ ui'.exploring = ui.exploring /\ ui'.verifying = ui.verifying
        /\ ui'.recording = TRUE /\ ui'.inspecting = FALSE
    BY <1>1, <2>2 DEF ToolsTyped
  <2>4. CASE ~ui.inspecting
    <3>1. toSidecar' = <<c>>
      <4>1. Sends(<<c>> \o <<>>)
        BY <1>4, <2>1, <2>4 DEF ClickRecord
      <4>2. toSidecar' = <<>> \o (<<c>> \o <<>>)
        BY <1>1, <4>1, AtClick DEF Sends
      <4>3. \A s \in Seq(ToolCommand) : <<>> \o (s \o <<>>) = s
        OBVIOUS
      <4> QED
        BY <4>2, <4>3
    <3>2. inspectOn = FALSE
      BY <1>1, <2>4, AtClick DEF ToolsTyped
    <3> QED
      BY <1>1, <1>2, <2>1, <2>3, <3>1, <3>2, AtClick, Clicked
  <2>5. CASE ui.inspecting
    <3>1. PICK d \in ToolCommand : d = InspectCommand(FALSE)
      BY DEF ToolCommand, InspectCommand
    <3>2. d.action = "toggle-inspect" /\ d.enabled = FALSE /\ c.action = "start-recording"
      BY <2>1, <3>1 DEF InspectCommand
    <3>3. toSidecar' = <<c, d>>
      <4>1. Sends(<<c>> \o <<d>>)
        BY <1>4, <2>1, <2>5, <3>1 DEF ClickRecord
      <4> QED
        <5>1. toSidecar' = <<>> \o (<<c>> \o <<d>>)
          BY <1>1, <4>1, AtClick DEF Sends
        <5>2. <<c>> \o <<d>> = <<c, d>> /\ <<>> \o <<c, d>> = <<c, d>>
          <6>1. \A s \in Seq(ToolCommand) : <<>> \o s = s
            OBVIOUS
          <6>2. <<c>> \o <<d>> = <<c, d>> /\ <<c, d>> \in Seq(ToolCommand)
            BY TwoLong
          <6> QED
            BY <6>1, <6>2
        <5> QED
          BY <5>1, <5>2
    <3>4. /\ toSidecar' \in Seq(ToolCommand) /\ Len(toSidecar') = 2 /\ toSidecar'[1] = c /\ toSidecar'[2] = d
          /\ \A k \in 1..Len(toSidecar') : k = 1 \/ k = 2
      BY <3>3
    <3>5. OneClick' /\ \A a : Sent(a)' <=> a \in {"start-recording", "toggle-inspect"}
      <4>1. OneClick'
        BY <2>1, <3>1, <3>4 DEF OneClick, InspectCommand
      <4>2. \A a : Sent(a)' => a \in {"start-recording", "toggle-inspect"}
        BY <3>2, <3>4 DEF Sent
      <4>3. 1 \in 1..Len(toSidecar') /\ 2 \in 1..Len(toSidecar')
        BY <3>4
      <4>4. Sent("start-recording")' /\ Sent("toggle-inspect")'
        BY <3>2, <3>4, <4>3 DEF Sent
      <4> QED
        BY <4>1, <4>2, <4>4
    <3>6. UNCHANGED <<toApp, loop, tasks, exploring, cancelled, inspectOn, recordingOn, shield>>
      BY <1>1 DEF AppOnly
    <3>7. (\A n \in Requests : (Under(n)' <=> Under(n)) /\ (Begun(n)' <=> Begun(n))) /\ (Exploration' <=> Exploration)
      BY <3>6 DEF Under, Begun, Exploration
    <3>8. toApp = <<>> /\ toApp' = <<>> /\ \A a : ~Sent(a)
      BY <1>1, <3>6, AtClick, SentNone
    <3>9. ToolsTyped'
      BY <1>1, <1>2, <2>3, <3>4, <3>6 DEF ToolsTyped
    <3>10. ExploresAlone'
      BY <1>1, <3>5, <3>6, <3>7 DEF ToolsInv, ExploresAlone
    <3>11. ShieldIsKept'
      BY <3>6, <3>7 DEF ToolsInv, ShieldIsKept, Idling
    <3>12. ButtonsFollow'
      <4>1. StartsFirst'
        BY <3>8 DEF StartsFirst
      <4> QED
        BY <2>3, <3>5, <3>6, <3>7, <3>8, <4>1, EndsEmpty DEF ToolsInv, ButtonsFollow
    <3>13. SwitchesFollow'
      <4>1. SwitchesTold'
        BY <3>8 DEF SwitchesTold
      <4> QED
        BY <2>3, <3>2, <3>4, <3>5, <4>1 DEF SwitchesFollow
    <3>14. InOrderAnswered'
      <4>1. \A n : Later(n)' <=> Later(n)
        BY <1>1, <2>3, <3>6 DEF Later
      <4>2. ResultsOrdered'
        BY <1>1, <2>3, <3>6 DEF ToolsInv, InOrderAnswered, ResultsOrdered
      <4>3. \A k \in 1..Len(toSidecar') : toSidecar'[k].action \notin {"scan-page", "explore"}
        BY <3>2, <3>4
      <4> QED
        BY <3>6, <3>7, <4>1, <4>2, <4>3 DEF ToolsInv, InOrderAnswered
    <3> QED
      BY <3>5, <3>9, <3>10, <3>11, <3>12, <3>13, <3>14 DEF ToolsInv
  <2> QED
    BY <2>4, <2>5
<1> QED
  BY <1>3, <1>4

LEMMA CloseResultsKeeps == ASSUME ToolsInv, CloseResults PROVE ToolsInv'
<1>1. /\ UNCHANGED <<toApp, loop, tasks, exploring, cancelled, inspectOn, recordingOn, shield, asks, toSidecar>>
      /\ ui' = [ui EXCEPT !.scan = "idle", !.shows = 0] /\ (ui.shows # 0 \/ ui.scan = "error") /\ ToolsTyped
  BY DEF CloseResults, AppOnly, ToolsInv
<1>2. /\ ui' \in [exploring: BOOLEAN, verifying: BOOLEAN, recording: BOOLEAN, inspecting: BOOLEAN,
                  scan: {"idle", "scanning", "done", "error"}, shows: Nat]
      /\ ui'.scan = "idle" /\ ui'.shows = 0 /\ ui'.exploring = ui.exploring /\ ui'.verifying = ui.verifying
      /\ ui'.recording = ui.recording /\ ui'.inspecting = ui.inspecting
  BY <1>1 DEF ToolsTyped
<1>3. ui.scan # "scanning" /\ ui'.scan # "scanning"
  BY <1>1, <1>2 DEF ToolsInv, ButtonsFollow
<1>4. /\ \A n \in Requests : (Under(n)' <=> Under(n)) /\ (Begun(n)' <=> Begun(n))
      /\ Exploration' <=> Exploration
      /\ \A a : Sent(a)' <=> Sent(a)
  BY <1>1 DEF Under, Begun, Exploration, Sent
<1>5. ToolsTyped' /\ OneClick'
  BY <1>1, <1>2 DEF ToolsInv, ToolsTyped, OneClick
<1>6. ExploresAlone'
  BY <1>1, <1>2, <1>4 DEF ToolsInv, ExploresAlone, Idling
<1>7. ShieldIsKept'
  BY <1>1, <1>4 DEF ToolsInv, ShieldIsKept, Idling
<1>8. ButtonsFollow'
  <2>1. StartsFirst'
    BY <1>1, <1>3 DEF ToolsInv, ButtonsFollow, StartsFirst
  <2>2. Ends(toApp', ScanTypes, ScanStarts, ui'.scan = "scanning") <=> Ends(toApp, ScanTypes, ScanStarts, ui.scan = "scanning")
    BY <1>1, <1>3 DEF Ends
  <2>3. /\ Ends(toApp', ExploreTypes, {"explore_started"}, ui'.exploring) <=> Ends(toApp, ExploreTypes, {"explore_started"}, ui.exploring)
        /\ Ends(toApp', VerifyTypes, {"verify_started"}, ui'.verifying) <=> Ends(toApp, VerifyTypes, {"verify_started"}, ui.verifying)
    BY <1>1, <1>2
  <2> QED
    BY <1>1, <1>3, <1>4, <2>1, <2>2, <2>3 DEF ToolsInv, ButtonsFollow
<1>9. SwitchesFollow'
  BY <1>1, <1>2, <1>4 DEF ToolsInv, SwitchesFollow, SwitchesTold
<1>10. \A n \in Nat : Later(n) => Later(n)'
  <2>1. \A n \in Nat : ui.shows < n => 0 < n
    BY <1>1, UiFields
  <2> QED
    BY <1>1, <1>2, <2>1 DEF Later
<1>11. InOrderAnswered'
  <2>1. ui.shows \in Nat /\ asks \in Nat
    BY <1>1, UiFields
  <2>2. \A i \in 1..Len(toApp) : toApp[i].type \in ResultTypes => toApp[i].ask \in Nat
    BY <1>1, Fields DEF ToolsTyped
  <2>3. ResultsOrdered'
    BY <1>1, <1>2, <2>1, <2>2 DEF ToolsInv, InOrderAnswered, ResultsOrdered
  <2>4. loop.ask \in Nat /\ \A n \in Requests : n \in Nat
    BY <1>1, Fields, PageToolsAssumption DEF ToolsTyped
  <2>5. \A k \in 1..Len(toSidecar) : toSidecar[k].action \in {"scan-page", "explore"} => toSidecar[k].ask \in Nat
    BY <1>1, Fields DEF ToolsTyped
  <2>6. \A n \in Requests : Under(n) => Later(n)'
    BY <1>10, <2>4 DEF ToolsInv, InOrderAnswered
  <2>7. loop.doing = "scan" => Later(loop.ask)'
    BY <1>1, <1>10, <2>4 DEF ToolsInv, InOrderAnswered, Later
  <2>8. \A k \in 1..Len(toSidecar) : toSidecar[k].action \in {"scan-page", "explore"} => Later(toSidecar[k].ask)'
    BY <1>1, <1>10, <2>5 DEF ToolsInv, InOrderAnswered, Later
  <2> QED
    BY <1>1, <1>4, <2>3, <2>6, <2>7, <2>8 DEF ToolsInv, InOrderAnswered
<1> QED
  BY <1>5, <1>6, <1>7, <1>8, <1>9, <1>11 DEF ToolsInv

\* What a message does to the app.
LEMMA HandledIs ==
  ASSUME ToolsTyped, NEW m \in ToolMessage, ui' = Handled(ui, m)
  PROVE  /\ ui' \in [exploring: BOOLEAN, verifying: BOOLEAN, recording: BOOLEAN, inspecting: BOOLEAN,
                     scan: {"idle", "scanning", "done", "error"}, shows: Nat]
         /\ ui'.exploring = IF m.type \in ExploreTypes THEN m.type = "explore_started" ELSE ui.exploring
         /\ ui'.verifying = IF m.type \in VerifyTypes THEN m.type = "verify_started" ELSE ui.verifying
         /\ m.type \in ScanTypes => ((ui'.scan = "scanning") <=> (m.type \in ScanStarts))
         /\ m.type \notin ScanTypes => ui'.scan = ui.scan /\ ui'.shows = ui.shows
         /\ ui'.shows = IF m.type \in ResultTypes THEN m.ask ELSE IF m.type = "explore_started" THEN 0 ELSE ui.shows
         /\ ui'.recording = IF m.type = "recording_started" THEN TRUE
                            ELSE IF m.type = "recording_stopped" THEN FALSE ELSE ui.recording
         /\ ui'.inspecting = IF m.type = "recording_started" THEN FALSE ELSE ui.inspecting
<1> USE DEF ToolsTyped, Handled, ExploreTypes, VerifyTypes, ScanTypes, ScanStarts, ResultTypes
<1>1. m.type \in ResultTypes => m.ask \in Nat
  BY Fields
<1>2. CASE m.type = "page_scan_started"
  BY <1>2
<1>3. CASE m.type = "page_scan_result"
  BY <1>1, <1>3
<1>4. CASE m.type = "page_scan_error"
  BY <1>4
<1>5. CASE m.type = "explore_started"
  BY <1>5
<1>6. CASE m.type = "explore_result"
  BY <1>1, <1>6
<1>7. CASE m.type = "explore_error"
  BY <1>7
<1>8. CASE m.type = "verify_started"
  BY <1>8
<1>9. CASE m.type = "verify_result"
  BY <1>9
<1>10. CASE m.type = "recording_started"
  BY <1>10
<1>11. CASE m.type = "recording_stopped"
  BY <1>11
<1>12. CASE m.type = "explore_step"
  BY <1>12
<1> QED
  BY <1>2, <1>3, <1>4, <1>5, <1>6, <1>7, <1>8, <1>9, <1>10, <1>11, <1>12 DEF ToolMessage

LEMMA ReceiveKeeps == ASSUME ToolsInv, Receive PROVE ToolsInv'
<1>1. /\ UNCHANGED <<asks, toggles, loop, tasks, exploring, cancelled, inspectOn, recordingOn, shield>>
      /\ toApp # <<>> /\ toApp' = Tail(toApp) /\ ui' = Handled(ui, toApp[1]) /\ ToolsTyped
  BY DEF Receive, ToolsInv
<1>2. /\ toApp \in Seq(ToolMessage) /\ Len(toApp) \in Nat \ {0} /\ toApp[1] \in ToolMessage /\ toApp' \in Seq(ToolMessage)
      /\ Len(toApp') = Len(toApp) - 1 /\ \A i \in 1..Len(toApp') : toApp'[i] = toApp[i + 1]
  BY <1>1, TailIs DEF ToolsTyped
<1>3. PICK m \in ToolMessage : m = toApp[1]
  BY <1>2
<1>4. /\ ui' \in [exploring: BOOLEAN, verifying: BOOLEAN, recording: BOOLEAN, inspecting: BOOLEAN,
                  scan: {"idle", "scanning", "done", "error"}, shows: Nat]
      /\ ui'.exploring = IF m.type \in ExploreTypes THEN m.type = "explore_started" ELSE ui.exploring
      /\ ui'.verifying = IF m.type \in VerifyTypes THEN m.type = "verify_started" ELSE ui.verifying
      /\ m.type \in ScanTypes => ((ui'.scan = "scanning") <=> (m.type \in ScanStarts))
      /\ m.type \notin ScanTypes => ui'.scan = ui.scan /\ ui'.shows = ui.shows
      /\ ui'.shows = IF m.type \in ResultTypes THEN m.ask ELSE IF m.type = "explore_started" THEN 0 ELSE ui.shows
      /\ ui'.recording = IF m.type = "recording_started" THEN TRUE
                         ELSE IF m.type = "recording_stopped" THEN FALSE ELSE ui.recording
      /\ ui'.inspecting = IF m.type = "recording_started" THEN FALSE ELSE ui.inspecting
  BY <1>1, <1>3, HandledIs
<1>5. ui'.recording = ui.recording /\ ui'.inspecting = ui.inspecting /\ (m.type = "recording_started" => ui.recording)
  <2>1. 1 \in 1..Len(toApp) /\ {ui.recording, ui.inspecting} \subseteq BOOLEAN
    BY <1>1, <1>2, UiFields
  <2>2. /\ m.type = "recording_started" => ui.recording /\ ~ui.inspecting
        /\ m.type = "recording_stopped" => ~ui.recording
    BY <1>3, <2>1 DEF ToolsInv, SwitchesFollow, SwitchesTold
  <2> QED
    BY <1>4, <2>1, <2>2
<1>6. UNCHANGED toSidecar
  BY <1>3, <1>5 DEF Receive
<1>7. /\ \A n \in Requests : (Under(n)' <=> Under(n)) /\ (Begun(n)' <=> Begun(n))
      /\ Exploration' <=> Exploration
      /\ \A a : Sent(a)' <=> Sent(a)
  BY <1>1, <1>6 DEF Under, Begun, Exploration, Sent
<1>8. ToolsTyped' /\ OneClick'
  BY <1>1, <1>2, <1>4, <1>6 DEF ToolsInv, ToolsTyped, OneClick
<1>9. ExploresAlone'
  BY <1>1, <1>5, <1>6, <1>7 DEF ToolsInv, ExploresAlone, Idling
<1>10. ShieldIsKept'
  BY <1>1, <1>7 DEF ToolsInv, ShieldIsKept, Idling
<1>11. \A i \in 1..Len(toApp') : i \in Nat /\ i + 1 \in 1..Len(toApp) /\ toApp'[i] = toApp[i + 1]
  BY <1>2
<1>12. ButtonsFollow'
  <2>1. StartsFirst'
    <3> SUFFICES ASSUME NEW i \in 1..Len(toApp'), toApp'[i].type = "page_scan_started"
                 PROVE  ui'.scan = "scanning" /\ \A j \in 1..(i - 1) : toApp'[j].type \notin ScanTypes
      BY DEF StartsFirst
    <3>1. i \in Nat /\ i # 0 /\ i + 1 \in 1..Len(toApp) /\ toApp[i + 1].type = "page_scan_started"
      BY <1>11
    <3>2. ui.scan = "scanning" /\ \A j \in 1..((i + 1) - 1) : toApp[j].type \notin ScanTypes
      BY <3>1 DEF ToolsInv, ButtonsFollow, StartsFirst
    <3>3. m.type \notin ScanTypes
      BY <1>3, <3>1, <3>2
    <3>4. \A j \in 1..(i - 1) : j \in 1..Len(toApp') /\ j + 1 \in 1..((i + 1) - 1)
      BY <3>1
    <3> QED
      BY <1>4, <1>11, <3>2, <3>3, <3>4
  <2>2. /\ {ui.exploring, ui'.exploring, ui.verifying, ui'.verifying} \subseteq BOOLEAN
        /\ (ui.scan = "scanning") \in BOOLEAN /\ (ui'.scan = "scanning") \in BOOLEAN
    BY <1>1, <1>4, UiFields
  <2>3. Ends(toApp', ScanTypes, ScanStarts, ui'.scan = "scanning") <=> Ends(toApp, ScanTypes, ScanStarts, ui.scan = "scanning")
    <3>1. PICK v \in BOOLEAN, w \in BOOLEAN : (v <=> ui.scan = "scanning") /\ (w <=> ui'.scan = "scanning")
      OBVIOUS
    <3>2. m.type \notin ScanTypes => w = v
      BY <1>4, <3>1
    <3>3. m.type \in ScanTypes => (w <=> m.type \in ScanStarts)
      BY <1>4, <3>1
    <3>4. Ends(toApp', ScanTypes, ScanStarts, w) <=> Ends(toApp, ScanTypes, ScanStarts, v)
      BY <1>1, <1>2, <1>3, <3>2, <3>3, EndsReceived
    <3> QED
      BY <3>1, <3>4 DEF Ends
  <2>4. Ends(toApp', ExploreTypes, {"explore_started"}, ui'.exploring) <=> Ends(toApp, ExploreTypes, {"explore_started"}, ui.exploring)
    <3>1. PICK v \in BOOLEAN, w \in BOOLEAN : v = ui.exploring /\ w = ui'.exploring
      BY <2>2
    <3>2. /\ m.type \notin ExploreTypes => w = v
          /\ m.type \in ExploreTypes => (w <=> m.type \in {"explore_started"})
      BY <1>4, <3>1
    <3>3. Ends(toApp', ExploreTypes, {"explore_started"}, w) <=> Ends(toApp, ExploreTypes, {"explore_started"}, v)
      BY <1>1, <1>2, <1>3, <3>2, EndsReceived
    <3> QED
      BY <3>1, <3>3
  <2>5. Ends(toApp', VerifyTypes, {"verify_started"}, ui'.verifying) <=> Ends(toApp, VerifyTypes, {"verify_started"}, ui.verifying)
    <3>1. PICK v \in BOOLEAN, w \in BOOLEAN : v = ui.verifying /\ w = ui'.verifying
      BY <2>2
    <3>2. /\ m.type \notin VerifyTypes => w = v
          /\ m.type \in VerifyTypes => (w <=> m.type \in {"verify_started"})
      BY <1>4, <3>1
    <3>3. Ends(toApp', VerifyTypes, {"verify_started"}, w) <=> Ends(toApp, VerifyTypes, {"verify_started"}, v)
      BY <1>1, <1>2, <1>3, <3>2, EndsReceived
    <3> QED
      BY <3>1, <3>3
  <2>6. ui'.scan = "scanning" => ui'.shows = 0
    <3>1. m.type = "page_scan_started" => ui.scan = "scanning"
      BY <1>2, <1>3 DEF ToolsInv, ButtonsFollow, StartsFirst
    <3>2. m.type \in ScanStarts => m.type \in {"page_scan_started", "explore_started"} /\ m.type \notin ResultTypes
      BY DEF ScanStarts, ResultTypes
    <3>3. ui.scan = "scanning" => ui.shows = 0
      BY DEF ToolsInv, ButtonsFollow
    <3> QED
      BY <1>4, <3>1, <3>2, <3>3
  <2>7. Sent("scan-page") => Among(toApp', ScanTypes) = {}
    BY <1>11 DEF ToolsInv, ButtonsFollow, Among
  <2> QED
    BY <1>1, <1>7, <2>1, <2>3, <2>4, <2>5, <2>6, <2>7 DEF ToolsInv, ButtonsFollow
<1>13. SwitchesFollow'
  <2>1. SwitchesTold'
    BY <1>5, <1>11 DEF ToolsInv, SwitchesFollow, SwitchesTold
  <2> QED
    BY <1>1, <1>5, <1>6, <1>7, <2>1 DEF ToolsInv, SwitchesFollow
<1>14. \A i \in 1..Len(toApp) : toApp[i].type \in ResultTypes => toApp[i].ask \in Nat /\ 0 < toApp[i].ask
  BY <1>1, Fields DEF ToolsTyped
<1>15. /\ ui.shows \in Nat /\ asks \in Nat /\ ui'.shows \in Nat /\ 1 \in 1..Len(toApp)
       /\ m.type \in ResultTypes => ui'.shows = toApp[1].ask /\ m.type = toApp[1].type
       /\ m.type \notin ResultTypes => ui'.shows \in {0, ui.shows}
  BY <1>1, <1>2, <1>3, <1>4, UiFields
<1>16. \A n \in Nat : Later(n) => Later(n)'
  <2> SUFFICES ASSUME NEW n \in Nat, Later(n) PROVE Later(n)'
    OBVIOUS
  <2>1. \A i \in 1..Len(toApp') : toApp'[i].type \in ResultTypes => toApp'[i].ask < n
    BY <1>11 DEF Later
  <2>2. ui'.shows < n
    BY <1>15 DEF Later
  <2> QED
    BY <1>1, <2>1, <2>2 DEF Later
<1>17. InOrderAnswered'
  <2>1. ResultsOrdered
    BY DEF ToolsInv, InOrderAnswered
  <2>2. ResultsOrdered'
    <3>1. ui'.shows <= asks'
      BY <1>1, <1>15, <2>1 DEF ResultsOrdered
    <3> SUFFICES ASSUME NEW i \in 1..Len(toApp'), toApp'[i].type \in ResultTypes
                 PROVE  /\ ui'.shows < toApp'[i].ask /\ toApp'[i].ask <= asks'
                        /\ \A j \in 1..(i - 1) : toApp'[j].type \in ResultTypes => toApp'[j].ask < toApp'[i].ask
      BY <3>1 DEF ResultsOrdered
    <3>2. i \in Nat /\ i # 0 /\ i + 1 \in 1..Len(toApp) /\ toApp'[i] = toApp[i + 1]
      BY <1>11
    <3>3. /\ ui.shows < toApp[i + 1].ask /\ toApp[i + 1].ask <= asks
          /\ \A j \in 1..((i + 1) - 1) : toApp[j].type \in ResultTypes => toApp[j].ask < toApp[i + 1].ask
      BY <2>1, <3>2 DEF ResultsOrdered
    <3>4. 1 \in 1..((i + 1) - 1) /\ toApp[i + 1].ask \in Nat
      BY <1>14, <3>2
    <3>5. ui'.shows < toApp[i + 1].ask
      BY <1>15, <3>3, <3>4
    <3>6. \A j \in 1..(i - 1) : j \in 1..Len(toApp') /\ j + 1 \in 1..((i + 1) - 1)
      BY <3>2
    <3>7. \A j \in 1..(i - 1) : toApp'[j].type \in ResultTypes => toApp'[j].ask < toApp'[i].ask
      BY <1>11, <3>2, <3>3, <3>6
    <3> QED
      BY <1>1, <3>2, <3>3, <3>5, <3>7
  <2>4. loop.ask \in Nat /\ \A n \in Requests : n \in Nat
    BY <1>1, Fields, PageToolsAssumption DEF ToolsTyped
  <2>5. \A k \in 1..Len(toSidecar) : toSidecar[k].action \in {"scan-page", "explore"} => toSidecar[k].ask \in Nat
    BY <1>1, Fields DEF ToolsTyped
  <2>6. \A n \in Requests : Under(n) => Later(n)'
    BY <1>16, <2>4 DEF ToolsInv, InOrderAnswered
  <2>7. loop.doing = "scan" => Later(loop.ask)'
    BY <1>1, <1>16, <2>4 DEF ToolsInv, InOrderAnswered, Later
  <2>8. \A k \in 1..Len(toSidecar) : toSidecar[k].action \in {"scan-page", "explore"} => Later(toSidecar[k].ask)'
    BY <1>6, <1>16, <2>5 DEF ToolsInv, InOrderAnswered, Later
  <2> QED
    BY <1>1, <1>6, <1>7, <2>2, <2>6, <2>7, <2>8 DEF ToolsInv, InOrderAnswered
<1> QED
  BY <1>8, <1>9, <1>10, <1>12, <1>13, <1>17 DEF ToolsInv

-----------------------------------------------------------------------------
(* The command loop and the explorations.                                  *)

\* What is told leaves the order of the results alone, or adds the next.
LEMMA ToldLater ==
  ASSUME ToolsInv, NEW m \in ToolMessage, toApp' = Append(toApp, m), UNCHANGED <<ui, asks>>
  PROVE  /\ m.type \notin ResultTypes => ResultsOrdered' /\ \A n : Later(n) => Later(n)'
         /\ m.type \in ResultTypes /\ Later(m.ask) =>
              ResultsOrdered' /\ \A n \in Nat : Later(n) /\ m.ask < n => Later(n)'
<1>1. ToolsTyped /\ ResultsOrdered
  BY DEF ToolsInv, InOrderAnswered
<1>2. /\ Len(toApp) \in Nat /\ Len(toApp') = Len(toApp) + 1
      /\ toApp'[Len(toApp) + 1] = m /\ \A i \in 1..Len(toApp) : toApp'[i] = toApp[i]
  BY <1>1, ToldFacts
<1>3. \A i \in 1..Len(toApp') : /\ i \in 1..Len(toApp) \/ i = Len(toApp) + 1
                                /\ \A j \in 1..(i - 1) : j \in 1..Len(toApp)
  BY <1>2
<1>4. CASE m.type \notin ResultTypes
  <2>1. ResultsOrdered'
    BY <1>1, <1>2, <1>3, <1>4 DEF ResultsOrdered
  <2>2. \A n : Later(n) => Later(n)'
    BY <1>2, <1>3, <1>4 DEF Later
  <2> QED
    BY <1>4, <2>1, <2>2
<1>5. ASSUME m.type \in ResultTypes, Later(m.ask)
      PROVE  ResultsOrdered' /\ \A n \in Nat : Later(n) /\ m.ask < n => Later(n)'
  <2>1. ui.shows < m.ask /\ m.ask <= asks /\ \A i \in 1..Len(toApp) : toApp[i].type \in ResultTypes => toApp[i].ask < m.ask
    BY <1>5 DEF Later
  <2>2. ResultsOrdered'
    BY <1>1, <1>2, <1>3, <2>1 DEF ResultsOrdered
  <2>3. \A n \in Nat : Later(n) /\ m.ask < n => Later(n)'
    BY <1>2, <1>3, <2>1 DEF Later
  <2> QED
    BY <2>2, <2>3
<1> QED
  BY <1>4, <1>5

\* What is told of anything but a recording leaves the switches alone, and so does
\* to take a command that is not about them.
LEMMA SwitchesKept ==
  ASSUME ToolsInv, UNCHANGED <<ui, inspectOn, recordingOn>>,
         \/ UNCHANGED toApp
         \/ \E m \in ToolMessage : toApp' = Append(toApp, m) /\ m.type \notin {"recording_started", "recording_stopped"},
         \/ UNCHANGED toSidecar
         \/ toSidecar' = <<>> /\ ~Sent("start-recording") /\ ~Sent("stop-recording") /\ ~Sent("toggle-inspect")
  PROVE  SwitchesFollow'
<1>1. ToolsTyped
  BY DEF ToolsInv
<1>2. SwitchesTold'
  <2>1. CASE UNCHANGED toApp
    BY <2>1 DEF ToolsInv, SwitchesFollow, SwitchesTold
  <2>2. CASE ~UNCHANGED toApp
    <3>1. PICK m \in ToolMessage : toApp' = Append(toApp, m) /\ m.type \notin {"recording_started", "recording_stopped"}
      BY <2>2
    <3>2. /\ Len(toApp) \in Nat /\ Len(toApp') = Len(toApp) + 1
          /\ toApp'[Len(toApp) + 1] = m /\ \A i \in 1..Len(toApp) : toApp'[i] = toApp[i]
      BY <1>1, <3>1, ToldFacts
    <3>3. \A i \in 1..Len(toApp') : i \in 1..Len(toApp) \/ i = Len(toApp) + 1
      BY <3>2
    <3> QED
      BY <3>1, <3>2, <3>3 DEF ToolsInv, SwitchesFollow, SwitchesTold
  <2> QED
    BY <2>1, <2>2
<1>3. CASE UNCHANGED toSidecar
  <2>1. \A a : Sent(a)' <=> Sent(a)
    BY <1>3 DEF Sent
  <2> QED
    BY <1>2, <1>3, <2>1 DEF ToolsInv, SwitchesFollow
<1>4. CASE ~UNCHANGED toSidecar
  <2>1. toSidecar' = <<>> /\ ~Sent("start-recording") /\ ~Sent("stop-recording") /\ ~Sent("toggle-inspect")
    BY <1>4
  <2>2. (\A a : ~Sent(a)') /\ \A k \in 1..Len(toSidecar') : FALSE
    BY <2>1, SentNoneNext
  <2> QED
    BY <1>2, <2>1, <2>2 DEF ToolsInv, SwitchesFollow
<1> QED
  BY <1>3, <1>4

\* What is told leaves the messages that a scan has started where they are, or is one.
LEMMA StartsKept ==
  ASSUME ToolsInv, UNCHANGED ui, NEW m \in ToolMessage, toApp' = Append(toApp, m),
         m.type = "page_scan_started" => ui.scan = "scanning" /\ Among(toApp, ScanTypes) = {}
  PROVE  StartsFirst'
<1>1. ToolsTyped /\ StartsFirst
  BY DEF ToolsInv, ButtonsFollow
<1>2. /\ Len(toApp) \in Nat /\ Len(toApp') = Len(toApp) + 1
      /\ toApp'[Len(toApp) + 1] = m /\ \A i \in 1..Len(toApp) : toApp'[i] = toApp[i]
  BY <1>1, ToldFacts
<1>3. \A i \in 1..Len(toApp') : /\ i \in 1..Len(toApp) \/ i = Len(toApp) + 1
                                /\ \A j \in 1..(i - 1) : j \in 1..Len(toApp)
  BY <1>2
<1>4. m.type = "page_scan_started" => ui.scan = "scanning" /\ \A j \in 1..Len(toApp) : toApp[j].type \notin ScanTypes
  BY DEF Among
<1> QED
  BY <1>1, <1>2, <1>3, <1>4 DEF StartsFirst

\* How the messages end that are told, for each kind of button.
LEMMA EndsKept ==
  ASSUME ToolsTyped, UNCHANGED ui, NEW m \in ToolMessage, toApp' = Append(toApp, m)
  PROVE  /\ m.type \notin ScanTypes =>
              (Ends(toApp', ScanTypes, ScanStarts, ui'.scan = "scanning") <=> Ends(toApp, ScanTypes, ScanStarts, ui.scan = "scanning"))
         /\ m.type \in ScanTypes =>
              (Ends(toApp', ScanTypes, ScanStarts, ui'.scan = "scanning") <=> m.type \in ScanStarts)
         /\ m.type \notin ExploreTypes =>
              (Ends(toApp', ExploreTypes, {"explore_started"}, ui'.exploring) <=> Ends(toApp, ExploreTypes, {"explore_started"}, ui.exploring))
         /\ m.type \in ExploreTypes =>
              (Ends(toApp', ExploreTypes, {"explore_started"}, ui'.exploring) <=> m.type = "explore_started")
         /\ m.type \notin VerifyTypes =>
              (Ends(toApp', VerifyTypes, {"verify_started"}, ui'.verifying) <=> Ends(toApp, VerifyTypes, {"verify_started"}, ui.verifying))
         /\ m.type \in VerifyTypes =>
              (Ends(toApp', VerifyTypes, {"verify_started"}, ui'.verifying) <=> m.type = "verify_started")
         /\ m.type \notin ScanTypes => Among(toApp', ScanTypes) = Among(toApp, ScanTypes)
<1>1. toApp \in Seq(ToolMessage) /\ {ui.exploring, ui.verifying} \subseteq BOOLEAN
  BY UiFields DEF ToolsTyped
<1>2. \A T, S : \A v \in BOOLEAN :
         /\ m.type \notin T => (Ends(toApp', T, S, v) <=> Ends(toApp, T, S, v))
         /\ m.type \in T => (Ends(toApp', T, S, v) <=> m.type \in S)
  BY ToldFacts
<1>3. PICK e \in BOOLEAN, f \in BOOLEAN : e = ui.exploring /\ f = ui.verifying
  BY <1>1
<1>4. PICK s \in BOOLEAN : s <=> ui.scan = "scanning"
  OBVIOUS
<1>5. /\ Ends(toApp', ScanTypes, ScanStarts, ui'.scan = "scanning") <=> Ends(toApp', ScanTypes, ScanStarts, s)
      /\ Ends(toApp, ScanTypes, ScanStarts, ui.scan = "scanning") <=> Ends(toApp, ScanTypes, ScanStarts, s)
  BY <1>4 DEF Ends
<1>6. /\ m.type \notin ScanTypes => (Ends(toApp', ScanTypes, ScanStarts, s) <=> Ends(toApp, ScanTypes, ScanStarts, s))
      /\ m.type \in ScanTypes => (Ends(toApp', ScanTypes, ScanStarts, s) <=> m.type \in ScanStarts)
  BY <1>2
<1>7. /\ m.type \notin ExploreTypes =>
           (Ends(toApp', ExploreTypes, {"explore_started"}, e) <=> Ends(toApp, ExploreTypes, {"explore_started"}, e))
      /\ m.type \in ExploreTypes => (Ends(toApp', ExploreTypes, {"explore_started"}, e) <=> m.type \in {"explore_started"})
  BY <1>2
<1>8. /\ m.type \notin VerifyTypes =>
           (Ends(toApp', VerifyTypes, {"verify_started"}, f) <=> Ends(toApp, VerifyTypes, {"verify_started"}, f))
      /\ m.type \in VerifyTypes => (Ends(toApp', VerifyTypes, {"verify_started"}, f) <=> m.type \in {"verify_started"})
  BY <1>2
<1>9. m.type \notin ScanTypes => Among(toApp', ScanTypes) = Among(toApp, ScanTypes)
  BY ToldFacts
<1>10. /\ m.type \notin ScanTypes =>
              (Ends(toApp', ScanTypes, ScanStarts, ui'.scan = "scanning") <=> Ends(toApp, ScanTypes, ScanStarts, ui.scan = "scanning"))
       /\ m.type \in ScanTypes =>
              (Ends(toApp', ScanTypes, ScanStarts, ui'.scan = "scanning") <=> m.type \in ScanStarts)
  BY <1>5, <1>6
<1> QED
  BY <1>3, <1>7, <1>8, <1>9, <1>10

\* What the invariant says of the buttons, when what is told is of none of them.
LEMMA LoopScan ==
  ASSUME ToolsInv
  PROVE  /\ Ends(toApp, ScanTypes, ScanStarts, ui.scan = "scanning") <=> (loop.doing = "scan" \/ Exploration \/ Sent("scan-page"))
         /\ Ends(toApp, ExploreTypes, {"explore_started"}, ui.exploring) => Exploration
         /\ Ends(toApp, VerifyTypes, {"verify_started"}, ui.verifying) => loop.doing = "verify"
         /\ ui.scan = "scanning" => ui.shows = 0
         /\ Sent("scan-page") => Among(toApp, ScanTypes) = {} /\ loop.doing # "scan"
BY DEF ToolsInv, ButtonsFollow

LEMMA TakeScanKeeps == ASSUME ToolsInv, TakeScan PROVE ToolsInv'
<1>1. /\ Takes("scan-page") /\ loop' = [doing |-> "scan", ask |-> toSidecar[1].ask, suspended |-> FALSE]
      /\ toApp' = Append(toApp, Say("page_scan_started"))
      /\ UNCHANGED <<ui, asks, toggles, tasks, exploring, cancelled, inspectOn, recordingOn, shield>>
      /\ ToolsTyped /\ OneClick
  BY DEF TakeScan, Tell, ToolsInv
<1>2. PICK m \in ToolMessage : m = Say("page_scan_started") /\ m.type = "page_scan_started"
  BY SayIs
<1>3. /\ loop = Idling /\ toSidecar[1] \in ToolCommand /\ toSidecar[1].action = "scan-page" /\ Sent("scan-page")
      /\ 1 \in 1..Len(toSidecar) /\ toSidecar' = <<>> /\ \A a : Sent(a) => a = "scan-page"
  BY <1>1, TakenFacts
<1>4. /\ \A a : ~Sent(a)'
      /\ OneClick'
      /\ \A k \in 1..Len(toSidecar') : FALSE
  BY <1>3, SentNoneNext
<1>5. PICK n \in Requests : n = toSidecar[1].ask /\ n \in 0..MaxAsks /\ n \in Nat
  BY <1>3, Fields
<1>6. loop'.doing = "scan" /\ loop'.ask = n
  BY <1>1, <1>5
<1>7. ~Exploration
  BY <1>3 DEF ToolsInv, ExploresAlone
<1>8. /\ \A k \in Requests : (Under(k)' <=> Under(k)) /\ (Begun(k)' <=> Begun(k))
      /\ Exploration' <=> Exploration
  BY <1>1 DEF Under, Begun, Exploration
<1>9. ToolsTyped'
  <2>1. toApp' \in Seq(ToolMessage) /\ toSidecar' \in Seq(ToolCommand)
    BY <1>1, <1>2, <1>3, ToldFacts
  <2>2. loop' \in [doing: {"none", "scan", "verify"}, ask: 0..MaxAsks, suspended: BOOLEAN]
    BY <1>1, <1>5
  <2> QED
    BY <1>1, <2>1, <2>2 DEF ToolsTyped
<1>10. ExploresAlone'
  BY <1>1, <1>4, <1>7, <1>8 DEF ToolsInv, ExploresAlone
<1>11. ShieldIsKept'
  BY <1>1, <1>3, <1>6, <1>8 DEF ToolsInv, ShieldIsKept, Idling
<1>12. ui.scan = "scanning" /\ Among(toApp, ScanTypes) = {}
  BY <1>3, LoopScan DEF Ends
<1>13. ButtonsFollow'
  <2>1. StartsFirst'
    BY <1>1, <1>2, <1>12, StartsKept
  <2>2. /\ Ends(toApp', ScanTypes, ScanStarts, ui'.scan = "scanning")
        /\ Ends(toApp', ExploreTypes, {"explore_started"}, ui'.exploring) <=> Ends(toApp, ExploreTypes, {"explore_started"}, ui.exploring)
        /\ Ends(toApp', VerifyTypes, {"verify_started"}, ui'.verifying) <=> Ends(toApp, VerifyTypes, {"verify_started"}, ui.verifying)
    <3>1. m.type \in ScanTypes /\ m.type \in ScanStarts /\ m.type \notin ExploreTypes /\ m.type \notin VerifyTypes
      BY <1>2 DEF ScanTypes, ScanStarts, ExploreTypes, VerifyTypes
    <3> QED
      BY <1>1, <1>2, <3>1, EndsKept
  <2>3. loop.doing = "none"
    BY <1>3 DEF Idling
  <2> QED
    BY <1>1, <1>4, <1>6, <1>8, <2>1, <2>2, <2>3, LoopScan DEF ButtonsFollow
<1>14. SwitchesFollow'
  BY <1>1, <1>2, <1>3, SwitchesKept
<1>15. InOrderAnswered'
  <2>1. m.type \notin ResultTypes
    BY <1>2 DEF ResultTypes
  <2>2. ResultsOrdered' /\ \A k : Later(k) => Later(k)'
    BY <1>1, <1>2, <2>1, ToldLater
  <2>3. Later(n)
    BY <1>3, <1>5 DEF ToolsInv, InOrderAnswered
  <2>4. Later(n)'
    BY <2>2, <2>3
  <2>5. \A k \in Requests : ~Under(k)'
    BY <1>7, <1>8 DEF Exploration
  <2>6. Later(loop.ask)'
    BY <1>6, <2>4 DEF Later
  <2> QED
    BY <1>4, <2>2, <2>5, <2>6 DEF InOrderAnswered
<1> QED
  BY <1>4, <1>9, <1>10, <1>11, <1>13, <1>14, <1>15 DEF ToolsInv

LEMMA EndScanKeeps == ASSUME ToolsInv, EndScan PROVE ToolsInv'
<1>1. /\ loop.doing = "scan" /\ loop' = Idling /\ ToolsTyped
      /\ UNCHANGED <<ui, asks, toggles, toSidecar, tasks, exploring, cancelled, inspectOn, recordingOn, shield>>
  BY DEF EndScan, ToolsInv
<1>2. loop.ask \in Nat /\ loop.ask \in 0..MaxAsks
  BY <1>1, PageToolsAssumption DEF ToolsTyped
<1>3. loop.ask \in Requests
  <2>1. Later(loop.ask) /\ ui.shows \in Nat
    BY <1>1, UiFields DEF ToolsInv, InOrderAnswered
  <2>2. ui.shows < loop.ask
    BY <2>1 DEF Later
  <2> QED
    BY <1>2, <2>1, <2>2, PageToolsAssumption DEF Requests
<1>4. PICK m \in ToolMessage : /\ toApp' = Append(toApp, m) /\ m.type \in {"page_scan_result", "page_scan_error"}
                               /\ m.type \in ResultTypes => m.ask = loop.ask
  <2>1. CASE Tell([type |-> "page_scan_result", ask |-> loop.ask])
    <3>1. [type |-> "page_scan_result", ask |-> loop.ask] \in ToolMessage
      BY <1>3 DEF ToolMessage
    <3> QED
      BY <2>1, <3>1 DEF Tell
  <2>2. CASE Tell(Say("page_scan_error"))
    <3>1. Say("page_scan_error") \in ToolMessage /\ Say("page_scan_error").type = "page_scan_error"
      BY SayIs
    <3> QED
      BY <2>2, <3>1 DEF Tell, ResultTypes
  <2> QED
    BY <2>1, <2>2 DEF EndScan
<1>5. ~Exploration /\ ~Sent("scan-page")
  BY <1>1, LoopScan DEF ToolsInv, ExploresAlone, Idling
<1>6. /\ \A k \in Requests : (Under(k)' <=> Under(k)) /\ (Begun(k)' <=> Begun(k))
      /\ Exploration' <=> Exploration
      /\ \A a : Sent(a)' <=> Sent(a)
      /\ loop'.doing = "none"
  BY <1>1 DEF Under, Begun, Exploration, Sent, Idling
<1>7. ToolsTyped' /\ OneClick'
  <2>1. toApp' \in Seq(ToolMessage)
    BY <1>1, <1>4, ToldFacts
  <2>2. loop' \in [doing: {"none", "scan", "verify"}, ask: 0..MaxAsks, suspended: BOOLEAN]
    BY <1>1, <1>2, PageToolsAssumption DEF Idling
  <2> QED
    BY <1>1, <2>1, <2>2 DEF ToolsInv, ToolsTyped, OneClick
<1>8. ExploresAlone'
  BY <1>1, <1>5, <1>6 DEF ToolsInv, ExploresAlone
<1>9. ShieldIsKept'
  BY <1>1, <1>6 DEF ToolsInv, ShieldIsKept
<1>10. ButtonsFollow'
  <2>1. StartsFirst'
    BY <1>1, <1>4, StartsKept
  <2>2. /\ ~Ends(toApp', ScanTypes, ScanStarts, ui'.scan = "scanning")
        /\ Ends(toApp', ExploreTypes, {"explore_started"}, ui'.exploring) <=> Ends(toApp, ExploreTypes, {"explore_started"}, ui.exploring)
        /\ Ends(toApp', VerifyTypes, {"verify_started"}, ui'.verifying) <=> Ends(toApp, VerifyTypes, {"verify_started"}, ui.verifying)
    <3>1. m.type \in ScanTypes /\ m.type \notin ScanStarts /\ m.type \notin ExploreTypes /\ m.type \notin VerifyTypes
      BY <1>4 DEF ScanTypes, ScanStarts, ExploreTypes, VerifyTypes
    <3> QED
      BY <1>1, <1>4, <3>1, EndsKept
  <2> QED
    BY <1>1, <1>5, <1>6, <2>1, <2>2, LoopScan DEF ButtonsFollow
<1>11. SwitchesFollow'
  BY <1>1, <1>4, SwitchesKept
<1>12. InOrderAnswered'
  <2>1. Later(loop.ask)
    BY <1>1 DEF ToolsInv, InOrderAnswered
  <2>2. /\ ResultsOrdered'
        /\ \A n \in Nat : Later(n) /\ loop.ask < n => Later(n)'
    BY <1>1, <1>4, <2>1, ToldLater
  <2>3. \A k \in Requests : ~Under(k)'
    BY <1>5, <1>6 DEF Exploration
  <2>4. ASSUME NEW k \in 1..Len(toSidecar), toSidecar[k].action \in {"scan-page", "explore"} PROVE Later(toSidecar[k].ask)'
    <3>1. PICK n \in Nat : n = toSidecar[k].ask
      BY <1>1, <2>4, Fields DEF ToolsTyped
    <3>2. Later(n) /\ loop.ask < n
      BY <1>1, <2>4, <3>1 DEF ToolsInv, InOrderAnswered
    <3>3. Later(n)'
      BY <2>2, <3>2
    <3> QED
      BY <1>1, <3>1, <3>3 DEF Later
  <2> QED
    BY <1>1, <1>6, <2>2, <2>3, <2>4 DEF InOrderAnswered
<1> QED
  BY <1>7, <1>8, <1>9, <1>10, <1>11, <1>12 DEF ToolsInv

LEMMA TakeVerifyKeeps == ASSUME ToolsInv, TakeVerify PROVE ToolsInv'
<1>1. /\ Takes("verify") /\ loop' = [doing |-> "verify", ask |-> toSidecar[1].ask, suspended |-> inspectOn]
      /\ toApp' = Append(toApp, Say("verify_started")) /\ shield' = (shield /\ ~inspectOn)
      /\ UNCHANGED <<ui, asks, toggles, tasks, exploring, cancelled, inspectOn, recordingOn>>
      /\ ToolsTyped /\ OneClick
  BY DEF TakeVerify, Tell, ToolsInv
<1>2. PICK m \in ToolMessage : m = Say("verify_started") /\ m.type = "verify_started"
  BY SayIs
<1>3. /\ loop = Idling /\ toSidecar[1] \in ToolCommand /\ toSidecar[1].action = "verify" /\ Sent("verify")
      /\ toSidecar' = <<>> /\ \A a : Sent(a) => a = "verify"
  BY <1>1, TakenFacts
<1>4. /\ \A a : ~Sent(a)'
      /\ OneClick'
      /\ \A k \in 1..Len(toSidecar') : FALSE
  BY <1>3, SentNoneNext
<1>5. PICK n \in Requests : n = toSidecar[1].ask /\ n \in 0..MaxAsks
  BY <1>3, Fields
<1>6. loop'.doing = "verify" /\ loop'.suspended = inspectOn /\ loop.doing = "none"
  BY <1>1, <1>3 DEF Idling
<1>7. ~Exploration
  BY <1>3 DEF ToolsInv, ExploresAlone
<1>8. /\ \A k \in Requests : (Under(k)' <=> Under(k)) /\ (Begun(k)' <=> Begun(k))
      /\ Exploration' <=> Exploration
      /\ \A k \in Requests : ~Begun(k)
  BY <1>1, <1>7 DEF Under, Begun, Exploration
<1>9. shield' = FALSE
  <2>1. shield = inspectOn /\ {shield, inspectOn} \subseteq BOOLEAN
    BY <1>1, <1>6, <1>8 DEF ToolsInv, ShieldIsKept, ExploresAlone, ToolsTyped
  <2> QED
    BY <1>1, <2>1
<1>10. ToolsTyped'
  <2>1. toApp' \in Seq(ToolMessage) /\ toSidecar' \in Seq(ToolCommand)
    BY <1>1, <1>2, <1>3, ToldFacts
  <2>2. loop' \in [doing: {"none", "scan", "verify"}, ask: 0..MaxAsks, suspended: BOOLEAN]
    BY <1>1, <1>5 DEF ToolsTyped
  <2> QED
    BY <1>1, <1>9, <2>1, <2>2 DEF ToolsTyped
<1>11. ExploresAlone'
  BY <1>1, <1>4, <1>7, <1>8 DEF ToolsInv, ExploresAlone
<1>12. ShieldIsKept'
  BY <1>1, <1>6, <1>8, <1>9 DEF ShieldIsKept
<1>13. ButtonsFollow'
  <2>1. StartsFirst'
    BY <1>1, <1>2, StartsKept
  <2>2. /\ Ends(toApp', ScanTypes, ScanStarts, ui'.scan = "scanning") <=> Ends(toApp, ScanTypes, ScanStarts, ui.scan = "scanning")
        /\ Ends(toApp', ExploreTypes, {"explore_started"}, ui'.exploring) <=> Ends(toApp, ExploreTypes, {"explore_started"}, ui.exploring)
    <3>1. m.type \notin ScanTypes /\ m.type \notin ExploreTypes
      BY <1>2 DEF ScanTypes, ExploreTypes
    <3> QED
      BY <1>1, <1>2, <3>1, EndsKept
  <2> QED
    BY <1>1, <1>3, <1>4, <1>6, <1>8, <2>1, <2>2, LoopScan DEF ButtonsFollow
<1>14. SwitchesFollow'
  BY <1>1, <1>2, <1>3, SwitchesKept
<1>15. InOrderAnswered'
  <2>1. m.type \notin ResultTypes
    BY <1>2 DEF ResultTypes
  <2>2. ResultsOrdered'
    BY <1>1, <1>2, <2>1, ToldLater
  <2>3. \A k \in Requests : ~Under(k)'
    BY <1>7, <1>8 DEF Exploration
  <2> QED
    BY <1>4, <1>6, <2>2, <2>3 DEF InOrderAnswered
<1> QED
  BY <1>4, <1>10, <1>11, <1>12, <1>13, <1>14, <1>15 DEF ToolsInv

LEMMA EndVerifyKeeps == ASSUME ToolsInv, EndVerify PROVE ToolsInv'
<1>1. /\ loop.doing = "verify" /\ loop' = Idling /\ ToolsTyped /\ shield' = (shield \/ (loop.suspended /\ inspectOn))
      /\ toApp' = Append(toApp, Say("verify_result"))
      /\ UNCHANGED <<ui, asks, toggles, toSidecar, tasks, exploring, cancelled, inspectOn, recordingOn>>
  BY DEF EndVerify, Tell, Back, ToolsInv
<1>2. PICK m \in ToolMessage : m = Say("verify_result") /\ m.type = "verify_result"
  BY SayIs
<1>3. ~Exploration
  BY <1>1 DEF ToolsInv, ExploresAlone, Idling
<1>4. /\ \A k \in Requests : (Under(k)' <=> Under(k)) /\ (Begun(k)' <=> Begun(k))
      /\ Exploration' <=> Exploration
      /\ \A k \in Requests : ~Begun(k)
      /\ \A a : Sent(a)' <=> Sent(a)
      /\ loop'.doing = "none"
  BY <1>1, <1>3 DEF Under, Begun, Exploration, Sent, Idling
<1>5. shield' = inspectOn /\ inspectOn \in BOOLEAN
  <2>1. ~shield /\ loop.suspended = inspectOn /\ {shield, inspectOn} \subseteq BOOLEAN
    BY <1>1 DEF ToolsInv, ShieldIsKept, ToolsTyped
  <2>2. shield' = (FALSE \/ (inspectOn /\ inspectOn))
    BY <1>1, <2>1
  <2> QED
    BY <2>1, <2>2
<1>6. ToolsTyped' /\ OneClick'
  <2>1. toApp' \in Seq(ToolMessage)
    BY <1>1, <1>2, ToldFacts
  <2>2. loop' \in [doing: {"none", "scan", "verify"}, ask: 0..MaxAsks, suspended: BOOLEAN]
    BY <1>1, PageToolsAssumption DEF Idling
  <2> QED
    BY <1>1, <1>5, <2>1, <2>2 DEF ToolsInv, ToolsTyped, OneClick
<1>7. ExploresAlone'
  BY <1>1, <1>3, <1>4 DEF ToolsInv, ExploresAlone
<1>8. ShieldIsKept'
  BY <1>1, <1>4, <1>5 DEF ShieldIsKept
<1>9. ButtonsFollow'
  <2>1. StartsFirst'
    BY <1>1, <1>2, StartsKept
  <2>2. /\ Ends(toApp', ScanTypes, ScanStarts, ui'.scan = "scanning") <=> Ends(toApp, ScanTypes, ScanStarts, ui.scan = "scanning")
        /\ Ends(toApp', ExploreTypes, {"explore_started"}, ui'.exploring) <=> Ends(toApp, ExploreTypes, {"explore_started"}, ui.exploring)
        /\ ~Ends(toApp', VerifyTypes, {"verify_started"}, ui'.verifying)
        /\ Among(toApp', ScanTypes) = Among(toApp, ScanTypes)
    <3>1. m.type \notin ScanTypes /\ m.type \notin ExploreTypes /\ m.type \in VerifyTypes
      BY <1>2 DEF ScanTypes, ExploreTypes, VerifyTypes
    <3> QED
      BY <1>1, <1>2, <3>1, EndsKept
  <2> QED
    BY <1>1, <1>4, <2>1, <2>2, LoopScan DEF ButtonsFollow
<1>10. SwitchesFollow'
  BY <1>1, <1>2, SwitchesKept
<1>11. InOrderAnswered'
  <2>1. m.type \notin ResultTypes
    BY <1>2 DEF ResultTypes
  <2>2. ResultsOrdered' /\ \A n : Later(n) => Later(n)'
    BY <1>1, <1>2, <2>1, ToldLater
  <2>3. \A k \in Requests : ~Under(k)'
    BY <1>3, <1>4 DEF Exploration
  <2>4. ASSUME NEW k \in 1..Len(toSidecar), toSidecar[k].action \in {"scan-page", "explore"} PROVE Later(toSidecar[k].ask)'
    <3>1. PICK n : n = toSidecar[k].ask
      OBVIOUS
    <3>2. Later(n)'
      BY <2>2, <2>4, <3>1 DEF ToolsInv, InOrderAnswered
    <3> QED
      BY <1>1, <3>1, <3>2 DEF Later
  <2> QED
    BY <1>1, <1>4, <2>2, <2>3, <2>4 DEF InOrderAnswered
<1> QED
  BY <1>6, <1>7, <1>8, <1>9, <1>10, <1>11 DEF ToolsInv

LEMMA TakeExploreKeeps == ASSUME Watchful, ToolsInv, TakeExplore PROVE ToolsInv'
<1>1. /\ Takes("explore") /\ ToolsTyped /\ OneClick
      /\ UNCHANGED <<ui, asks, toggles, loop, exploring, cancelled, inspectOn, recordingOn, shield>>
  BY DEF TakeExplore, ToolsInv
<1>2. /\ loop = Idling /\ toSidecar[1] \in ToolCommand /\ toSidecar[1].action = "explore" /\ Sent("explore")
      /\ 1 \in 1..Len(toSidecar) /\ toSidecar' = <<>> /\ \A a : Sent(a) => a = "explore"
  BY <1>1, TakenFacts
<1>3. /\ \A a : ~Sent(a)'
      /\ OneClick'
      /\ \A k \in 1..Len(toSidecar') : FALSE
  BY <1>2, SentNoneNext
<1>4. loop.doing = "none" /\ ~recordingOn /\ ~ui.recording
  BY <1>2 DEF ToolsInv, ExploresAlone, Idling
<1>5. CASE exploring
  <2>1. UNCHANGED <<tasks, toApp>>
    BY <1>5 DEF TakeExplore
  <2>2. /\ \A k \in Requests : (Under(k)' <=> Under(k)) /\ (Begun(k)' <=> Begun(k))
        /\ Exploration' <=> Exploration
    BY <2>1 DEF Under, Begun, Exploration
  <2>3. ToolsTyped'
    BY <1>1, <1>2, <2>1 DEF ToolsTyped
  <2>4. ExploresAlone'
    BY <1>1, <1>3, <2>2 DEF ToolsInv, ExploresAlone, Idling
  <2>5. ShieldIsKept'
    BY <1>1, <2>1, <2>2 DEF ToolsInv, ShieldIsKept, Idling
  <2>6. ButtonsFollow'
    <3>1. StartsFirst'
      BY <1>1, <2>1 DEF ToolsInv, ButtonsFollow, StartsFirst
    <3>2. ~Sent("scan-page")
      BY <1>2
    <3> QED
      BY <1>1, <1>3, <2>1, <2>2, <3>1, <3>2 DEF ToolsInv, ButtonsFollow
  <2>7. SwitchesFollow'
    BY <1>1, <1>2, <2>1, SwitchesKept
  <2>8. InOrderAnswered'
    <3>1. ResultsOrdered' /\ \A n : Later(n) => Later(n)'
      BY <1>1, <2>1 DEF ToolsInv, InOrderAnswered, ResultsOrdered, Later
    <3>2. loop'.doing # "scan"
      BY <1>1, <1>4
    <3> QED
      BY <1>3, <2>2, <3>1, <3>2 DEF ToolsInv, InOrderAnswered
  <2> QED
    BY <1>3, <2>3, <2>4, <2>5, <2>6, <2>7, <2>8 DEF ToolsInv
<1>6. CASE ~exploring
  <2>1. PICK n \in Requests : n = toSidecar[1].ask
    BY <1>2, Fields
  <2>2. tasks' = [tasks EXCEPT ![n] = [NoTask EXCEPT !.at = "created"]] /\ toApp' = Append(toApp, Say("explore_started"))
    BY <1>6, <2>1 DEF TakeExplore, Tell
  <2>3. PICK m \in ToolMessage : m = Say("explore_started") /\ m.type = "explore_started"
    BY SayIs
  <2>4. /\ tasks' \in [Requests -> [at: {"none", "created", "looking", "acting", "finalizing"}, steps: Nat, suspended: BOOLEAN]]
        /\ tasks'[n].at = "created" /\ \A k \in Requests : k # n => tasks'[k] = tasks[k]
    BY <1>1, <2>2 DEF ToolsTyped, NoTask
  <2>5. \A k \in Requests : ~Under(k)
    <3>1. \A k \in Requests : tasks[k].at \in {"none", "created", "looking", "acting", "finalizing"}
      BY <1>1 DEF ToolsTyped
    <3>2. \A k \in Requests : tasks[k].at # "created"
      BY <1>1 DEF Takes
    <3>3. \A k \in Requests : ~Begun(k)
      BY <1>6 DEF ToolsInv, ExploresAlone
    <3> QED
      BY <3>1, <3>2, <3>3 DEF Under, Begun
  <2>6. /\ \A k \in Requests : (Under(k)' <=> k = n) /\ ~Begun(k)' /\ ~Begun(k)
        /\ Exploration' /\ ~Exploration
    BY <2>4, <2>5 DEF Under, Begun, Exploration
  <2>7. ToolsTyped'
    <3>1. toApp' \in Seq(ToolMessage) /\ toSidecar' \in Seq(ToolCommand)
      BY <1>1, <1>2, <2>2, <2>3, ToldFacts
    <3> QED
      BY <1>1, <2>4, <3>1 DEF ToolsTyped
  <2>8. ExploresAlone'
    BY <1>1, <1>2, <1>3, <1>4, <1>6, <2>6 DEF ExploresAlone, Idling
  <2>9. ShieldIsKept'
    BY <1>1, <2>6 DEF ToolsInv, ShieldIsKept, Idling
  <2>10. ButtonsFollow'
    <3>1. StartsFirst'
      BY <1>1, <2>2, <2>3, StartsKept
    <3>2. /\ Ends(toApp', ScanTypes, ScanStarts, ui'.scan = "scanning")
          /\ Ends(toApp', VerifyTypes, {"verify_started"}, ui'.verifying) <=> Ends(toApp, VerifyTypes, {"verify_started"}, ui.verifying)
      <4>1. m.type \in ScanTypes /\ m.type \in ScanStarts /\ m.type \notin VerifyTypes
        BY <2>3 DEF ScanTypes, ScanStarts, VerifyTypes
      <4> QED
        BY <1>1, <2>2, <2>3, <4>1, EndsKept
    <3> QED
      BY <1>1, <1>3, <1>4, <2>6, <3>1, <3>2, LoopScan DEF ButtonsFollow
  <2>11. SwitchesFollow'
    BY <1>1, <1>2, <2>2, <2>3, SwitchesKept
  <2>12. InOrderAnswered'
    <3>1. m.type \notin ResultTypes
      BY <2>3 DEF ResultTypes
    <3>2. ResultsOrdered' /\ \A k : Later(k) => Later(k)'
      BY <1>1, <2>2, <2>3, <3>1, ToldLater
    <3>3. Later(n)'
      BY <1>2, <2>1, <3>2 DEF ToolsInv, InOrderAnswered
    <3>4. loop'.doing # "scan"
      BY <1>1, <1>4
    <3> QED
      BY <1>3, <2>6, <3>2, <3>3, <3>4 DEF InOrderAnswered
  <2> QED
    BY <1>3, <2>7, <2>8, <2>9, <2>10, <2>11, <2>12 DEF ToolsInv
<1> QED
  BY <1>5, <1>6

LEMMA TakeStopKeeps == ASSUME ToolsInv, TakeStop PROVE ToolsInv'
<1>1. /\ Takes("stop-explore") /\ ToolsTyped /\ OneClick
      /\ UNCHANGED <<ui, asks, toggles, toApp, loop, tasks, exploring, inspectOn, recordingOn, shield>>
  BY DEF TakeStop, ToolsInv
<1>2. loop = Idling /\ Sent("stop-explore") /\ toSidecar' = <<>> /\ \A a : Sent(a) => a = "stop-explore"
  BY <1>1, TakenFacts
<1>3. /\ \A a : ~Sent(a)'
      /\ OneClick'
      /\ \A k \in 1..Len(toSidecar') : FALSE
  BY <1>2, SentNoneNext
<1>4. /\ \A k \in Requests : (Under(k)' <=> Under(k)) /\ (Begun(k)' <=> Begun(k))
      /\ Exploration' <=> Exploration
  BY <1>1 DEF Under, Begun, Exploration
<1>5. ToolsTyped'
  BY <1>1, <1>2 DEF ToolsTyped
<1>6. ExploresAlone'
  BY <1>1, <1>3, <1>4 DEF ToolsInv, ExploresAlone, Idling
<1>7. ShieldIsKept'
  BY <1>1, <1>4 DEF ToolsInv, ShieldIsKept, Idling
<1>8. ButtonsFollow'
  <2>1. StartsFirst'
    BY <1>1 DEF ToolsInv, ButtonsFollow, StartsFirst
  <2>2. ~Sent("scan-page")
    BY <1>2
  <2> QED
    BY <1>1, <1>3, <1>4, <2>1, <2>2 DEF ToolsInv, ButtonsFollow
<1>9. SwitchesFollow'
  BY <1>1, <1>2, SwitchesKept
<1>10. InOrderAnswered'
  <2>1. ResultsOrdered' /\ \A n : Later(n) => Later(n)'
    BY <1>1 DEF ToolsInv, InOrderAnswered, ResultsOrdered, Later
  <2>2. loop'.doing # "scan"
    BY <1>1, <1>2 DEF Idling
  <2> QED
    BY <1>3, <1>4, <2>1, <2>2 DEF ToolsInv, InOrderAnswered
<1> QED
  BY <1>3, <1>5, <1>6, <1>7, <1>8, <1>9, <1>10 DEF ToolsInv

LEMMA TakeToggleKeeps == ASSUME ToolsInv, TakeToggle PROVE ToolsInv'
<1>1. /\ Takes("toggle-inspect") /\ ToolsTyped /\ OneClick
      /\ UNCHANGED <<ui, asks, toggles, toApp, loop, tasks, exploring, cancelled, recordingOn>>
      /\ inspectOn' = toSidecar[1].enabled /\ shield' = toSidecar[1].enabled
  BY DEF TakeToggle, ToolsInv
<1>2. /\ loop = Idling /\ toSidecar[1] \in ToolCommand /\ toSidecar[1].action = "toggle-inspect" /\ Sent("toggle-inspect")
      /\ 1 \in 1..Len(toSidecar) /\ toSidecar' = <<>> /\ \A a : Sent(a) => a = "toggle-inspect"
  BY <1>1, TakenFacts
<1>3. /\ \A a : ~Sent(a)'
      /\ OneClick'
      /\ \A k \in 1..Len(toSidecar') : FALSE
  BY <1>2, SentNoneNext
<1>4. /\ \A k \in Requests : (Under(k)' <=> Under(k)) /\ (Begun(k)' <=> Begun(k))
      /\ Exploration' <=> Exploration
      /\ loop.doing = "none"
  BY <1>1, <1>2 DEF Under, Begun, Exploration, Idling
<1>5. PICK on \in BOOLEAN : on = toSidecar[1].enabled /\ inspectOn' = on /\ shield' = on
  BY <1>1, <1>2, Fields
<1>6. ui.inspecting = on /\ (Exploration => ~on)
  BY <1>2, <1>5 DEF ToolsInv, SwitchesFollow, ExploresAlone
<1>7. ToolsTyped'
  BY <1>1, <1>2, <1>5 DEF ToolsTyped
<1>8. ExploresAlone'
  BY <1>1, <1>3, <1>4 DEF ToolsInv, ExploresAlone, Idling
<1>9. ShieldIsKept'
  <2>1. \A n \in Requests : Begun(n)' => ~shield' /\ (inspectOn' => tasks'[n].suspended)
    BY <1>4, <1>5, <1>6 DEF Begun, Under, Exploration
  <2> QED
    BY <1>1, <1>2, <1>4, <1>5, <2>1 DEF ShieldIsKept
<1>10. ButtonsFollow'
  <2>1. StartsFirst'
    BY <1>1 DEF ToolsInv, ButtonsFollow, StartsFirst
  <2>2. ~Sent("scan-page")
    BY <1>2
  <2> QED
    BY <1>1, <1>3, <1>4, <2>1, <2>2 DEF ToolsInv, ButtonsFollow
<1>11. SwitchesFollow'
  <2>1. SwitchesTold' /\ ~Sent("start-recording") /\ ~Sent("stop-recording")
    BY <1>1, <1>2 DEF ToolsInv, SwitchesFollow, SwitchesTold
  <2> QED
    BY <1>1, <1>3, <1>5, <1>6, <2>1 DEF ToolsInv, SwitchesFollow
<1>12. InOrderAnswered'
  <2>1. ResultsOrdered' /\ \A n : Later(n) => Later(n)'
    BY <1>1 DEF ToolsInv, InOrderAnswered, ResultsOrdered, Later
  <2>2. loop'.doing # "scan"
    BY <1>1, <1>2 DEF Idling
  <2> QED
    BY <1>3, <1>4, <2>1, <2>2 DEF ToolsInv, InOrderAnswered
<1> QED
  BY <1>3, <1>7, <1>8, <1>9, <1>10, <1>11, <1>12 DEF ToolsInv

\* What is told of a recording is known: it has been clicked.
LEMMA RecordingTold ==
  ASSUME ToolsInv, UNCHANGED ui, NEW m \in ToolMessage, toApp' = Append(toApp, m),
         m.type = "recording_started" => ui.recording /\ ~ui.inspecting,
         m.type = "recording_stopped" => ~ui.recording
  PROVE  SwitchesTold'
<1>1. ToolsTyped
  BY DEF ToolsInv
<1>2. /\ Len(toApp) \in Nat /\ Len(toApp') = Len(toApp) + 1
      /\ toApp'[Len(toApp) + 1] = m /\ \A i \in 1..Len(toApp) : toApp'[i] = toApp[i]
  BY <1>1, ToldFacts
<1>3. \A i \in 1..Len(toApp') : i \in 1..Len(toApp) \/ i = Len(toApp) + 1
  BY <1>2
<1> QED
  BY <1>2, <1>3 DEF ToolsInv, SwitchesFollow, SwitchesTold

LEMMA TakeRecordingKeeps == ASSUME ToolsInv, TakeRecording PROVE ToolsInv'
<1>1. /\ ToolsTyped /\ OneClick
      /\ UNCHANGED <<ui, asks, toggles, loop, tasks, exploring, cancelled, inspectOn, shield>>
  BY DEF TakeRecording, ToolsInv
<1>2. PICK a \in {"start-recording", "stop-recording"}, m \in ToolMessage :
         /\ Takes(a) /\ toApp' = Append(toApp, m)
         /\ a = "start-recording" => recordingOn' = TRUE /\ m.type = "recording_started"
         /\ a = "stop-recording" => recordingOn' = FALSE /\ m.type = "recording_stopped"
  <2>1. CASE Takes("start-recording") /\ recordingOn' = TRUE /\ Tell(Say("recording_started"))
    <3>1. Say("recording_started") \in ToolMessage /\ Say("recording_started").type = "recording_started"
      BY SayIs
    <3> QED
      BY <2>1, <3>1 DEF Tell
  <2>2. CASE Takes("stop-recording") /\ recordingOn' = FALSE /\ Tell(Say("recording_stopped"))
    <3>1. Say("recording_stopped") \in ToolMessage /\ Say("recording_stopped").type = "recording_stopped"
      BY SayIs
    <3> QED
      BY <2>2, <3>1 DEF Tell
  <2> QED
    BY <2>1, <2>2 DEF TakeRecording
<1>3. /\ loop = Idling /\ Sent(a) /\ toSidecar' \in Seq(ToolCommand)
      /\ a # "start-recording" => toSidecar' = <<>> /\ \A b : Sent(b) => b = a
      /\ a = "start-recording" =>
           /\ toSidecar' = <<>> \/ (toSidecar' = <<InspectCommand(FALSE)>> /\ toSidecar[2] = InspectCommand(FALSE)
                                    /\ 2 \in 1..Len(toSidecar))
           /\ \A b : Sent(b) => b \in {"start-recording", "toggle-inspect"}
           /\ toSidecar' = <<>> => ~Sent("toggle-inspect")
  BY <1>1, <1>2, TakenFacts
<1>4. /\ \A k \in Requests : (Under(k)' <=> Under(k)) /\ (Begun(k)' <=> Begun(k))
      /\ Exploration' <=> Exploration
      /\ loop.doing = "none"
  BY <1>1, <1>3 DEF Under, Begun, Exploration, Idling
<1>5. ui.recording \in BOOLEAN /\ ui.inspecting \in BOOLEAN
  BY <1>1, UiFields
<1>6. /\ a = "start-recording" => ui.recording /\ ~ui.inspecting
      /\ a = "stop-recording" => ~ui.recording
  BY <1>2, <1>3, <1>5 DEF ToolsInv, SwitchesFollow
<1>7. SwitchesTold'
  BY <1>1, <1>2, <1>6, RecordingTold
<1>8. PICK d \in ToolCommand : d = InspectCommand(FALSE) /\ d.action = "toggle-inspect" /\ d.enabled = FALSE
  <2>1. InspectCommand(FALSE) \in ToolCommand
    BY DEF ToolCommand, InspectCommand
  <2>2. InspectCommand(FALSE).action = "toggle-inspect" /\ InspectCommand(FALSE).enabled = FALSE
    BY DEF InspectCommand
  <2> QED
    BY <2>1, <2>2
<1>9. \/ toSidecar' = <<>> /\ ~Sent("toggle-inspect")
      \/ toSidecar' = <<d>> /\ a = "start-recording"
  BY <1>2, <1>3, <1>8
<1>10. /\ OneClick' /\ \A b : Sent(b)' => b = "toggle-inspect"
       /\ \A k \in 1..Len(toSidecar') : toSidecar'[k] = d
       /\ ~Sent("toggle-inspect")' => ~Sent("toggle-inspect")
       /\ \A k \in 1..Len(toSidecar') : a = "start-recording"
  <2>1. CASE toSidecar' = <<>> /\ ~Sent("toggle-inspect")
    <3>1. OneClick' /\ \A b : ~Sent(b)'
      BY <2>1, SentNoneNext
    <3>2. \A k \in 1..Len(toSidecar') : FALSE
      BY <2>1
    <3> QED
      BY <2>1, <3>1, <3>2
  <2>2. CASE toSidecar' = <<d>> /\ a = "start-recording"
    <3>1. /\ OneClick' /\ \A b : Sent(b)' <=> (d.action = b)
          /\ \A k \in 1..Len(toSidecar') : k = 1 /\ toSidecar'[k] = d
      BY <2>2, SentOneNext
    <3> QED
      BY <1>8, <2>2, <3>1
  <2> QED
    BY <1>9, <2>1, <2>2
<1>11. ToolsTyped'
  <2>1. toApp' \in Seq(ToolMessage)
    BY <1>1, <1>2, ToldFacts
  <2>2. recordingOn' \in BOOLEAN
    BY <1>2
  <2> QED
    BY <1>1, <1>3, <2>1, <2>2 DEF ToolsTyped
<1>12. ExploresAlone'
  <2>1. Exploration => recordingOn' = FALSE /\ ~ui.recording
    BY <1>2, <1>3 DEF ToolsInv, ExploresAlone
  <2>2. \A k \in 1..Len(toSidecar') : ~toSidecar'[k].enabled
    BY <1>8, <1>10
  <2>3. ~Sent("explore")' /\ ~Sent("scan-page")' /\ ~Sent("verify")' /\ ~Sent("start-recording")'
    BY <1>10
  <2> QED
    BY <1>1, <1>3, <1>4, <2>1, <2>2, <2>3 DEF ToolsInv, ExploresAlone
<1>13. ShieldIsKept'
  BY <1>1, <1>4 DEF ToolsInv, ShieldIsKept, Idling
<1>14. ButtonsFollow'
  <2>1. m.type \notin ScanTypes /\ m.type \notin ExploreTypes /\ m.type \notin VerifyTypes
    BY <1>2 DEF ScanTypes, ExploreTypes, VerifyTypes
  <2>2. StartsFirst'
    BY <1>1, <1>2, StartsKept
  <2>3. /\ Ends(toApp', ScanTypes, ScanStarts, ui'.scan = "scanning") <=> Ends(toApp, ScanTypes, ScanStarts, ui.scan = "scanning")
        /\ Ends(toApp', ExploreTypes, {"explore_started"}, ui'.exploring) <=> Ends(toApp, ExploreTypes, {"explore_started"}, ui.exploring)
        /\ Ends(toApp', VerifyTypes, {"verify_started"}, ui'.verifying) <=> Ends(toApp, VerifyTypes, {"verify_started"}, ui.verifying)
    BY <1>1, <1>2, <2>1, EndsKept
  <2>4. ~Sent("scan-page") /\ ~Sent("scan-page")'
    <3>1. ~Sent("scan-page")'
      BY <1>10
    <3>2. CASE a = "start-recording"
      BY <1>3, <3>1, <3>2
    <3>3. CASE a = "stop-recording"
      BY <1>3, <3>1, <3>3
    <3> QED
      BY <3>2, <3>3
  <2> QED
    BY <1>1, <1>4, <2>2, <2>3, <2>4, LoopScan DEF ButtonsFollow
<1>15. SwitchesFollow'
  <2>1. ui'.recording = recordingOn'
    BY <1>1, <1>2, <1>5, <1>6
  <2>2. ~Sent("start-recording")' /\ ~Sent("stop-recording")'
    BY <1>10
  <2>3. \A k \in 1..Len(toSidecar') : ui'.inspecting = toSidecar'[k].enabled
    BY <1>1, <1>5, <1>6, <1>8, <1>10
  <2>4. ~Sent("toggle-inspect")' => ui'.inspecting = inspectOn'
    BY <1>1, <1>10 DEF ToolsInv, SwitchesFollow
  <2> QED
    BY <1>7, <2>1, <2>2, <2>3, <2>4 DEF SwitchesFollow
<1>16. InOrderAnswered'
  <2>1. m.type \notin ResultTypes
    BY <1>2 DEF ResultTypes
  <2>2. ResultsOrdered' /\ \A k : Later(k) => Later(k)'
    BY <1>1, <1>2, <2>1, ToldLater
  <2>3. \A k \in 1..Len(toSidecar') : toSidecar'[k].action \notin {"scan-page", "explore"}
    BY <1>8, <1>10
  <2>4. loop'.doing # "scan"
    BY <1>1, <1>4
  <2> QED
    BY <1>4, <2>2, <2>3, <2>4 DEF ToolsInv, InOrderAnswered
<1> QED
  BY <1>10, <1>11, <1>12, <1>13, <1>14, <1>15, <1>16 DEF ToolsInv

-----------------------------------------------------------------------------
\* A step of an exploration leaves the app and the loop as they are.
LEMMA BeginsKeeps == ASSUME ToolsInv, NEW n \in Requests, ExplorationBegins(n) PROVE ToolsInv'
<1>1. /\ UNCHANGED <<ui, asks, toggles, toSidecar, toApp, loop, inspectOn, recordingOn>> /\ ToolsTyped
      /\ tasks[n].at = "created" /\ tasks' = [tasks EXCEPT ![n] = [at |-> "looking", steps |-> 0, suspended |-> inspectOn]]
      /\ exploring' = TRUE /\ shield' = (shield /\ ~inspectOn)
  BY DEF ExplorationBegins, Unmoved, ToolsInv
<1>2. /\ tasks' \in [Requests -> [at: {"none", "created", "looking", "acting", "finalizing"}, steps: Nat, suspended: BOOLEAN]]
      /\ tasks'[n].at = "looking" /\ tasks'[n].suspended = inspectOn
      /\ \A k \in Requests : k # n => tasks'[k] = tasks[k]
  BY <1>1 DEF ToolsTyped
<1>3. /\ Exploration /\ \A k \in Requests : Under(k) => k = n
      /\ ~Begun(n)
  BY <1>1 DEF ToolsInv, ExploresAlone, Under, Begun, Exploration
<1>4. /\ \A k \in Requests : (Under(k)' <=> Under(k)) /\ (Begun(k)' <=> k = n) /\ ~Begun(k)
      /\ Exploration'
      /\ \A a : Sent(a)' <=> Sent(a)
  BY <1>1, <1>2, <1>3 DEF Under, Begun, Exploration, Sent
<1>5. shield' = FALSE /\ loop.doing = "none"
  <2>1. ~exploring /\ loop.doing = "none"
    BY <1>3, <1>4 DEF ToolsInv, ExploresAlone, Idling
  <2>2. shield = inspectOn /\ {shield, inspectOn} \subseteq BOOLEAN
    BY <1>1, <2>1 DEF ToolsInv, ShieldIsKept, ToolsTyped
  <2> QED
    BY <1>1, <2>1, <2>2
<1>6. ToolsTyped' /\ OneClick'
  BY <1>1, <1>2, <1>5 DEF ToolsInv, ToolsTyped, OneClick
<1>7. ExploresAlone'
  BY <1>1, <1>3, <1>4 DEF ToolsInv, ExploresAlone, Idling
<1>8. ShieldIsKept'
  BY <1>1, <1>2, <1>4, <1>5 DEF ToolsInv, ShieldIsKept, Idling
<1>9. ButtonsFollow'
  <2>1. StartsFirst'
    BY <1>1 DEF ToolsInv, ButtonsFollow, StartsFirst
  <2> QED
    BY <1>1, <1>3, <1>4, <2>1 DEF ToolsInv, ButtonsFollow
<1>10. SwitchesFollow'
  BY <1>1, SwitchesKept
<1>11. InOrderAnswered'
  <2>1. ResultsOrdered' /\ \A k : Later(k) => Later(k)'
    BY <1>1 DEF ToolsInv, InOrderAnswered, ResultsOrdered, Later
  <2>2. \A k \in 1..Len(toSidecar) : toSidecar[k].action \in {"scan-page", "explore"} => Later(toSidecar[k].ask)'
    BY <1>1 DEF ToolsInv, InOrderAnswered, Later
  <2> QED
    BY <1>1, <1>4, <1>5, <2>1, <2>2 DEF ToolsInv, InOrderAnswered
<1> QED
  BY <1>6, <1>7, <1>8, <1>9, <1>10, <1>11 DEF ToolsInv

\* One that goes on stays begun, with the overlay off.
LEMMA GoesOn ==
  ASSUME ToolsInv, NEW n \in Requests, Begun(n), Unmoved, UNCHANGED <<exploring, shield>>,
         tasks' \in [Requests -> [at: {"none", "created", "looking", "acting", "finalizing"}, steps: Nat, suspended: BOOLEAN]],
         Begun(n)', tasks'[n].suspended = tasks[n].suspended, \A k \in Requests : k # n => tasks'[k] = tasks[k],
         \/ UNCHANGED toApp
         \/ \E m \in ToolMessage : toApp' = Append(toApp, m) /\ m.type = "explore_step"
  PROVE  ToolsInv'
<1>1. UNCHANGED <<ui, asks, toggles, toSidecar, loop, inspectOn, recordingOn, exploring, shield>> /\ ToolsTyped
  BY DEF Unmoved, ToolsInv
<1>2. /\ \A k \in Requests : (Under(k)' <=> Under(k)) /\ (Begun(k)' <=> Begun(k)) /\ tasks'[k].suspended = tasks[k].suspended
      /\ Exploration' /\ Exploration
      /\ \A a : Sent(a)' <=> Sent(a)
  BY <1>1 DEF Under, Begun, Exploration, Sent
<1>3. /\ toApp' \in Seq(ToolMessage) /\ StartsFirst' /\ ResultsOrdered' /\ \A k : Later(k) => Later(k)'
      /\ Ends(toApp', ScanTypes, ScanStarts, ui'.scan = "scanning") <=> Ends(toApp, ScanTypes, ScanStarts, ui.scan = "scanning")
      /\ Ends(toApp', VerifyTypes, {"verify_started"}, ui'.verifying) <=> Ends(toApp, VerifyTypes, {"verify_started"}, ui.verifying)
  <2>1. CASE UNCHANGED toApp
    <3>1. toApp' \in Seq(ToolMessage)
      BY <1>1, <2>1 DEF ToolsTyped
    <3>2. StartsFirst'
      BY <1>1, <2>1 DEF ToolsInv, ButtonsFollow, StartsFirst
    <3>3. ResultsOrdered' /\ \A k : Later(k) => Later(k)'
      BY <1>1, <2>1 DEF ToolsInv, InOrderAnswered, ResultsOrdered, Later
    <3> QED
      BY <1>1, <2>1, <3>1, <3>2, <3>3
  <2>2. CASE ~UNCHANGED toApp
    <3>1. PICK m \in ToolMessage : toApp' = Append(toApp, m) /\ m.type = "explore_step"
      BY <2>2
    <3>2. m.type \notin ScanTypes /\ m.type \notin VerifyTypes /\ m.type \notin ResultTypes
      BY <3>1 DEF ScanTypes, VerifyTypes, ResultTypes
    <3>3. toApp' \in Seq(ToolMessage)
      BY <1>1, <3>1, ToldFacts
    <3>4. StartsFirst'
      BY <1>1, <3>1, StartsKept
    <3>5. ResultsOrdered' /\ \A k : Later(k) => Later(k)'
      BY <1>1, <3>1, <3>2, ToldLater
    <3>6. /\ Ends(toApp', ScanTypes, ScanStarts, ui'.scan = "scanning") <=> Ends(toApp, ScanTypes, ScanStarts, ui.scan = "scanning")
          /\ Ends(toApp', VerifyTypes, {"verify_started"}, ui'.verifying) <=> Ends(toApp, VerifyTypes, {"verify_started"}, ui.verifying)
      BY <1>1, <3>1, <3>2, EndsKept
    <3> QED
      BY <3>3, <3>4, <3>5, <3>6
  <2> QED
    BY <2>1, <2>2
<1>4. loop.doing = "none" /\ ~Sent("scan-page")
  BY <1>2 DEF ToolsInv, ExploresAlone, Idling
<1>5. ToolsTyped' /\ OneClick'
  BY <1>1, <1>3 DEF ToolsInv, ToolsTyped, OneClick
<1>6. ExploresAlone'
  BY <1>1, <1>2 DEF ToolsInv, ExploresAlone, Idling
<1>7. ShieldIsKept'
  BY <1>1, <1>2 DEF ToolsInv, ShieldIsKept, Idling
<1>8. ButtonsFollow'
  BY <1>1, <1>2, <1>3, <1>4, LoopScan DEF ButtonsFollow
<1>9. SwitchesFollow'
  <2>1. \/ UNCHANGED toApp
        \/ \E m \in ToolMessage : toApp' = Append(toApp, m) /\ m.type \notin {"recording_started", "recording_stopped"}
    OBVIOUS
  <2> QED
    BY <1>1, <2>1, SwitchesKept
<1>10. InOrderAnswered'
  <2>1. ASSUME NEW k \in 1..Len(toSidecar), toSidecar[k].action \in {"scan-page", "explore"} PROVE Later(toSidecar[k].ask)'
    <3>1. PICK a : a = toSidecar[k].ask
      OBVIOUS
    <3>2. Later(a)'
      BY <1>3, <2>1, <3>1 DEF ToolsInv, InOrderAnswered
    <3> QED
      BY <1>1, <3>1, <3>2 DEF Later
  <2> QED
    BY <1>1, <1>2, <1>3, <1>4, <2>1 DEF ToolsInv, InOrderAnswered
<1> QED
  BY <1>5, <1>6, <1>7, <1>8, <1>9, <1>10 DEF ToolsInv

LEMMA LooksKeeps == ASSUME ToolsInv, NEW n \in Requests, Looks(n) PROVE ToolsInv'
<1>1. /\ ToolsTyped /\ tasks[n].at = "looking" /\ Unmoved /\ UNCHANGED <<exploring, shield>> /\ UNCHANGED toApp
      /\ \E at \in {"finalizing", "acting"} : tasks' = [tasks EXCEPT ![n].at = at]
  BY DEF Looks, At, ToolsInv
<1>4. PICK at \in {"finalizing", "acting"} : tasks' = [tasks EXCEPT ![n] = [tasks[n] EXCEPT !.at = at]]
  <2>1. PICK at \in {"finalizing", "acting"} : tasks' = [tasks EXCEPT ![n].at = at]
    BY <1>1
  <2> QED
    BY <2>1
<1>5. tasks[n] \in [at: {"none", "created", "looking", "acting", "finalizing"}, steps: Nat, suspended: BOOLEAN]
  BY <1>1 DEF ToolsTyped
<1>6. PICK t : t = [tasks[n] EXCEPT !.at = at]
  OBVIOUS
<1>7. /\ t \in [at: {"none", "created", "looking", "acting", "finalizing"}, steps: Nat, suspended: BOOLEAN]
      /\ t.at = at /\ t.suspended = tasks[n].suspended
  BY <1>5, <1>6
<1>2. /\ tasks' \in [Requests -> [at: {"none", "created", "looking", "acting", "finalizing"}, steps: Nat, suspended: BOOLEAN]]
      /\ tasks'[n].at \in {"finalizing", "acting"} /\ tasks'[n].suspended = tasks[n].suspended
      /\ \A k \in Requests : k # n => tasks'[k] = tasks[k]
  BY <1>1, <1>4, <1>6, <1>7 DEF ToolsTyped
<1>3. Begun(n) /\ Begun(n)'
  BY <1>1, <1>2 DEF Begun
<1> QED
  BY <1>1, <1>2, <1>3, GoesOn

LEMMA ActsKeeps == ASSUME ToolsInv, NEW n \in Requests, Acts(n) PROVE ToolsInv'
<1>1. /\ ToolsTyped /\ tasks[n].at = "acting" /\ Unmoved /\ UNCHANGED <<exploring, shield>>
      /\ tasks' = [tasks EXCEPT ![n] = [at |-> "looking", steps |-> tasks[n].steps + 1, suspended |-> tasks[n].suspended]]
      /\ toApp' = Append(toApp, Say("explore_step"))
  BY DEF Acts, Tell, ToolsInv
<1>5. tasks[n].steps \in Nat /\ tasks[n].suspended \in BOOLEAN
  BY <1>1 DEF ToolsTyped
<1>6. PICK t : t = [at |-> "looking", steps |-> tasks[n].steps + 1, suspended |-> tasks[n].suspended]
  OBVIOUS
<1>7. /\ t \in [at: {"none", "created", "looking", "acting", "finalizing"}, steps: Nat, suspended: BOOLEAN]
      /\ t.at = "looking" /\ t.suspended = tasks[n].suspended
  BY <1>5, <1>6
<1>2. /\ tasks' \in [Requests -> [at: {"none", "created", "looking", "acting", "finalizing"}, steps: Nat, suspended: BOOLEAN]]
      /\ tasks'[n].at = "looking" /\ tasks'[n].suspended = tasks[n].suspended
      /\ \A k \in Requests : k # n => tasks'[k] = tasks[k]
  BY <1>1, <1>6, <1>7 DEF ToolsTyped
<1>3. Begun(n) /\ Begun(n)'
  BY <1>1, <1>2 DEF Begun
<1>4. \E m \in ToolMessage : toApp' = Append(toApp, m) /\ m.type = "explore_step"
  BY <1>1, SayIs
<1> QED
  BY <1>1, <1>2, <1>3, <1>4, GoesOn

LEMMA ExplorationEndsKeeps == ASSUME ToolsInv, NEW n \in Requests, ExplorationEnds(n) PROVE ToolsInv'
<1>1. /\ ToolsTyped /\ tasks[n].at \in {"looking", "acting", "finalizing"} /\ Unmoved /\ tasks' = [tasks EXCEPT ![n] = NoTask]
      /\ exploring' = FALSE /\ shield' = (shield \/ (tasks[n].suspended /\ inspectOn))
      /\ UNCHANGED <<ui, asks, toggles, toSidecar, loop, inspectOn, recordingOn>>
  BY DEF ExplorationEnds, Back, Unmoved, ToolsInv
<1>2. PICK m \in ToolMessage : /\ toApp' = Append(toApp, m) /\ m.type \in {"explore_result", "explore_error"}
                               /\ m.type \in ResultTypes => m.ask = n
  <2>1. CASE Tell([type |-> "explore_result", ask |-> n])
    <3>1. [type |-> "explore_result", ask |-> n] \in ToolMessage
      BY DEF ToolMessage
    <3> QED
      BY <2>1, <3>1 DEF Tell
  <2>2. CASE Tell(Say("explore_error"))
    <3>1. Say("explore_error") \in ToolMessage /\ Say("explore_error").type = "explore_error"
      BY SayIs
    <3> QED
      BY <2>2, <3>1 DEF Tell, ResultTypes
  <2> QED
    BY <2>1, <2>2 DEF ExplorationEnds
<1>3. /\ tasks' \in [Requests -> [at: {"none", "created", "looking", "acting", "finalizing"}, steps: Nat, suspended: BOOLEAN]]
      /\ tasks'[n].at = "none" /\ \A k \in Requests : k # n => tasks'[k] = tasks[k]
  BY <1>1 DEF ToolsTyped, NoTask
<1>4. Begun(n) /\ Under(n) /\ Exploration /\ \A k \in Requests : Under(k) => k = n
  BY <1>1 DEF ToolsInv, ExploresAlone, Begun, Under, Exploration
<1>5. /\ \A k \in Requests : ~Under(k)' /\ ~Begun(k)'
      /\ ~Exploration'
      /\ \A a : Sent(a)' <=> Sent(a)
  BY <1>1, <1>3, <1>4 DEF Under, Begun, Exploration, Sent
<1>6. loop.doing = "none" /\ ~Sent("scan-page")
  BY <1>4 DEF ToolsInv, ExploresAlone, Idling
<1>7. shield' = inspectOn
  <2>1. ~shield /\ (inspectOn => tasks[n].suspended) /\ {shield, inspectOn, tasks[n].suspended} \subseteq BOOLEAN
    BY <1>1, <1>4 DEF ToolsInv, ShieldIsKept, ToolsTyped
  <2> QED
    BY <1>1, <2>1
<1>8. ToolsTyped' /\ OneClick'
  <2>1. toApp' \in Seq(ToolMessage)
    BY <1>1, <1>2, ToldFacts
  <2> QED
    BY <1>1, <1>3, <1>7, <2>1 DEF ToolsInv, ToolsTyped, OneClick
<1>9. ExploresAlone'
  BY <1>1, <1>5 DEF ToolsInv, ExploresAlone
<1>10. ShieldIsKept'
  BY <1>1, <1>5, <1>6, <1>7 DEF ToolsInv, ShieldIsKept, Idling
<1>11. ButtonsFollow'
  <2>1. StartsFirst'
    BY <1>1, <1>2, StartsKept
  <2>2. /\ ~Ends(toApp', ScanTypes, ScanStarts, ui'.scan = "scanning")
        /\ ~Ends(toApp', ExploreTypes, {"explore_started"}, ui'.exploring)
        /\ Ends(toApp', VerifyTypes, {"verify_started"}, ui'.verifying) <=> Ends(toApp, VerifyTypes, {"verify_started"}, ui.verifying)
    <3>1. m.type \in ScanTypes /\ m.type \notin ScanStarts /\ m.type \in ExploreTypes /\ m.type \notin VerifyTypes
      BY <1>2 DEF ScanTypes, ScanStarts, ExploreTypes, VerifyTypes
    <3> QED
      BY <1>1, <1>2, <3>1, EndsKept
  <2> QED
    BY <1>1, <1>5, <1>6, <2>1, <2>2, LoopScan DEF ButtonsFollow
<1>12. SwitchesFollow'
  BY <1>1, <1>2, SwitchesKept
<1>13. InOrderAnswered'
  <2>1. Later(n)
    BY <1>4 DEF ToolsInv, InOrderAnswered
  <2>2. /\ ResultsOrdered'
        /\ \A k \in Nat : Later(k) /\ n < k => Later(k)'
    <3>1. CASE m.type \in ResultTypes
      BY <1>1, <1>2, <2>1, <3>1, ToldLater
    <3>2. CASE m.type \notin ResultTypes
      BY <1>1, <1>2, <3>2, ToldLater
    <3> QED
      BY <3>1, <3>2
  <2>3. ASSUME NEW k \in 1..Len(toSidecar), toSidecar[k].action \in {"scan-page", "explore"} PROVE Later(toSidecar[k].ask)'
    <3>1. PICK a \in Nat : a = toSidecar[k].ask
      BY <1>1, <2>3, Fields DEF ToolsTyped
    <3>2. Later(a) /\ n < a
      BY <1>4, <2>3, <3>1 DEF ToolsInv, InOrderAnswered
    <3>3. Later(a)'
      BY <2>2, <3>2
    <3> QED
      BY <1>1, <3>1, <3>3 DEF Later
  <2> QED
    BY <1>1, <1>5, <1>6, <2>2, <2>3 DEF InOrderAnswered
<1> QED
  BY <1>8, <1>9, <1>10, <1>11, <1>12, <1>13 DEF ToolsInv

-----------------------------------------------------------------------------
LEMMA ToolsStep == ASSUME Watchful, Apart, ToolsInv, [ToolsNext]_toolVars PROVE ToolsInv'
<1>1. CASE ClickScan
  BY <1>1, ClickScanKeeps
<1>2. CASE ClickVerify
  <2>1. /\ MayClick /\ asks < MaxAsks /\ AppOnly /\ UNCHANGED ui /\ asks' = asks + 1 /\ Sends(<<Asks("verify")>>) /\ ~Exploration
    BY <1>2 DEF ClickVerify, MayDrive
  <2> QED
    BY <2>1, AskKeeps
<1>3. CASE ClickExplore
  <2>1. /\ MayClick /\ asks < MaxAsks /\ AppOnly /\ UNCHANGED ui /\ asks' = asks + 1 /\ Sends(<<Asks("explore")>>) /\ ~ui.recording
    BY <1>3 DEF ClickExplore
  <2> QED
    BY <2>1, AskKeeps
<1>4. CASE ClickStop
  BY <1>4, ClickStopKeeps
<1>5. CASE ClickInspect
  BY <1>5, ClickInspectKeeps
<1>6. CASE ClickRecord
  BY <1>6, ClickRecordKeeps
<1>7. CASE CloseResults
  BY <1>7, CloseResultsKeeps
<1>8. CASE Receive
  BY <1>8, ReceiveKeeps
<1>9. CASE TakeScan \/ EndScan \/ TakeVerify \/ EndVerify
  BY <1>9, TakeScanKeeps, EndScanKeeps, TakeVerifyKeeps, EndVerifyKeeps
<1>10. CASE TakeExplore \/ TakeStop \/ TakeToggle \/ TakeRecording
  BY <1>10, TakeExploreKeeps, TakeStopKeeps, TakeToggleKeeps, TakeRecordingKeeps
<1>11. ASSUME NEW n \in Requests, ExplorationBegins(n) \/ Looks(n) \/ Acts(n) \/ ExplorationEnds(n) PROVE ToolsInv'
  BY <1>11, BeginsKeeps, LooksKeeps, ActsKeeps, ExplorationEndsKeeps
<1>12. CASE UNCHANGED toolVars
  <2>1. UNCHANGED <<ui, asks, toggles, toSidecar, toApp, loop, tasks, exploring, cancelled, inspectOn, recordingOn, shield>>
    BY <1>12 DEF toolVars
  <2>2. /\ \A k \in Requests : (Under(k)' <=> Under(k)) /\ (Begun(k)' <=> Begun(k))
        /\ Exploration' <=> Exploration
        /\ \A a : Sent(a)' <=> Sent(a)
        /\ \A n : Later(n)' <=> Later(n)
    BY <2>1 DEF Under, Begun, Exploration, Sent, Later
  <2>3. ToolsTyped' /\ OneClick'
    BY <2>1 DEF ToolsInv, ToolsTyped, OneClick
  <2>4. ExploresAlone' /\ ShieldIsKept'
    BY <2>1, <2>2 DEF ToolsInv, ExploresAlone, ShieldIsKept, Idling
  <2>5. ButtonsFollow' /\ SwitchesFollow'
    BY <2>1, <2>2 DEF ToolsInv, ButtonsFollow, StartsFirst, SwitchesFollow, SwitchesTold
  <2>6. InOrderAnswered'
    BY <2>1, <2>2 DEF ToolsInv, InOrderAnswered, ResultsOrdered, Later
  <2> QED
    BY <2>3, <2>4, <2>5, <2>6 DEF ToolsInv
<1> QED
  BY <1>1, <1>2, <1>3, <1>4, <1>5, <1>6, <1>7, <1>8, <1>9, <1>10, <1>11, <1>12 DEF ToolsNext, ToolsServed

\* The page is acted on by one at a time, without the overlay and without a recording.
LEMMA InvDrives == ToolsInv => DrivesAlone
<1> SUFFICES ASSUME ToolsInv PROVE DrivesAlone
  OBVIOUS
<1>1. \A n \in Requests : tasks[n].at = "acting" => Under(n) /\ Begun(n) /\ Exploration
  BY DEF Under, Begun, Exploration
<1>2. Exploration => ~recordingOn /\ loop.doing = "none"
  BY DEF ToolsInv, ExploresAlone, Idling
<1>3. \A n \in Requests : Begun(n) => ~shield
  BY DEF ToolsInv, ShieldIsKept
<1>4. \A m, n \in Requests : Under(m) /\ Under(n) => m = n
  BY DEF ToolsInv, ExploresAlone
<1>5. loop.doing = "verify" => ~shield
  BY DEF ToolsInv, ShieldIsKept
<1> QED
  BY <1>1, <1>2, <1>3, <1>4, <1>5 DEF DrivesAlone

\* The results shown are the last, and at rest the buttons say what is.
LEMMA InvLast == ToolsInv => ResultsAreLast
<1> SUFFICES ASSUME ToolsInv PROVE ResultsAreLast
  OBVIOUS
<1>1. ToolsTyped /\ ui.shows \in Nat
  BY UiFields DEF ToolsInv
<1>2. \A n \in Requests : Under(n) => n > ui.shows
  <2>1. \A n \in Requests : n \in Nat /\ (Under(n) => ui.shows < n)
    BY Fields DEF ToolsInv, InOrderAnswered, Later
  <2> QED
    BY <1>1, <2>1
<1>3. \A i \in DOMAIN toApp : toApp[i].type \in {"page_scan_result", "explore_result"} => toApp[i].ask > ui.shows
  <2>1. DOMAIN toApp = 1..Len(toApp) /\ \A i \in 1..Len(toApp) : toApp[i].type \in ResultTypes => toApp[i].ask \in Nat
    BY <1>1, Fields DEF ToolsTyped
  <2>2. \A i \in 1..Len(toApp) : toApp[i].type \in ResultTypes => ui.shows < toApp[i].ask
    BY DEF ToolsInv, InOrderAnswered, ResultsOrdered
  <2> QED
    BY <1>1, <2>1, <2>2 DEF ResultTypes
<1>4. ASSUME ToolsAtRest
      PROVE  /\ ~ui.exploring /\ ~ui.verifying /\ ui.scan # "scanning" /\ ~exploring
             /\ ui.recording = recordingOn /\ ui.inspecting = inspectOn /\ shield = inspectOn
  <2>1. toSidecar = <<>> /\ toApp = <<>> /\ loop.doing = "none" /\ ~Exploration /\ \A a : ~Sent(a)
    BY <1>4, SentNone DEF ToolsAtRest, Idling
  <2>2. ~ui.exploring /\ ~ui.verifying /\ ui.scan # "scanning"
    <3>1. \A T : Among(toApp, T) = {}
      BY <2>1 DEF Among
    <3> QED
      BY <2>1, <3>1, LoopScan DEF Ends
  <2>3. ~exploring
    BY <2>1 DEF ToolsInv, ExploresAlone, Exploration, Under, Begun
  <2>4. ui.recording = recordingOn /\ ui.inspecting = inspectOn
    BY <2>1 DEF ToolsInv, SwitchesFollow
  <2>5. shield = inspectOn
    BY <2>1, <2>3 DEF ToolsInv, ShieldIsKept
  <2> QED
    BY <2>2, <2>3, <2>4, <2>5
<1> QED
  BY <1>2, <1>3, <1>4 DEF ResultsAreLast

\* For any number of requests and clicks: while a click waits until the last one
\* shows and nothing is switched on during an exploration, what acts on the page
\* acts alone (the flags of local_sidecar.py and the overlay of browser.py).
THEOREM PageIsDrivenAlone ==
  ASSUME Watchful, Apart PROVE ToolsSpec => []DrivesAlone
<1>1. ToolsInv /\ [ToolsNext]_toolVars => ToolsInv'
  BY ToolsStep
<1> QED
  BY <1>1, ToolsStart, InvDrives, PTL DEF ToolsSpec

\* Under the same conditions late results never replace newer ones, and when nothing
\* is under way the app shows what the page and the session are.
THEOREM LateResultsAreNotShown ==
  ASSUME Watchful, Apart PROVE ToolsSpec => []ResultsAreLast
<1>1. ToolsInv /\ [ToolsNext]_toolVars => ToolsInv'
  BY ToolsStep
<1> QED
  BY <1>1, ToolsStart, InvLast, PTL DEF ToolsSpec
=============================================================================
