----------------------------- MODULE BrowserTabs -----------------------------
(***************************************************************************)
(* The tabs of one browser session of the web explorer: the pages of the   *)
(* headed browser as the sidecar tracks them (local_sidecar.py) and the    *)
(* tab strip of the app (WebExplorerContext.tsx), joined by a WebSocket.   *)
(*                                                                         *)
(* The user opens, closes and reloads pages in the browser's own window    *)
(* and switches or closes tabs in the app.  The sidecar takes the app's    *)
(* commands one at a time, and the events of the browser in tasks of their *)
(* own that run between any two awaits of the others.  Moving the picture  *)
(* to another page takes two steps: the old stream is read and stopped,    *)
(* then the new one is started.                                            *)
(*                                                                         *)
(* Positions count from 1.  A page stands for its URL and its window.      *)
(***************************************************************************)
EXTENDS Naturals, Sequences, FiniteSets, SequencesExt

CONSTANTS
  BrowserPages,  \* the pages the browser can ever open
  NoPage,        \* no page is being streamed
  MaxClicks,     \* bound on the clicks in the app
  MaxReloads,    \* bound on navigations
  Calm           \* pages load one at a time, nothing else happens while one
                 \* closes, and none opens after the last has closed

ASSUME BrowserTabsAssumption ==
  /\ BrowserPages # {} /\ IsFiniteSet(BrowserPages) /\ NoPage \notin BrowserPages
  /\ {MaxClicks, MaxReloads} \subseteq Nat /\ Calm \in BOOLEAN

VARIABLES
  pages,      \* session["pages"]
  active,     \* session["active_page_index"]
  inspect,    \* session["inspect_enabled"]
  overlay,    \* the pages whose inspect overlay is on
  opening,    \* pages whose handle_new_page task waits for the load
  closing,    \* pages that are closed but whose handle_page_close has not run
  restarts,   \* calls of start_screencast that have read the old stream
  cdp,        \* screencast_ref["cdp"]: the page of the stream last started
  streams,    \* the pages that are being streamed
  commands,   \* from the app, not yet taken by the loop
  messages,   \* to the app, not yet handled
  up,         \* the loop that takes the commands runs
  app,        \* the app's tabs, activeTabIndex and inspectMode
  opened,     \* the pages that were ever opened (a bound)
  clicks, reloads

tabVars == <<pages, active, inspect, overlay, opening, closing, restarts, cdp, streams,
             commands, messages, up, app, opened, clicks, reloads>>

Command == [action: {"switch_tab", "close_tab"}, index: 1..Cardinality(BrowserPages)]
           \union [action: {"toggle-inspect"}, enabled: BOOLEAN]
Message == [type: {"tab_opened"}, page: BrowserPages]
           \union [type: {"tab_closed"}, index: 1..Cardinality(BrowserPages),
                   active: 1..Cardinality(BrowserPages)]

TabsTypeOK ==
  /\ pages \in Seq(BrowserPages) /\ Len(pages) <= Cardinality(BrowserPages)
  /\ active \in 1..Cardinality(BrowserPages) /\ {inspect, up} \subseteq BOOLEAN
  /\ UNION {overlay, opening, closing, streams, opened} \subseteq BrowserPages
  /\ cdp \in BrowserPages \union {NoPage}
  /\ restarts \subseteq [page: BrowserPages, old: BrowserPages \union {NoPage},
                         closed: 0..Cardinality(BrowserPages), told: 1..Cardinality(BrowserPages)]
  /\ commands \in Seq(Command) /\ messages \in Seq(Message)
  /\ app \in [tabs: Seq(BrowserPages), active: 1..Cardinality(BrowserPages), inspecting: BOOLEAN]
  /\ clicks \in 0..MaxClicks /\ reloads \in 0..MaxReloads

\* The session is registered, its first page streams and the app has had "status".
TabsInit ==
  /\ LET p == CHOOSE q \in BrowserPages : TRUE IN
       /\ pages = <<p>> /\ opened = {p} /\ cdp = p /\ streams = {p}
       /\ app = [tabs |-> <<p>>, active |-> 1, inspecting |-> FALSE]
  /\ active = 1 /\ inspect = FALSE /\ up = TRUE /\ overlay = {} /\ opening = {} /\ closing = {}
  /\ restarts = {} /\ commands = <<>> /\ messages = <<>> /\ clicks = 0 /\ reloads = 0

-----------------------------------------------------------------------------
(* Helpers.                                                                *)

\* A closing of a page is on its way: asked for, under way, or not yet told.
ClosingUnderWay ==
  \/ closing # {}
  \/ \E r \in restarts : r.closed # 0
  \/ \E i \in 1..Len(commands) : commands[i].action = "close_tab"
  \/ \E i \in 1..Len(messages) : messages[i].type = "tab_closed"

\* Nothing is on its way between the browser, the sidecar and the app.
TabsAtRest == opening = {} /\ closing = {} /\ restarts = {} /\ commands = <<>> /\ messages = <<>>

MayAct == Calm => ~ClosingUnderWay
MayClose == Calm => TabsAtRest

\* The command loop waits for a switch to finish.
LoopBusy == \E r \in restarts : r.closed = 0

\* What is active once the page at position i is gone.
ActiveAfter(i) ==
  IF i < active THEN active - 1
  ELSE IF i = active THEN IF active < Len(pages) THEN active ELSE Len(pages) - 1
  ELSE active

\* The app's list without position i.
TabsWithoutLast(i) == SubSeq(app.tabs, 1, Len(app.tabs) - 1)
TabsWithout(i) ==
  SubSeq(app.tabs, 1, i - 1) \o SubSeq(app.tabs, i + 1, Len(app.tabs))

-----------------------------------------------------------------------------
(* In the browser's window.                                                *)

\* handle_new_page: the page is listed at once and announced when it has loaded.
PageOpens(p) ==
  /\ up /\ p \notin opened /\ MayAct /\ (Calm => opening = {} /\ pages # <<>>)
  /\ opened' = opened \union {p}
  /\ pages' = Append(pages, p)
  /\ opening' = opening \union {p}
  /\ UNCHANGED <<active, inspect, overlay, closing, restarts, cdp, streams, commands, messages, up,
                 app, clicks, reloads>>

\* It has loaded, or ten seconds have passed.
PageLoaded(p) ==
  /\ p \in opening
  /\ opening' = opening \ {p}
  /\ messages' = IF up THEN Append(messages, [type |-> "tab_opened", page |-> p]) ELSE messages
  /\ UNCHANGED <<pages, active, inspect, overlay, closing, restarts, cdp, streams, commands, up, app,
                 opened, clicks, reloads>>

\* A navigation drops the overlay; handle_nav puts it back while inspect is on.
Navigates(p) ==
  /\ up /\ p \in Range(pages) \ closing /\ reloads < MaxReloads
  /\ reloads' = reloads + 1
  /\ overlay' = IF inspect THEN overlay \union {p} ELSE overlay \ {p}
  /\ UNCHANGED <<pages, active, inspect, opening, closing, restarts, cdp, streams, commands, messages,
                 up, app, opened, clicks>>

\* What the browser drops with a page.
PageGone(p) == closing' = closing \union {p} /\ overlay' = overlay \ {p} /\ streams' = streams \ {p}

UserClosesPage(p) ==
  /\ up /\ p \in Range(pages) \ closing /\ MayClose
  /\ PageGone(p)
  /\ UNCHANGED <<pages, active, inspect, opening, restarts, cdp, commands, messages, up, app, opened,
                 clicks, reloads>>

-----------------------------------------------------------------------------
(* In the sidecar.                                                         *)

\* handle_page_close, up to the await of start_screencast if there is one.
PageCloseHandled(p) ==
  /\ p \in closing
  /\ closing' = closing \ {p}
  /\ IF ~up \/ p \notin Range(pages) THEN UNCHANGED <<pages, active, restarts, messages>>
     ELSE LET i == CHOOSE n \in 1..Len(pages) : pages[n] = p
              now == ActiveAfter(i)
          IN /\ pages' = RemoveAt(pages, i)
             /\ IF Len(pages) = 1 THEN UNCHANGED <<active, restarts, messages>>
                ELSE /\ active' = now
                     /\ IF i = active
                        THEN /\ restarts' = restarts \union {[page |-> pages'[now], old |-> cdp,
                                                            closed |-> i, told |-> now]}
                             /\ UNCHANGED messages
                        ELSE /\ messages' = Append(messages, [type |-> "tab_closed", index |-> i, active |-> now])
                             /\ UNCHANGED restarts
  /\ UNCHANGED <<inspect, overlay, opening, cdp, streams, commands, up, app, opened, clicks, reloads>>

\* start_screencast has stopped the old stream and starts the new one, which
\* fails if the page is closed.  A closing then tells the app the index that
\* was computed before the await; a switch shows the overlay while inspect is on.
Restarted(r) ==
  /\ r \in restarts
  /\ restarts' = restarts \ {r}
  /\ IF r.page \in Range(pages) \ closing
     THEN cdp' = r.page /\ streams' = (streams \ {r.old}) \union {r.page}
     ELSE UNCHANGED cdp /\ streams' = streams \ {r.old}
  /\ IF r.closed = 0
     THEN /\ overlay' = IF inspect /\ r.page \notin closing THEN overlay \union {r.page} ELSE overlay
          /\ UNCHANGED messages
     ELSE /\ messages' =
               IF up THEN Append(messages, [type |-> "tab_closed", index |-> r.closed,
                                            active |-> r.told])
               ELSE messages
          /\ UNCHANGED overlay
  /\ UNCHANGED <<pages, active, inspect, opening, closing, commands, up, app, opened, clicks, reloads>>

TakeCommand == commands' = Tail(commands)
CommandIs(action) == up /\ ~LoopBusy /\ commands # <<>> /\ pages # <<>> /\ commands[1].action = action

SwitchTab ==
  /\ CommandIs("switch_tab") /\ TakeCommand
  /\ LET i == commands[1].index IN
       IF i \in 1..Len(pages) /\ i # active
       THEN /\ active' = i
            /\ restarts' = restarts \union {[page |-> pages[i], old |-> cdp, closed |-> 0, told |-> i]}
       ELSE UNCHANGED <<active, restarts>>
  /\ UNCHANGED <<pages, inspect, overlay, opening, closing, cdp, streams, messages, up, app, opened,
                 clicks, reloads>>

\* The page's "close" event does the bookkeeping.
CloseTab ==
  /\ CommandIs("close_tab") /\ TakeCommand
  /\ IF commands[1].index \in 1..Len(pages) /\ Len(pages) > 1 THEN PageGone(pages[commands[1].index])
     ELSE UNCHANGED <<closing, overlay, streams>>
  /\ UNCHANGED <<pages, active, inspect, opening, restarts, cdp, messages, up, app, opened, clicks, reloads>>

\* Only the active page's overlay follows the switch.
ToggleInspect ==
  /\ CommandIs("toggle-inspect") /\ TakeCommand
  /\ inspect' = commands[1].enabled
  /\ overlay' = IF inspect' /\ pages[active] \notin closing THEN overlay \union {pages[active]}
                ELSE overlay \ {pages[active]}
  /\ UNCHANGED <<pages, active, opening, closing, restarts, cdp, streams, messages, up, app, opened,
                 clicks, reloads>>

\* With no page left a command raises, which ends the session; the app shows
\* that it is not connected and drops inspect.
NoPageLeft ==
  /\ up /\ commands # <<>> /\ pages = <<>>
  /\ up' = FALSE /\ commands' = <<>> /\ messages' = <<>>
  /\ app' = [app EXCEPT !.inspecting = FALSE]
  /\ UNCHANGED <<pages, active, inspect, overlay, opening, closing, restarts, cdp, streams, opened,
                 clicks, reloads>>

-----------------------------------------------------------------------------
(* In the app.                                                             *)

Click == up /\ clicks < MaxClicks /\ MayAct /\ clicks' = clicks + 1
SendCommand(command) == commands' = Append(commands, command)

\* The strip is shown with two tabs or more.
UserSwitchesTab(i) ==
  /\ Click /\ Len(app.tabs) > 1 /\ i \in 1..Len(app.tabs)
  /\ app' = [app EXCEPT !.active = i]
  /\ SendCommand([action |-> "switch_tab", index |-> i])
  /\ UNCHANGED <<pages, active, inspect, overlay, opening, closing, restarts, cdp, streams, messages,
                 up, opened, reloads>>

\* The first tab has no button to close it.
UserClosesTab(i) ==
  /\ Click /\ MayClose /\ i \in 2..Len(app.tabs)
  /\ SendCommand([action |-> "close_tab", index |-> i])
  /\ UNCHANGED <<pages, active, inspect, overlay, opening, closing, restarts, cdp, streams, messages,
                 up, app, opened, reloads>>

UserTogglesInspect ==
  /\ Click
  /\ app' = [app EXCEPT !.inspecting = ~@]
  /\ SendCommand([action |-> "toggle-inspect", enabled |-> ~app.inspecting])
  /\ UNCHANGED <<pages, active, inspect, overlay, opening, closing, restarts, cdp, streams, messages,
                 up, opened, reloads>>

MessageHandled ==
  /\ messages # <<>> /\ messages' = Tail(messages)
  /\ LET m == messages[1] IN
       app' = IF m.type = "tab_opened" THEN [app EXCEPT !.tabs = Append(@, m.page)]
              ELSE [app EXCEPT !.tabs = TabsWithout(m.index), !.active = m.active]
  /\ UNCHANGED <<pages, active, inspect, overlay, opening, closing, restarts, cdp, streams, commands,
                 up, opened, clicks, reloads>>

-----------------------------------------------------------------------------
TabsNext ==
  \/ \E p \in BrowserPages : \/ PageOpens(p) \/ PageLoaded(p) \/ Navigates(p)
                           \/ UserClosesPage(p) \/ PageCloseHandled(p)
  \/ \E r \in restarts : Restarted(r)
  \/ SwitchTab \/ CloseTab \/ ToggleInspect \/ NoPageLeft
  \/ \E i \in 1..Cardinality(BrowserPages) : UserSwitchesTab(i) \/ UserClosesTab(i)
  \/ UserTogglesInspect \/ MessageHandled

TabsSpec == TabsInit /\ [][TabsNext]_tabVars

-----------------------------------------------------------------------------
(* Properties.                                                             *)

\* Once everything sent and started has been handled, the tab strip lists the
\* pages of the browser in their order, the highlighted tab is the active page
\* - the one that inspect, verify and clicks go to - and the picture is of that
\* page and of no other.
ShownIsActive ==
  up /\ TabsAtRest /\ pages # <<>> =>
    app.tabs = pages /\ app.active = active /\ streams = {pages[active]}

===============================================================================
