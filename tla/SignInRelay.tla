----------------------------- MODULE SignInRelay -----------------------------
(***************************************************************************)
(* Signing in to the desktop app.  Google is visited in the system         *)
(* browser; its callback page (callback/page.tsx) leaves the code in a     *)
(* slot of the sidecar, and the login page (login/page.tsx), which polls   *)
(* the slot, takes it out and exchanges it.  The state of an attempt tells *)
(* its code from one that an earlier attempt left behind.                  *)
(*                                                                         *)
(* Attempts are numbered and the number is state and code; 0 is none.  The *)
(* slot's age limit is left out: an attempt empties the slot when it       *)
(* begins and polls until it ends, so nothing in it grows old.             *)
(***************************************************************************)
EXTENDS Naturals

CONSTANTS
  MaxSignIns,  \* bounds on the attempts and on the times the sidecar stops
  MaxOutages,
  Unhurried,   \* Sign in is not clicked while an earlier attempt's loop still runs
  NoLateTabs   \* the tab of an earlier attempt does not overwrite the code that is
               \* waited for, the sidecar does not stop with it, and a loop does
               \* not reach its deadline in the seconds between code and poll

ASSUME SignInAssumption ==
  {MaxSignIns, MaxOutages} \subseteq Nat /\ {Unhurried, NoLateTabs} \subseteq BOOLEAN

VARIABLES
  login,      \* isWaitingExternal, what the page says, the attempt that signed in
  oauthState, \* of the local storage
  pollCancelled,
  pollers,    \* per attempt: where its handler is, and the code its poll returned
  tabs,       \* per attempt: its page in the system browser
  slot,
  relayUp, outages \* the sidecar

signInVars == <<login, oauthState, pollCancelled, pollers, tabs, slot, relayUp, outages>>

SignIns == 1..MaxSignIns

SignInTypeOK ==
  /\ login \in [waiting: BOOLEAN, says: {"nothing", "failed", "timed out"}, as: 0..MaxSignIns]
  /\ oauthState \in 0..MaxSignIns /\ slot \in 0..MaxSignIns /\ outages \in 0..MaxOutages
  /\ pollers \in [SignIns -> [at: {"none", "checking", "flushing", "opening", "sleeping", "answered",
                                   "exchanging"}, code: 0..MaxSignIns]]
  /\ tabs \in [SignIns -> {"none", "google", "relaying", "complete", "failed"}]
  /\ {pollCancelled, relayUp} \subseteq BOOLEAN

NoPoller == [at |-> "none", code |-> 0]

SignInInit ==
  /\ login = [waiting |-> FALSE, says |-> "nothing", as |-> 0]
  /\ oauthState = 0 /\ pollCancelled = FALSE /\ slot = 0 /\ outages = 0 /\ relayUp = FALSE
  /\ pollers = [n \in SignIns |-> NoPoller] /\ tabs = [n \in SignIns |-> "none"]

Runs(n) == pollers[n].at # "none"
Moves(n, from, to) ==
  pollers[n].at = from /\ pollers' = [pollers EXCEPT ![n] = [at |-> to, code |-> 0]]
\* The finally of the handler, whichever attempt it is of.
Finishes(n, says) ==
  /\ pollers' = [pollers EXCEPT ![n] = NoPoller]
  /\ login' = [login EXCEPT !.waiting = FALSE, !.says = IF says = "nothing" THEN @ ELSE says]

-----------------------------------------------------------------------------
(* The login page.                                                         *)

ClickSignIn ==
  /\ ~login.waiting /\ login.as = 0 /\ oauthState < MaxSignIns
  /\ Unhurried => \A n \in SignIns : ~Runs(n)
  /\ oauthState' = oauthState + 1 /\ login' = [login EXCEPT !.says = "nothing"]
  /\ Moves(oauthState + 1, "none", "checking")
  /\ UNCHANGED <<pollCancelled, tabs, slot, relayUp, outages>>

\* The preflight: without the sidecar there is no point in going on.
Checked(n) ==
  /\ pollers[n].at = "checking"
  /\ IF relayUp THEN Moves(n, "checking", "flushing") /\ UNCHANGED login ELSE Finishes(n, "failed")
  /\ UNCHANGED <<oauthState, pollCancelled, tabs, slot, relayUp, outages>>

SlotEmptied(n) ==
  /\ Moves(n, "flushing", "opening")
  /\ slot' = IF relayUp THEN 0 ELSE slot
  /\ UNCHANGED <<login, oauthState, pollCancelled, tabs, relayUp, outages>>

BrowserOpened(n) ==
  /\ Moves(n, "opening", "sleeping")
  /\ login' = [login EXCEPT !.waiting = TRUE] /\ pollCancelled' = FALSE
  /\ tabs' = [tabs EXCEPT ![n] = "google"]
  /\ UNCHANGED <<oauthState, slot, relayUp, outages>>

ClickCancel ==
  /\ login.waiting /\ login' = [login EXCEPT !.waiting = FALSE] /\ pollCancelled' = TRUE
  /\ UNCHANGED <<oauthState, pollers, tabs, slot, relayUp, outages>>

\* pop_auth_bridge_code empties the slot whatever is in it.
Polls(n) ==
  /\ pollers[n].at = "sleeping"
  /\ pollers' = [pollers EXCEPT ![n] = [at |-> "answered", code |-> IF relayUp THEN slot ELSE 0]]
  /\ slot' = IF relayUp THEN 0 ELSE slot
  /\ UNCHANGED <<login, oauthState, pollCancelled, tabs, relayUp, outages>>

\* Deviation: any code will do.
IsOursIfAny(code) == code # 0
IsOurs(code) == code # 0 /\ code = oauthState

\* A code of another attempt is dropped.
Looked(n) ==
  LET code == pollers[n].code IN
  /\ pollers[n].at = "answered"
  /\ \/ pollCancelled /\ Finishes(n, "nothing")
     \/ /\ ~pollCancelled /\ IsOurs(code)
        /\ pollers' = [pollers EXCEPT ![n].at = "exchanging"] /\ UNCHANGED login
     \/ ~pollCancelled /\ ~IsOurs(code) /\ Moves(n, "answered", "sleeping") /\ UNCHANGED login
     \/ /\ ~pollCancelled /\ ~IsOurs(code) /\ (NoLateTabs => slot # oauthState)
        /\ Finishes(n, "timed out")
  /\ UNCHANGED <<oauthState, pollCancelled, tabs, slot, relayUp, outages>>

\* handleLogin.  Signed in, the page is left.
ExchangeEnds(n) ==
  /\ pollers[n].at = "exchanging"
  /\ \/ /\ pollers' = [pollers EXCEPT ![n] = NoPoller] /\ pollCancelled' = TRUE
        /\ login' = [login EXCEPT !.waiting = FALSE, !.as = pollers[n].code]
     \/ Finishes(n, "failed") /\ UNCHANGED pollCancelled
  /\ UNCHANGED <<oauthState, tabs, slot, relayUp, outages>>

-----------------------------------------------------------------------------
(* The system browser and the sidecar.                                     *)

TabIs(n, from, to) ==
  /\ tabs[n] = from /\ tabs' = [tabs EXCEPT ![n] = to]
  /\ UNCHANGED <<login, oauthState, pollCancelled, pollers, relayUp, outages>>

\* Google sends the user back, with a code or an error.
GoogleReturns(n) == UNCHANGED slot /\ (TabIs(n, "google", "relaying") \/ TabIs(n, "google", "failed"))

\* The page tries until the sidecar takes the code, but not forever.
Relays(n) ==
  \/ /\ relayUp /\ slot' = n /\ TabIs(n, "relaying", "complete")
     /\ NoLateTabs /\ n # oauthState => slot # oauthState
  \/ ~relayUp /\ UNCHANGED slot /\ TabIs(n, "relaying", "failed")

SidecarUp ==
  /\ ~relayUp /\ relayUp' = TRUE /\ slot' = 0
  /\ UNCHANGED <<login, oauthState, pollCancelled, pollers, tabs, outages>>
SidecarDown ==
  /\ relayUp /\ outages < MaxOutages /\ (NoLateTabs => slot = 0)
  /\ relayUp' = FALSE /\ outages' = outages + 1 /\ slot' = 0
  /\ UNCHANGED <<login, oauthState, pollCancelled, pollers, tabs>>

SignInNext ==
  \/ ClickSignIn \/ ClickCancel \/ SidecarUp \/ SidecarDown
  \/ \E n \in SignIns :
       \/ Checked(n) \/ SlotEmptied(n) \/ BrowserOpened(n) \/ Polls(n) \/ Looked(n) \/ ExchangeEnds(n)
       \/ GoogleReturns(n) \/ Relays(n)

SignInSpec == SignInInit /\ [][SignInNext]_signInVars

-----------------------------------------------------------------------------
(* Properties.                                                             *)

Polling == {n \in SignIns : pollers[n].at \in {"sleeping", "answered", "exchanging"}}

\* While the page says that it waits, one loop polls, and a loop that polls while
\* it does not say so has been cancelled.  A code that is exchanged is the one of
\* the last attempt (login/page.tsx:110-114), and the app does not say that it
\* timed out when the browser has said "Sign-in complete" for that attempt.
SignInArrives ==
  /\ [](/\ login.waiting => Polling # {} /\ \A m, n \in Polling : m = n
        /\ Polling # {} => login.waiting \/ pollCancelled)
  /\ [][/\ login'.as # login.as => login'.as = oauthState
        /\ login.says = "nothing" /\ login'.says = "timed out" => tabs[oauthState] # "complete"]_signInVars
===============================================================================
