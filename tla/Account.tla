-------------------------------- MODULE Account --------------------------------
(***************************************************************************)
(* The web panel of the Parlons account, which lets a caller in against a   *)
(* one-time ticket kept in a file, and its three callers: the panel API of  *)
(* the main process (main/parlonsapi.js), the Parlons tab (ParlonsView.tsx) *)
(* and the link for the user's browser (main/parlons.js).                   *)
(*                                                                         *)
(* The account is external: it mints the next ticket the instant one is     *)
(* used, and the sessions it has given end with it.                         *)
(*                                                                         *)
(* Simplifications: pushed statuses and replies of the main process arrive   *)
(* in the order they were sent; the account takes longer to come up than a   *)
(* status check takes.                                                       *)
(***************************************************************************)
EXTENDS Integers

CONSTANTS
  PanelCall,        \* calls of the panel API that may be under way at once
  MaxAccountStarts, \* bound: starts of the node
  MaxApiCalls,      \* bound: calls of the API
  MaxCheckFails,    \* bound: status checks that fail
  MaxLinkTries      \* retries of the sign-in link (20 in the code)

ASSUME AccountAssumption ==
  /\ {MaxAccountStarts, MaxApiCalls, MaxCheckFails, MaxLinkTries} \subseteq Nat
  /\ PanelCall \cap {"tab", "browser"} = {}

VARIABLES
  accountStarts, accountNode,     \* startedTs of the node: the number of its start, and whether it runs
  serving, logged,    \* the account answers; parlons.ready of the node's snapshot
  ticketFile,         \* panel-ticket.txt
  held,               \* the tickets that were read and not yet shown to the account
  cookie,             \* of parlonsapi.js; "none" is the empty string
  apiPc, sentCookie, disturbed,   \* the API's calls; history: why one may fail
  apiCalls, checkFails,           \* history
  checked, checkDue,  \* ParlonsView: st and statusError; a check that the status asked for
  loadedFor, guest,   \* the start the panel was loaded for; the webview
  getting, linkTries, linkError,  \* its effect `get`
  spoilt              \* history: who has used the ticket that the tab had read

panelVars == <<accountStarts, accountNode, serving, logged, ticketFile>>
apiVars == <<cookie, apiPc, sentCookie, disturbed, apiCalls>>
viewVars == <<checked, checkDue, loadedFor, guest, getting, linkTries, linkError, checkFails>>
accountVars == <<panelVars, held, apiVars, viewVars, spoilt>>

Holder == PanelCall \cup {"tab", "browser"}

AccountTypeOK ==
  /\ accountStarts \in 0..MaxAccountStarts /\ accountNode \in BOOLEAN /\ serving \in BOOLEAN /\ logged \in BOOLEAN
  /\ ticketFile \in {"none", "fresh", "used"} /\ held \in [Holder -> {"none", "fresh", "used"}]
  /\ cookie \in {"none", "valid", "stale"} /\ apiCalls \in 0..MaxApiCalls
  /\ apiPc \in [PanelCall -> {"idle", "sign in", "post", "sign in again", "post again", "ok", "failed"}]
  /\ sentCookie \in [PanelCall -> {"none", "valid", "stale"}] /\ disturbed \in [PanelCall -> BOOLEAN]
  /\ checked \in {"unknown", "ready", "not ready", "failed"} /\ checkDue \in BOOLEAN
  /\ loadedFor \in 0..MaxAccountStarts /\ guest \in {"none", "loading", "panel", "refused"}
  /\ getting \in {"no", "asked", "retry"} /\ linkTries \in 0..MaxLinkTries + 1
  /\ linkError \in BOOLEAN /\ checkFails \in 0..MaxCheckFails /\ spoilt \in {"nobody", "api", "browser"}

AccountInit ==
  /\ accountStarts = 0 /\ accountNode = FALSE /\ serving = FALSE /\ logged = FALSE /\ ticketFile \in {"none", "used"}
  /\ held = [h \in Holder |-> "none"] /\ cookie = "none" /\ apiCalls = 0 /\ checkFails = 0
  /\ apiPc = [c \in PanelCall |-> "idle"] /\ sentCookie = [c \in PanelCall |-> "none"]
  /\ disturbed = [c \in PanelCall |-> FALSE]
  /\ checked = "unknown" /\ checkDue = TRUE /\ loadedFor = 0 /\ guest = "none"
  /\ getting = "no" /\ linkTries = 0 /\ linkError = FALSE /\ spoilt = "nobody"

-----------------------------------------------------------------------------
(* The account and the node that hosts it.                                  *)

\* A ticket is shown to the account: the others who have read it are late.
Spend(h) ==
  held' = [x \in Holder |-> IF x = h THEN "none" ELSE IF held[x] = "fresh" THEN "used" ELSE held[x]]

SpoiltBy(who) == spoilt' = IF held["tab"] = "fresh" THEN who ELSE spoilt

\* What a reader of the file finds: it may be being rewritten.
Found == {ticketFile, "none"}

Signing == {c \in PanelCall : apiPc[c] \in {"sign in", "sign in again"}}
Busy == {c \in PanelCall : apiPc[c] \notin {"idle", "ok", "failed"}}

\* A sign-in that another one overlaps has an excuse to fail.
Late(h) == [c \in PanelCall |-> disturbed[c] \/ (c \in Signing \ {h} /\ held[c] = "fresh")]

\* ParlonsView: the key of the panel's session, 0 when there is none.
SessionKey(seen, up, n) == IF seen = "ready" /\ up THEN n ELSE 0

\* The effect does not run for a failed check: the panel is taken off the page, and put
\* back with the link it had.
BadEffect(seen, up, n) ==
  LET key == SessionKey(seen, up, n) IN
  /\ UNCHANGED <<linkTries, linkError>>
  /\ IF key = 0
       THEN /\ guest' = "none" /\ getting' = "no"
            /\ loadedFor' = IF seen = "failed" THEN loadedFor ELSE 0
       ELSE /\ getting' = IF key # loadedFor THEN "asked" ELSE getting
            /\ guest' = IF key = loadedFor /\ guest = "none" THEN "loading" ELSE guest
            /\ UNCHANGED loadedFor

\* The effect of ParlonsView that keeps one panel session for each start of the node:
\* it runs when the key or what was checked changes.
Effect(seen, up, n) ==
  LET key == SessionKey(seen, up, n) IN
  IF key = SessionKey(checked, accountNode, accountStarts) /\ (seen = "failed") = (checked = "failed")
    THEN UNCHANGED <<loadedFor, guest, getting, linkTries, linkError>>
  ELSE IF key = 0
    THEN /\ loadedFor' = 0 /\ guest' = "none" /\ getting' = "no"
         /\ UNCHANGED <<linkTries, linkError>>
  ELSE /\ getting' = IF key # loadedFor THEN "asked" ELSE "no"
       /\ linkTries' = 0 /\ linkError' = FALSE /\ UNCHANGED <<loadedFor, guest>>

\* _start(): the flags of the last account are cleared.
NodeStarts ==
  /\ ~accountNode /\ accountStarts < MaxAccountStarts /\ accountStarts' = accountStarts + 1 /\ accountNode' = TRUE
  /\ logged' = FALSE /\ checkDue' = TRUE /\ Effect(checked, TRUE, accountStarts + 1)
  /\ UNCHANGED <<serving, ticketFile, held, apiVars, checked, checkFails, spoilt>>

\* The account writes its first ticket as it comes up.
AccountComes ==
  /\ accountNode /\ ~serving /\ ~checkDue /\ serving' = TRUE /\ ticketFile' = "fresh"
  /\ UNCHANGED <<accountStarts, accountNode, logged, held, apiVars, viewVars, spoilt>>

\* The node's log line "account up", or the health poll that finds the panel listening.
AccountNoticed ==
  /\ serving /\ ~logged /\ logged' = TRUE /\ checkDue' = TRUE
  /\ UNCHANGED <<accountStarts, accountNode, serving, ticketFile, held, apiVars, spoilt>>
  /\ UNCHANGED <<checked, loadedFor, guest, getting, linkTries, linkError, checkFails>>

\* The node stops or dies: its file stays, and nothing in it is worth anything.
NodeGoes ==
  /\ accountNode /\ accountNode' = FALSE /\ serving' = FALSE
  /\ ticketFile' = IF ticketFile = "fresh" THEN "used" ELSE ticketFile
  /\ held' = [h \in Holder |-> IF held[h] = "fresh" THEN "used" ELSE held[h]]
  /\ cookie' = IF cookie = "valid" THEN "stale" ELSE cookie
  /\ sentCookie' = [c \in PanelCall |-> IF sentCookie[c] = "valid" THEN "stale" ELSE sentCookie[c]]
  /\ disturbed' = [c \in PanelCall |-> disturbed[c] \/ c \in Busy]
  /\ checkDue' = TRUE /\ Effect(checked, FALSE, accountStarts)
  /\ UNCHANGED <<accountStarts, logged, apiPc, apiCalls, checked, checkFails, spoilt>>

-----------------------------------------------------------------------------
(* parlonsapi.js.                                                           *)

ApiAlone == UNCHANGED <<panelVars, viewVars, spoilt>>

\* signIn(): the file is read at once; without a ticket the call fails. `was` says whether
\* the call has a reason to fail already.
Reads(c, pc, was) ==
  \E t \in Found :
    IF t = "none"
      THEN apiPc' = [apiPc EXCEPT ![c] = "failed"] /\ disturbed' = [disturbed EXCEPT ![c] = TRUE] /\ UNCHANGED held
      ELSE /\ apiPc' = [apiPc EXCEPT ![c] = pc] /\ held' = [held EXCEPT ![c] = t]
           /\ disturbed' = [disturbed EXCEPT ![c] = was \/ ~serving]

\* api(): signs in when there is no cookie, else posts with the one there is.
CallApi(c) ==
  /\ apiPc[c] \in {"idle", "ok", "failed"} /\ apiCalls < MaxApiCalls /\ apiCalls' = apiCalls + 1
  /\ IF cookie = "none"
       THEN Reads(c, "sign in", FALSE) /\ UNCHANGED <<cookie, sentCookie>>
       ELSE /\ disturbed' = [disturbed EXCEPT ![c] = ~serving]
            /\ apiPc' = [apiPc EXCEPT ![c] = "post"] /\ sentCookie' = [sentCookie EXCEPT ![c] = cookie]
            /\ UNCHANGED <<cookie, held>>
  /\ ApiAlone

\* The answer to /open: a session cookie, with which the call is posted.
SignedIn(c) ==
  /\ c \in Signing
  /\ IF serving /\ held[c] = "fresh"
       THEN /\ Spend(c) /\ disturbed' = Late(c) /\ cookie' = "valid" /\ sentCookie' = [sentCookie EXCEPT ![c] = "valid"]
            /\ apiPc' = [apiPc EXCEPT ![c] = IF @ = "sign in" THEN "post" ELSE "post again"]
            /\ SpoiltBy("api")
       ELSE /\ held' = [held EXCEPT ![c] = "none"] /\ apiPc' = [apiPc EXCEPT ![c] = "failed"]
            /\ disturbed' = [disturbed EXCEPT ![c] = @ \/ ~serving] /\ UNCHANGED <<cookie, sentCookie, spoilt>>
  /\ UNCHANGED <<panelVars, viewVars, apiCalls>>

\* No answer in time, although the ticket may be used up by then.
SignInLost(c) ==
  /\ c \in Signing /\ apiPc' = [apiPc EXCEPT ![c] = "failed"]
  /\ \/ /\ serving /\ held[c] = "fresh" /\ Spend(c) /\ SpoiltBy("api")
        /\ disturbed' = [Late(c) EXCEPT ![c] = TRUE]
     \/ /\ held' = [held EXCEPT ![c] = "none"] /\ disturbed' = [disturbed EXCEPT ![c] = TRUE]
        /\ UNCHANGED spoilt
  /\ UNCHANGED <<panelVars, viewVars, cookie, sentCookie, apiCalls>>

\* A 401 is the answer.
BadRejected(c) ==
  /\ apiPc' = [apiPc EXCEPT ![c] = "failed"]
  /\ UNCHANGED <<cookie, held, sentCookie, disturbed>>

\* A 401 or 403: the cookie is forgotten and the call signs in again, once.
Rejected(c) ==
  IF apiPc[c] = "post"
    THEN cookie' = "none" /\ Reads(c, "sign in again", disturbed[c]) /\ UNCHANGED sentCookie
    ELSE apiPc' = [apiPc EXCEPT ![c] = "failed"] /\ UNCHANGED <<cookie, held, sentCookie, disturbed>>

Posted(c) ==
  /\ apiPc[c] \in {"post", "post again"}
  /\ \/ serving /\ sentCookie[c] = "valid" /\ apiPc' = [apiPc EXCEPT ![c] = "ok"]
        /\ UNCHANGED <<cookie, held, sentCookie, disturbed>>
     \/ serving /\ sentCookie[c] # "valid" /\ Rejected(c)
     \* Nobody answers, or not in time, or the account answers with an error of its own.
     \/ apiPc' = [apiPc EXCEPT ![c] = "failed"] /\ disturbed' = [disturbed EXCEPT ![c] = TRUE]
        /\ UNCHANGED <<cookie, held, sentCookie>>
  /\ UNCHANGED apiCalls /\ ApiAlone

-----------------------------------------------------------------------------
(* The Parlons tab.                                                         *)

ViewAlone == UNCHANGED <<panelVars, apiVars>>

\* pull(): every three seconds, and when the status changes.
Pull ==
  \E seen \in {IF logged THEN "ready" ELSE "not ready", "failed"} :
    /\ seen = "failed" => checkFails < MaxCheckFails
    /\ checkFails' = checkFails + (IF seen = "failed" THEN 1 ELSE 0)
    /\ checked' = seen /\ checkDue' = (checkDue /\ seen = "failed") /\ Effect(seen, accountNode, accountStarts)
    /\ ViewAlone /\ UNCHANGED <<held, spoilt>>

\* parlons:panelUrl answers: the file's link, or nothing.
LinkBack ==
  /\ getting = "asked"
  /\ \E t \in Found :
       IF t # "none"
       THEN /\ loadedFor' = accountStarts /\ guest' = "loading" /\ held' = [held EXCEPT !["tab"] = t]
            /\ spoilt' = "nobody" /\ getting' = "no" /\ linkError' = FALSE /\ UNCHANGED linkTries
       ELSE /\ linkTries' = linkTries + 1
            /\ getting' = IF linkTries < MaxLinkTries THEN "retry" ELSE "no"
            /\ linkError' = (linkTries = MaxLinkTries)
            /\ UNCHANGED <<loadedFor, guest, held, spoilt>>
  /\ ViewAlone /\ UNCHANGED <<checked, checkDue, checkFails>>

LinkRetry ==
  /\ getting = "retry" /\ getting' = "asked" /\ ViewAlone
  /\ UNCHANGED <<held, checked, checkDue, loadedFor, guest, linkTries, linkError, checkFails, spoilt>>

\* The webview gets to the panel with its link.
GuestLoads ==
  /\ guest = "loading"
  /\ IF serving /\ held["tab"] = "fresh"
       THEN guest' = "panel" /\ Spend("tab") /\ disturbed' = Late("tab")
       ELSE guest' = "refused" /\ held' = [held EXCEPT !["tab"] = "none"] /\ UNCHANGED disturbed
  /\ UNCHANGED <<panelVars, cookie, apiPc, sentCookie, apiCalls, spoilt>>
  /\ UNCHANGED <<checked, checkDue, loadedFor, getting, linkTries, linkError, checkFails>>

\* The user's Reload.
ReloadPanel ==
  /\ guest \in {"panel", "refused"} \/ linkError \/ checked # "ready"
  /\ loadedFor' = 0 /\ guest' = "none" /\ linkError' = FALSE /\ checkDue' = TRUE
  /\ linkTries' = 0 /\ getting' = IF SessionKey(checked, accountNode, accountStarts) # 0 THEN "asked" ELSE "no"
  /\ ViewAlone /\ UNCHANGED <<held, checked, checkFails, spoilt>>

\* Open in browser: the link is read now, and used when the browser gets to it.
OpenExternal ==
  /\ checked = "ready" /\ held["browser"] = "none" /\ ticketFile # "none"
  /\ held' = [held EXCEPT !["browser"] = ticketFile]
  /\ ViewAlone /\ UNCHANGED <<viewVars, spoilt>>

BrowserOpens ==
  /\ held["browser"] # "none"
  /\ IF serving /\ held["browser"] = "fresh"
       THEN Spend("browser") /\ disturbed' = Late("browser") /\ SpoiltBy("browser")
       ELSE held' = [held EXCEPT !["browser"] = "none"] /\ UNCHANGED <<disturbed, spoilt>>
  /\ UNCHANGED <<panelVars, viewVars, cookie, apiPc, sentCookie, apiCalls>>

AccountNext ==
  \/ NodeStarts \/ AccountComes \/ AccountNoticed \/ NodeGoes
  \/ \E c \in PanelCall : CallApi(c) \/ SignedIn(c) \/ SignInLost(c) \/ Posted(c)
  \/ Pull \/ LinkBack \/ LinkRetry \/ GuestLoads \/ ReloadPanel \/ OpenExternal \/ BrowserOpens

AccountSpec == AccountInit /\ [][AccountNext]_accountVars

-----------------------------------------------------------------------------

\* A panel call fails only when the account was down while it ran, or did not answer, or with an error
\* of its own; when there was no ticket; or when another sign-in used the one it had read: a session that
\* ended with the last account is renewed (parlonsapi.js:54-58).
ApiFailsForAReason == \A c \in PanelCall : apiPc[c] = "failed" => disturbed[c]

\* parlonsapi.js:5-7 "the account mints the next ticket the instant one is used, so the Parlons tab's own
\* sign-in is not disturbed": no sign-in of the tab is refused because of the main process's own.
TabUndisturbed == guest = "refused" => spoilt # "api"

\* An account that stays up is shown in the tab, over failed checks, restarts of the
\* node and links of an earlier account, unless the tab was refused because somebody else
\* had used the ticket of its link, or no ticket was found and the tab says so
\* (ParlonsView.tsx:36-57). Of the former, TabUndisturbed.
PanelShown ==
  <>[](serving /\ logged) =>
    []<>(guest = "panel" \/ (guest = "refused" /\ spoilt # "nobody") \/ linkError)
=============================================================================
