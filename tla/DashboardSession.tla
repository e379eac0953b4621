---------------------------- MODULE DashboardSession ----------------------------
(***************************************************************************)
(* Which dashboard a browser window shows and which ones the server has:    *)
(* opening, saving, sharing and deleting (content/js/dashboard.js with      *)
(* dashboard/views.py), the name in the hash of the location with the       *)
(* reload that a change of it makes, and the login that the permission to   *)
(* save depends on.  Requests are served, and their answers come, in any    *)
(* order, or never.  Of a saved state only its name is kept: the graphs     *)
(* travel with it, in getState() and in applyState().                       *)
(***************************************************************************)
EXTENDS Naturals, FiniteSets

CONSTANTS Names, Temps, \* names that users choose; names of create_temporary()
          None,
          MaxRequests,  \* bound: the requests on their way
          MaxEvents     \* bound: the hashchange events that wait for the browser

VARIABLES
  page,     \* the name in the path of the page, or None
  name,     \* dashboardName
  may,      \* hasPermission('change') of the page
  saveEnabled, \* dashboard-save-button
  hash,     \* location.hash, or None
  setting,  \* currently_setting_hash
  events,   \* how many hashchange events wait
  requests, \* requests and answers on their way
  loggedIn, \* the user's session, on the server
  stored    \* Dashboard.objects: the name inside the state saved under each name

client == <<page, name, may, saveEnabled, hash, setting, events>>
server == <<loggedIn, stored>>
vars == <<client, requests, server>>

Absent == "absent"
All == Names \cup Temps

--------------------------------------------------------------------------------
(* The requests: name is the one in the URL, state the name in what was sent or is
   answered.  No answer comes to a page that was left.  Equal requests count as one. *)

Request(kind, n, state) ==
  [kind |-> kind, name |-> n, state |-> state, served |-> FALSE, heard |-> TRUE]

Send(r) == Cardinality(requests) < MaxRequests /\ requests' = requests \cup {r}
Answered(r, state) ==
  requests' = (requests \ {r}) \cup
              IF r.heard THEN {[r EXCEPT !.served = TRUE, !.state = state]} ELSE {}

--------------------------------------------------------------------------------
(* setDashboardName() and changeHash() *)

changeHash(n) ==
  /\ setting' = TRUE
  /\ hash' = n
  /\ events' = IF n = hash THEN events ELSE events + 1
  /\ events' <= MaxEvents

setDashboardName(n) ==
  /\ name' = n
  /\ IF n = None \/ ~may
     THEN saveEnabled' = FALSE /\ UNCHANGED <<hash, setting, events>>
     ELSE saveEnabled' = TRUE /\ changeHash(n)

--------------------------------------------------------------------------------
(* What the user does *)

\* A page that was just loaded, by a user who is not logged in.
Init ==
  /\ page \in {None} \cup Names
  /\ name = page /\ may = FALSE /\ saveEnabled = FALSE
  /\ hash = None /\ setting = FALSE /\ events = 0
  /\ requests = {} /\ loggedIn = FALSE
  /\ stored = [n \in All |-> IF n \in Names THEN n ELSE Absent]

New == setDashboardName(None) /\ UNCHANGED <<page, may, requests, server>>

\* Mutant: the state is taken before the name is set.
SaveState_Before(n) == name
\* The name in the state that saveDashboard() sends.
SaveState(n) == name'
\* The menu asks for the permission, the key, for a dashboard without a name, does not.
saveDashboard(n) ==
  /\ may \/ name = None
  /\ setDashboardName(n)
  /\ Send(Request("save", n, SaveState(n)))
  /\ UNCHANGED <<page, may, server>>

\* Save, and the key for it, which does not ask for the permission.
Save == /\ name # None
        /\ Send(Request("save", name, name))
        /\ UNCHANGED <<client, server>>

\* A dashboard that has a name is saved under it.
doShare ==
  /\ name = None
  /\ Send(Request("share", None, None))
  /\ UNCHANGED <<client, server>>

Open(n) == Send(Request("load", n, None)) /\ UNCHANGED <<client, server>>

\* The finder lists no temporary dashboards.
deleteDashboard(n) == /\ may
                      /\ Send(Request("delete", n, None))
                      /\ UNCHANGED <<client, server>>

\* The form is not modal and may be open more than once.
LogIn == Send(Request("login", None, None)) /\ UNCHANGED <<client, server>>
LogOut == may /\ Send(Request("logout", None, None)) /\ UNCHANGED <<client, server>>

\* The user edits the hash, or goes back.
TypeHash(n) ==
  /\ n # hash /\ events < MaxEvents
  /\ hash' = n /\ events' = events + 1
  /\ UNCHANGED <<page, name, may, saveEnabled, setting, requests, server>>

--------------------------------------------------------------------------------
(* The page *)

\* initDashboard(): the state that came with the page is applied, then the dashboard of
\* the hash is asked for - of the hash as it is by then.  Nothing that was asked for
\* before is answered.
Reload ==
  LET initial == IF page = None THEN Absent ELSE stored[page]
      shown   == IF initial = Absent THEN None ELSE initial
      named   == shown # None /\ loggedIn
      now     == IF named THEN shown ELSE hash
      left    == {[r EXCEPT !.heard = FALSE] : r \in {q \in requests : ~q.served}}
      asked   == IF now = None THEN {} ELSE {Request("load", now, None)}
  IN  /\ name' = shown
      /\ may' = loggedIn
      /\ saveEnabled' = named
      /\ hash' = now
      /\ setting' = named
      /\ events' = IF now = hash THEN 0 ELSE 1
      /\ Cardinality(left \cup asked) <= MaxRequests
      /\ requests' = left \cup asked
      /\ UNCHANGED <<page, server>>

\* A change that the page made itself is meant to be ignored.
onhashchange ==
  /\ events > 0
  /\ IF setting
     THEN /\ setting' = FALSE /\ events' = events - 1
          /\ UNCHANGED <<page, name, may, saveEnabled, hash, requests, server>>
     ELSE Reload

--------------------------------------------------------------------------------
(* The server *)

\* save(): nothing is stored without the permission.
ServeSave(r) == /\ r.kind = "save"
                /\ stored' = IF loggedIn THEN [stored EXCEPT ![r.name] = r.state] ELSE stored
                /\ Answered(r, None) /\ UNCHANGED loggedIn

ServeLoad(r) == r.kind = "load" /\ Answered(r, stored[r.name]) /\ UNCHANGED server

ServeDelete(r) == /\ r.kind = "delete"
                  /\ stored' = IF loggedIn THEN [stored EXCEPT ![r.name] = Absent] ELSE stored
                  /\ Answered(r, None) /\ UNCHANGED loggedIn

\* create_temporary(): a name that no dashboard has; no permission is asked for.
ServeShare(r) == /\ r.kind = "share"
                 /\ \E n \in Temps : /\ stored[n] = Absent
                                     /\ stored' = [stored EXCEPT ![n] = r.state]
                                     /\ Answered(r, n)
                 /\ UNCHANGED loggedIn

ServeLogin(r) == /\ r.kind \in {"login", "logout"}
                 /\ loggedIn' = (r.kind = "login")
                 /\ Answered(r, None) /\ UNCHANGED stored

Serve(r) == /\ ~r.served
            /\ ServeSave(r) \/ ServeLoad(r) \/ ServeDelete(r) \/ ServeShare(r) \/ ServeLogin(r)
            /\ UNCHANGED client

--------------------------------------------------------------------------------
(* The answers *)

\* Of a save or a deletion only messages; the line after them refers to newURL, which
\* does not exist.
HearNothing(r) == /\ r.kind \in {"save", "delete"} \/ (r.kind = "load" /\ r.state = Absent)
                  /\ requests' = requests \ {r}
                  /\ UNCHANGED <<client, server>>

\* applyState()
HearLoad(r) == /\ r.kind = "load" /\ r.state # Absent
               /\ setDashboardName(r.state)
               /\ requests' = requests \ {r}
               /\ UNCHANGED <<page, may, server>>

\* The state is saved again with the name, as it is by now.
HearShare(r) == /\ r.kind = "share"
                /\ setDashboardName(r.state)
                /\ requests' = (requests \ {r}) \cup {Request("save", r.state, name')}
                /\ UNCHANGED <<page, may, server>>

\* Mutant: postLoginMenuAdjust() looks at the name alone.
Adjusted_NameOnly(permission) == name # None
\* postLoginMenuAdjust()
Adjusted(permission) == name # None /\ permission
HearLogin(r) == /\ r.kind \in {"login", "logout"}
                /\ may' = (r.kind = "login")
                /\ saveEnabled' = Adjusted(may')
                /\ requests' = requests \ {r}
                /\ UNCHANGED <<page, name, hash, setting, events, server>>

Hear(r) == r.served /\ (HearNothing(r) \/ HearLoad(r) \/ HearShare(r) \/ HearLogin(r))

\* A request is lost before it is served, or its answer.  A logout that fails counts
\* as one.
Fail(r) == /\ requests' = requests \ {r}
           /\ IF r.kind = "logout" /\ r.heard
              THEN may' = FALSE /\ saveEnabled' = Adjusted(FALSE)
              ELSE UNCHANGED <<may, saveEnabled>>
           /\ UNCHANGED <<page, name, hash, setting, events, server>>

Next ==
  \/ New \/ Save \/ doShare \/ LogIn \/ LogOut \/ Reload \/ onhashchange
  \/ \E n \in Names : saveDashboard(n) \/ deleteDashboard(n)
  \/ \E n \in All : Open(n) \/ TypeHash(n)
  \/ \E r \in requests : Serve(r) \/ Hear(r) \/ Fail(r)

Spec == Init /\ [][Next]_vars

--------------------------------------------------------------------------------
(* Properties *)

\* What is stored under a name knows itself by that name, so that whoever opens it, sees
\* it and saves it again under that name; only a shared dashboard that was not saved
\* again yet has none.  Saves, loads, shares, logins and reloads overlap.
StoredUnderItsName ==
  \A n \in All : \/ stored[n] \in {n, Absent}
                 \/ n \in Temps /\ stored[n] = None

\* The Save button is enabled for a dashboard that has a name, as far as the page knows
\* that the user may save: whichever of a login, a logout, an opened dashboard and the
\* answer of Share comes last.
SaveButtonTrue == saveEnabled <=> (name # None /\ may)
================================================================================
