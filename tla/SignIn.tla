-------------------------------- MODULE SignIn --------------------------------
(***************************************************************************)
(* Signing in through the authorization code flow with PKCE: the           *)
(* middleware that starts a flow, the callback that ends it, and what the  *)
(* tabs of a browser, which share the cookies, know of the session.        *)
(*                                                                         *)
(* A flow stands for its state and its verifier.  The authorization server *)
(* gives a code for a flow once and takes it back with that flow's         *)
(* verifier only.                                                          *)
(***************************************************************************)
EXTENDS Naturals

CONSTANTS
  Tab, Page,
  Flow     \* flows a behaviour may start

VARIABLES
  token,   \* the cookie erp_access_token
  oidc,    \* the cookies erp_oauth_state and _verifier, and _return
  tab,     \* where each tab is
  session, \* what AuthProvider shows in each tab
  used     \* flows that were started

vars == <<token, oidc, tab, session, used>>

None == [flow |-> "none"]
Cookies == [flow : Flow, page : Page]
TabState ==
  [at : {"page", "leaving"}, page : Page]
    \cup [at : {"authorize", "callback"}, page : Page, flow : Flow]
    \cup [at : {"elsewhere"}]   \* or at /login, which the application does not have

TypeOK ==
  /\ token \in {"none", "valid", "expired"}
  /\ oidc \in Cookies \cup {None}
  /\ tab \in [Tab -> TabState]
  /\ session \in [Tab -> {"loading", "in", "reauthenticate"}]
  /\ used \subseteq Flow

Init ==
  /\ token = "none" /\ oidc = None
  /\ tab = [t \in Tab |-> [at |-> "elsewhere"]]
  /\ session = [t \in Tab |-> "loading"]
  /\ used = {}

Goto(t, s) == tab' = [tab EXCEPT ![t] = s]
Show(t, s) == session' = [session EXCEPT ![t] = s]

-----------------------------------------------------------------------------
(* The middleware *)

\* The user opens a page of the application.
Visit(t, p) ==
  /\ Goto(t, [at |-> "leaving", page |-> p]) /\ Show(t, "loading")
  /\ UNCHANGED <<token, oidc, used>>

PassThrough(t) ==
  /\ tab[t].at = "leaving" /\ token = "valid"
  /\ Goto(t, [tab[t] EXCEPT !.at = "page"])
  /\ UNCHANGED <<token, oidc, session, used>>

\* Mutant of FlowCookies: the page to return to is kept from an earlier flow.
FlowCookiesKeepPage(f, p) == [flow |-> f, page |-> IF oidc = None THEN p ELSE oidc.page]

FlowCookies(f, p) == [flow |-> f, page |-> p]

StartFlow(t, f) ==
  /\ tab[t].at = "leaving" /\ token # "valid"
  /\ f \notin used /\ used' = used \cup {f}
  /\ oidc' = FlowCookies(f, tab[t].page)
  /\ Goto(t, [at |-> "authorize", page |-> tab[t].page, flow |-> f])
  /\ UNCHANGED <<token, session>>

\* The authorization server sends the browser back with a code (external).
Authorize(t) ==
  /\ tab[t].at = "authorize"
  /\ Goto(t, [tab[t] EXCEPT !.at = "callback"])
  /\ UNCHANGED <<token, oidc, session, used>>

-----------------------------------------------------------------------------
(* The callback *)

\* savedState, and with it the verifier.
Saved(f) == oidc.flow = f

Exchange(t) ==
  /\ tab[t].at = "callback" /\ Saved(tab[t].flow)
  /\ token' = "valid"
  /\ Goto(t, [at |-> "page", page |-> oidc.page])
  /\ oidc' = None
  /\ UNCHANGED <<session, used>>

\* invalid_state, missing_verifier, token_exchange_failed or callback_error: every
\* error clears the cookies, those of another tab's flow too.
Reject(t) ==
  /\ tab[t].at = "callback"
  /\ Goto(t, [at |-> "elsewhere"])
  /\ oidc' = None
  /\ UNCHANGED <<token, session, used>>

\* The cookies of a flow last five minutes.
ExpireCookies ==
  /\ oidc # None /\ oidc' = None
  /\ UNCHANGED <<token, tab, session, used>>

ExpireToken ==
  /\ token = "valid" /\ token' = "expired"
  /\ UNCHANGED <<oidc, tab, session, used>>

-----------------------------------------------------------------------------
(* AuthProvider *)

\* loadUser; a 403 and a profile both end in a session, every other error like a 401.
LoadUser(t) ==
  /\ tab[t].at = "page" /\ session[t] = "loading"
  /\ \/ token = "valid" /\ Show(t, "in")
     \/ Show(t, "reauthenticate")
  /\ UNCHANGED <<token, oidc, tab, used>>

\* Any request that is answered with a 401 asks to sign in again.
Unauthorized(t) ==
  /\ tab[t].at = "page" /\ session[t] = "in" /\ token # "valid"
  /\ Show(t, "reauthenticate")
  /\ UNCHANGED <<token, oidc, tab, used>>

\* reauthenticate: the login page of the authorization server, which starts no flow of
\* its own and comes back to the page.
Reauthenticate(t) ==
  /\ tab[t].at = "page" /\ session[t] = "reauthenticate"
  /\ Goto(t, [tab[t] EXCEPT !.at = "leaving"]) /\ Show(t, "loading")
  /\ UNCHANGED <<token, oidc, used>>

\* local-logout and the page of the authorization server, which comes back to the root.
Logout(t) ==
  /\ tab[t].at = "page" /\ token' = "none"
  /\ \E p \in Page : Goto(t, [at |-> "leaving", page |-> p])
  /\ Show(t, "loading")
  /\ UNCHANGED <<oidc, used>>

Next ==
  \/ \E t \in Tab :
       \/ \E p \in Page : Visit(t, p)
       \/ \E f \in Flow : StartFlow(t, f)
       \/ PassThrough(t) \/ Authorize(t) \/ Exchange(t) \/ Reject(t)
       \/ LoadUser(t) \/ Unauthorized(t) \/ Reauthenticate(t) \/ Logout(t)
  \/ ExpireCookies \/ ExpireToken

Spec == Init /\ [][Next]_vars

-----------------------------------------------------------------------------
\* A callback never takes a tab to the page another tab left for signing in, although
\* all tabs write the same cookies (middleware, GET of the callback).
ReturnsWhereItLeft == [][\A t \in Tab : Exchange(t) => tab'[t].page = tab[t].page]_vars
==============================================================================
