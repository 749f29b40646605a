-------------------------------- MODULE Login --------------------------------
(***************************************************************************)
(* Signing in through the provider: the tabs of one browser (app.dart,      *)
(* session_info.dart, token_storage.dart), the server's login and callback  *)
(* handlers (auth_handlers.go), its discovery of the provider (oidc.go) and *)
(* the answer of /api/config that tells a tab whether its token is good     *)
(* (config.go).                                                             *)
(*                                                                         *)
(* The tabs share one stored token and one cookie for the login under way;  *)
(* each has its own mark that it has tried to renew.  The server remembers  *)
(* no login: what it needs comes back in the cookie.  A login is a number;  *)
(* its state, its cookie and the token it ends with carry that number.      *)
(***************************************************************************)
EXTENDS Integers, FiniteSets

CONSTANTS
  Tabs,
  OldVia,     \* how the token that is already stored was obtained
  MaxAsked,   \* bound: what users ask for
  MaxLogins   \* bound: logins begun

ASSUME LoginAssumption ==
  /\ IsFiniteSet(Tabs)
  /\ OldVia \in {"oidc", "mint", "static"}
  /\ MaxAsked \in Nat /\ MaxLogins \in Nat

Logins == 1..MaxLogins
None == 0
Old == -1                      \* the token stored before
Token == Logins \cup {Old}

VARIABLES
  tab,        \* what each tab is doing, with its memory and its sessionStorage
  stored,     \* localStorage: the token
  cookie,     \* art_oidc_state: the login it carries
  good,       \* the tokens the server accepts
  fresh,      \* the logins whose cookie the server accepts: signed with its key, in time
  begun,      \* logins begun so far
  exchanged,  \* the logins whose code the provider has exchanged
  up,         \* whether the provider answers
  discovery,  \* getOIDCProvider: never tried, failed, failed long ago, done
  asked,      \* history: what users have asked for so far
  crossed,    \* history: logins that met another, a reload, a new key or ten minutes
  outage      \* history: the provider was down within the last retry interval

browser == <<tab, stored, cookie>>
server == <<good, fresh, begun, discovery>>
provider == <<exchanged, up>>
history == <<asked, crossed, outage>>
vars == <<browser, server, provider, history>>

\* api: the client's token; known: the configuration says OIDC is on; guard: the mark;
\* login: the login of the page's URL; result: what the callback redirects to.
Tab ==
  [pc     : {"closed", "config", "page", "login", "provider", "callback", "answered",
             "refused", "lost"},
   api    : Token \cup {None},
   known  : BOOLEAN,
   guard  : BOOLEAN,
   login  : Logins \cup {None},
   denied : BOOLEAN,
   result : {"none", "token", "state_missing", "provider_unavailable", "state_rejected",
             "state_mismatch", "provider_error", "exchange_failed"}]

Rest == {"closed", "page", "refused", "lost"}   \* only the user goes on from here

Closed ==
  [pc |-> "closed", api |-> None, known |-> FALSE, guard |-> FALSE, login |-> None,
   denied |-> FALSE, result |-> "none"]

Init ==
  /\ tab = [t \in Tabs |-> Closed]
  /\ stored \in {None, Old} /\ good \in SUBSET {Old}
  /\ cookie = None /\ fresh = {} /\ begun = 0 /\ exchanged = {}
  /\ up \in BOOLEAN /\ discovery = "cold"
  /\ asked = 0 /\ crossed = {} /\ outage = ~up

\* The logins another tab has under way.
Pending(t) == {tab[u].login : u \in Tabs \ {t}} \ {None}

Ask == asked < MaxAsked /\ asked' = asked + 1

-----------------------------------------------------------------------------
(* The page *)

\* Mutant of Load: the mark does not survive the page.
LoadUnmarked(t, token) ==
  tab' = [tab EXCEPT ![t].pc = "config", ![t].api = token, ![t].known = FALSE,
                     ![t].login = None, ![t].denied = FALSE, ![t].result = "none",
                     ![t].guard = FALSE]

\* initState: the client takes the stored token, and _load asks for the configuration.
Load(t, token) ==
  tab' = [tab EXCEPT ![t].pc = "config", ![t].api = token, ![t].known = FALSE,
                     ![t].login = None, ![t].denied = FALSE, ![t].result = "none"]

\* The user opens the application, wherever the tab is.
Open(t) ==
  /\ Ask
  /\ Load(t, stored)
  /\ UNCHANGED <<stored, cookie, server, provider, crossed, outage>>

\* Refreshing and searching load again with the client there is.
Refresh(t) ==
  /\ tab[t].pc = "page"
  /\ Ask
  /\ tab' = [tab EXCEPT ![t].pc = "config"]
  /\ UNCHANGED <<stored, cookie, server, provider, crossed, outage>>

Accepted(t) == tab[t].api \in good \cup {None}

\* getConfigHandler takes the token, or there was none: a renewal has settled.
ConfigOK(t) ==
  /\ tab[t].pc = "config"
  /\ Accepted(t)
  /\ tab' = [tab EXCEPT ![t].pc = "page", ![t].known = TRUE, ![t].guard = FALSE]
  /\ UNCHANGED <<stored, cookie, server, provider, history>>

Via(token) == IF token = Old THEN OldVia ELSE "oidc"

\* _canRenewWithProvider: a provider login, or a session token once OIDC is known.
CanRenew(t) ==
  \/ Via(tab[t].api) = "oidc"
  \/ tab[t].known /\ Via(tab[t].api) = "mint"

\* The guard in sessionStorage marks a tab that has tried.
RenewsNow(t) == CanRenew(t) /\ ~tab[t].guard

\* getConfigHandler answers 401.  The stored token is dropped; the tab goes to the
\* provider, once, or on without a token.
ConfigRefused(t) ==
  /\ tab[t].pc = "config"
  /\ ~Accepted(t)
  /\ stored' = None
  /\ \/ /\ RenewsNow(t)
        /\ tab' = [tab EXCEPT ![t].pc = "login", ![t].guard = TRUE]
     \/ /\ ~RenewsNow(t)
        /\ tab' = [tab EXCEPT ![t].pc = "page", ![t].api = None]
  /\ UNCHANGED <<cookie, server, provider, history>>

\* The request fails otherwise: nothing is dropped.
ConfigFails(t) ==
  /\ tab[t].pc = "config"
  /\ tab' = [tab EXCEPT ![t].pc = "page"]
  /\ UNCHANGED <<stored, cookie, server, provider, history>>

\* _login with OIDC on.  (Without, the user is offered a form for a token.)
LogIn(t) ==
  /\ tab[t].pc = "page" /\ tab[t].known /\ tab[t].api = None
  /\ Ask
  /\ tab' = [tab EXCEPT ![t].pc = "login", ![t].guard = TRUE]
  /\ UNCHANGED <<stored, cookie, server, provider, crossed, outage>>

LogOut(t) ==
  /\ tab[t].pc = "page" /\ tab[t].api # None
  /\ Ask
  /\ stored' = None
  /\ tab' = [tab EXCEPT ![t].pc = "config", ![t].api = None]
  /\ UNCHANGED <<cookie, server, provider, crossed, outage>>

-----------------------------------------------------------------------------
(* The login *)

\* Mutant of Discover: a failure is kept for good.
DiscoverOnce(found) ==
  \/ discovery = "known" /\ found /\ UNCHANGED discovery
  \/ discovery \in {"failed", "due"} /\ ~found /\ UNCHANGED discovery
  \/ discovery = "cold" /\ found = up
     /\ discovery' = IF up THEN "known" ELSE "failed"

\* getOIDCProvider: what was found is kept, a failure only for the retry interval.
Discover(found) ==
  \/ discovery = "known" /\ found /\ UNCHANGED discovery
  \/ discovery = "failed" /\ ~found /\ UNCHANGED discovery
  \/ discovery \in {"cold", "due"} /\ found = up
     /\ discovery' = IF up THEN "known" ELSE "failed"

\* Mutant of LoginRefused: the tab asks again until the provider is found.
LoginRefusedRetries(t) ==
  /\ tab[t].pc = "login"
  /\ Discover(FALSE)
  /\ UNCHANGED <<browser, good, fresh, begun, provider, history>>

\* oidcLoginHandler without a provider: 503.
LoginRefused(t) ==
  /\ tab[t].pc = "login"
  /\ Discover(FALSE)
  /\ tab' = [tab EXCEPT ![t].pc = "refused"]
  /\ UNCHANGED <<stored, cookie, good, fresh, begun, provider, history>>

\* oidcLoginHandler: a new state in the browser's one cookie, and on to the provider.
LoginBegins(t) ==
  /\ tab[t].pc = "login"
  /\ begun < MaxLogins
  /\ Discover(TRUE)
  /\ LET l == begun + 1
     IN /\ begun' = l
        /\ cookie' = l
        /\ fresh' = fresh \cup {l}
        /\ tab' = [tab EXCEPT ![t].pc = "provider", ![t].login = l]
  /\ crossed' = crossed \cup Pending(t)
  /\ UNCHANGED <<stored, good, provider, asked, outage>>

\* The provider sends the browser back, with a code or an error.
ProviderAnswers(t) ==
  /\ tab[t].pc = "provider"
  /\ up
  /\ \E denied \in BOOLEAN :
       tab' = [tab EXCEPT ![t].pc = "callback", ![t].denied = denied]
  /\ UNCHANGED <<stored, cookie, server, provider, history>>

ProviderLost(t) ==
  /\ tab[t].pc = "provider"
  /\ ~up
  /\ tab' = [tab EXCEPT ![t].pc = "lost"]
  /\ UNCHANGED <<stored, cookie, server, provider, history>>

\* Why the cookie of a callback is turned down: there is none, its signature or its
\* time is wrong, or it belongs to another login.
CookieFails(l, reason) ==
  \/ cookie = None /\ reason = "state_missing"
  \/ cookie \notin fresh \cup {None} /\ reason = "state_rejected"
  \/ cookie \in fresh \ {l} /\ reason = "state_mismatch"

\* The provider exchanges the code of a login once, for the verifier it began with.
Exchanges(l) == up /\ cookie = l /\ l \notin exchanged

Redirects(t, result) == tab' = [tab EXCEPT ![t].pc = "answered", ![t].result = result]

\* oidcCallbackHandler without a cookie, or without a provider.
CallbackRefused(t) ==
  /\ tab[t].pc = "callback"
  /\ \/ cookie = None /\ Redirects(t, "state_missing") /\ UNCHANGED discovery
     \/ cookie # None /\ Discover(FALSE) /\ Redirects(t, "provider_unavailable")
  /\ UNCHANGED <<stored, cookie, good, fresh, begun, provider, history>>

\* oidcCallbackHandler with a cookie that is not good for this login, an error of the
\* provider (or no code), or a code it does not exchange.
CallbackFails(t) ==
  /\ tab[t].pc = "callback" /\ cookie # None
  /\ Discover(TRUE)
  /\ LET l == tab[t].login
     IN \/ \E reason \in {"state_rejected", "state_mismatch"} :
             CookieFails(l, reason) /\ Redirects(t, reason)
        \/ /\ \A reason \in {"state_rejected", "state_mismatch"} : ~CookieFails(l, reason)
           /\ \/ tab[t].denied /\ Redirects(t, "provider_error")
              \/ ~tab[t].denied /\ ~Exchanges(l) /\ Redirects(t, "exchange_failed")
  /\ UNCHANGED <<stored, cookie, good, fresh, begun, provider, history>>

\* oidcCallbackHandler exchanges the code and mints a token, unless the id_token it got
\* for the code is missing, invalid or for another nonce.  The instances that are asked
\* next may or may not accept the token: their clocks and keys are their own.
CallbackExchanges(t) ==
  /\ tab[t].pc = "callback" /\ cookie # None
  /\ Discover(TRUE)
  /\ LET l == tab[t].login
     IN /\ \A reason \in {"state_rejected", "state_mismatch"} : ~CookieFails(l, reason)
        /\ ~tab[t].denied
        /\ Exchanges(l)
        /\ exchanged' = exchanged \cup {l}
        /\ \/ Redirects(t, "token") /\ good' \in {good, good \cup {l}}
           \/ Redirects(t, "provider_error") /\ UNCHANGED good
  /\ UNCHANGED <<stored, cookie, fresh, begun, up, history>>

\* Mutant of Return: the fragment of a failure is taken for a token.
ReturnAny(t) ==
  /\ tab[t].pc = "answered"
  /\ cookie' = None
  /\ crossed' = crossed \cup Pending(t)
  /\ stored' = tab[t].login
  /\ Load(t, stored')
  /\ UNCHANGED <<server, provider, asked, outage>>

\* The answer arrives: it clears the cookie, whichever login that is by now, and the
\* application starts with the fragment it finds in its address.
Return(t) ==
  /\ tab[t].pc = "answered"
  /\ cookie' = None
  /\ crossed' = crossed \cup Pending(t)
  /\ stored' = IF tab[t].result = "token" THEN tab[t].login ELSE stored
  /\ Load(t, stored')
  /\ UNCHANGED <<server, provider, asked, outage>>

\* The user reloads while the answer is on its way: it is lost, and the same callback
\* is asked for again.
Reload(t) ==
  /\ tab[t].pc = "answered"
  /\ Ask
  /\ tab' = [tab EXCEPT ![t].pc = "callback", ![t].result = "none"]
  /\ crossed' = crossed \cup {tab[t].login}
  /\ UNCHANGED <<stored, cookie, server, provider, outage>>

-----------------------------------------------------------------------------
(* Time and failures *)

ProviderGoes == up /\ up' = FALSE /\ outage' = TRUE
ProviderComes == ~up /\ up' = TRUE /\ UNCHANGED outage

ProviderTurns ==
  /\ ProviderGoes \/ ProviderComes
  /\ UNCHANGED <<browser, server, exchanged, asked, crossed>>

\* oidcProviderRetryInterval passes.
IntervalPasses ==
  /\ discovery' = IF discovery = "failed" THEN "due" ELSE discovery
  /\ outage' = ~up
  /\ UNCHANGED <<browser, good, fresh, begun, provider, asked, crossed>>

TokenExpires ==
  /\ \E token \in good : good' = good \ {token}
  /\ UNCHANGED <<browser, fresh, begun, discovery, provider, history>>

\* Ten minutes pass for a login.  The browser drops the cookie, or still sends it.
LoginExpires ==
  /\ \E l \in fresh :
       /\ fresh' = fresh \ {l}
       /\ crossed' = crossed \cup {l}
       /\ cookie' \in {cookie, IF cookie = l THEN None ELSE cookie}
  /\ UNCHANGED <<tab, stored, good, begun, discovery, provider, asked, outage>>

\* The server is started again, with the same key or another.
Restart ==
  /\ discovery # "cold" /\ discovery' = "cold"
  /\ \/ UNCHANGED <<good, fresh, crossed>>
     \/ good' = good \cap {k \in {Old} : OldVia = "static"} /\ fresh' = {}
        /\ crossed' = crossed \cup fresh
  /\ UNCHANGED <<browser, begun, provider, asked, outage>>

-----------------------------------------------------------------------------

\* What happens to a tab without its user.
TabStep(t) ==
  \/ ConfigOK(t) \/ ConfigRefused(t) \/ ConfigFails(t)
  \/ LoginRefused(t) \/ LoginBegins(t)
  \/ ProviderAnswers(t) \/ ProviderLost(t)
  \/ CallbackRefused(t) \/ CallbackFails(t) \/ CallbackExchanges(t)
  \/ Return(t)

UserStep(t) == Open(t) \/ Refresh(t) \/ LogIn(t) \/ LogOut(t) \/ Reload(t)

Environment == ProviderTurns \/ IntervalPasses \/ TokenExpires \/ LoginExpires \/ Restart

Next == (\E t \in Tabs : TabStep(t) \/ UserStep(t)) \/ Environment

\* A request is answered, and the answer handled, sooner or later.
LoginSpec == Init /\ [][Next]_vars /\ \A t \in Tabs : WF_vars(TabStep(t))

-----------------------------------------------------------------------------
(* Properties *)

\* Every variable stays in its declared range; a tab on its way through a login knows
\* which, and the tokens in the browser are the old one or were issued.
LoginTypeOK ==
  /\ tab \in [Tabs -> Tab]
  /\ stored \in Token \cup {None} /\ cookie \in Logins \cup {None}
  /\ good \subseteq Token /\ fresh \subseteq Logins
  /\ begun \in 0..MaxLogins /\ exchanged \subseteq 1..begun
  /\ \A t \in Tabs :
       tab[t].pc \in {"provider", "callback", "answered"} => tab[t].login \in 1..begun
  /\ {stored} \cup {tab[t].api : t \in Tabs} \subseteq exchanged \cup {Old, None}

\* The guard of app.dart:98-101: tabs that go to the provider by themselves, even for a
\* server that refuses what it issues, never begin more logins between them than their
\* user has asked for things.
LoginsAreAsked == begun <= asked

\* What a user can be told.
Unreachable(t) == tab[t].pc = "refused" \/ tab[t].result = "provider_unavailable"
Unmatched(t) == tab[t].result \in {"state_missing", "state_rejected", "state_mismatch"}
Unexchanged(t) == tab[t].result = "exchange_failed"

\* A user is told that a login did not match the session, took too long, or that the
\* provider could not be reached, only if that login met another one of the same
\* browser, a reload, a change of key or its ten minutes, or the provider was down
\* within the last retry interval (auth_handlers.go:149-182, oidc.go:119-122).
FailsForCause ==
  [][\A t \in Tabs :
       /\ ~Unmatched(t) /\ Unmatched(t)' => tab[t].login \in crossed
       /\ ~Unexchanged(t) /\ Unexchanged(t)' => tab[t].login \in crossed \/ outage
       /\ ~Unreachable(t) /\ Unreachable(t)' => outage]_vars

\* A login is not left half done: whatever expires, restarts or is refused, once the
\* user asks for nothing more every tab comes to rest on a page.
Settles == <>[](\A t \in Tabs : tab[t].pc \in Rest)
=============================================================================
