----------------------------- MODULE LoginProofs -----------------------------
(***************************************************************************)
(* Proofs about Login, for any number of tabs.  The tabs go to the provider *)
(* by themselves, and return from it to a page that may be refused again;   *)
(* that they stop is an argument by counting.  A tab owes a login when it   *)
(* is on its way to one, or may still be sent there by the answer it waits  *)
(* for.  Everything a user asks for adds at most one such tab, a login      *)
(* begun takes one away, and the mark keeps a tab that returns from being   *)
(* counted again.  That an error has a cause is an argument about what is   *)
(* kept: the cookie of a login that met no other is still there when the    *)
(* provider answers, and a failed discovery is remembered no longer than    *)
(* the provider's outage.                                                  *)
(***************************************************************************)
EXTENDS Login, FiniteSetTheorems, TLAPS

\* A tab on its way through a login is marked.
Marked ==
  \A t \in Tabs :
    tab[t].pc \in {"login", "provider", "callback", "answered"} => tab[t].guard

\* An answer that carries a token is of an exchanged login.
Issued ==
  \A t \in Tabs :
    tab[t].pc = "answered" /\ tab[t].result = "token" => tab[t].login \in exchanged

Owes(t) == tab[t].pc = "login" \/ (tab[t].pc = "config" /\ ~tab[t].guard)
Owed == {t \in Tabs : Owes(t)}

Budget == asked \in Nat /\ begun + Cardinality(Owed) <= asked

TabInv == LoginTypeOK /\ Marked /\ Issued
LoginInv == TabInv /\ Budget

-----------------------------------------------------------------------------
(* The tabs *)

\* What a step does to the tab it is about, as one record.
LEMMA OneTab ==
  ASSUME tab \in [Tabs -> Tab], NEW t \in Tabs, NEW r \in Tab,
         tab' = [tab EXCEPT ![t] = r]
  PROVE  /\ tab' \in [Tabs -> Tab]
         /\ tab'[t] = r
         /\ \A u \in Tabs \ {t} : tab'[u] = tab[u]
OBVIOUS

\* The step of one tab keeps the invariant if that tab's new record does, and the sets
\* it refers to have only grown.
LEMMA TabChange ==
  ASSUME TabInv, NEW t \in Tabs, NEW r \in Tab, tab' = [tab EXCEPT ![t] = r],
         r.pc \in {"provider", "callback", "answered"} => r.login \in 1..begun',
         r.api \in exchanged' \cup {Old, None},
         r.pc \in {"login", "provider", "callback", "answered"} => r.guard,
         r.pc = "answered" /\ r.result = "token" => r.login \in exchanged',
         stored' \in Token \cup {None}, stored' \in exchanged' \cup {Old, None},
         cookie' \in Logins \cup {None}, good' \subseteq Token, fresh' \subseteq Logins,
         begun' \in 0..MaxLogins, begun' >= begun,
         exchanged \subseteq exchanged', exchanged' \subseteq 1..begun'
  PROVE  TabInv'
<1>1. /\ tab' \in [Tabs -> Tab]
      /\ tab'[t] = r
      /\ \A u \in Tabs \ {t} : tab'[u] = tab[u]
  BY OneTab DEF TabInv, LoginTypeOK
<1>2. begun \in 0..MaxLogins /\ MaxLogins \in Nat
  BY LoginAssumption DEF TabInv, LoginTypeOK
<1>3. ASSUME NEW u \in Tabs, tab'[u].pc \in {"provider", "callback", "answered"}
      PROVE  tab'[u].login \in 1..begun'
  <2>1. CASE u = t
    BY <1>1, <1>3, <2>1
  <2>2. CASE u # t
    <3>1. tab[u].login \in 1..begun
      BY <1>1, <1>3, <2>2 DEF TabInv, LoginTypeOK
    <3>. QED
      BY <1>1, <1>2, <2>2, <3>1
  <2>. QED
    BY <2>1, <2>2
<1>4. ASSUME NEW u \in Tabs
      PROVE  tab'[u].api \in exchanged' \cup {Old, None}
  <2>1. CASE u = t
    BY <1>1, <2>1
  <2>2. CASE u # t
    BY <1>1, <2>2 DEF TabInv, LoginTypeOK
  <2>. QED
    BY <2>1, <2>2
<1>5. {stored'} \cup {tab'[u].api : u \in Tabs} \subseteq exchanged' \cup {Old, None}
  BY <1>4
<1>6. LoginTypeOK'
  BY <1>1, <1>3, <1>5 DEF LoginTypeOK
<1>7. Marked'
  BY <1>1 DEF TabInv, Marked
<1>8. Issued'
  BY <1>1 DEF TabInv, Issued
<1>. QED
  BY <1>6, <1>7, <1>8 DEF TabInv

\* What a step may rely on.
LEMMA TabFacts ==
  ASSUME TabInv, NEW t \in Tabs
  PROVE  /\ tab \in [Tabs -> Tab] /\ tab[t] \in Tab
         /\ stored \in Token \cup {None} /\ stored \in exchanged \cup {Old, None}
         /\ cookie \in Logins \cup {None} /\ good \subseteq Token /\ fresh \subseteq Logins
         /\ begun \in 0..MaxLogins /\ exchanged \subseteq 1..begun
         /\ tab[t].api \in exchanged \cup {Old, None}
         /\ tab[t].pc \in {"provider", "callback", "answered"} => tab[t].login \in 1..begun
         /\ tab[t].pc \in {"login", "provider", "callback", "answered"} => tab[t].guard
         /\ tab[t].pc = "answered" /\ tab[t].result = "token" => tab[t].login \in exchanged
BY DEF TabInv, LoginTypeOK, Marked, Issued

\* A step of a tab that touches nothing else but a store it may empty.
LEMMA QuietTab ==
  ASSUME TabInv, NEW t \in Tabs, NEW r \in Tab, tab' = [tab EXCEPT ![t] = r],
         r.pc \in {"provider", "callback", "answered"} => r.login \in 1..begun,
         r.api \in exchanged \cup {Old, None},
         r.pc \in {"login", "provider", "callback", "answered"} => r.guard,
         r.pc = "answered" /\ r.result = "token" => r.login \in exchanged,
         stored' \in {stored, None},
         UNCHANGED <<cookie, good, fresh, begun, exchanged>>
  PROVE  TabInv'
<1>1. /\ stored' \in Token \cup {None} /\ stored' \in exchanged \cup {Old, None}
      /\ cookie' \in Logins \cup {None} /\ good' \subseteq Token /\ fresh' \subseteq Logins
      /\ begun' \in 0..MaxLogins /\ exchanged' \subseteq 1..begun'
  BY TabFacts
<1>2. begun' >= begun /\ begun' = begun /\ exchanged' = exchanged
  BY <1>1, LoginAssumption
<1>. QED
  BY <1>1, <1>2, TabChange

\* The record Load leaves a tab with.
Loaded(r, token) ==
  [r EXCEPT !.pc = "config", !.api = token, !.known = FALSE,
            !.login = None, !.denied = FALSE, !.result = "none"]

LEMMA LoadedFacts ==
  ASSUME NEW r \in Tab, NEW token \in Token \cup {None}
  PROVE  /\ Loaded(r, token) \in Tab
         /\ Loaded(r, token).pc = "config" /\ Loaded(r, token).api = token
         /\ Loaded(r, token).guard = r.guard
BY DEF Loaded, Tab

LEMMA OpenStep ==
  ASSUME TabInv, NEW t \in Tabs, Open(t)
  PROVE  TabInv'
<1>. DEFINE r == Loaded(tab[t], stored)
<1>1. tab' = [tab EXCEPT ![t] = r]
  BY TabFacts DEF Open, Load, Loaded
<1>2. r \in Tab /\ r.pc = "config" /\ r.api = stored
  BY TabFacts, LoadedFacts
<1>3. UNCHANGED <<stored, cookie, good, fresh, begun, exchanged>>
  BY DEF Open, server, provider
<1>4. r.api \in exchanged \cup {Old, None}
  BY <1>2, TabFacts
<1>. HIDE DEF r
<1>. QED
  BY <1>1, <1>2, <1>3, <1>4, QuietTab

LEMMA RefreshStep ==
  ASSUME TabInv, NEW t \in Tabs, Refresh(t)
  PROVE  TabInv'
<1>. DEFINE r == [tab[t] EXCEPT !.pc = "config"]
<1>1. tab' = [tab EXCEPT ![t] = r]
  BY TabFacts DEF Refresh
<1>2. r \in Tab /\ r.api \in exchanged \cup {Old, None}
  BY TabFacts DEF Tab
<1>3. r.pc \notin {"login", "provider", "callback", "answered"}
  BY TabFacts DEF Tab, Refresh
<1>4. UNCHANGED <<cookie, good, fresh, begun, exchanged>> /\ stored' \in {stored, None}
  BY DEF Refresh, server, provider
<1>. HIDE DEF r
<1>. QED
  BY <1>1, <1>2, <1>3, <1>4, QuietTab

LEMMA ConfigOKStep ==
  ASSUME TabInv, NEW t \in Tabs, ConfigOK(t)
  PROVE  TabInv'
<1>. DEFINE r == [tab[t] EXCEPT !.pc = "page", !.known = TRUE, !.guard = FALSE]
<1>1. tab' = [tab EXCEPT ![t] = r]
  BY TabFacts DEF ConfigOK
<1>2. r \in Tab /\ r.api \in exchanged \cup {Old, None}
  BY TabFacts DEF Tab
<1>3. r.pc \notin {"login", "provider", "callback", "answered"}
  BY TabFacts DEF Tab, ConfigOK
<1>4. UNCHANGED <<cookie, good, fresh, begun, exchanged>> /\ stored' \in {stored, None}
  BY DEF ConfigOK, server, provider
<1>. HIDE DEF r
<1>. QED
  BY <1>1, <1>2, <1>3, <1>4, QuietTab

LEMMA ConfigFailsStep ==
  ASSUME TabInv, NEW t \in Tabs, ConfigFails(t)
  PROVE  TabInv'
<1>. DEFINE r == [tab[t] EXCEPT !.pc = "page"]
<1>1. tab' = [tab EXCEPT ![t] = r]
  BY TabFacts DEF ConfigFails
<1>2. r \in Tab /\ r.api \in exchanged \cup {Old, None}
  BY TabFacts DEF Tab
<1>3. r.pc \notin {"login", "provider", "callback", "answered"}
  BY TabFacts DEF Tab, ConfigFails
<1>4. UNCHANGED <<cookie, good, fresh, begun, exchanged>> /\ stored' \in {stored, None}
  BY DEF ConfigFails, server, provider
<1>. HIDE DEF r
<1>. QED
  BY <1>1, <1>2, <1>3, <1>4, QuietTab

LEMMA LogInStep ==
  ASSUME TabInv, NEW t \in Tabs, LogIn(t)
  PROVE  TabInv'
<1>. DEFINE r == [tab[t] EXCEPT !.pc = "login", !.guard = TRUE]
<1>1. tab' = [tab EXCEPT ![t] = r]
  BY TabFacts DEF LogIn
<1>2. r \in Tab /\ r.api \in exchanged \cup {Old, None}
  BY TabFacts DEF Tab
<1>3. r.pc = "login" /\ r.guard
  BY TabFacts DEF Tab, LogIn
<1>4. UNCHANGED <<cookie, good, fresh, begun, exchanged>> /\ stored' \in {stored, None}
  BY DEF LogIn, server, provider
<1>. HIDE DEF r
<1>. QED
  BY <1>1, <1>2, <1>3, <1>4, QuietTab

LEMMA LogOutStep ==
  ASSUME TabInv, NEW t \in Tabs, LogOut(t)
  PROVE  TabInv'
<1>. DEFINE r == [tab[t] EXCEPT !.pc = "config", !.api = None]
<1>1. tab' = [tab EXCEPT ![t] = r]
  BY TabFacts DEF LogOut
<1>2. r \in Tab /\ r.api \in exchanged \cup {Old, None}
  BY TabFacts DEF Tab
<1>3. r.pc \notin {"login", "provider", "callback", "answered"}
  BY TabFacts DEF Tab, LogOut
<1>4. UNCHANGED <<cookie, good, fresh, begun, exchanged>> /\ stored' \in {stored, None}
  BY DEF LogOut, server, provider
<1>. HIDE DEF r
<1>. QED
  BY <1>1, <1>2, <1>3, <1>4, QuietTab

LEMMA LoginRefusedStep ==
  ASSUME TabInv, NEW t \in Tabs, LoginRefused(t)
  PROVE  TabInv'
<1>. DEFINE r == [tab[t] EXCEPT !.pc = "refused"]
<1>1. tab' = [tab EXCEPT ![t] = r]
  BY TabFacts DEF LoginRefused
<1>2. r \in Tab /\ r.api \in exchanged \cup {Old, None}
  BY TabFacts DEF Tab
<1>3. r.pc \notin {"login", "provider", "callback", "answered"}
  BY TabFacts DEF Tab, LoginRefused
<1>4. UNCHANGED <<cookie, good, fresh, begun, exchanged>> /\ stored' \in {stored, None}
  BY DEF LoginRefused, server, provider
<1>. HIDE DEF r
<1>. QED
  BY <1>1, <1>2, <1>3, <1>4, QuietTab

LEMMA ProviderLostStep ==
  ASSUME TabInv, NEW t \in Tabs, ProviderLost(t)
  PROVE  TabInv'
<1>. DEFINE r == [tab[t] EXCEPT !.pc = "lost"]
<1>1. tab' = [tab EXCEPT ![t] = r]
  BY TabFacts DEF ProviderLost
<1>2. r \in Tab /\ r.api \in exchanged \cup {Old, None}
  BY TabFacts DEF Tab
<1>3. r.pc \notin {"login", "provider", "callback", "answered"}
  BY TabFacts DEF Tab, ProviderLost
<1>4. UNCHANGED <<cookie, good, fresh, begun, exchanged>> /\ stored' \in {stored, None}
  BY DEF ProviderLost, server, provider
<1>. HIDE DEF r
<1>. QED
  BY <1>1, <1>2, <1>3, <1>4, QuietTab

LEMMA ReloadStep ==
  ASSUME TabInv, NEW t \in Tabs, Reload(t)
  PROVE  TabInv'
<1>. DEFINE r == [tab[t] EXCEPT !.pc = "callback", !.result = "none"]
<1>1. tab' = [tab EXCEPT ![t] = r]
  BY TabFacts DEF Reload
<1>2. r \in Tab /\ r.api \in exchanged \cup {Old, None}
  BY TabFacts DEF Tab
<1>3. r.pc = "callback" /\ r.guard /\ r.login \in 1..begun
  BY TabFacts DEF Tab, Reload
<1>4. UNCHANGED <<cookie, good, fresh, begun, exchanged>> /\ stored' \in {stored, None}
  BY DEF Reload, server, provider
<1>. HIDE DEF r
<1>. QED
  BY <1>1, <1>2, <1>3, <1>4, QuietTab

LEMMA ConfigRefusedStep ==
  ASSUME TabInv, NEW t \in Tabs, ConfigRefused(t)
  PROVE  TabInv'
<1>1. UNCHANGED <<cookie, good, fresh, begun, exchanged>> /\ stored' \in {stored, None}
  BY DEF ConfigRefused, server, provider
<1>2. CASE tab' = [tab EXCEPT ![t].pc = "login", ![t].guard = TRUE]
  <2>. DEFINE r == [tab[t] EXCEPT !.pc = "login", !.guard = TRUE]
  <2>1. tab' = [tab EXCEPT ![t] = r] /\ r \in Tab
    BY <1>2, TabFacts DEF Tab
  <2>2. r.api \in exchanged \cup {Old, None} /\ r.pc = "login" /\ r.guard
    BY TabFacts DEF Tab
  <2>. HIDE DEF r
  <2>. QED
    BY <1>1, <2>1, <2>2, QuietTab
<1>3. CASE tab' = [tab EXCEPT ![t].pc = "page", ![t].api = None]
  <2>. DEFINE r == [tab[t] EXCEPT !.pc = "page", !.api = None]
  <2>1. tab' = [tab EXCEPT ![t] = r] /\ r \in Tab
    BY <1>3, TabFacts DEF Tab
  <2>2. r.api \in exchanged \cup {Old, None} /\ r.pc = "page"
    BY TabFacts DEF Tab
  <2>. HIDE DEF r
  <2>. QED
    BY <1>1, <2>1, <2>2, QuietTab
<1>. QED
  BY <1>2, <1>3 DEF ConfigRefused

LEMMA ProviderAnswersStep ==
  ASSUME TabInv, NEW t \in Tabs, ProviderAnswers(t)
  PROVE  TabInv'
<1>1. PICK denied \in BOOLEAN :
        tab' = [tab EXCEPT ![t].pc = "callback", ![t].denied = denied]
  BY DEF ProviderAnswers
<1>. DEFINE r == [tab[t] EXCEPT !.pc = "callback", !.denied = denied]
<1>2. tab' = [tab EXCEPT ![t] = r] /\ r \in Tab
  BY <1>1, TabFacts DEF Tab
<1>3. r.api \in exchanged \cup {Old, None}
  BY TabFacts DEF Tab
<1>4. r.pc = "callback" /\ r.guard /\ r.login \in 1..begun
  BY TabFacts DEF Tab, ProviderAnswers
<1>5. UNCHANGED <<cookie, good, fresh, begun, exchanged>> /\ stored' \in {stored, None}
  BY DEF ProviderAnswers, server, provider
<1>. HIDE DEF r
<1>. QED
  BY <1>2, <1>3, <1>4, <1>5, QuietTab

\* The callback answers without a token.
LEMMA RedirectStep ==
  ASSUME TabInv, NEW t \in Tabs, tab[t].pc = "callback",
         NEW result \in {"state_missing", "provider_unavailable", "state_rejected",
                         "state_mismatch", "provider_error", "exchange_failed"},
         Redirects(t, result),
         UNCHANGED <<stored, cookie, good, fresh, begun, exchanged>>
  PROVE  TabInv'
<1>. DEFINE r == [tab[t] EXCEPT !.pc = "answered", !.result = result]
<1>1. tab' = [tab EXCEPT ![t] = r] /\ r \in Tab
  BY TabFacts DEF Redirects, Tab
<1>2. r.api \in exchanged \cup {Old, None}
  BY TabFacts DEF Tab
<1>3. r.guard /\ r.login \in 1..begun /\ r.result # "token"
  BY TabFacts DEF Tab
<1>. HIDE DEF r
<1>. QED
  BY <1>1, <1>2, <1>3, QuietTab

LEMMA CallbackRefusedStep ==
  ASSUME TabInv, NEW t \in Tabs, CallbackRefused(t)
  PROVE  TabInv'
BY RedirectStep DEF CallbackRefused, provider

LEMMA CallbackFailsStep ==
  ASSUME TabInv, NEW t \in Tabs, CallbackFails(t)
  PROVE  TabInv'
BY RedirectStep DEF CallbackFails, provider

LEMMA CallbackExchangesStep ==
  ASSUME TabInv, NEW t \in Tabs, CallbackExchanges(t)
  PROVE  TabInv'
<1>0. PICK result \in {"token", "provider_error"} : Redirects(t, result)
  BY DEF CallbackExchanges
<1>. DEFINE r == [tab[t] EXCEPT !.pc = "answered", !.result = result]
<1>1. tab' = [tab EXCEPT ![t] = r] /\ r \in Tab
  BY <1>0, TabFacts DEF Redirects, Tab
<1>2. r.api = tab[t].api /\ r.guard /\ r.login = tab[t].login /\ r.pc = "answered"
  BY TabFacts DEF CallbackExchanges, Tab
<1>3. tab[t].login \in 1..begun /\ tab[t].login \in Logins
  BY TabFacts, LoginAssumption DEF CallbackExchanges, Logins
<1>4. exchanged' = exchanged \cup {tab[t].login}
      /\ good' \in {good, good \cup {tab[t].login}}
      /\ UNCHANGED <<stored, cookie, fresh, begun>>
  BY DEF CallbackExchanges
<1>5. good' \subseteq Token
  BY <1>3, <1>4, TabFacts DEF Token
<1>6. begun' = begun /\ begun' \in 0..MaxLogins /\ begun' >= begun
  BY <1>4, TabFacts, LoginAssumption
<1>7. exchanged \subseteq exchanged' /\ exchanged' \subseteq 1..begun'
  BY <1>3, <1>4, <1>6, TabFacts
<1>8. r.api \in exchanged' \cup {Old, None} /\ r.login \in exchanged'
      /\ r.login \in 1..begun'
  BY <1>2, <1>3, <1>4, <1>6, TabFacts
<1>9. /\ stored' \in Token \cup {None} /\ stored' \in exchanged' \cup {Old, None}
      /\ cookie' \in Logins \cup {None} /\ fresh' \subseteq Logins
  BY <1>4, TabFacts
<1>. HIDE DEF r
<1>. QED
  BY <1>1, <1>2, <1>5, <1>6, <1>7, <1>8, <1>9, TabChange

LEMMA LoginBeginsStep ==
  ASSUME TabInv, NEW t \in Tabs, LoginBegins(t)
  PROVE  TabInv'
<1>. DEFINE r == [tab[t] EXCEPT !.pc = "provider", !.login = begun + 1]
<1>1. begun + 1 \in Logins /\ begun + 1 \in 1..(begun + 1) /\ begun \in Nat
  BY TabFacts, LoginAssumption DEF LoginBegins, Logins
<1>2. tab' = [tab EXCEPT ![t] = r] /\ r \in Tab
  BY <1>1, TabFacts DEF LoginBegins, Tab
<1>3. r.api = tab[t].api /\ r.guard /\ r.login = begun + 1 /\ r.pc = "provider"
  BY TabFacts DEF LoginBegins, Tab
<1>4. /\ begun' = begun + 1 /\ cookie' = begun + 1 /\ fresh' = fresh \cup {begun + 1}
      /\ UNCHANGED <<stored, good, exchanged>>
  BY DEF LoginBegins, provider
<1>5. begun' \in 0..MaxLogins /\ begun' >= begun
  BY <1>1, <1>4, LoginAssumption DEF LoginBegins
<1>6. exchanged' \subseteq 1..begun' /\ exchanged \subseteq exchanged'
  BY <1>1, <1>4, TabFacts
<1>7. /\ stored' \in Token \cup {None} /\ stored' \in exchanged' \cup {Old, None}
      /\ cookie' \in Logins \cup {None} /\ good' \subseteq Token /\ fresh' \subseteq Logins
      /\ r.api \in exchanged' \cup {Old, None} /\ r.login \in 1..begun'
  BY <1>1, <1>3, <1>4, TabFacts
<1>. HIDE DEF r
<1>. QED
  BY <1>2, <1>3, <1>5, <1>6, <1>7, TabChange

LEMMA ReturnStep ==
  ASSUME TabInv, NEW t \in Tabs, Return(t)
  PROVE  TabInv'
<1>. DEFINE r == Loaded(tab[t], stored')
<1>1. tab[t].pc = "answered" /\ UNCHANGED <<good, fresh, begun, exchanged>> /\ cookie' = None
  BY DEF Return, server, provider
<1>2. stored' \in Token \cup {None} /\ stored' \in exchanged \cup {Old, None}
  <2>1. CASE tab[t].result = "token"
    <3>1. stored' = tab[t].login /\ tab[t].login \in exchanged
      BY <1>1, <2>1, TabFacts DEF Return
    <3>2. tab[t].login \in Logins
      BY <1>1, TabFacts, LoginAssumption DEF Logins
    <3>. QED
      BY <3>1, <3>2 DEF Token
  <2>2. CASE tab[t].result # "token"
    BY <2>2, TabFacts DEF Return
  <2>. QED
    BY <2>1, <2>2
<1>3. tab' = [tab EXCEPT ![t] = r]
  BY TabFacts DEF Return, Load, Loaded
<1>4. r \in Tab /\ r.pc = "config" /\ r.api = stored'
  BY <1>2, TabFacts, LoadedFacts
<1>5. begun' \in 0..MaxLogins /\ begun' >= begun
  BY <1>1, TabFacts, LoginAssumption
<1>6. /\ cookie' \in Logins \cup {None} /\ good' \subseteq Token /\ fresh' \subseteq Logins
      /\ exchanged \subseteq exchanged' /\ exchanged' \subseteq 1..begun'
      /\ r.api \in exchanged' \cup {Old, None}
      /\ stored' \in exchanged' \cup {Old, None}
  BY <1>1, <1>2, <1>4, TabFacts
<1>. HIDE DEF r
<1>. QED
  BY <1>2, <1>3, <1>4, <1>5, <1>6, TabChange

\* Time and failures leave the tabs as they are.
LEMMA EnvironmentStep ==
  ASSUME TabInv, Environment \/ UNCHANGED vars
  PROVE  TabInv'
<1>1. /\ UNCHANGED <<tab, stored, begun, exchanged>>
      /\ good' \subseteq good /\ fresh' \subseteq fresh /\ cookie' \in {cookie, None}
  BY DEF Environment, ProviderTurns, IntervalPasses, TokenExpires, LoginExpires, Restart,
         vars, browser, server, provider
<1>2. LoginTypeOK'
  BY <1>1 DEF TabInv, LoginTypeOK
<1>3. Marked' /\ Issued'
  BY <1>1 DEF TabInv, Marked, Issued
<1>. QED
  BY <1>2, <1>3 DEF TabInv

LEMMA TabInvStep == TabInv /\ [Next]_vars => TabInv'
BY OpenStep, RefreshStep, ConfigOKStep, ConfigFailsStep, LogInStep, LogOutStep,
   LoginRefusedStep, ProviderLostStep, ReloadStep, ConfigRefusedStep, ProviderAnswersStep,
   CallbackRefusedStep, CallbackFailsStep, CallbackExchangesStep, LoginBeginsStep, ReturnStep,
   EnvironmentStep
   DEF Next, TabStep, UserStep

LEMMA TabInvInit == Init => TabInv
<1>. SUFFICES ASSUME Init PROVE TabInv
  OBVIOUS
<1>1. Closed \in Tab
  BY DEF Closed, Tab
<1>2. tab = [t \in Tabs |-> Closed] /\ Closed.pc = "closed" /\ Closed.api = None
  BY DEF Init, Closed
<1>3. LoginTypeOK
  BY <1>1, <1>2, LoginAssumption DEF Init, LoginTypeOK, Token
<1>. QED
  BY <1>2, <1>3 DEF TabInv, Marked, Issued

-----------------------------------------------------------------------------
(* The count *)

LEMMA OwedFinite ==
  /\ IsFiniteSet(Owed)
  /\ Cardinality(Owed) \in Nat
BY LoginAssumption, FS_Subset, FS_CardinalityType DEF Owed

LEMMA OwedFiniteNext ==
  /\ IsFiniteSet(Owed')
  /\ Cardinality(Owed') \in Nat
BY LoginAssumption, FS_Subset, FS_CardinalityType DEF Owed

\* A step that leaves no more tabs on their way.
LEMMA OwedShrinks ==
  ASSUME TabInv, Budget, Owed' \subseteq Owed, begun' = begun, asked' = asked
  PROVE  Budget'
<1>1. Cardinality(Owed') <= Cardinality(Owed)
  BY OwedFinite, FS_Subset
<1>2. begun \in Nat
  BY LoginAssumption DEF TabInv, LoginTypeOK
<1>. QED
  BY <1>1, <1>2, OwedFinite, OwedFiniteNext DEF Budget

\* A step a user asks for.
LEMMA OwedGrows ==
  ASSUME TabInv, Budget, NEW t, Owed' \subseteq Owed \cup {t},
         begun' = begun, asked' = asked + 1
  PROVE  Budget'
<1>1. IsFiniteSet(Owed \cup {t}) /\ Cardinality(Owed \cup {t}) <= Cardinality(Owed) + 1
  BY OwedFinite, FS_AddElement
<1>2. Cardinality(Owed') <= Cardinality(Owed \cup {t})
  BY <1>1, FS_Subset
<1>3. begun \in Nat /\ Cardinality(Owed \cup {t}) \in Nat
  BY <1>1, FS_CardinalityType, LoginAssumption DEF TabInv, LoginTypeOK
<1>. QED
  BY <1>1, <1>2, <1>3, OwedFinite, OwedFiniteNext DEF Budget

\* A login begun is one no longer owed.
LEMMA OwedPays ==
  ASSUME TabInv, Budget, NEW t \in Owed, Owed' \subseteq Owed \ {t},
         begun' = begun + 1, asked' = asked
  PROVE  Budget'
<1>1. IsFiniteSet(Owed \ {t}) /\ Cardinality(Owed \ {t}) = Cardinality(Owed) - 1
  BY OwedFinite, FS_RemoveElement
<1>2. Cardinality(Owed') <= Cardinality(Owed \ {t})
  BY <1>1, FS_Subset
<1>3. begun \in Nat
  BY LoginAssumption DEF TabInv, LoginTypeOK
<1>. QED
  BY <1>1, <1>2, <1>3, OwedFinite, OwedFiniteNext DEF Budget

\* A step of one tab is about that tab.
LEMMA OthersStay ==
  ASSUME TabInv, NEW t \in Tabs, TabStep(t) \/ UserStep(t), NEW u \in Tabs \ {t}
  PROVE  tab'[u] = tab[u]
BY DEF TabInv, LoginTypeOK, TabStep, UserStep, ConfigOK, ConfigRefused, ConfigFails,
       LoginRefused, LoginBegins, ProviderAnswers, ProviderLost, CallbackRefused,
       CallbackFails, CallbackExchanges, Return, Open, Refresh, LogIn, LogOut, Reload,
       Redirects, Load

LEMMA OwedOthers ==
  ASSUME TabInv, NEW t \in Tabs, TabStep(t) \/ UserStep(t)
  PROVE  /\ Owed' \subseteq Owed \cup {t}
         /\ ~Owes(t)' => Owed' \subseteq Owed \ {t}
         /\ Owes(t) => Owed' \subseteq Owed
BY OthersStay DEF Owed, Owes

LEMMA RedirectPc ==
  ASSUME tab \in [Tabs -> Tab], NEW t \in Tabs, NEW result, Redirects(t, result)
  PROVE  tab'[t].pc = "answered"
BY DEF Redirects, Tab

LEMMA UserBudget ==
  ASSUME TabInv, Budget, NEW t \in Tabs, UserStep(t)
  PROVE  Budget'
<1>1. begun' = begun /\ asked' = asked + 1
  BY DEF UserStep, Open, Refresh, LogIn, LogOut, Reload, Ask, server
<1>. QED
  BY <1>1, OwedOthers, OwedGrows

LEMMA TabBudget ==
  ASSUME TabInv, Budget, NEW t \in Tabs, TabStep(t)
  PROVE  Budget'
<1>0. tab \in [Tabs -> Tab]
  BY TabFacts
<1>1. CASE LoginBegins(t)
  <2>1. Owes(t) /\ ~Owes(t)'
    BY <1>0, <1>1 DEF LoginBegins, Owes, Tab
  <2>2. t \in Owed /\ begun' = begun + 1 /\ asked' = asked
    BY <1>1, <2>1 DEF LoginBegins, Owed
  <2>. QED
    BY <2>1, <2>2, OwedOthers, OwedPays
<1>2. CASE ConfigRefused(t)
  <2>1. Owes(t) \/ ~Owes(t)'
    BY <1>0, <1>2 DEF ConfigRefused, RenewsNow, Owes, Tab
  <2>2. begun' = begun /\ asked' = asked
    BY <1>2 DEF ConfigRefused, server, history
  <2>. QED
    BY <2>1, <2>2, OwedOthers, OwedShrinks
<1>3. CASE Return(t)
  <2>1. tab[t].guard
    BY <1>3, TabFacts DEF Return
  <2>2. ~Owes(t)'
    BY <1>0, <1>3, <2>1 DEF Return, Load, Owes, Tab
  <2>3. begun' = begun /\ asked' = asked
    BY <1>3 DEF Return, server
  <2>. QED
    BY <2>2, <2>3, OwedOthers, OwedShrinks
<1>4. CASE ConfigOK(t) \/ ConfigFails(t) \/ LoginRefused(t) \/ ProviderLost(t)
           \/ ProviderAnswers(t)
  <2>1. ProviderAnswers(t) => tab'[t].pc = "callback"
    BY <1>0 DEF ProviderAnswers, Tab
  <2>2. ConfigOK(t) => tab'[t].pc = "page"
    BY <1>0 DEF ConfigOK, Tab
  <2>3. ConfigFails(t) => tab'[t].pc = "page"
    BY <1>0 DEF ConfigFails, Tab
  <2>4. LoginRefused(t) => tab'[t].pc = "refused"
    BY <1>0 DEF LoginRefused, Tab
  <2>5. ProviderLost(t) => tab'[t].pc = "lost"
    BY <1>0 DEF ProviderLost, Tab
  <2>6. ~Owes(t)'
    BY <1>4, <2>1, <2>2, <2>3, <2>4, <2>5 DEF Owes
  <2>7. begun' = begun /\ asked' = asked
    BY <1>4 DEF ConfigOK, ConfigFails, LoginRefused, ProviderLost, ProviderAnswers, server, history
  <2>. QED
    BY <2>6, <2>7, OwedOthers, OwedShrinks
<1>5. CASE CallbackRefused(t) \/ CallbackFails(t) \/ CallbackExchanges(t)
  <2>1. tab'[t].pc = "answered"
    BY <1>0, <1>5, RedirectPc DEF CallbackRefused, CallbackFails, CallbackExchanges
  <2>2. ~Owes(t)'
    BY <2>1 DEF Owes
  <2>3. begun' = begun /\ asked' = asked
    BY <1>5 DEF CallbackRefused, CallbackFails, CallbackExchanges, history
  <2>. QED
    BY <2>2, <2>3, OwedOthers, OwedShrinks
<1>. QED
  BY <1>1, <1>2, <1>3, <1>4, <1>5 DEF TabStep

LEMMA EnvironmentBudget ==
  ASSUME TabInv, Budget, Environment \/ UNCHANGED vars
  PROVE  Budget'
<1>1. UNCHANGED <<tab, begun, asked>>
  BY DEF Environment, ProviderTurns, IntervalPasses, TokenExpires, LoginExpires, Restart,
         vars, browser, server, history
<1>2. Owed' = Owed
  BY <1>1 DEF Owed, Owes
<1>. QED
  BY <1>1, <1>2 DEF Budget

LEMMA LoginInit == Init => LoginInv
<1>. SUFFICES ASSUME Init PROVE LoginInv
  OBVIOUS
<1>1. tab = [t \in Tabs |-> Closed] /\ Closed.pc = "closed" /\ begun = 0 /\ asked = 0
  BY DEF Init, Closed
<1>2. Owed = {}
  BY <1>1 DEF Owed, Owes
<1>3. Budget
  BY <1>1, <1>2, FS_EmptySet DEF Budget
<1>. QED
  BY <1>3, TabInvInit DEF LoginInv

LEMMA LoginStep == LoginInv /\ [Next]_vars => LoginInv'
BY TabInvStep, UserBudget, TabBudget, EnvironmentBudget DEF LoginInv, Next

-----------------------------------------------------------------------------
(* The theorems *)

\* The types, and that the tokens a browser keeps were issued.
THEOREM LoginTypeCorrect == LoginSpec => []LoginTypeOK
<1>1. LoginInv => LoginTypeOK
  BY DEF LoginInv, TabInv
<1>. QED
  BY <1>1, LoginInit, LoginStep, PTL DEF LoginSpec

\* However many tabs a browser has, and whatever their server refuses, they begin no
\* more logins than their user has asked for things.
THEOREM TabsDoNotBounce == LoginSpec => []LoginsAreAsked
<1>1. LoginInv => LoginsAreAsked
  <2>1. ASSUME LoginInv PROVE begun \in Nat
    BY <2>1, LoginAssumption DEF LoginInv, TabInv, LoginTypeOK
  <2>. QED
    BY <2>1, OwedFinite DEF LoginInv, Budget, LoginsAreAsked
<1>. QED
  BY <1>1, LoginInit, LoginStep, PTL DEF LoginSpec

-----------------------------------------------------------------------------
(* The causes *)

\* A provider that does not answer, or did not when it was last looked for, is known to
\* have been down within the retry interval.
OutageKnown == (~up => outage) /\ (discovery = "failed" => outage)

\* No two tabs are on their way through the same login.
LoginsApart ==
  /\ \A t \in Tabs : tab[t].login \in {None} \cup 1..begun
  /\ \A t, u \in Tabs : tab[t].login = tab[u].login /\ tab[t].login # None => t = u

OnItsWay(t) == tab[t].pc \in {"provider", "callback"}

\* The one cookie is that of a login under way, still good and not yet used, unless the
\* login met another one, a reload, a new key or its ten minutes.
CookieKept ==
  \A t \in Tabs : OnItsWay(t) /\ tab[t].login \notin crossed =>
    cookie = tab[t].login /\ tab[t].login \in fresh \ exchanged

CauseInv == OutageKnown /\ LoginsApart /\ CookieKept

LEMMA OutageStep == OutageKnown /\ [Next]_vars => OutageKnown'
<1>. SUFFICES ASSUME OutageKnown, [Next]_vars PROVE OutageKnown'
  OBVIOUS
<1>. USE DEF OutageKnown
<1>1. ASSUME NEW t \in Tabs, TabStep(t) \/ UserStep(t) PROVE OutageKnown'
  <2>1. UNCHANGED <<up, outage>>
    BY <1>1 DEF TabStep, UserStep, ConfigOK, ConfigRefused, ConfigFails, LoginRefused,
                LoginBegins, ProviderAnswers, ProviderLost, CallbackRefused, CallbackFails,
                CallbackExchanges, Return, Open, Refresh, LogIn, LogOut, Reload,
                provider, history
  <2>2. UNCHANGED discovery \/ Discover(TRUE) \/ Discover(FALSE)
    BY <1>1 DEF TabStep, UserStep, ConfigOK, ConfigRefused, ConfigFails, LoginRefused,
                LoginBegins, ProviderAnswers, ProviderLost, CallbackRefused, CallbackFails,
                CallbackExchanges, Return, Open, Refresh, LogIn, LogOut, Reload, server
  <2>. QED
    BY <2>1, <2>2 DEF Discover
<1>2. CASE ProviderTurns
  BY <1>2 DEF ProviderTurns, ProviderGoes, ProviderComes, server
<1>3. CASE IntervalPasses
  BY <1>3 DEF IntervalPasses, provider
<1>4. CASE TokenExpires \/ LoginExpires \/ Restart \/ UNCHANGED vars
  BY <1>4 DEF TokenExpires, LoginExpires, Restart, vars, server, provider, history
<1>. QED
  BY <1>1, <1>2, <1>3, <1>4 DEF Next, Environment

LEMMA RedirectLogin ==
  ASSUME tab \in [Tabs -> Tab], NEW t \in Tabs, NEW result, Redirects(t, result)
  PROVE  tab'[t].login = tab[t].login /\ tab'[t].result = result
BY DEF Redirects, Tab

\* The steps of a tab that begin no login, use none and clear no cookie.
LEMMA QuietLogin ==
  ASSUME TabInv, NEW t \in Tabs,
         \/ ConfigOK(t) \/ ConfigRefused(t) \/ ConfigFails(t) \/ LoginRefused(t)
         \/ ProviderAnswers(t) \/ ProviderLost(t) \/ CallbackRefused(t) \/ CallbackFails(t)
         \/ UserStep(t)
  PROVE  /\ UNCHANGED <<cookie, fresh, begun, exchanged>>
         /\ crossed \subseteq crossed'
         /\ tab'[t].login \in {None, tab[t].login}
         /\ OnItsWay(t)' => OnItsWay(t) \/ tab'[t].login \in crossed'
<1>1. UNCHANGED <<cookie, fresh, begun, exchanged>> /\ crossed \subseteq crossed'
  BY DEF UserStep, ConfigOK, ConfigRefused, ConfigFails, LoginRefused, ProviderAnswers,
         ProviderLost, CallbackRefused, CallbackFails, Open, Refresh, LogIn, LogOut, Reload,
         server, provider, history
<1>. USE TabFacts DEF OnItsWay
<1>2. CASE ConfigOK(t) \/ ConfigFails(t) \/ LoginRefused(t) \/ ProviderLost(t)
  <2>1. CASE ConfigOK(t)
    BY <1>1, <2>1 DEF ConfigOK, Tab
  <2>2. CASE ConfigFails(t)
    BY <1>1, <2>2 DEF ConfigFails, Tab
  <2>3. CASE LoginRefused(t)
    BY <1>1, <2>3 DEF LoginRefused, Tab
  <2>4. CASE ProviderLost(t)
    BY <1>1, <2>4 DEF ProviderLost, Tab
  <2>. QED
    BY <1>2, <2>1, <2>2, <2>3, <2>4
<1>3. CASE ConfigRefused(t)
  BY <1>1, <1>3 DEF ConfigRefused, Tab
<1>4. CASE ProviderAnswers(t)
  BY <1>1, <1>4 DEF ProviderAnswers, Tab
<1>5. CASE CallbackRefused(t) \/ CallbackFails(t)
  <2>1. tab'[t].pc = "answered" /\ tab'[t].login = tab[t].login
    BY <1>5, RedirectPc, RedirectLogin DEF CallbackRefused, CallbackFails
  <2>. QED
    BY <1>1, <2>1
<1>6. CASE Open(t)
  BY <1>1, <1>6 DEF Open, Load, Tab
<1>7. CASE Refresh(t) \/ LogIn(t) \/ LogOut(t)
  <2>1. CASE Refresh(t)
    BY <1>1, <2>1 DEF Refresh, Tab
  <2>2. CASE LogIn(t)
    BY <1>1, <2>2 DEF LogIn, Tab
  <2>3. CASE LogOut(t)
    BY <1>1, <2>3 DEF LogOut, Tab
  <2>. QED
    BY <1>7, <2>1, <2>2, <2>3
<1>8. CASE Reload(t)
  BY <1>1, <1>8 DEF Reload, Tab
<1>. QED
  BY <1>1, <1>2, <1>3, <1>4, <1>5, <1>6, <1>7, <1>8 DEF UserStep

LEMMA QuietCause ==
  ASSUME TabInv, TabInv', CauseInv, NEW t \in Tabs,
         \A u \in Tabs \ {t} : tab'[u] = tab[u],
         UNCHANGED <<cookie, fresh, begun, exchanged>>,
         crossed \subseteq crossed',
         tab'[t].login \in {None, tab[t].login},
         OnItsWay(t)' => OnItsWay(t) \/ tab'[t].login \in crossed'
  PROVE  LoginsApart' /\ CookieKept'
<1>1. \A u \in Tabs : tab'[u].login \in {None, tab[u].login}
  OBVIOUS
<1>2. LoginsApart'
  BY <1>1 DEF CauseInv, LoginsApart
<1>3. ASSUME NEW u \in Tabs, OnItsWay(u)', tab'[u].login \notin crossed'
      PROVE  cookie' = tab'[u].login /\ tab'[u].login \in fresh' \ exchanged'
  <2>1. OnItsWay(u)
    BY <1>3 DEF OnItsWay
  <2>2. tab'[u].login # None
    <3>1. tab'[u].login \in 1..begun' /\ begun' \in Nat
      BY <1>3, LoginAssumption DEF TabInv, LoginTypeOK, OnItsWay
    <3>. QED
      BY <3>1 DEF None
  <2>. QED
    BY <1>1, <1>3, <2>1, <2>2 DEF CauseInv, CookieKept
<1>. QED
  BY <1>2, <1>3 DEF CookieKept

\* A login that is used leaves the others: it had the one cookie.
LEMMA MintCause ==
  ASSUME TabInv, TabInv', CauseInv, NEW t \in Tabs, CallbackExchanges(t)
  PROVE  LoginsApart' /\ CookieKept'
<1>1. \A u \in Tabs \ {t} : tab'[u] = tab[u]
  BY OthersStay DEF TabStep
<1>2. /\ UNCHANGED <<cookie, fresh, begun, crossed>>
      /\ exchanged' = exchanged \cup {tab[t].login}
      /\ tab[t].pc = "callback"
  BY DEF CallbackExchanges, history
<1>3. tab'[t].pc = "answered" /\ tab'[t].login = tab[t].login
  BY TabFacts, RedirectPc, RedirectLogin DEF CallbackExchanges
<1>4. \A u \in Tabs : tab'[u].login = tab[u].login
  BY <1>1, <1>3
<1>5. LoginsApart'
  BY <1>2, <1>4 DEF CauseInv, LoginsApart
<1>6. ASSUME NEW u \in Tabs, OnItsWay(u)', tab'[u].login \notin crossed'
      PROVE  cookie' = tab'[u].login /\ tab'[u].login \in fresh' \ exchanged'
  <2>1. u # t /\ OnItsWay(u)
    BY <1>1, <1>3, <1>6 DEF OnItsWay
  <2>2. tab[u].login \in 1..begun
    BY <2>1 DEF TabInv, LoginTypeOK, OnItsWay
  <2>3. tab[u].login # None
    BY <2>2, TabFacts, LoginAssumption DEF None
  <2>4. tab[u].login # tab[t].login
    BY <2>1, <2>3 DEF CauseInv, LoginsApart
  <2>. QED
    BY <1>2, <1>4, <1>6, <2>1, <2>4 DEF CauseInv, CookieKept
<1>. QED
  BY <1>5, <1>6 DEF CookieKept

\* Every other login under way is crossed by one that begins, or that returns.
LEMMA CrossedByAnother ==
  ASSUME TabInv', NEW t \in Tabs, \A u \in Tabs \ {t} : tab'[u] = tab[u],
         crossed' = crossed \cup Pending(t),
         NEW u \in Tabs \ {t}, OnItsWay(u)'
  PROVE  tab'[u].login \in crossed'
<1>1. tab'[u].login \in 1..begun' /\ begun' \in Nat
  BY LoginAssumption DEF TabInv, LoginTypeOK, OnItsWay
<1>2. tab[u].login \in Pending(t)
  BY <1>1 DEF Pending, None
<1>. QED
  BY <1>2

LEMMA BeginCause ==
  ASSUME TabInv, TabInv', CauseInv, NEW t \in Tabs, LoginBegins(t)
  PROVE  LoginsApart' /\ CookieKept'
<1>1. \A u \in Tabs \ {t} : tab'[u] = tab[u]
  BY OthersStay DEF TabStep
<1>2. /\ begun' = begun + 1 /\ cookie' = begun + 1 /\ fresh' = fresh \cup {begun + 1}
      /\ crossed' = crossed \cup Pending(t) /\ UNCHANGED exchanged
  BY DEF LoginBegins, provider
<1>3. tab'[t].login = begun + 1
  BY TabFacts DEF LoginBegins, Tab
<1>4. begun \in Nat /\ exchanged \subseteq 1..begun
  BY TabFacts, LoginAssumption
<1>5. \A u \in Tabs \ {t} : tab'[u].login \in {None} \cup 1..begun
  BY <1>1 DEF CauseInv, LoginsApart
<1>6. \A u \in Tabs \ {t} : tab'[u].login # begun + 1
  BY <1>4, <1>5 DEF None
<1>7. \A u \in Tabs : tab'[u].login \in {None} \cup 1..begun'
  BY <1>2, <1>3, <1>4, <1>5
<1>8. \A u, v \in Tabs : tab'[u].login = tab'[v].login /\ tab'[u].login # None => u = v
  BY <1>1, <1>3, <1>6 DEF CauseInv, LoginsApart
<1>9. begun + 1 \notin exchanged
  BY <1>4
<1>10. CookieKept'
  BY <1>1, <1>2, <1>3, <1>9, CrossedByAnother DEF CookieKept
<1>. QED
  BY <1>7, <1>8, <1>10 DEF LoginsApart

LEMMA ReturnCause ==
  ASSUME TabInv, TabInv', CauseInv, NEW t \in Tabs, Return(t)
  PROVE  LoginsApart' /\ CookieKept'
<1>1. \A u \in Tabs \ {t} : tab'[u] = tab[u]
  BY OthersStay DEF TabStep
<1>2. UNCHANGED begun /\ crossed' = crossed \cup Pending(t)
  BY DEF Return, server
<1>3. tab'[t].login = None /\ tab'[t].pc = "config"
  BY TabFacts DEF Return, Load, Tab
<1>4. LoginsApart'
  BY <1>1, <1>2, <1>3 DEF CauseInv, LoginsApart
<1>5. CookieKept'
  BY <1>1, <1>2, <1>3, CrossedByAnother DEF CookieKept, OnItsWay
<1>. QED
  BY <1>4, <1>5

\* The cookie goes, or is no longer good, with a login that is marked for it.
LEMMA EnvironmentCause ==
  ASSUME TabInv, CauseInv, Environment \/ UNCHANGED vars
  PROVE  LoginsApart' /\ CookieKept'
<1>1. UNCHANGED <<tab, begun, exchanged>>
  BY DEF Environment, ProviderTurns, IntervalPasses, TokenExpires, LoginExpires, Restart,
         vars, browser, server, provider
<1>2. LoginsApart'
  BY <1>1 DEF CauseInv, LoginsApart
<1>3. \A l \in fresh \ crossed' :
        l \in fresh' /\ crossed \subseteq crossed' /\ (cookie = l => cookie' = l)
  BY DEF Environment, ProviderTurns, IntervalPasses, TokenExpires, LoginExpires, Restart,
         vars, browser, server, provider, history
<1>4. crossed \subseteq crossed'
  BY DEF Environment, ProviderTurns, IntervalPasses, TokenExpires, LoginExpires, Restart,
         vars, history
<1>5. CookieKept'
  BY <1>1, <1>3, <1>4 DEF CauseInv, CookieKept, OnItsWay
<1>. QED
  BY <1>2, <1>5

LEMMA CauseStep == TabInv /\ TabInv' /\ CauseInv /\ [Next]_vars => CauseInv'
<1>. SUFFICES ASSUME TabInv, TabInv', CauseInv, [Next]_vars
              PROVE  LoginsApart' /\ CookieKept'
  BY OutageStep DEF CauseInv
<1>1. ASSUME NEW t \in Tabs,
             \/ ConfigOK(t) \/ ConfigRefused(t) \/ ConfigFails(t) \/ LoginRefused(t)
             \/ ProviderAnswers(t) \/ ProviderLost(t) \/ CallbackRefused(t)
             \/ CallbackFails(t) \/ UserStep(t)
      PROVE  LoginsApart' /\ CookieKept'
  <2>1. \A u \in Tabs \ {t} : tab'[u] = tab[u]
    BY <1>1, OthersStay DEF TabStep
  <2>. QED
    BY <1>1, <2>1, QuietLogin, QuietCause
<1>. QED
  BY <1>1, MintCause, BeginCause, ReturnCause, EnvironmentCause DEF Next, TabStep

LEMMA CauseInit == Init => CauseInv
<1>. SUFFICES ASSUME Init PROVE CauseInv
  OBVIOUS
<1>1. \A t \in Tabs : tab[t].pc = "closed" /\ tab[t].login = None
  BY DEF Init, Closed
<1>2. OutageKnown
  BY DEF Init, OutageKnown
<1>3. LoginsApart /\ CookieKept
  BY <1>1 DEF LoginsApart, CookieKept, OnItsWay
<1>. QED
  BY <1>2, <1>3 DEF CauseInv

-----------------------------------------------------------------------------
(* What the user is told *)

\* What a step tells the user of a tab, it tells in that tab's answer.
LEMMA ToldByCallback ==
  ASSUME TabInv, [Next]_vars, NEW t \in Tabs,
         \/ ~Unmatched(t) /\ Unmatched(t)'
         \/ ~Unexchanged(t) /\ Unexchanged(t)'
         \/ ~Unreachable(t) /\ Unreachable(t)'
  PROVE  CallbackRefused(t) \/ CallbackFails(t) \/ LoginRefused(t)
<1>. USE TabFacts DEF Unmatched, Unexchanged, Unreachable
<1>1. tab'[t] # tab[t]
  OBVIOUS
<1>2. TabStep(t) \/ UserStep(t)
  <2>1. CASE Environment \/ UNCHANGED vars
    <3>1. UNCHANGED tab
      BY <2>1 DEF Environment, ProviderTurns, IntervalPasses, TokenExpires, LoginExpires,
                  Restart, vars, browser
    <3>. QED
      BY <1>1, <3>1
  <2>2. ASSUME NEW u \in Tabs, TabStep(u) \/ UserStep(u)
        PROVE  u = t
    BY <1>1, <2>2, OthersStay
  <2>. QED
    BY <2>1, <2>2 DEF Next
<1>3. ~Open(t) /\ ~Return(t)
  <2>1. Load(t, stored) \/ Load(t, stored') => tab'[t].result = "none" /\ tab'[t].pc = "config"
    BY DEF Load, Tab
  <2>. QED
    BY <2>1 DEF Open, Return
<1>4. ~Refresh(t) /\ ~LogIn(t) /\ ~LogOut(t) /\ ~Reload(t)
  <2>1. ~Refresh(t)
    BY DEF Refresh, Tab
  <2>2. ~LogIn(t)
    BY DEF LogIn, Tab
  <2>3. ~LogOut(t)
    BY DEF LogOut, Tab
  <2>4. ~Reload(t)
    BY DEF Reload, Tab
  <2>. QED
    BY <2>1, <2>2, <2>3, <2>4
<1>5. ~ConfigOK(t) /\ ~ConfigRefused(t) /\ ~ConfigFails(t)
  <2>1. ~ConfigOK(t)
    BY DEF ConfigOK, Tab
  <2>2. ~ConfigRefused(t)
    BY DEF ConfigRefused, Tab
  <2>3. ~ConfigFails(t)
    BY DEF ConfigFails, Tab
  <2>. QED
    BY <2>1, <2>2, <2>3
<1>6. ~LoginBegins(t) /\ ~ProviderAnswers(t) /\ ~ProviderLost(t)
  <2>1. ~LoginBegins(t)
    BY DEF LoginBegins, Tab
  <2>2. ~ProviderAnswers(t)
    BY DEF ProviderAnswers, Tab
  <2>3. ~ProviderLost(t)
    BY DEF ProviderLost, Tab
  <2>. QED
    BY <2>1, <2>2, <2>3
<1>7. ~CallbackExchanges(t)
  <2>1. ASSUME NEW result \in {"token", "provider_error"}, Redirects(t, result)
        PROVE  tab'[t].pc = "answered" /\ tab'[t].result = result
    BY <2>1, RedirectPc, RedirectLogin
  <2>. QED
    BY <2>1 DEF CallbackExchanges
<1>. QED
  BY <1>2, <1>3, <1>4, <1>5, <1>6, <1>7 DEF TabStep, UserStep

\* A cookie that is turned down is not one CookieKept speaks of.
LEMMA CallbackCause ==
  ASSUME TabInv, CauseInv, NEW t \in Tabs, CallbackRefused(t) \/ CallbackFails(t)
  PROVE  /\ Unmatched(t)' => tab[t].login \in crossed
         /\ Unexchanged(t)' => tab[t].login \in crossed \/ outage
         /\ Unreachable(t)' => outage
<1>1. OnItsWay(t) /\ tab[t].login # None
  <2>1. tab[t].pc = "callback"
    BY DEF CallbackRefused, CallbackFails
  <2>2. tab[t].login \in 1..begun /\ begun \in Nat
    BY <2>1, TabFacts, LoginAssumption
  <2>. QED
    BY <2>1, <2>2 DEF OnItsWay, None
<1>2. ASSUME tab[t].login \notin crossed
      PROVE  cookie = tab[t].login /\ cookie \in fresh /\ cookie \notin exchanged
             /\ cookie # None
  BY <1>1, <1>2 DEF CauseInv, CookieKept
<1>3. Discover(FALSE) \/ ~up => outage
  BY DEF Discover, CauseInv, OutageKnown
<1>4. ASSUME NEW result, Redirects(t, result)
      PROVE  /\ Unmatched(t)' => result \in {"state_missing", "state_rejected", "state_mismatch"}
             /\ Unexchanged(t)' => result = "exchange_failed"
             /\ Unreachable(t)' => result = "provider_unavailable"
  <2>1. tab'[t].pc = "answered" /\ tab'[t].result = result
    BY <1>4, TabFacts, RedirectPc, RedirectLogin
  <2>. QED
    BY <2>1 DEF Unmatched, Unexchanged, Unreachable
<1>5. CASE CallbackRefused(t)
  <2>1. CASE cookie = None /\ Redirects(t, "state_missing")
    BY <1>2, <1>4, <2>1
  <2>2. CASE Discover(FALSE) /\ Redirects(t, "provider_unavailable")
    BY <1>3, <1>4, <2>2
  <2>. QED
    BY <1>5, <2>1, <2>2 DEF CallbackRefused
<1>6. CASE CallbackFails(t)
  <2>1. ASSUME NEW reason \in {"state_rejected", "state_mismatch"},
               CookieFails(tab[t].login, reason), Redirects(t, reason)
        PROVE  /\ Unmatched(t)' => tab[t].login \in crossed
               /\ ~Unexchanged(t)' /\ ~Unreachable(t)'
    <3>1. tab[t].login \in crossed
      BY <1>2, <2>1 DEF CookieFails
    <3>2. ~Unexchanged(t)' /\ ~Unreachable(t)'
      BY <1>4, <2>1
    <3>. QED
      BY <3>1, <3>2
  <2>2. CASE Redirects(t, "provider_error")
    BY <1>4, <2>2
  <2>3. CASE ~Exchanges(tab[t].login) /\ Redirects(t, "exchange_failed")
    <3>1. tab[t].login \in crossed \/ outage
      BY <1>2, <1>3, <2>3 DEF Exchanges
    <3>. QED
      BY <1>4, <2>3, <3>1
  <2>. QED
    BY <1>6, <2>1, <2>2, <2>3 DEF CallbackFails
<1>. QED
  BY <1>5, <1>6

\* A login is refused when the provider has just not been found, or was not of late.
LEMMA RefusedCause ==
  ASSUME TabInv, CauseInv, NEW t \in Tabs, LoginRefused(t)
  PROVE  /\ outage
         /\ Unmatched(t)' => Unmatched(t)
         /\ Unexchanged(t)' => Unexchanged(t)
<1>1. outage
  BY DEF LoginRefused, Discover, CauseInv, OutageKnown
<1>2. tab'[t].result = tab[t].result
  BY TabFacts DEF LoginRefused, Tab
<1>. QED
  BY <1>1, <1>2 DEF Unmatched, Unexchanged

\* A user is told that a login did not match, took too long or could not reach the
\* provider only when one of the things that may happen to a login has happened to it.
THEOREM FailuresHaveCauses == LoginSpec => FailsForCause
<1>. DEFINE A == \A t \in Tabs :
                   /\ ~Unmatched(t) /\ Unmatched(t)' => tab[t].login \in crossed
                   /\ ~Unexchanged(t) /\ Unexchanged(t)' => tab[t].login \in crossed \/ outage
                   /\ ~Unreachable(t) /\ Unreachable(t)' => outage
<1>1. ASSUME TabInv, CauseInv, [Next]_vars, NEW t \in Tabs
      PROVE  /\ ~Unmatched(t) /\ Unmatched(t)' => tab[t].login \in crossed
             /\ ~Unexchanged(t) /\ Unexchanged(t)' => tab[t].login \in crossed \/ outage
             /\ ~Unreachable(t) /\ Unreachable(t)' => outage
  <2>1. CASE LoginRefused(t)
    BY <1>1, <2>1, RefusedCause
  <2>2. CASE CallbackRefused(t) \/ CallbackFails(t)
    BY <1>1, <2>2, CallbackCause
  <2>3. CASE ~LoginRefused(t) /\ ~CallbackRefused(t) /\ ~CallbackFails(t)
    BY <1>1, <2>3, ToldByCallback
  <2>. QED
    BY <2>1, <2>2, <2>3
<1>2. TabInv /\ CauseInv /\ [Next]_vars => [A]_vars
  BY <1>1
<1>3. LoginInv => TabInv
  BY DEF LoginInv
<1>. QED
  BY <1>2, <1>3, CauseInit, CauseStep, LoginInit, LoginStep, PTL
     DEF LoginSpec, FailsForCause
=============================================================================
