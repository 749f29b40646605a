---------------------------- MODULE SessionProofs ----------------------------
(***************************************************************************)
(* Proofs about Session.  A token carries its expiry and no memory of what  *)
(* granted it; the invariant Backed ties the two together: whoever it was   *)
(* issued to could have logged in to each of its rights when it was issued, *)
(* or later.                                                                *)
(***************************************************************************)
EXTENDS Session, TLAPS

\* What the history says of the state: a right that a login would grant now is
\* recorded as of now, and nothing is recorded of the future.
Recorded ==
  \A u \in Users, p \in Permissions :
    /\ CouldLogin(u, p) => entitled[u][p] = now
    /\ entitled[u][p] <= now

\* A login's token expires SessionTTL after it was issued, and its rights were still
\* granted at that moment or later.
Backed ==
  \A t \in tokens : t.via = "oidc" =>
    /\ SessionTTL > 0 => t.exp = t.iat + SessionTTL
    /\ \A p \in t.perms : entitled[t.sub][p] >= t.iat

SessionInv == SessionTypeOK /\ Recorded /\ Backed

-----------------------------------------------------------------------------
(* What a login grants *)

\* A configuration a server starts with grants known permissions only.
LEMMA ResolvesToKnown ==
  ASSUME NEW c, Starts(c), NEW gs
  PROVE  Resolve(c, gs) \subseteq Permissions
BY DEF Starts, Resolve

\* What the policy of a running instance grants a user is what a login would grant.
LEMMA GrantedNow ==
  ASSUME NEW i \in Instances, conf[i] # Down, conf[i].oidc,
         NEW u \in Users, NEW p \in Resolve(conf[i], member[u])
  PROVE  CouldLogin(u, p)
BY DEF CouldLogin

-----------------------------------------------------------------------------
(* The history only grows *)

LEMMA NotedGrows ==
  ASSUME SessionInv, Noted, now' \in 0..Horizon, now' >= now,
         NEW u \in Users, NEW p \in Permissions
  PROVE  /\ entitled'[u][p] \in -1..Horizon
         /\ entitled'[u][p] >= entitled[u][p]
         /\ entitled'[u][p] <= now'
         /\ CouldLogin(u, p)' => entitled'[u][p] = now'
<1>1. entitled[u][p] \in -1..Horizon /\ entitled[u][p] <= now /\ now \in 0..Horizon
  BY DEF SessionInv, SessionTypeOK, Recorded
<1>2. entitled'[u][p] = IF CouldLogin(u, p)' THEN now' ELSE entitled[u][p]
  BY DEF Noted
<1>3. Horizon \in Nat
  BY SessionAssumption
<1>4. CASE CouldLogin(u, p)'
  <2>1. entitled'[u][p] = now'
    BY <1>2, <1>4
  <2>. QED
    BY <1>1, <1>3, <2>1
<1>5. CASE ~CouldLogin(u, p)'
  <2>1. entitled'[u][p] = entitled[u][p]
    BY <1>2, <1>5
  <2>. QED
    BY <1>1, <1>3, <1>5, <2>1
<1>. QED
  BY <1>4, <1>5

LEMMA NotedKeepsRecorded ==
  ASSUME SessionInv, Noted, now' \in 0..Horizon, now' >= now
  PROVE  Recorded' /\ entitled' \in [Users -> [Permissions -> -1..Horizon]]
<1>1. ASSUME NEW u \in Users, NEW p \in Permissions
      PROVE  /\ entitled'[u][p] \in -1..Horizon
             /\ entitled'[u][p] <= now'
             /\ CouldLogin(u, p)' => entitled'[u][p] = now'
  BY NotedGrows
<1>2. Recorded'
  BY <1>1 DEF Recorded
<1>3. entitled' = [u \in Users |-> [p \in Permissions |-> entitled'[u][p]]]
  BY DEF Noted
<1>. QED
  BY <1>1, <1>2, <1>3

\* The tokens that were there stay backed.
LEMMA NotedKeepsBacked ==
  ASSUME SessionInv, Noted, now' \in 0..Horizon, now' >= now,
         NEW t \in tokens, t.via = "oidc", NEW p \in t.perms
  PROVE  entitled'[t.sub][p] >= t.iat
<1>1. t.sub \in Users /\ p \in Permissions /\ t.iat \in 0..Horizon
  BY DEF SessionInv, SessionTypeOK, Token
<1>2. entitled[t.sub][p] >= t.iat
  BY DEF SessionInv, Backed
<1>3. entitled'[t.sub][p] >= entitled[t.sub][p] /\ entitled'[t.sub][p] \in -1..Horizon
  BY <1>1, NotedGrows
<1>4. entitled[t.sub][p] \in -1..Horizon
  BY <1>1 DEF SessionInv, SessionTypeOK
<1>. QED
  BY <1>1, <1>2, <1>3, <1>4, SessionAssumption

-----------------------------------------------------------------------------
(* The steps *)

\* A step that mints nothing keeps the invariant.
LEMMA QuietStep ==
  ASSUME SessionInv, Noted, now' \in 0..Horizon, now' >= now, tokens' = tokens,
         conf' \in [Instances -> {c \in Configs : Starts(c)} \cup {Down}],
         member' \in [Users -> SUBSET Groups]
  PROVE  SessionInv'
<1>1. Recorded' /\ entitled' \in [Users -> [Permissions -> -1..Horizon]]
  BY NotedKeepsRecorded
<1>2. SessionTypeOK'
  BY <1>1 DEF SessionInv, SessionTypeOK
<1>3. Backed'
  BY NotedKeepsBacked DEF Backed, SessionInv
<1>. QED
  BY <1>1, <1>2, <1>3 DEF SessionInv

\* A step that mints one token keeps it, if that token is well formed and a login's is
\* backed.
LEMMA MintingStep ==
  ASSUME SessionInv, Noted, UNCHANGED <<conf, member, now>>,
         NEW new \in Token, tokens' = tokens \cup {new},
         new.via = "oidc" =>
           /\ SessionTTL > 0 => new.exp = new.iat + SessionTTL
           /\ new.iat = now
           /\ \A p \in new.perms : CouldLogin(new.sub, p)
  PROVE  SessionInv'
<1>0. now' \in 0..Horizon /\ now' >= now /\ now \in 0..Horizon
  BY SessionAssumption DEF SessionInv, SessionTypeOK
<1>1. Recorded' /\ entitled' \in [Users -> [Permissions -> -1..Horizon]]
  BY <1>0, NotedKeepsRecorded
<1>2. SessionTypeOK'
  BY <1>1 DEF SessionInv, SessionTypeOK
<1>3. ASSUME NEW t \in tokens', t.via = "oidc"
      PROVE  /\ SessionTTL > 0 => t.exp = t.iat + SessionTTL
             /\ \A p \in t.perms : entitled'[t.sub][p] >= t.iat
  <2>1. CASE t \in tokens
    <3>1. \A p \in t.perms : entitled'[t.sub][p] >= t.iat
      BY <1>0, <1>3, <2>1, NotedKeepsBacked
    <3>. QED
      BY <1>3, <2>1, <3>1 DEF SessionInv, Backed
  <2>2. CASE t = new
    <3>1. ASSUME NEW p \in t.perms
          PROVE  entitled'[t.sub][p] >= t.iat
      <4>1. CouldLogin(t.sub, p) /\ t.iat = now
        BY <1>3, <2>2, <3>1
      <4>2. t.sub \in Users /\ p \in Permissions
        BY <2>2, <3>1 DEF Token
      <4>3. entitled[t.sub][p] = now
        BY <4>1, <4>2 DEF SessionInv, Recorded
      <4>4. entitled'[t.sub][p] >= entitled[t.sub][p]
        BY <1>0, <4>2, NotedGrows
      <4>. QED
        BY <4>1, <4>3, <4>4
    <3>. QED
      BY <1>3, <2>2, <3>1
  <2>. QED
    BY <2>1, <2>2
<1>4. Backed'
  BY <1>3 DEF Backed
<1>. QED
  BY <1>1, <1>2, <1>4 DEF SessionInv

\* A token minted at a moment of the clock is a token.
LEMMA MintedIsToken ==
  ASSUME SessionTypeOK, NEW key \in Keys, NEW via \in {"oidc", "mint"}, NEW u \in Users,
         NEW ps \in SUBSET Permissions, NEW ttl \in Nat
  PROVE  /\ Minted(key, via, u, ps, ttl) \in Token
         /\ ttl > 0 => Minted(key, via, u, ps, ttl).exp = now + ttl
<1>1. now \in 0..Horizon /\ now \in Nat
  BY SessionAssumption DEF SessionTypeOK
<1>2. Expiry(ttl) \in Nat /\ (ttl > 0 => Expiry(ttl) = now + ttl)
  BY <1>1 DEF Expiry
<1>. QED
  BY <1>1, <1>2 DEF Minted, Token

LEMMA LoginStep ==
  ASSUME SessionInv, NEW i \in Instances, NEW u \in Users, Login(i, u), Noted
  PROVE  SessionInv'
<1>1. conf[i] \in Configs /\ Starts(conf[i]) /\ conf[i] # Down /\ conf[i].oidc
  BY DEF SessionInv, SessionTypeOK, Login
<1>2. conf[i].key \in Keys
  BY <1>1, SessionAssumption DEF Starts, IsConfig
<1>3. Resolve(conf[i], member[u]) \subseteq Permissions
  BY <1>1, ResolvesToKnown
<1>. DEFINE new == Minted(conf[i].key, "oidc", u, Resolve(conf[i], member[u]), SessionTTL)
<1>4. new \in Token /\ (SessionTTL > 0 => new.exp = now + SessionTTL)
  BY <1>2, <1>3, MintedIsToken, SessionAssumption DEF SessionInv
<1>5. new.iat = now /\ new.sub = u /\ new.perms = Resolve(conf[i], member[u])
  BY DEF Minted
<1>6. \A p \in new.perms : CouldLogin(new.sub, p)
  BY <1>1, <1>5, GrantedNow
<1>7. tokens' = tokens \cup {new} /\ UNCHANGED <<conf, member, now>>
  BY DEF Login
<1>. HIDE DEF new
<1>. QED
  BY <1>4, <1>5, <1>6, <1>7, MintingStep

LEMMA MintCommandStep ==
  ASSUME SessionInv, NEW key \in Keys, NEW u \in Users, MintCommand(key, u), Noted
  PROVE  SessionInv'
<1>1. PICK ps \in Lists, ttl \in Lifetimes \cup {SessionTTL} :
        ps \subseteq Permissions /\ tokens' = tokens \cup {Minted(key, "mint", u, ps, ttl)}
  BY DEF MintCommand
<1>. DEFINE new == Minted(key, "mint", u, ps, ttl)
<1>2. ttl \in Nat
  BY SessionAssumption
<1>3. new \in Token
  BY <1>1, <1>2, MintedIsToken DEF SessionInv
<1>4. new.via = "mint"
  BY DEF Minted
<1>5. tokens' = tokens \cup {new} /\ UNCHANGED <<conf, member, now>>
  BY <1>1 DEF MintCommand
<1>. HIDE DEF new
<1>. QED
  BY <1>3, <1>4, <1>5, MintingStep

-----------------------------------------------------------------------------
(* The theorems *)

LEMMA SessionInit == Init => SessionInv
<1>. SUFFICES ASSUME Init PROVE SessionInv
  OBVIOUS
<1>1. SessionTypeOK
  BY SessionAssumption DEF Init, SessionTypeOK
<1>2. ASSUME NEW u \in Users, NEW p \in Permissions
      PROVE  ~CouldLogin(u, p) /\ entitled[u][p] <= now
  BY DEF Init, CouldLogin
<1>3. Recorded
  BY <1>2 DEF Recorded
<1>4. Backed
  BY DEF Init, Backed
<1>. QED
  BY <1>1, <1>3, <1>4 DEF SessionInv

LEMMA SessionStep == SessionInv /\ [Next]_vars => SessionInv'
<1>. SUFFICES ASSUME SessionInv, [Next]_vars PROVE SessionInv'
  OBVIOUS
<1>. USE SessionAssumption
<1>0. now \in 0..Horizon /\ conf \in [Instances -> {c \in Configs : Starts(c)} \cup {Down}]
      /\ member \in [Users -> SUBSET Groups]
  BY DEF SessionInv, SessionTypeOK
<1>1. ASSUME NEW i \in Instances, Boot(i), Noted PROVE SessionInv'
  BY <1>0, <1>1, QuietStep DEF Boot
<1>2. ASSUME NEW i \in Instances, Stop(i), Noted PROVE SessionInv'
  BY <1>0, <1>2, QuietStep DEF Stop
<1>3. ASSUME NEW u \in Users, Regroup(u), Noted PROVE SessionInv'
  BY <1>0, <1>3, QuietStep DEF Regroup
<1>4. CASE Tick /\ Noted
  <2>1. now' \in 0..Horizon /\ now' >= now
    BY <1>0, <1>4 DEF Tick
  <2>. QED
    BY <1>0, <1>4, <2>1, QuietStep DEF Tick
<1>5. CASE UNCHANGED vars
  <2>1. SessionTypeOK'
    BY <1>5 DEF SessionInv, SessionTypeOK, vars
  <2>2. ASSUME NEW u \in Users, NEW p \in Permissions
        PROVE  CouldLogin(u, p)' = CouldLogin(u, p)
    BY <1>5 DEF CouldLogin, vars
  <2>3. Recorded'
    BY <1>5, <2>2 DEF SessionInv, Recorded, vars
  <2>4. Backed'
    BY <1>5 DEF SessionInv, Backed, vars
  <2>. QED
    BY <2>1, <2>3, <2>4 DEF SessionInv
<1>. QED
  BY <1>1, <1>2, <1>3, <1>4, <1>5, LoginStep, MintCommandStep DEF Next, Act

\* The types, and that nothing but known permissions is served or issued.
THEOREM SessionTypeCorrect == SessionSpec => []SessionTypeOK
<1>1. SessionInv => SessionTypeOK
  BY DEF SessionInv
<1>. QED
  BY <1>1, SessionInit, SessionStep, PTL DEF SessionSpec

\* A right outlives what granted it for less than the lifetime of a session, for any
\* number of instances, users, keys, configurations and tokens.
THEOREM RightsOutliveTheirGrantBriefly == SessionSpec => []RightsAreRecent
<1>1. SessionInv => RightsAreRecent
  <2>. SUFFICES ASSUME SessionInv, NEW i \in Instances, NEW t \in tokens,
                       NEW p \in Permissions, Allowed(i, t, p), t.via = "oidc"
                PROVE  /\ entitled[t.sub][p] >= 0
                       /\ SessionTTL > 0 => now - entitled[t.sub][p] < SessionTTL
    BY DEF RightsAreRecent
  <2>1. p \in t.perms /\ (t.exp # 0 => now < t.exp)
    BY DEF Allowed, Verified
  <2>2. t.iat \in 0..Horizon /\ t.sub \in Users /\ now \in 0..Horizon
    BY DEF SessionInv, SessionTypeOK, Token
  <2>3. entitled[t.sub][p] >= t.iat /\ (SessionTTL > 0 => t.exp = t.iat + SessionTTL)
    BY <2>1 DEF SessionInv, Backed
  <2>4. entitled[t.sub][p] \in -1..Horizon
    BY <2>2 DEF SessionInv, SessionTypeOK
  <2>5. Horizon \in Nat /\ SessionTTL \in Nat
    BY SessionAssumption
  <2>6. SessionTTL > 0 => now < t.iat + SessionTTL
    BY <2>1, <2>2, <2>3, <2>5
  <2>. HIDE DEF SessionInv
  <2>. QED
    BY <2>2, <2>3, <2>4, <2>5, <2>6
<1>. QED
  BY <1>1, SessionInit, SessionStep, PTL DEF SessionSpec
=============================================================================
