------------------------------- MODULE Session -------------------------------
(***************************************************************************)
(* Who may do what (permissions.go, roles.go, session.go, mint.go,          *)
(* token.go).  Roles bundle permissions and provider groups are bound to    *)
(* roles; both are resolved once, at login, and the result travels inside   *)
(* a signed session token that no instance remembers.  Nothing revokes a    *)
(* token but its expiry and a change of the signing key, while groups,      *)
(* roles and the configuration of each instance change underneath.          *)
(*                                                                         *)
(* A tick of the clock is longer than a callback request: the provider's    *)
(* answer and the token minted from it carry the same time.                 *)
(***************************************************************************)
EXTENDS Integers, FiniteSets

CONSTANTS
  Instances,      \* servers that share the deployment's secret
  Users, Groups,  \* the provider's subjects and its groups
  Keys,           \* values of ART_SESSION_SECRET
  Roles,          \* names ART_ROLES may define
  Names,          \* permission names an operator may write, known or not
  Configs,        \* the environments an instance may be started with
  Down,           \* in place of an environment: the instance is not running
  SessionTTL,     \* ART_SESSION_TTL, 0 for no expiry
  Lifetimes,      \* what `token -ttl` may ask for
  Lists,          \* what `token -perms` may ask for
  Horizon,        \* bound: the last moment of the clock
  MaxTokens       \* bound: tokens ever minted

Permissions == {"file:create", "file:delete", "tag:add", "tag:remove"}
Wildcard == "*"
Unset == [r \in {} |-> {}]      \* a variable the environment does not have
NoKey == "no key"

\* The built-in registry and binding.
DefaultRoles ==
  [r \in {"creator", "tagger", "deleter", "admin"} |->
     CASE r = "creator" -> {"file:create", "tag:add"}
       [] r = "tagger"  -> {"tag:remove"}
       [] r = "deleter" -> {"file:delete"}
       [] r = "admin"   -> Permissions]
BuiltInGroupRoles == [g \in {Wildcard} |-> {"admin"}]

\* What the environment says: the key, whether OIDC is on, ART_ROLES, whether
\* ART_OIDC_GROUPS is set and what it binds.
IsConfig(c) ==
  /\ c.key \in Keys \cup {NoKey} /\ c.oidc \in BOOLEAN /\ c.bound \in BOOLEAN
  /\ DOMAIN c.roles \subseteq Roles
  /\ \A r \in DOMAIN c.roles : c.roles[r] \subseteq Names
  /\ DOMAIN c.groups \subseteq Groups \cup {Wildcard}
  /\ \A g \in DOMAIN c.groups : c.groups[g] \subseteq Roles

ASSUME SessionAssumption ==
  /\ \A c \in Configs : IsConfig(c)
  /\ SessionTTL \in Nat /\ Lifetimes \subseteq Nat
  /\ Horizon \in Nat /\ MaxTokens \in Nat
  /\ Permissions \subseteq Names /\ Lists \subseteq SUBSET Names
  /\ DOMAIN DefaultRoles \subseteq Roles
  /\ NoKey \notin Keys /\ Down \notin Configs

VARIABLES
  conf,     \* the environment each instance runs with, or Down
  member,   \* the groups the provider reports for each user
  now,      \* the clock
  tokens,   \* the tokens minted, wherever they are kept
  entitled  \* history: when each user last could have logged in to each permission

vars == <<conf, member, now, tokens, entitled>>

Token ==
  [key : Keys, via : {"oidc", "mint"}, sub : Users, perms : SUBSET Permissions,
   iat : 0..Horizon, exp : Nat]

-----------------------------------------------------------------------------
(* The policy *)

\* parseRoles: an unset registry is the built-in one.
RegistryOf(c) == IF c.roles = Unset THEN DefaultRoles ELSE c.roles

\* parseGroupRoles: an unset binding makes every authenticated user an admin.
BindingsOf(c) == IF c.bound THEN c.groups ELSE BuiltInGroupRoles

\* resolvePermissions: the wildcard's roles and those of each group.
RolesOf(c, gs) ==
  UNION {BindingsOf(c)[g] : g \in (gs \cup {Wildcard}) \cap DOMAIN BindingsOf(c)}
Resolve(c, gs) ==
  UNION {RegistryOf(c)[r] : r \in RolesOf(c, gs) \cap DOMAIN RegistryOf(c)}

\* Mutant of Starts: the names a role grants are not checked.
StartsUnchecked(c) ==
  /\ \A g \in DOMAIN BindingsOf(c) : BindingsOf(c)[g] \subseteq DOMAIN RegistryOf(c)
  /\ c.oidc => c.key # NoKey

\* A server starts only with permissions that exist, with bindings to roles that
\* exist, and with a key if there are logins to sign.
Starts(c) ==
  /\ \A r \in DOMAIN RegistryOf(c) : RegistryOf(c)[r] \subseteq Permissions
  /\ \A g \in DOMAIN BindingsOf(c) : BindingsOf(c)[g] \subseteq DOMAIN RegistryOf(c)
  /\ c.oidc => c.key # NoKey

-----------------------------------------------------------------------------
(* Tokens *)

\* mintSessionToken: a lifetime of zero leaves the expiry out.
Expiry(ttl) == IF ttl > 0 THEN now + ttl ELSE 0
Minted(key, via, sub, perms, ttl) ==
  [key |-> key, via |-> via, sub |-> sub, perms |-> perms,
   iat |-> now, exp |-> Expiry(ttl)]

\* Mutant of Verified: an expiry that has passed is not looked at.
VerifiedForever(i, t) == conf[i].key # NoKey /\ t.key = conf[i].key

\* verifySessionToken: this instance's key signed it, and it has not expired.
Verified(i, t) ==
  /\ conf[i].key # NoKey /\ t.key = conf[i].key
  /\ t.exp # 0 => now < t.exp

\* requireToken and requirePermission: the request is let through to the handler.
\* (The static token, where there is one, is let through everywhere.)
Allowed(i, t, p) ==
  /\ conf[i] # Down
  /\ Verified(i, t)
  /\ p \in t.perms

-----------------------------------------------------------------------------
(* Actions *)

Init ==
  /\ conf = [i \in Instances |-> Down]
  /\ member \in [Users -> SUBSET Groups]
  /\ now = 0
  /\ tokens = {}
  /\ entitled = [u \in Users |-> [p \in Permissions |-> -1]]

\* A login on some instance would now grant the user this permission.
CouldLogin(u, p) ==
  \E i \in Instances :
    conf[i] # Down /\ conf[i].oidc /\ p \in Resolve(conf[i], member[u])

\* The history, brought up to date with the state a step leads to.
Noted ==
  entitled' = [u \in Users |-> [p \in Permissions |->
                 IF CouldLogin(u, p)' THEN now' ELSE entitled[u][p]]]

\* main: the configuration is read once; one that is wrong ends the process.
Boot(i) ==
  /\ conf[i] = Down
  /\ \E c \in Configs : Starts(c) /\ conf' = [conf EXCEPT ![i] = c]
  /\ UNCHANGED <<member, now, tokens>>

Stop(i) ==
  /\ conf[i] # Down
  /\ conf' = [conf EXCEPT ![i] = Down]
  /\ UNCHANGED <<member, now, tokens>>

Regroup(u) ==
  /\ \E gs \in SUBSET Groups : member' = [member EXCEPT ![u] = gs]
  /\ UNCHANGED <<conf, now, tokens>>

Tick ==
  /\ now < Horizon
  /\ now' = now + 1
  /\ UNCHANGED <<conf, member, tokens>>

\* oidcCallbackHandler, from the provider's answer on: the groups of the moment, the
\* policy of this instance, a token of this instance's key.
Login(i, u) ==
  /\ conf[i] # Down
  /\ conf[i].oidc
  /\ Cardinality(tokens) < MaxTokens
  /\ tokens' = tokens \cup
       {Minted(conf[i].key, "oidc", u, Resolve(conf[i], member[u]), SessionTTL)}
  /\ UNCHANGED <<conf, member, now>>

\* `upload_server token`, run in an environment with a key: it grants the list it is
\* given, unless that names a permission that does not exist.
MintCommand(key, u) ==
  /\ Cardinality(tokens) < MaxTokens
  /\ \E ps \in Lists, ttl \in Lifetimes \cup {SessionTTL} :
       /\ ps \subseteq Permissions
       /\ tokens' = tokens \cup {Minted(key, "mint", u, ps, ttl)}
  /\ UNCHANGED <<conf, member, now>>

Act ==
  \/ \E i \in Instances : Boot(i)
  \/ \E i \in Instances : Stop(i)
  \/ \E u \in Users : Regroup(u)
  \/ Tick
  \/ \E i \in Instances, u \in Users : Login(i, u)
  \/ \E key \in Keys, u \in Users : MintCommand(key, u)

Next == Act /\ Noted

SessionSpec == Init /\ [][Next]_vars

-----------------------------------------------------------------------------
(* Properties *)

\* The types.  What configurations are served with and what tokens carry are known
\* permissions, which the checks at start are for (roles.go:60-63).
SessionTypeOK ==
  /\ conf \in [Instances -> {c \in Configs : Starts(c)} \cup {Down}]
  /\ member \in [Users -> SUBSET Groups]
  /\ now \in 0..Horizon
  /\ tokens \subseteq Token
  /\ entitled \in [Users -> [Permissions -> -1..Horizon]]

\* A right outlives the configuration or the membership it came from for less than
\* ART_SESSION_TTL: whoever a session token lets through could, at some moment within
\* the last SessionTTL, have logged in somewhere and been granted the same, whatever
\* restarts, policies, keys and groups came between (permissions.go:18-20).
RightsAreRecent ==
  \A i \in Instances, t \in tokens, p \in Permissions :
    (Allowed(i, t, p) /\ t.via = "oidc") =>
      /\ entitled[t.sub][p] >= 0
      /\ SessionTTL > 0 => now - entitled[t.sub][p] < SessionTTL
=============================================================================
