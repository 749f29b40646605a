------------------------------ MODULE MCSession ------------------------------
(* A deployment of two instances whose operator narrows the policy, rotates  *)
(* the key and mistypes a permission.                                        *)
EXTENDS Session

Env(key, oidc, roles, bound, groups) ==
  [key |-> key, oidc |-> oidc, roles |-> roles, bound |-> bound, groups |-> groups]

\* Upgraded without a word about groups; groups bound to built-in roles; the same after
\* a key rotation; a registry with a name no permission has, without the role bound.
MCConfigs ==
  {Env("k1", TRUE, Unset, FALSE, Unset),
   Env("k1", TRUE, Unset, TRUE, [g \in {"staff"} |-> {"creator", "deleter"}]),
   Env("k2", TRUE, Unset, TRUE, [g \in {"staff"} |-> {"creator"}]),
   Env("k1", TRUE, [r \in {"creator"} |-> {"file:create", "file:craete"}], TRUE,
       [g \in {"staff"} |-> {"creator"}]),
   Env("k1", TRUE, [r \in {"creator"} |-> {"file:create"}], FALSE, Unset),
   Env(NoKey, FALSE, Unset, FALSE, Unset)}

MCRoles == {"creator", "tagger", "deleter", "admin"}
MCLists == {{}, {"file:delete"}, {"file:craete"}}
MCNames == Permissions \cup {"file:craete"}
=============================================================================
