--------------------------- MODULE AccessControl ---------------------------
(***************************************************************************)
(* What a request must pass before its handler runs: the middleware of     *)
(* server/app.py (body size, protocol version) and the credential check    *)
(* of server/auth.py.  A refusal is its HTTP status.                       *)
(***************************************************************************)
EXTENDS Naturals, Sequences, FiniteSets, FiniteSetsExt, TLC

CONSTANTS
  Principals,  \* configured principals in order: records of name, token, roles
  LegacyToken, \* the single token of a simple deployment, or NoToken
  NoToken      \* no credential given

Rights == {"submit", "read", "cancel", "execute", "admin"}

Roles ==
  [admin     |-> Rights,
   submitter |-> {"submit", "read", "cancel"},
   executor  |-> {"read", "execute"},
   viewer    |-> {"read"}]

RightsFromRoles(roles) == UNION {Roles[r] : r \in roles}

\* The legacy token is one more principal with every right, after the others.
Configured ==
  [i \in DOMAIN Principals |-> [name   |-> Principals[i].name,
                                token  |-> Principals[i].token,
                                rights |-> RightsFromRoles(Principals[i].roles)]]
  \o IF LegacyToken = NoToken THEN <<>>
     ELSE <<[name |-> "default", token |-> LegacyToken, rights |-> Rights]>>

\* With nobody configured the server is open.
Enforced == Configured # <<>>

Owners(token) ==
  {i \in DOMAIN Configured : token # NoToken /\ Configured[i].token = token}

Known(token) == ~Enforced \/ Owners(token) # {}

\* The last principal with this token.
PrincipalFor(token) ==
  IF Enforced THEN Configured[Max(Owners(token))] ELSE [name |-> "dev", rights |-> Rights]

Has(principal, right) == {"admin", right} \cap principal.rights # {}

CheckRight(token, right) ==
  IF ~Known(token) THEN 401 ELSE IF ~Has(PrincipalFor(token), right) THEN 403 ELSE 200

\* The middleware.  Uploads are limited while they are read; a peer that states
\* no protocol version, or states it badly, passes.
Guard(r) ==
  IF r.kind \notin {"input", "output"} /\ r.body = "large" THEN 413
  ELSE IF r.api = "other" THEN 426 ELSE 200
=============================================================================
