------------------------------ MODULE KeyAccess ------------------------------
(***************************************************************************)
(* API keys of the gateway: tenants, keys, authentication and what the     *)
(* routes behind it allow (internal/auth, models/apikey.go, the tenant and *)
(* key handlers of internal/server/server.go).                             *)
(*                                                                         *)
(* A caller is a request.  Each statement of the database is a step; a     *)
(* request goes on with the copy of the key it once read.  Any statement   *)
(* may fail: then the request is refused, except for the note of the last  *)
(* use, whose error nobody looks at.  A key that is not known is refused   *)
(* like one that is dead, and changes nothing.  Secrets, hashes and limits *)
(* are left out (the middleware passes no secret).                         *)
(***************************************************************************)
EXTENDS Naturals, FiniteSets

CONSTANTS
  Callers, Tenants, Models,
  Keys,         \* the ids that generateKeyID draws, none of them twice
  FirstTenant, FirstKey,  \* made by the migration
  Asked,        \* what requests for a key ask for: see AskedRecords
  Never,        \* no time of expiry
  MaxTime,      \* bound of the clock
  MaxRequests,  \* bound: requests begun
  None

Times == 0 .. MaxTime
Permissions == {"*", "admin", "chat"}
Status == {"active", "revoked"}

\* A CreateAPIKeyRequest: its lists, and two ways to limit the key's life.
AskedRecords ==
  [permissions : SUBSET Permissions, models : SUBSET (Models \cup {"*"}),
   at : Nat \cup {Never}, days : Nat]

KeyRows ==
  [tenant : Tenants, permissions : SUBSET Permissions, models : SUBSET (Models \cup {"*"}),
   expires : Nat \cup {Never}, status : Status, used : Times \cup {Never}]

ASSUME KeyAssumption ==
  /\ FirstTenant \in Tenants /\ FirstKey \in Keys
  /\ Asked \subseteq AskedRecords
  /\ {MaxTime, MaxRequests} \subseteq Nat
  /\ Never \notin Nat
  /\ None \notin Keys \cup KeyRows
  /\ "*" \notin Models

VARIABLES
  now,
  tenants,   \* the tenants in the database
  keys,      \* api_keys: the row of each id, or None
  pc, id, copy, goal,  \* of each caller: its step, its key's id and copy, what it makes
  requests,  \* used up of the bound
  told,      \* history: keys of which some answer said that they are dead
  toldFirst  \* history, of each caller: told when it began

request == <<pc, id, copy, goal>>
vars == <<now, tenants, keys, request, requests, told, toldFirst>>

Row(t, asked, expires) ==
  [tenant |-> t, permissions |-> asked.permissions, models |-> asked.models,
   expires |-> expires, status |-> "active", used |-> Never]

AllOf == [permissions |-> {"*"}, models |-> {"*"}, at |-> Never, days |-> 0]

Init ==
  /\ now = 0
  /\ tenants = {FirstTenant}
  /\ keys = [k \in Keys |-> IF k = FirstKey THEN Row(FirstTenant, AllOf, Never) ELSE None]
  /\ pc = [c \in Callers |-> "idle"]
  /\ id = [c \in Callers |-> None]
  /\ copy = [c \in Callers |-> None]
  /\ goal = [c \in Callers |-> None]
  /\ requests = 0
  /\ told = {}
  /\ toldFirst = [c \in Callers |-> {}]

Become(c, s) == pc' = [pc EXCEPT ![c] = s]

Known(k) == keys[k] # None

-----------------------------------------------------------------------------
\* Authentication: Middleware.Auth, Manager.ValidateAPIKey

Expired(row) == row.expires # Never /\ now > row.expires

(* Slip: an expired key is as good as any. *)
IsActiveForGood(row) == row.status = "active"

IsActive(row) == row.status = "active" /\ ~Expired(row)

HasPermission(row, p) == row.permissions \cap {"*", p} # {}

CanUseModel(row, m) == row.models \cap {"*", m} # {}

Begin(c, k) ==
  /\ pc[c] = "idle"
  /\ requests < MaxRequests
  /\ requests' = requests + 1
  /\ Known(k)
  /\ id' = [id EXCEPT ![c] = k]
  /\ Become(c, "begun")
  /\ toldFirst' = [toldFirst EXCEPT ![c] = told]
  /\ UNCHANGED <<now, tenants, keys, copy, goal, told>>

Answer(c) ==
  /\ Become(c, "idle")
  /\ id' = [id EXCEPT ![c] = None]
  /\ copy' = [copy EXCEPT ![c] = None]
  /\ goal' = [goal EXCEPT ![c] = None]
  /\ toldFirst' = [toldFirst EXCEPT ![c] = {}]

GetAPIKey(c) ==
  /\ pc[c] = "begun"
  /\ copy' = [copy EXCEPT ![c] = keys[id[c]]]
  /\ Become(c, "read")
  /\ UNCHANGED <<now, tenants, keys, id, goal, requests, told, toldFirst>>

(* Slip: the copy is written back with the time of its use. *)
UsedCopy(c) == [keys EXCEPT ![id[c]] = [copy[c] EXCEPT !.used = now]]

Used(c) == [keys EXCEPT ![id[c]].used = now]

ValidateAPIKey(c) ==
  /\ pc[c] = "read"
  /\ IsActive(copy[c])
  /\ keys' \in {keys, Used(c)}
  /\ Become(c, "valid")
  /\ UNCHANGED <<now, tenants, id, copy, goal, requests, told, toldFirst>>

\* The row of the tenant, for the context of the request.
GetTenant(c) ==
  /\ pc[c] = "valid"
  /\ copy[c].tenant \in tenants
  /\ Become(c, "served")
  /\ UNCHANGED <<now, tenants, keys, id, copy, goal, requests, told, toldFirst>>

\* 401, 403 or 500: the key is dead, a statement failed, or the route does not
\* allow what is asked.
Refuse(c) ==
  /\ pc[c] # "idle"
  /\ Answer(c)
  /\ UNCHANGED <<now, tenants, keys, requests, told>>

\* What the groups of routes behind ginAuthMiddleware demand of a key.
Demanded == [chat |-> {}, admin |-> {"admin"}]

\* A completion: handleChatCompletions, from its check of the model on, is Gateway's.
Chat(c, m) ==
  /\ pc[c] = "served"
  /\ \A p \in Demanded.chat : HasPermission(copy[c], p)
  /\ CanUseModel(copy[c], m)
  /\ Answer(c)
  /\ UNCHANGED <<now, tenants, keys, requests, told>>

-----------------------------------------------------------------------------
\* The administration of tenants and keys, behind ginRequirePermissionMiddleware

(* Slip: whoever is authenticated may go on. *)
Authenticated(c) == pc[c] = "served"

MayAdminister(c) ==
  /\ pc[c] = "served"
  /\ \A p \in Demanded.admin : HasPermission(copy[c], p)

CreateTenant(c, t) ==
  /\ MayAdminister(c)
  /\ t \notin tenants
  /\ tenants' = tenants \cup {t}
  /\ Answer(c)
  /\ UNCHANGED <<now, keys, requests, told>>

WithDefaults(asked) ==
  [asked EXCEPT !.permissions = IF @ = {} THEN {"*"} ELSE @,
                !.models = IF @ = {} THEN {"*"} ELSE @]

\* A date given wins over a number of days.
ExpiryOf(asked) ==
  IF asked.days > 0 /\ asked.at = Never THEN now + asked.days ELSE asked.at

\* GenerateAPIKey asks for the tenant first; what it will insert is the goal.
GenerateAPIKey(c, t, asked) ==
  /\ MayAdminister(c)
  /\ t \in tenants
  /\ goal' = [goal EXCEPT ![c] = Row(t, WithDefaults(asked), ExpiryOf(asked))]
  /\ Become(c, "creating")
  /\ UNCHANGED <<now, tenants, keys, id, copy, requests, told, toldFirst>>

CreateAPIKey(c, k) ==
  /\ pc[c] = "creating"
  /\ ~Known(k)
  /\ keys' = [keys EXCEPT ![k] = goal[c]]
  /\ Answer(c)
  /\ UNCHANGED <<now, tenants, requests, told>>

Revoked(k) == [keys EXCEPT ![k].status = "revoked"]

\* Revoking and deleting are one; any key may be revoked, one's own as well.
RevokeAPIKey(c, k) ==
  /\ MayAdminister(c)
  /\ Known(k)
  /\ keys' = Revoked(k)
  /\ told' = told \cup {k}
  /\ Answer(c)
  /\ UNCHANGED <<now, tenants, requests>>

\* The rows of a tenant, whose status and expiry the answer shows.
ListAPIKeys(c, t) ==
  /\ MayAdminister(c)
  /\ told' = told \cup
       {k \in Keys : Known(k) /\ keys[k].tenant = t
                    /\ (keys[k].status = "revoked" \/ Expired(keys[k]))}
  /\ Answer(c)
  /\ UNCHANGED <<now, tenants, keys, requests>>

Tick ==
  /\ now < MaxTime
  /\ now' = now + 1
  /\ UNCHANGED <<tenants, keys, request, requests, told, toldFirst>>

Authenticate(c) ==
  \/ \E k \in Keys : Begin(c, k)
  \/ GetAPIKey(c) \/ ValidateAPIKey(c) \/ GetTenant(c) \/ Refuse(c)

Administer(c) ==
  \/ \E t \in Tenants : CreateTenant(c, t) \/ ListAPIKeys(c, t)
  \/ \E t \in Tenants, asked \in Asked : GenerateAPIKey(c, t, asked)
  \/ \E k \in Keys : CreateAPIKey(c, k) \/ RevokeAPIKey(c, k)

Next ==
  \/ Tick
  \/ \E c \in Callers : Authenticate(c) \/ Administer(c) \/ \E m \in Models : Chat(c, m)

Spec == Init /\ [][Next]_vars

-----------------------------------------------------------------------------
Rows == {keys[k] : k \in Keys} \cup {copy[c] : c \in Callers} \cup {goal[c] : c \in Callers}

(* Rows and copies are well-typed, and their tenants exist: the 500 of a   *)
(* key without a tenant means a failing database.  A copy differs from its *)
(* row in nothing but the last use and a revocation since.                 *)
KeysSound ==
  /\ now \in Times
  /\ FirstTenant \in tenants /\ tenants \subseteq Tenants
  /\ pc \in [Callers -> {"idle", "begun", "read", "valid", "served", "creating"}]
  /\ \A r \in Rows \ {None} : r \in KeyRows /\ r.tenant \in tenants
  /\ \A c \in Callers : copy[c] # None =>
       LET row == keys[id[c]] IN
         /\ row # None
         /\ copy[c] = [row EXCEPT !.used = copy[c].used, !.status = copy[c].status]
         /\ copy[c].status = "active" \/ row.status = "revoked"

(* A key once said to be dead (its revocation was confirmed, or a list     *)
(* showed it revoked or expired) opens nothing to a request that begins    *)
(* later, however long other requests with the key are still under way.    *)
ToldIsFinal ==
  \A c \in Callers : pc[c] \in {"valid", "served", "creating"} => id[c] \notin toldFirst[c]

Unused(row) == IF row = None THEN None ELSE [row EXCEPT !.used = Never]

\* No key with the permission is alive, and no request with one is under way.
NoAdministrator ==
  /\ \A k \in Keys : Known(k) /\ HasPermission(keys[k], "admin") => ~IsActive(keys[k])
  /\ \A c \in Callers :
       copy[c] # None /\ HasPermission(copy[c], "admin") => pc[c] = "read" /\ ~IsActive(copy[c])

(* Administrators come from administrators only: once the last of their    *)
(* keys is dead and its requests are over, tenants and keys stay as they   *)
(* are for good (but for last uses).                                       *)
AdministrationEnds ==
  [][NoAdministrator =>
       /\ NoAdministrator'
       /\ tenants' = tenants
       /\ \A k \in Keys : Unused(keys'[k]) = Unused(keys[k])]_vars
=============================================================================
