----------------------------- MODULE AdminAccess -----------------------------
(***************************************************************************)
(* Administrators: login with its two lock-outs, tokens, and the           *)
(* management of users (internal/admin: auth.go, postgres_store.go,        *)
(* handler.go and the user routes of api_handlers.go).                     *)
(*                                                                         *)
(* A handler is a caller.  The code reads a user, changes its copy and     *)
(* writes the whole row back by id; each statement of the database is a    *)
(* step, and nothing locks the row in between.  A token is a signed copy   *)
(* of id and role: nobody asks the database about it again.                *)
(* Of a row the model keeps what the properties tell apart; e-mail,        *)
(* password hash, is_active (which Login does not read) and time stamps    *)
(* are left out.  Whether a password is right is a free choice.            *)
(***************************************************************************)
EXTENDS Naturals, FiniteSets, FiniteSetsExt

CONSTANTS
  Callers, Names, Addresses,
  Root,         \* the user that the migrations create
  RolesGiven,   \* the roles requests ask for
  MaxAttempts, LockoutWindow, LockoutDuration, TokenLife,
  MaxTime,      \* bound of the clock
  MaxLogins,    \* bound: logins begun
  MaxEdits,     \* bound: users created, updated or deleted
  MaxFaults,    \* bound: statements of Login that the database refuses
  None

Roles == {"super_admin", "admin", "operator", "viewer"}

\* What a role may do, of the permissions that some route asks for.
RolePermissions ==
  [r \in Roles |->
     CASE r = "admin"    -> {"users.read", "users.write", "plugins.read", "plugins.write",
                             "billing.read", "billing.write"}
       [] r \in {"operator", "viewer"} -> {"billing.read"}
       [] OTHER          -> {"*"}]

HasPermission(r, p) ==
  r \in Roles /\ RolePermissions[r] \cap {"*", p} # {}

\* The permissions each group of routes demands besides a valid token.
Demanded ==
  [keys       |-> {},  \* models, keys, usage, logs and health
   listUsers  |-> {"users.read"},    manageUsers  |-> {"users.read", "users.write"},
   plugins    |-> {"plugins.read"},  editPlugins  |-> {"plugins.read", "plugins.write"},
   billing    |-> {"billing.read"},  editBilling  |-> {"billing.read", "billing.write"},
   statistics |-> {"admin"}]

VARIABLES
  now,
  users,      \* admin_users: the row of each name, or None
  nextId,
  attempts,   \* login_attempts: failures of each address, by time
  tokens,     \* the tokens issued and not yet expired
  pc, copy, name, address,  \* of each caller: its step, its copy of a row, its login
  logins, edits, faults,    \* used up of the bounds
  compared,   \* history: wrong passwords compared, by address and time
  wrong,      \* history: wrong passwords compared, by user id
  granted     \* history: the roles each user id was ever given

caller  == <<pc, copy, name, address>>
bounds  == <<logins, edits, faults>>
history == <<compared, wrong, granted>>
vars == <<now, users, nextId, attempts, tokens, caller, bounds, history>>

Times == 0 .. MaxTime
Ids   == 1 .. MaxEdits + 1
Until == 0 .. MaxTime + LockoutDuration  \* 0: not locked
Rows  == [id : Ids, role : Roles, failed : 0 .. MaxLogins, locked : Until]
Token == [id : Ids, role : Roles, exp : 1 .. MaxTime + TokenLife]

ASSUME AdminAssumption ==
  /\ IsFiniteSet(Callers)
  /\ Root \in Names
  /\ MaxAttempts \in Nat \ {0}
  /\ {LockoutWindow, LockoutDuration, TokenLife} \subseteq Nat \ {0}
  /\ {MaxTime, MaxLogins, MaxEdits, MaxFaults} \subseteq Nat
  /\ None \notin Names \cup Addresses \cup Rows

Init ==
  /\ now = 0
  /\ users = [n \in Names |->
                IF n = Root THEN [id |-> 1, role |-> "super_admin", failed |-> 0, locked |-> 0]
                            ELSE None]
  /\ nextId = 2
  /\ attempts = [a \in Addresses |-> [t \in Times |-> 0]]
  /\ tokens = {}
  /\ pc = [c \in Callers |-> "idle"]
  /\ copy = [c \in Callers |-> None]
  /\ name = [c \in Callers |-> None]
  /\ address = [c \in Callers |-> None]
  /\ logins = 0 /\ edits = 0 /\ faults = 0
  /\ compared = [a \in Addresses |-> [t \in Times |-> 0]]
  /\ wrong = [i \in Ids |-> 0]
  /\ granted = [i \in Ids |-> IF i = 1 THEN {"super_admin"} ELSE {}]

InWindow(counts, t) ==
  SumFunctionOnSet(counts, {s \in Times : s <= t /\ s + LockoutWindow > t})

(* Slip: the INSERT leaves the role to the default of the column. *)
RowOfDefaultRole(i, r) == [id |-> i, role |-> "admin", failed |-> 0, locked |-> 0]

NewRow(i, r) == [id |-> i, role |-> r, failed |-> 0, locked |-> 0]

Exists(i) == \E n \in Names : users[n] # None /\ users[n].id = i

(* Slip: the UPDATE has no WHERE. *)
WrittenEverywhere(row) ==
  [n \in Names |-> IF users[n] # None THEN [row EXCEPT !.id = users[n].id] ELSE None]

\* UPDATE ... WHERE id: a row that was deleted meanwhile is not written.
Written(row) ==
  [n \in Names |-> IF users[n] # None /\ users[n].id = row.id THEN row ELSE users[n]]

Become(c, s) == pc' = [pc EXCEPT ![c] = s]

\* The end of a handler: it answers and forgets.
Answer(c) ==
  /\ Become(c, "idle")
  /\ copy' = [copy EXCEPT ![c] = None]
  /\ name' = [name EXCEPT ![c] = None]
  /\ address' = [address EXCEPT ![c] = None]

\* A failure recorded of the caller's address, unless the database refuses it,
\* which Login does not notice.
RecordFailure(a) ==
  \/ /\ attempts' = [attempts EXCEPT ![a][now] = @ + 1]
     /\ UNCHANGED faults
  \/ /\ faults < MaxFaults
     /\ faults' = faults + 1
     /\ UNCHANGED attempts

-----------------------------------------------------------------------------
\* Login

(* Slip: one failure more is let pass. *)
TooManyLate(a) == InWindow(attempts[a], now) > MaxAttempts

TooMany(a) == InWindow(attempts[a], now) >= MaxAttempts

Count(c, n, a) ==
  /\ pc[c] = "idle"
  /\ logins < MaxLogins
  /\ logins' = logins + 1
  /\ name' = [name EXCEPT ![c] = n]
  /\ address' = [address EXCEPT ![c] = a]
  /\ Become(c, IF TooMany(a) THEN "refused" ELSE "counted")
  /\ UNCHANGED <<now, users, nextId, attempts, tokens, copy, edits, faults, history>>

\* Whoever is refused is recorded as one more failure of the address.
Refuse(c) ==
  /\ pc[c] = "refused"
  /\ RecordFailure(address[c])
  /\ Answer(c)
  /\ UNCHANGED <<now, users, nextId, tokens, logins, edits, history>>

IsLocked(row) == now < row.locked

\* The row of that name, or None.
FindByUsername(n) == users[n]

Find(c) ==
  /\ pc[c] = "counted"
  /\ LET row == FindByUsername(name[c]) IN
       \/ /\ row = None
          /\ Become(c, "refused")
          /\ UNCHANGED <<copy, name, address>>
       \/ /\ row # None
          /\ IsLocked(row)
          /\ Answer(c)
       \/ /\ row # None
          /\ ~IsLocked(row)
          /\ Become(c, "read")
          /\ copy' = [copy EXCEPT ![c] = row]
          /\ UNCHANGED <<name, address>>
  /\ UNCHANGED <<now, users, nextId, attempts, tokens, bounds, history>>

AfterFailure(row) ==
  LET failed == row.failed + 1
  IN  [row EXCEPT !.failed = failed,
                  !.locked = IF failed >= MaxAttempts THEN now + LockoutDuration ELSE @]

(* Slip: a login clears the count and leaves the lock. *)
AfterLoginLocked(row) == [row EXCEPT !.failed = 0]

AfterLogin(row) == [row EXCEPT !.failed = 0, !.locked = 0]

\* A wrong password: the copy's count goes up and the row is written, or the
\* write fails, which is ignored.
WrongPassword(c) ==
  /\ pc[c] = "read"
  /\ \/ /\ users' = Written(AfterFailure(copy[c]))
        /\ UNCHANGED faults
     \/ /\ faults < MaxFaults
        /\ faults' = faults + 1
        /\ UNCHANGED users
  /\ compared' = [compared EXCEPT ![address[c]][now] = @ + 1]
  /\ wrong' = [wrong EXCEPT ![copy[c].id] = @ + 1]
  /\ Become(c, "refused")
  /\ UNCHANGED <<now, nextId, attempts, tokens, copy, name, address, logins, edits, granted>>

\* The right password: without the write there is no login.
RightPassword(c) ==
  /\ pc[c] = "read"
  /\ \/ /\ users' = Written(AfterLogin(copy[c]))
        /\ Become(c, "accepted")
        /\ UNCHANGED <<copy, name, address, faults>>
     \/ /\ faults < MaxFaults
        /\ faults' = faults + 1
        /\ Answer(c)
        /\ UNCHANGED users
  /\ UNCHANGED <<now, nextId, attempts, tokens, logins, edits, history>>

\* The role in the token is the one that was read with the row.
GenerateToken(c) ==
  /\ pc[c] = "accepted"
  /\ tokens' = tokens \cup {[id |-> copy[c].id, role |-> copy[c].role, exp |-> now + TokenLife]}
  /\ Answer(c)
  /\ UNCHANGED <<now, users, nextId, attempts, bounds, history>>

-----------------------------------------------------------------------------
\* Requests with a token: JWTMiddleware, RequirePermissionMiddleware

ValidateToken(t) == now < t.exp

Permitted(t, op) ==
  /\ ValidateToken(t)
  /\ \A p \in Demanded[op] : HasPermission(t.role, p)

Edit ==
  /\ edits < MaxEdits
  /\ edits' = edits + 1

\* CreateUser, from its check of the name on; what it will write is the copy.
CreateUser(c, t, n, r) ==
  /\ pc[c] = "idle"
  /\ Permitted(t, "manageUsers")
  /\ r \in Roles
  /\ users[n] = None
  /\ Edit
  /\ nextId' = nextId + 1
  /\ name' = [name EXCEPT ![c] = n]
  /\ address' = [address EXCEPT ![c] = t.id]
  /\ copy' = [copy EXCEPT ![c] = NewRow(nextId, r)]
  /\ Become(c, "creating")
  /\ granted' = [granted EXCEPT ![nextId] = {r}]
  /\ UNCHANGED <<now, users, attempts, tokens, logins, faults, compared, wrong>>

\* The insert fails when the name was taken meanwhile, or its creator deleted.
Insert(c) ==
  /\ pc[c] = "creating"
  /\ IF users[name[c]] = None /\ Exists(address[c])
     THEN users' = [users EXCEPT ![name[c]] = copy[c]]
     ELSE UNCHANGED users
  /\ Answer(c)
  /\ UNCHANGED <<now, nextId, attempts, tokens, bounds, history>>

\* The rows of that id: one or none.
FindByID(i) == {users[n] : n \in {m \in Names : users[m] # None /\ users[m].id = i}}

\* UpdateUser reads the row by its id and changes the copy; a role that is
\* none is an error.
UpdateUser(c, t, i, r) ==
  /\ pc[c] = "idle"
  /\ Edit
  /\ Permitted(t, "manageUsers")
  /\ \E row \in FindByID(i) :
       /\ r \in Roles \cup {row.role}
       /\ copy' = [copy EXCEPT ![c] = [row EXCEPT !.role = r]]
  /\ granted' = [granted EXCEPT ![i] = @ \cup {r}]
  /\ Become(c, "updating")
  /\ UNCHANGED <<now, users, nextId, attempts, tokens, name, address, logins, faults, compared, wrong>>

\* POST /admin/reset-password reads the row of Root and keeps all but the hash.
ResetPassword(c) ==
  /\ pc[c] = "idle"
  /\ Edit
  /\ users[Root] # None
  /\ copy' = [copy EXCEPT ![c] = users[Root]]
  /\ Become(c, "updating")
  /\ UNCHANGED <<now, users, nextId, attempts, tokens, name, address, logins, faults, history>>

Update(c) ==
  /\ pc[c] = "updating"
  /\ users' = Written(copy[c])
  /\ Answer(c)
  /\ UNCHANGED <<now, nextId, attempts, tokens, bounds, history>>

\* Nobody may delete himself.
DeleteUser(c, t, n) ==
  /\ pc[c] = "idle"
  /\ Edit
  /\ Permitted(t, "manageUsers")
  /\ users[n] # None
  /\ users[n].id # t.id
  /\ users' = [users EXCEPT ![n] = None]
  /\ UNCHANGED <<now, nextId, attempts, tokens, caller, logins, faults, history>>

Tick ==
  /\ now < MaxTime
  /\ now' = now + 1
  /\ tokens' = {t \in tokens : now' < t.exp}
  /\ UNCHANGED <<users, nextId, attempts, caller, bounds, history>>

Login(c) ==
  \/ \E n \in Names, a \in Addresses : Count(c, n, a)
  \/ Refuse(c) \/ Find(c)
  \/ WrongPassword(c) \/ RightPassword(c) \/ GenerateToken(c)

Manage(c) ==
  \/ \E t \in tokens, n \in Names, r \in RolesGiven : CreateUser(c, t, n, r)
  \/ \E t \in tokens, i \in Ids, r \in RolesGiven : UpdateUser(c, t, i, r)
  \/ \E t \in tokens, n \in Names : DeleteUser(c, t, n)
  \/ ResetPassword(c) \/ Insert(c) \/ Update(c)

Next == Tick \/ \E c \in Callers : Login(c) \/ Manage(c)

Spec == Init /\ [][Next]_vars

-----------------------------------------------------------------------------
RowsKnown == {users[n] : n \in Names} \cup {copy[c] : c \in Callers}

(* Rows and copies are well-typed, an id has one row, and in each of them  *)
(* the lock and the count agree, although handlers write back rows they    *)
(* read long ago: locked is whoever has failed MaxAttempts times since the *)
(* last login, and nobody else.                                            *)
RowsConsistent ==
  /\ now \in Times
  /\ \A r \in RowsKnown \ {None} :
       /\ r \in Rows
       /\ r.locked # 0 <=> r.failed >= MaxAttempts
       /\ r.id < nextId
  /\ \A m, n \in Names : users[m] # None /\ users[m] = users[n] => m = n
  /\ tokens \subseteq Token
  /\ attempts \in [Addresses -> [Times -> 0 .. MaxLogins]]
  /\ pc \in [Callers -> {"idle", "refused", "counted", "read", "accepted", "creating", "updating"}]

(* However logins of one user overlap and whatever is written back, the    *)
(* user is never charged with a wrong password that nobody gave for him:   *)
(* nor with those of a deleted user of the same name.                      *)
FailuresCounted ==
  \A n \in Names : users[n] # None => users[n].failed <= wrong[users[n].id]

(* An address is counted before a password is compared and charged after   *)
(* it: in any window at most MaxAttempts - 1 wrong passwords of an address *)
(* are compared, and one more for each handler at work, and for each       *)
(* record that the database refused.                                       *)
GuessesBounded ==
  \A a \in Addresses, t \in Times :
    InWindow(compared[a], t) <= MaxAttempts - 1 + Cardinality(Callers) + faults

(* Nobody has a role, in the database or in a token, that was not once     *)
(* given to that very user; and no token opens a route that none of the    *)
(* roles given to its user opens.                                          *)
RightsGranted ==
  /\ \A n \in Names : users[n] # None => users[n].role \in granted[users[n].id]
  /\ \A t \in tokens, op \in DOMAIN Demanded :
       Permitted(t, op) =>
         \E r \in granted[t.id] : \A p \in Demanded[op] : HasPermission(r, p)
(* Users are consistent, and so is what they are allowed.                  *)
UsersSound == RowsConsistent /\ RightsGranted
=============================================================================
