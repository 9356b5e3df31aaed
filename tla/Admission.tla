----------------------------- MODULE Admission -----------------------------
(***************************************************************************)
(* How a caller comes to run a query: accounts are registered or, for the  *)
(* evaluation tenant, provisioned; a login issues a token with the user's  *)
(* departments; POST /query verifies the token, reads the user and the     *)
(* departments again and takes a slot of the user's quota in Redis.        *)
(*                                                                         *)
(* Email addresses are globally unique, so a user is named by the address; *)
(* the tenant created for a self-registered user, and its one department   *)
(* General, are named by it too.  Time is counted in ticks, the unit of    *)
(* the quota window and of the token lifetime.                             *)
(***************************************************************************)
EXTENDS Naturals, FiniteSets

CONSTANTS
  Emails,        \* normalised addresses
  NoTenant,      \* the tenant of an address without a user
  Evaluation,    \* the seeded evaluation tenant
  Seeded,        \* its departments
  Operators,     \* runs of the provisioning command
  Requests,      \* concurrent query requests, of any API process
  NoUser,
  Askers,        \* bound: the users who log in and ask
  Limit,         \* QUERY_RATE_LIMIT_REQUESTS
  Window,        \* QUERY_RATE_LIMIT_WINDOW_SECONDS, in ticks
  Lifetime,      \* of an access token, in ticks
  MaxChanges,    \* bound: changes of memberships by a database administrator
  MaxLosses      \* bound: quota keys whose expiry, and replies that are lost

ASSUME QuotaAssumption ==
  /\ Limit \in Nat \ {0}
  /\ Window \in Nat \ {0}
  /\ Lifetime \in Nat \ {0}
  /\ NoTenant \notin Emails /\ Evaluation \notin Emails \cup {NoTenant}

VARIABLES
  tenant,       \* of each user
  departments,  \* each user's rows of user_departments
  provision,    \* each provisioning command's progress
  token,        \* the access token each user logged in for last
  request,      \* each query request's progress
  key,          \* each user's Redis key: its count (0: no key) and TTL (0: none)
  admitted,     \* history: each user's queries admitted less than a window ago
  granted,      \* history: queries admitted since the user's key was created
  changes, losses

vars == <<tenant, departments, provision, token, request, key, admitted,
          granted, changes, losses>>

accounts == <<tenant, departments, provision>>
quota    == <<key, admitted, granted>>
bounds   == <<changes, losses>>

NoToken == [tenant |-> NoTenant, departments |-> {}, left |-> 0]
NoRequest == [step |-> "idle", user |-> NoUser, tenant |-> NoTenant,
              departments |-> {}, held |-> {}]

Init ==
  /\ tenant = [e \in Emails |-> NoTenant]
  /\ departments = [e \in Emails |-> {}]
  /\ provision = [o \in Operators |-> [step |-> "idle", email |-> NoUser, listed |-> {}]]
  /\ token = [e \in Emails |-> NoToken]
  /\ request = [r \in Requests |-> NoRequest]
  /\ key = [e \in Emails |-> [count |-> 0, ttl |-> 0]]
  /\ admitted = [e \in Emails |-> {}]
  /\ granted = [e \in Emails |-> 0]
  /\ changes = 0
  /\ losses = 0

Members(t) == {e \in Emails : tenant[e] = t}

\* A user of tenant t with departments ds is inserted; the unique index on the
\* address makes a second insert fail, and the transaction with it.
InsertUserMistake(e, t, ds) ==
  /\ tenant' = [tenant EXCEPT ![e] = t]
  /\ departments' = [departments EXCEPT ![e] = ds]

InsertUser(e, t, ds) ==
  /\ tenant[e] = NoTenant
  /\ tenant' = [tenant EXCEPT ![e] = t]
  /\ departments' = [departments EXCEPT ![e] = ds]

-----------------------------------------------------------------------------
(* Accounts *)

\* One transaction: tenant, department General, administrator, membership.
Register(e) ==
  /\ InsertUser(e, e, {e})
  /\ UNCHANGED <<provision, token, request, quota, bounds>>

\* The command's transaction looks for a user of the evaluation tenant ...
CheckProvision(o, e) ==
  /\ provision[o].step = "idle"
  /\ provision' = [provision EXCEPT ![o] =
       IF Members(Evaluation) # {} \/ Seeded = {}
       THEN [step |-> "refused", email |-> e, listed |-> {}]
       ELSE [step |-> "creating", email |-> e, listed |-> Seeded]]
  /\ UNCHANGED <<tenant, departments, token, request, quota, bounds>>

\* ... and, finding none, inserts one with the departments it read.
CreateAdmin(o) ==
  /\ provision[o].step = "creating"
  /\ LET e == provision[o].email
     IN  \/ /\ InsertUser(e, Evaluation, provision[o].listed)
            /\ provision' = [provision EXCEPT ![o].step = "created"]
         \/ /\ tenant[e] # NoTenant
            /\ provision' = [provision EXCEPT ![o].step = "refused"]
            /\ UNCHANGED <<tenant, departments>>
  /\ UNCHANGED <<token, request, quota, bounds>>

\* No code of the repository changes a membership: an administrator does, in SQL.
ChangeMembership(e, ds) ==
  /\ changes < MaxChanges
  /\ ds # departments[e]
  /\ ds \subseteq IF tenant[e] = Evaluation THEN Seeded ELSE {tenant[e]} \cap Emails
  /\ departments' = [departments EXCEPT ![e] = ds]
  /\ request' = [r \in Requests |->
       IF request[r].user = e THEN [request[r] EXCEPT !.held = @ \cup ds] ELSE request[r]]
  /\ changes' = changes + 1
  /\ UNCHANGED <<tenant, provision, token, quota, losses>>

Login(e) ==
  /\ e \in Askers
  /\ tenant[e] # NoTenant
  /\ token' = [token EXCEPT ![e] = [tenant |-> tenant[e], departments |-> departments[e],
                                    left |-> Lifetime]]
  /\ UNCHANGED <<accounts, request, quota, bounds>>

-----------------------------------------------------------------------------
(* A query request: get_verified_claims, get_current_user, the quota *)

\* The token must not have expired and must name a department.
VerifyClaims(r, e) ==
  /\ request[r].step = "idle"
  /\ token[e].left > 0
  /\ token[e].departments # {}
  /\ request' = [request EXCEPT ![r] =
       [step |-> "verified", user |-> e, tenant |-> token[e].tenant,
        departments |-> token[e].departments, held |-> departments[e]]]
  /\ UNCHANGED <<accounts, token, quota, bounds>>

ReadCurrentUserMistake(r) ==
  /\ request[r].step = "verified"
  /\ request' = [request EXCEPT ![r].step = "current"]
  /\ UNCHANGED <<accounts, token, quota, bounds>>

\* The claims only say who asks: role and departments are those of the rows.
ReadCurrentUser(r) ==
  /\ request[r].step = "verified"
  /\ LET e == request[r].user
     IN  request' = [request EXCEPT ![r] =
           IF tenant[e] = request[r].tenant /\ departments[e] # {}
           THEN [@ EXCEPT !.step = "current", !.departments = departments[e]]
           ELSE NoRequest]
  /\ UNCHANGED <<accounts, token, quota, bounds>>

\* The Redis script, one atomic step: the key and whether the query may run.
\* (The count is kept up to one over the limit: beyond, it decides nothing.)
AcquireScriptMistake(k) ==
  LET count == k.count + 1
  IN  [key |-> [count |-> IF count > Limit THEN Limit + 1 ELSE count,
                ttl   |-> IF count = 1 THEN Window ELSE k.ttl],
       allowed |-> count <= Limit]

AcquireScriptOffByOne(k) ==
  LET count == k.count + 1
      ttl   == IF count = 1 THEN Window ELSE k.ttl
  IN  [key |-> [count |-> IF count > Limit THEN Limit + 1 ELSE count,
                ttl   |-> IF ttl = 0 THEN Window ELSE ttl],
       allowed |-> k.count <= Limit]

AcquireScript(k) ==
  LET count == k.count + 1
      ttl   == IF count = 1 THEN Window ELSE k.ttl
  IN  [key |-> [count |-> IF count > Limit THEN Limit + 1 ELSE count,
                ttl   |-> IF ttl = 0 THEN Window ELSE ttl],
       allowed |-> count <= Limit]

\* An admitted query is known by what its key had counted with it and by how
\* many keys have been created since.
AfterCreation(admissions) == {[a EXCEPT !.keys = @ + 1] : a \in admissions}

\* The script runs for e, and its reply admits a query or does not.
RunScript(e, admits) ==
  LET decision == AcquireScript(key[e])
      created  == key[e].count = 0
  IN  /\ key' = [key EXCEPT ![e] = decision.key]
      /\ granted' = [granted EXCEPT ![e] =
           (IF created THEN 0 ELSE @) + (IF admits THEN 1 ELSE 0)]
      /\ admitted' = [admitted EXCEPT ![e] =
           (IF created THEN AfterCreation(@) ELSE @)
             \cup (IF admits THEN {[age |-> 0, keys |-> 0, place |-> decision.key.count]}
                   ELSE {})]

Acquire(r) ==
  /\ request[r].step = "current"
  /\ LET e == request[r].user
         allowed == AcquireScript(key[e]).allowed
     IN  /\ RunScript(e, allowed)
         /\ request' = [request EXCEPT ![r] =
              IF allowed THEN [@ EXCEPT !.step = "admitted"] ELSE NoRequest]
  /\ UNCHANGED <<accounts, token, bounds>>

\* The script runs but its reply is lost or cannot be read: the query is refused
\* (503), and counted.
LoseReply(r) ==
  /\ request[r].step = "current"
  /\ losses < MaxLosses
  /\ losses' = losses + 1
  /\ RunScript(request[r].user, FALSE)
  /\ request' = [request EXCEPT ![r] = NoRequest]
  /\ UNCHANGED <<accounts, token, changes>>

\* Redis cannot be asked: the query is refused (503), and not counted.
QuotaUnavailable(r) ==
  /\ request[r].step = "current"
  /\ request' = [request EXCEPT ![r] = NoRequest]
  /\ UNCHANGED <<accounts, token, quota, bounds>>

Finish(r) ==
  /\ request[r].step = "admitted"
  /\ request' = [request EXCEPT ![r] = NoRequest]
  /\ UNCHANGED <<accounts, token, quota, bounds>>

\* Redis: a key whose TTL runs out is gone.
Expire(k) == IF k.ttl = 1 THEN [count |-> 0, ttl |-> 0]
             ELSE IF k.ttl > 1 THEN [k EXCEPT !.ttl = @ - 1] ELSE k

Tick ==
  /\ token' = [e \in Emails |-> IF token[e].left > 0
                                THEN [token[e] EXCEPT !.left = @ - 1] ELSE token[e]]
  /\ key' = [e \in Emails |-> Expire(key[e])]
  /\ admitted' = [e \in Emails |->
       {[a EXCEPT !.age = @ + 1] : a \in {x \in admitted[e] : x.age + 1 < Window}}]
  /\ UNCHANGED <<accounts, request, granted, bounds>>

\* A key comes back without its expiry (a restore, a PERSIST).
LoseExpiry(e) ==
  /\ losses < MaxLosses
  /\ key[e].ttl > 0
  /\ key' = [key EXCEPT ![e].ttl = 0]
  /\ losses' = losses + 1
  /\ UNCHANGED <<accounts, token, request, admitted, granted, changes>>

Next ==
  \/ \E e \in Emails :
       \/ Register(e) \/ Login(e) \/ LoseExpiry(e)
       \/ \E o \in Operators : CheckProvision(o, e)
       \/ \E ds \in SUBSET (Emails \cup Seeded) : ChangeMembership(e, ds)
       \/ \E r \in Requests : VerifyClaims(r, e)
  \/ \E o \in Operators : CreateAdmin(o)
  \/ \E r \in Requests :
       ReadCurrentUser(r) \/ Acquire(r) \/ LoseReply(r) \/ QuotaUnavailable(r) \/ Finish(r)
  \/ Tick

\* Time passes; nobody has to ask.
Spec == Init /\ [][Next]_vars /\ WF_vars(Tick)

-----------------------------------------------------------------------------
(* Properties *)

\* Every variable has its type.
TypeOK ==
  /\ tenant \in [Emails -> Emails \cup {NoTenant, Evaluation}]
  /\ departments \in [Emails -> SUBSET (Emails \cup Seeded)]
  /\ provision \in [Operators -> [step : {"idle", "creating", "created", "refused"},
                                  email : Emails \cup {NoUser},
                                  listed : SUBSET Seeded]]
  /\ token \in [Emails -> [tenant : Emails \cup {NoTenant, Evaluation},
                           departments : SUBSET (Emails \cup Seeded), left : 0..Lifetime]]
  /\ request \in [Requests -> [step : {"idle", "verified", "current", "admitted"},
                               user : Emails \cup {NoUser},
                               tenant : Emails \cup {NoTenant, Evaluation},
                               departments : SUBSET (Emails \cup Seeded),
                               held : SUBSET (Emails \cup Seeded)]]
  /\ key \in [Emails -> [count : 0..Limit + 1, ttl : 0..Window]]
  /\ granted \in [Emails -> Nat]
  /\ admitted \in [Emails -> SUBSET [age : 0..Window - 1, keys : Nat, place : 1..Limit]]

\* Within one window of a user at most Limit queries are admitted, however many
\* processes ask at once, and a stretch as long as a window, wherever it begins,
\* sees fewer than twice as many.
QuotaHolds ==
  \A e \in Emails : granted[e] <= Limit /\ Cardinality(admitted[e]) < 2 * Limit

\* A query runs with departments of its user's own tenant that the user held at
\* some moment since the request came in, whatever the token says: who has been
\* removed from a department, or from all, before asking is not let in with it.
ScopeIsCurrent ==
  \A r \in Requests :
    request[r].step \in {"current", "admitted"} =>
      /\ request[r].departments # {}
      /\ request[r].departments \subseteq request[r].held
      /\ request[r].tenant = tenant[request[r].user]

\* A user is never moved to another tenant; and once the evaluation tenant has an
\* administrator only commands that looked before may add one.
IdentitiesSettle ==
  [][/\ \A e \in Emails : tenant[e] # NoTenant => tenant'[e] = tenant[e]
     /\ \A o \in Operators :
          (Members(Evaluation) # {} /\ provision'[o].step \in {"creating", "created"})
            => provision[o].step \in {"creating", "created"}]_vars

Answers(e) == \E r \in Requests : request[r].user = e /\ Acquire(r)
Admits(e)  == \E r \in Requests : /\ request[r].user = e /\ Acquire(r)
                                  /\ request'[r].step = "admitted"

\* Nobody is locked out: a user who keeps asking a reachable Redis is admitted
\* again and again, even after the key has lost its expiry.
RefusalsEnd ==
  \A e \in Emails : []<><<Answers(e)>>_vars => []<><<Admits(e)>>_vars

=============================================================================
