--------------------------- MODULE AdmissionProofs ---------------------------
(***************************************************************************)
(* Theorems about Admission for every set of addresses, commands and       *)
(* requests, every limit and window, and any number of changes of          *)
(* memberships.                                                            *)
(***************************************************************************)
EXTENDS Admission, FiniteSetTheorems, TLAPS

ProvisionRow ==
  [step : {"idle", "creating", "created", "refused"},
   email : Emails \cup {NoUser}, listed : SUBSET Seeded]

TokenRow ==
  [tenant : Emails \cup {NoTenant, Evaluation},
   departments : SUBSET (Emails \cup Seeded), left : 0..Lifetime]

RequestRow ==
  [step : {"idle", "verified", "current", "admitted"},
   user : Emails \cup {NoUser},
   tenant : Emails \cup {NoTenant, Evaluation},
   departments : SUBSET (Emails \cup Seeded),
   held : SUBSET (Emails \cup Seeded)]

KeyRow == [count : 0..Limit + 1, ttl : 0..Window]

Typed ==
  /\ tenant \in [Emails -> Emails \cup {NoTenant, Evaluation}]
  /\ departments \in [Emails -> SUBSET (Emails \cup Seeded)]
  /\ provision \in [Operators -> ProvisionRow]
  /\ token \in [Emails -> TokenRow]
  /\ request \in [Requests -> RequestRow]
  /\ key \in [Emails -> KeyRow]
  /\ granted \in [Emails -> Nat]

Admissions == [age : 0..Window - 1, keys : Nat, place : 1..Limit]

\* A query admitted less than a window ago came under the user's last key or, but
\* not as its first, the one before it.  The last key outlives by a window the
\* query it was created for, and all that came before it.
RecentInv(a, k) ==
  /\ a.keys \in {0, 1}
  /\ a.keys = 0 /\ k.count > 0 => a.place <= k.count
  /\ a.keys = 1 => a.place > 1
  /\ a.keys = 1 \/ a.place = 1 => k.count > 0 /\ (k.ttl > 0 => a.age + k.ttl >= Window)

\* The admissions S of a user with key k.
WindowOf(S, k) ==
  /\ S \subseteq Admissions
  /\ \A a \in S : RecentInv(a, k)
  /\ \A a, b \in S : a.keys = b.keys /\ a.place = b.place => a = b

WindowInv ==
  /\ admitted = [e \in Emails |-> admitted[e]]
  /\ \A e \in Emails : WindowOf(admitted[e], key[e])

LEMMA TypedIsTypeOK == Typed /\ WindowInv => TypeOK
BY DEF Typed, WindowInv, WindowOf, Admissions, TypeOK, ProvisionRow, TokenRow, RequestRow, KeyRow

\* The user of a request is known; the request has seen all the departments the
\* user has had since it came in, and runs with some of them.
RequestInv(x) ==
  /\ x.step # "idle" =>
       /\ x.user \in Emails
       /\ tenant[x.user] # NoTenant
       /\ departments[x.user] \subseteq x.held
  /\ x.step \in {"current", "admitted"} =>
       /\ x.departments # {}
       /\ x.departments \subseteq x.held
       /\ x.tenant = tenant[x.user]

\* A token that has not expired was issued to a known user.
TokensInv == \A e \in Emails : token[e].left > 0 => tenant[e] # NoTenant

\* A key has counted every query admitted under it.
KeysInv ==
  \A e \in Emails :
    /\ granted[e] <= Limit
    /\ key[e].count > 0 => granted[e] <= key[e].count

AdmissionInv ==
  /\ Typed
  /\ TokensInv
  /\ KeysInv
  /\ \A r \in Requests : RequestInv(request[r])

-----------------------------------------------------------------------------
(* Accounts. *)

LEMMA InsertStep ==
  ASSUME AdmissionInv, NEW e, NEW t \in Emails \cup {Evaluation},
         NEW ds \in SUBSET (Emails \cup Seeded), InsertUser(e, t, ds),
         UNCHANGED <<token, request, quota>>
  PROVE  /\ tenant' \in [Emails -> Emails \cup {NoTenant, Evaluation}]
         /\ departments' \in [Emails -> SUBSET (Emails \cup Seeded)]
         /\ TokensInv' /\ KeysInv' /\ \A r \in Requests : RequestInv(request[r])'
         /\ \A x \in Emails : tenant[x] # NoTenant => tenant'[x] = tenant[x]
<1>1. /\ tenant' \in [Emails -> Emails \cup {NoTenant, Evaluation}]
      /\ departments' \in [Emails -> SUBSET (Emails \cup Seeded)]
  BY DEF InsertUser, AdmissionInv, Typed
<1>2. \A x \in Emails : tenant[x] # NoTenant =>
        tenant'[x] = tenant[x] /\ departments'[x] = departments[x]
  BY DEF InsertUser, AdmissionInv, Typed
<1>3. TokensInv' /\ KeysInv'
  BY <1>2 DEF AdmissionInv, TokensInv, KeysInv, quota
<1>4. ASSUME NEW r \in Requests PROVE RequestInv(request[r])'
  <2>1. PICK x : x = request[r] /\ x = request'[r]
    OBVIOUS
  <2>2. RequestInv(x)'
    BY <1>2, <2>1 DEF AdmissionInv, RequestInv
  <2> QED BY <2>1, <2>2
<1> QED BY <1>1, <1>2, <1>3, <1>4

LEMMA AccountsPreserve ==
  ASSUME AdmissionInv,
         \/ \E e \in Emails : Register(e)
         \/ \E e \in Emails, o \in Operators : CheckProvision(o, e)
         \/ \E o \in Operators : CreateAdmin(o)
  PROVE  AdmissionInv'
<1>1. CASE \E e \in Emails : Register(e)
  <2>1. PICK e \in Emails : Register(e)
    BY <1>1
  <2>2. InsertUser(e, e, {e}) /\ UNCHANGED <<provision, token, request, quota>>
    BY <2>1 DEF Register
  <2> QED BY <2>2, InsertStep DEF AdmissionInv, Typed, quota
<1>2. CASE \E e \in Emails, o \in Operators : CheckProvision(o, e)
  <2>1. PICK e \in Emails, o \in Operators : CheckProvision(o, e)
    BY <1>2
  <2>2. PICK row : /\ row = IF Members(Evaluation) # {} \/ Seeded = {}
                           THEN [step |-> "refused", email |-> e, listed |-> {}]
                           ELSE [step |-> "creating", email |-> e, listed |-> Seeded]
                   /\ provision' = [provision EXCEPT ![o] = row]
    BY <2>1 DEF CheckProvision
  <2>3. UNCHANGED <<tenant, departments, token, request, quota>>
    BY <2>1 DEF CheckProvision
  <2>4. provision' \in [Operators -> ProvisionRow]
    <3>1. row \in ProvisionRow
      BY <2>2 DEF ProvisionRow
    <3> QED BY <2>2, <3>1 DEF AdmissionInv, Typed
  <2> QED BY <2>3, <2>4 DEF AdmissionInv, Typed, TokensInv, KeysInv, RequestInv, quota
<1>3. CASE \E o \in Operators : CreateAdmin(o)
  <2>1. PICK o \in Operators : CreateAdmin(o)
    BY <1>3
  <2>2. PICK row : row = provision[o] /\ row \in ProvisionRow
    BY DEF AdmissionInv, Typed
  <2>3. \A step \in {"created", "refused"} : [row EXCEPT !.step = step] \in ProvisionRow
    BY <2>2 DEF ProvisionRow
  <2>4. provision' \in [Operators -> ProvisionRow]
    <3>1. PICK step \in {"created", "refused"} :
            provision' = [provision EXCEPT ![o] = [row EXCEPT !.step = step]]
      BY <2>1, <2>2 DEF CreateAdmin, AdmissionInv, Typed
    <3> QED BY <2>3, <3>1 DEF AdmissionInv, Typed
  <2>5. UNCHANGED <<token, request, quota>>
    BY <2>1 DEF CreateAdmin
  <2>6. CASE InsertUser(row.email, Evaluation, row.listed)
    <3>1. row.listed \in SUBSET (Emails \cup Seeded)
      BY <2>2 DEF ProvisionRow
    <3> QED BY <2>4, <2>5, <2>6, <3>1, InsertStep DEF AdmissionInv, Typed, quota
  <2>7. CASE UNCHANGED <<tenant, departments>>
    BY <2>4, <2>5, <2>7 DEF AdmissionInv, Typed, TokensInv, KeysInv, RequestInv, quota
  <2> QED BY <2>1, <2>2, <2>6, <2>7 DEF CreateAdmin
<1> QED BY <1>1, <1>2, <1>3

\* The requests of the user get to hold the new departments.
LEMMA ChangePreserves ==
  ASSUME AdmissionInv, NEW e \in Emails, NEW ds \in SUBSET (Emails \cup Seeded),
         ChangeMembership(e, ds)
  PROVE  AdmissionInv'
<1>1. /\ departments' = [departments EXCEPT ![e] = ds]
      /\ request' = [r \in Requests |->
           IF request[r].user = e THEN [request[r] EXCEPT !.held = @ \cup ds]
           ELSE request[r]]
      /\ UNCHANGED <<tenant, provision, token, quota>>
  BY DEF ChangeMembership
<1>2. \A r \in Requests : request[r] \in RequestRow /\ RequestInv(request[r])
  BY DEF AdmissionInv, Typed
<1>3. ASSUME NEW r \in Requests
      PROVE  request'[r] \in RequestRow /\ RequestInv(request[r])'
  <2>1. PICK x : x = request[r] /\ x \in RequestRow /\ RequestInv(x)
    BY <1>2
  <2> DEFINE y == [x EXCEPT !.held = @ \cup ds]
  <2>2. /\ y \in RequestRow
        /\ y.step = x.step /\ y.user = x.user /\ y.tenant = x.tenant
        /\ y.departments = x.departments /\ y.held = x.held \cup ds
    BY <2>1 DEF RequestRow
  <2>3. \A u \in Emails : departments'[u] = IF u = e THEN ds ELSE departments[u]
    BY <1>1 DEF AdmissionInv, Typed
  <2>4. PICK z : z = request'[r]
    OBVIOUS
  <2> HIDE DEF y
  <2>5. CASE x.user = e
    <3>1. z = y
      BY <1>1, <2>1, <2>4, <2>5 DEF y
    <3>2. RequestInv(z)'
      BY <1>1, <2>1, <2>2, <2>3, <2>5, <3>1 DEF RequestInv
    <3> QED BY <2>2, <2>4, <3>1, <3>2
  <2>6. CASE x.user # e
    <3>1. z = x
      BY <1>1, <2>1, <2>4, <2>6
    <3>2. RequestInv(z)'
      BY <1>1, <2>1, <2>3, <2>6, <3>1 DEF RequestInv
    <3> QED BY <2>1, <2>4, <3>1, <3>2
  <2> QED BY <2>5, <2>6
<1>4. request' \in [Requests -> RequestRow]
  <2>1. request' = [r \in Requests |-> request'[r]]
    BY <1>1
  <2> QED BY <1>3, <2>1
<1>5. departments' \in [Emails -> SUBSET (Emails \cup Seeded)]
  BY <1>1 DEF AdmissionInv, Typed
<1> QED BY <1>1, <1>3, <1>4, <1>5 DEF AdmissionInv, Typed, TokensInv, KeysInv, quota

LEMMA LoginPreserves ==
  ASSUME AdmissionInv, NEW e \in Emails, Login(e)
  PROVE  AdmissionInv'
<1> DEFINE row == [tenant |-> tenant[e], departments |-> departments[e], left |-> Lifetime]
<1>1. /\ token' = [token EXCEPT ![e] = row]
      /\ tenant[e] # NoTenant
      /\ UNCHANGED <<tenant, departments, provision, request, quota>>
  BY DEF Login, accounts
<1>2. row \in TokenRow
  BY QuotaAssumption DEF TokenRow, AdmissionInv, Typed
<1> HIDE DEF row
<1>3. /\ token' \in [Emails -> TokenRow]
      /\ \A x \in Emails \ {e} : token'[x] = token[x]
  BY <1>1, <1>2 DEF AdmissionInv, Typed
<1> QED BY <1>1, <1>3 DEF AdmissionInv, Typed, TokensInv, KeysInv, RequestInv, quota

-----------------------------------------------------------------------------
(* Requests. *)

\* The request r goes on as x; keys and counts are accounted for.
LEMMA RequestPreserves ==
  ASSUME AdmissionInv, NEW r \in Requests, NEW x \in RequestRow, RequestInv(x),
         request' = [request EXCEPT ![r] = x], UNCHANGED <<accounts, token>>,
         key' \in [Emails -> KeyRow], granted' \in [Emails -> Nat], KeysInv'
  PROVE  AdmissionInv'
<1>1. UNCHANGED <<tenant, departments, provision, token>>
  BY DEF accounts
<1>2. /\ request' \in [Requests -> RequestRow]
      /\ request'[r] = x
      /\ \A k \in Requests \ {r} : request'[k] = request[k]
  BY DEF AdmissionInv, Typed
<1>3. ASSUME NEW k \in Requests PROVE RequestInv(request[k])'
  <2>1. PICK y : y = request'[k] /\ RequestInv(y)
    BY <1>2 DEF AdmissionInv
  <2>2. RequestInv(y)'
    BY <1>1, <2>1 DEF RequestInv
  <2> QED BY <2>1, <2>2
<1> QED BY <1>1, <1>2, <1>3 DEF AdmissionInv, Typed, TokensInv

LEMMA NoRequestInv == NoUser \in Emails \cup {NoUser} /\ NoRequest \in RequestRow /\ RequestInv(NoRequest)
BY DEF NoRequest, RequestRow, RequestInv

LEMMA QuotaKept ==
  ASSUME AdmissionInv, UNCHANGED quota
  PROVE  key' \in [Emails -> KeyRow] /\ granted' \in [Emails -> Nat] /\ KeysInv'
BY DEF AdmissionInv, Typed, KeysInv, quota

LEMMA VerifyPreserves ==
  ASSUME AdmissionInv, NEW r \in Requests, NEW e \in Emails, VerifyClaims(r, e)
  PROVE  AdmissionInv'
<1> DEFINE x == [step |-> "verified", user |-> e, tenant |-> token[e].tenant,
                 departments |-> token[e].departments, held |-> departments[e]]
<1>1. /\ request' = [request EXCEPT ![r] = x]
      /\ token[e].left > 0
      /\ UNCHANGED <<accounts, token, quota>>
  BY DEF VerifyClaims
<1>2. token[e] \in TokenRow /\ departments[e] \in SUBSET (Emails \cup Seeded)
  BY DEF AdmissionInv, Typed
<1>3. x \in RequestRow
  BY <1>2 DEF RequestRow, TokenRow
<1>4. RequestInv(x)
  BY <1>1 DEF RequestInv, AdmissionInv, TokensInv
<1> HIDE DEF x
<1> QED BY <1>1, <1>3, <1>4, QuotaKept, RequestPreserves

LEMMA ReadUserPreserves ==
  ASSUME AdmissionInv, NEW r \in Requests, ReadCurrentUser(r)
  PROVE  AdmissionInv'
<1>1. PICK x : x = request[r] /\ x \in RequestRow /\ RequestInv(x)
  BY DEF AdmissionInv, Typed
<1>2. /\ x.step = "verified"
      /\ request' = [request EXCEPT ![r] =
           IF tenant[x.user] = x.tenant /\ departments[x.user] # {}
           THEN [x EXCEPT !.step = "current", !.departments = departments[x.user]]
           ELSE NoRequest]
      /\ UNCHANGED <<accounts, token, quota>>
  BY <1>1 DEF ReadCurrentUser
<1>3. x.user \in Emails /\ departments[x.user] \in SUBSET (Emails \cup Seeded)
  BY <1>1, <1>2 DEF RequestInv, AdmissionInv, Typed
<1>4. CASE tenant[x.user] = x.tenant /\ departments[x.user] # {}
  <2> DEFINE y == [x EXCEPT !.step = "current", !.departments = departments[x.user]]
  <2>1. /\ y \in RequestRow
        /\ y.step = "current" /\ y.user = x.user /\ y.tenant = x.tenant
        /\ y.departments = departments[x.user] /\ y.held = x.held
    BY <1>1, <1>3 DEF RequestRow
  <2> HIDE DEF y
  <2>2. RequestInv(y)
    BY <1>1, <1>2, <1>4, <2>1 DEF RequestInv
  <2>3. request' = [request EXCEPT ![r] = y]
    BY <1>2, <1>4 DEF y
  <2> QED BY <1>2, <2>1, <2>2, <2>3, QuotaKept, RequestPreserves
<1>5. CASE ~(tenant[x.user] = x.tenant /\ departments[x.user] # {})
  BY <1>2, <1>5, NoRequestInv, QuotaKept, RequestPreserves
<1> QED BY <1>4, <1>5

LEMMA EndPreserves ==
  ASSUME AdmissionInv, NEW r \in Requests, QuotaUnavailable(r) \/ Finish(r)
  PROVE  AdmissionInv'
BY NoRequestInv, QuotaKept, RequestPreserves DEF QuotaUnavailable, Finish

\* The row the script leaves: one more is counted, and the key has an expiry.
LEMMA ScriptRow ==
  ASSUME NEW k \in KeyRow
  PROVE  /\ AcquireScript(k).allowed <=> k.count + 1 <= Limit
         /\ AcquireScript(k).key \in KeyRow
         /\ AcquireScript(k).key.count = IF k.count + 1 > Limit THEN Limit + 1 ELSE k.count + 1
         /\ \/ AcquireScript(k).key.ttl = Window
            \/ k.count > 0 /\ AcquireScript(k).key.ttl = k.ttl
<1>1. PICK count, ttl : count = k.count /\ ttl = k.ttl /\ count \in 0..Limit + 1 /\ ttl \in 0..Window
  BY DEF KeyRow
<1>2. AcquireScript(k).allowed <=> count + 1 <= Limit
  BY <1>1 DEF AcquireScript
<1>3. PICK left : left = IF count + 1 = 1 THEN Window ELSE ttl
  OBVIOUS
<1>4. AcquireScript(k).key = [count |-> IF count + 1 > Limit THEN Limit + 1 ELSE count + 1,
                              ttl   |-> IF left = 0 THEN Window ELSE left]
  BY <1>1, <1>3 DEF AcquireScript
<1>5. left \in 0..Window /\ (count > 0 => left = ttl) /\ (count = 0 => left = Window)
  BY <1>1, <1>3, QuotaAssumption
<1>6. AcquireScript(k).key \in KeyRow
  BY <1>1, <1>4, <1>5, QuotaAssumption DEF KeyRow
<1>7. \/ AcquireScript(k).key.ttl = Window
      \/ count > 0 /\ AcquireScript(k).key.ttl = ttl
  BY <1>1, <1>4, <1>5
<1> QED BY <1>1, <1>2, <1>4, <1>6, <1>7

\* Whether or not the reply arrives, the key has counted what was admitted.
LEMMA ScriptKeepsKeys ==
  ASSUME AdmissionInv, NEW e \in Emails, NEW admits \in BOOLEAN,
         admits => AcquireScript(key[e]).allowed, RunScript(e, admits)
  PROVE  key' \in [Emails -> KeyRow] /\ granted' \in [Emails -> Nat] /\ KeysInv'
<1>1. PICK k, g : /\ k = key[e] /\ g = granted[e]
                  /\ k \in KeyRow /\ g \in Nat /\ g <= Limit
                  /\ k.count > 0 => g <= k.count
  BY DEF AdmissionInv, Typed, KeysInv
<1>2. PICK count : count = k.count /\ count \in 0..Limit + 1
  BY <1>1 DEF KeyRow
<1>3. PICK row : /\ row = AcquireScript(k).key
                 /\ row \in KeyRow
                 /\ row.count = IF count + 1 > Limit THEN Limit + 1 ELSE count + 1
  BY <1>1, <1>2, ScriptRow
<1>4. /\ key' = [key EXCEPT ![e] = row]
      /\ granted' = [granted EXCEPT ![e] =
           (IF k.count = 0 THEN 0 ELSE g) + (IF admits THEN 1 ELSE 0)]
  BY <1>1, <1>3 DEF RunScript
<1>5. ASSUME NEW h \in Nat, h <= Limit, h <= row.count,
             granted' = [granted EXCEPT ![e] = h]
      PROVE  key' \in [Emails -> KeyRow] /\ granted' \in [Emails -> Nat] /\ KeysInv'
  BY <1>3, <1>4, <1>5 DEF AdmissionInv, Typed, KeysInv
<1>6. PICK before : before = IF k.count = 0 THEN 0 ELSE g
  OBVIOUS
<1>7. before \in Nat /\ before <= Limit /\ before <= count
  BY <1>1, <1>2, <1>6, QuotaAssumption
<1>8. CASE admits
  <2>1. count + 1 <= Limit
    BY <1>1, <1>2, <1>8, ScriptRow
  <2>2. granted' = [granted EXCEPT ![e] = before + 1]
    BY <1>4, <1>6, <1>8
  <2>3. before + 1 \in Nat /\ before + 1 <= Limit /\ before + 1 <= row.count
    BY <1>2, <1>3, <1>7, <2>1, QuotaAssumption
  <2> QED BY <1>5, <2>2, <2>3
<1>9. CASE ~admits
  <2>1. granted' = [granted EXCEPT ![e] = before + 0]
    BY <1>4, <1>6, <1>9
  <2>2. before + 0 \in Nat /\ before + 0 <= Limit /\ before + 0 <= row.count
    BY <1>2, <1>3, <1>7, QuotaAssumption
  <2> QED BY <1>5, <2>1, <2>2
<1> QED BY <1>8, <1>9

LEMMA AcquirePreserves ==
  ASSUME AdmissionInv, NEW r \in Requests, Acquire(r) \/ LoseReply(r)
  PROVE  AdmissionInv'
<1>1. PICK x : x = request[r] /\ x \in RequestRow /\ RequestInv(x)
  BY DEF AdmissionInv, Typed
<1>2. PICK e : e = x.user
  OBVIOUS
<1>3. x.step = "current" /\ UNCHANGED <<accounts, token>>
  BY <1>1 DEF Acquire, LoseReply
<1>4. e \in Emails
  BY <1>1, <1>2, <1>3 DEF RequestInv
<1>5. PICK allowed \in BOOLEAN : allowed <=> AcquireScript(key[e]).allowed
  OBVIOUS
<1>6. CASE Acquire(r)
  <2>1. AcquireScript(key[e]).allowed = allowed
    <3>1. AcquireScript(key[e]).allowed \in BOOLEAN
      BY DEF AcquireScript
    <3> QED BY <1>5, <3>1
  <2>2. /\ RunScript(e, allowed)
        /\ request' = [request EXCEPT ![r] =
             IF allowed THEN [x EXCEPT !.step = "admitted"] ELSE NoRequest]
    <3>1. /\ RunScript(e, AcquireScript(key[e]).allowed)
          /\ request' = [request EXCEPT ![r] =
               IF AcquireScript(key[e]).allowed THEN [x EXCEPT !.step = "admitted"]
               ELSE NoRequest]
      BY <1>1, <1>2, <1>6, Zenon DEF Acquire
    <3> QED BY <2>1, <3>1
  <2>3. key' \in [Emails -> KeyRow] /\ granted' \in [Emails -> Nat] /\ KeysInv'
    BY <1>4, <1>5, <2>2, ScriptKeepsKeys
  <2>4. CASE allowed
    <3> DEFINE y == [x EXCEPT !.step = "admitted"]
    <3>1. /\ y \in RequestRow
          /\ y.step = "admitted" /\ y.user = x.user /\ y.tenant = x.tenant
          /\ y.departments = x.departments /\ y.held = x.held
      BY <1>1 DEF RequestRow
    <3>2. request' = [request EXCEPT ![r] = y]
      BY <2>2, <2>4
    <3> HIDE DEF y
    <3>3. RequestInv(y)
      BY <1>1, <1>3, <3>1 DEF RequestInv
    <3> QED BY <1>3, <2>3, <3>1, <3>2, <3>3, RequestPreserves
  <2>5. CASE ~allowed
    <3>1. request' = [request EXCEPT ![r] = NoRequest]
      BY <2>2, <2>5
    <3> QED BY <1>3, <2>3, <3>1, NoRequestInv, RequestPreserves
  <2> QED BY <2>4, <2>5
<1>7. CASE LoseReply(r)
  <2>1. RunScript(e, FALSE) /\ request' = [request EXCEPT ![r] = NoRequest]
    BY <1>1, <1>2, <1>7 DEF LoseReply
  <2>2. key' \in [Emails -> KeyRow] /\ granted' \in [Emails -> Nat] /\ KeysInv'
    BY <1>4, <2>1, ScriptKeepsKeys
  <2> QED BY <1>3, <2>1, <2>2, NoRequestInv, RequestPreserves
<1> QED BY <1>6, <1>7

-----------------------------------------------------------------------------
(* Time. *)

LEMMA TickPreserves ==
  ASSUME AdmissionInv, Tick
  PROVE  AdmissionInv'
<1>1. /\ token' = [e \in Emails |-> IF token[e].left > 0
                                    THEN [token[e] EXCEPT !.left = @ - 1] ELSE token[e]]
      /\ key' = [e \in Emails |-> Expire(key[e])]
      /\ UNCHANGED <<tenant, departments, provision, request, granted>>
  BY DEF Tick, accounts
<1>2. ASSUME NEW e \in Emails
      PROVE  /\ token'[e] \in TokenRow
             /\ token'[e].left > 0 => token[e].left > 0
  <2>1. PICK t : t = token[e] /\ t \in TokenRow
    BY DEF AdmissionInv, Typed
  <2>2. t.left > 0 => [t EXCEPT !.left = @ - 1] \in TokenRow
    BY <2>1, QuotaAssumption DEF TokenRow
  <2> QED BY <1>1, <2>1, <2>2
<1>3. ASSUME NEW e \in Emails
      PROVE  /\ key'[e] \in KeyRow
             /\ key'[e].count > 0 => key'[e].count = key[e].count
  <2>1. PICK k : k = key[e] /\ k \in KeyRow
    BY DEF AdmissionInv, Typed
  <2>2. /\ Expire(k) \in KeyRow
        /\ Expire(k).count > 0 => Expire(k).count = k.count
    BY <2>1, QuotaAssumption DEF Expire, KeyRow
  <2> QED BY <1>1, <2>1, <2>2
<1>4. token' \in [Emails -> TokenRow] /\ key' \in [Emails -> KeyRow]
  <2>1. /\ token' = [e \in Emails |-> token'[e]]
        /\ key' = [e \in Emails |-> key'[e]]
    BY <1>1
  <2> QED BY <1>2, <1>3, <2>1
<1>5. KeysInv'
  BY <1>1, <1>3 DEF AdmissionInv, KeysInv
<1> QED BY <1>1, <1>2, <1>4, <1>5 DEF AdmissionInv, Typed, TokensInv, RequestInv

LEMMA LosePreserves ==
  ASSUME AdmissionInv, NEW e \in Emails, LoseExpiry(e)
  PROVE  AdmissionInv'
<1> DEFINE row == [key[e] EXCEPT !.ttl = 0]
<1>1. /\ key' = [key EXCEPT ![e] = row]
      /\ UNCHANGED <<accounts, token, request, granted>>
  BY DEF LoseExpiry
<1>2. key[e] \in KeyRow
  BY DEF AdmissionInv, Typed
<1>3. row \in KeyRow /\ row.count = key[e].count
  BY <1>2, QuotaAssumption DEF KeyRow
<1> HIDE DEF row
<1>4. key' \in [Emails -> KeyRow] /\ \A x \in Emails : key'[x].count = key[x].count
  BY <1>1, <1>3 DEF AdmissionInv, Typed
<1>5. KeysInv'
  BY <1>1, <1>4 DEF AdmissionInv, KeysInv
<1> QED BY <1>1, <1>4, <1>5 DEF AdmissionInv, Typed, TokensInv, RequestInv, accounts

-----------------------------------------------------------------------------
(* Windows. *)

\* The query a key with a count admits next.
NextAdmission(k) == [age |-> 0, keys |-> 0, place |-> k.count + 1]

LEMMA NewAdmission ==
  ASSUME NEW S, NEW k \in KeyRow, WindowOf(S, k), k.count > 0,
         NEW row \in KeyRow, row.count >= k.count,
         row.ttl > 0 => row.ttl = Window \/ row.ttl = k.ttl
  PROVE  /\ WindowOf(S, row)
         /\ k.count + 1 <= Limit /\ row.count = k.count + 1 =>
              WindowOf(S \cup {NextAdmission(k)}, row)
<1>1. PICK count : count = k.count /\ count \in Nat /\ row.count \in Nat
  BY DEF KeyRow
<1>2. ASSUME NEW a \in S PROVE RecentInv(a, row)
  <2>1. a.age \in Nat /\ a.place \in Nat /\ RecentInv(a, k) /\ Window \in Nat
    BY QuotaAssumption DEF WindowOf, Admissions
  <2>2. a.keys = 0 => a.place <= row.count
    BY <1>1, <2>1 DEF RecentInv
  <2>3. a.keys = 1 \/ a.place = 1 => row.count > 0 /\ (row.ttl > 0 => a.age + row.ttl >= Window)
    BY <1>1, <2>1 DEF RecentInv
  <2> QED BY <2>1, <2>2, <2>3 DEF RecentInv
<1>3. WindowOf(S, row)
  BY <1>2 DEF WindowOf
<1>4. ASSUME count + 1 <= Limit, row.count = count + 1
      PROVE  WindowOf(S \cup {NextAdmission(k)}, row)
  <2>1. PICK new : new = NextAdmission(k)
    OBVIOUS
  <2>2. /\ new.age = 0 /\ new.keys = 0 /\ new.place = count + 1
        /\ new \in Admissions /\ RecentInv(new, row)
    BY <1>1, <1>4, <2>1, QuotaAssumption DEF Admissions, RecentInv, NextAdmission
  <2>3. \A a \in S : ~(a.keys = 0 /\ a.place = count + 1)
    BY <1>1 DEF WindowOf, RecentInv, Admissions
  <2>4. S \cup {new} \subseteq Admissions /\ \A a \in S \cup {new} : RecentInv(a, row)
    BY <1>2, <2>2 DEF WindowOf
  <2>5. \A a, b \in S \cup {new} : a.keys = b.keys /\ a.place = b.place => a = b
    BY <2>2, <2>3 DEF WindowOf
  <2> QED BY <2>1, <2>4, <2>5 DEF WindowOf
<1> QED BY <1>1, <1>3, <1>4

\* A key is created when no admission of the key before the last is left.
LEMMA FirstAdmission ==
  ASSUME NEW S, NEW k, WindowOf(S, k), ~(k.count > 0),
         NEW row \in KeyRow, row.count > 0, row.ttl = Window
  PROVE  /\ WindowOf(AfterCreation(S), row)
         /\ WindowOf(AfterCreation(S) \cup {[age |-> 0, keys |-> 0, place |-> 1]}, row)
<1>1. \A a \in S : a \in Admissions /\ a.keys = 0 /\ a.place > 1
  BY DEF WindowOf, RecentInv, Admissions
<1>2. PICK later : later = AfterCreation(S)
  OBVIOUS
<1>3. \A b \in later : \E a \in S : b = [age |-> a.age, keys |-> 1, place |-> a.place]
  BY <1>1, <1>2 DEF AfterCreation, Admissions
<1>4. \A b \in later : b.keys = 1 /\ b.place > 1 /\ b \in Admissions
  BY <1>1, <1>3 DEF Admissions
<1>5. \A b, c \in later : b.place = c.place => b = c
  <2> SUFFICES ASSUME NEW b \in later, NEW c \in later, b.place = c.place PROVE b = c
    OBVIOUS
  <2>1. PICK a \in S : b = [age |-> a.age, keys |-> 1, place |-> a.place]
    BY <1>3
  <2>2. PICK d \in S : c = [age |-> d.age, keys |-> 1, place |-> d.place]
    BY <1>3
  <2>3. a = d
    BY <1>1, <2>1, <2>2 DEF WindowOf
  <2> QED BY <2>1, <2>2, <2>3
<1>6. \A b \in later : RecentInv(b, row)
  BY <1>4, QuotaAssumption DEF RecentInv, Admissions
<1>7. PICK new : new = [age |-> 0, keys |-> 0, place |-> 1]
  OBVIOUS
<1>8. /\ new.age = 0 /\ new.keys = 0 /\ new.place = 1
      /\ new \in Admissions /\ RecentInv(new, row)
  BY <1>7, QuotaAssumption DEF Admissions, RecentInv, KeyRow
<1>9. WindowOf(later, row)
  BY <1>4, <1>5, <1>6 DEF WindowOf
<1> QED BY <1>2, <1>4, <1>5, <1>6, <1>7, <1>8, <1>9 DEF WindowOf

\* Whether or not the reply arrives, the windows stay as they should be.
LEMMA ScriptKeepsWindow ==
  ASSUME AdmissionInv, WindowInv, NEW e \in Emails, NEW admits \in BOOLEAN,
         admits => AcquireScript(key[e]).allowed, RunScript(e, admits)
  PROVE  WindowInv'
<1>1. PICK k, S : /\ k = key[e] /\ S = admitted[e]
                  /\ k \in KeyRow /\ WindowOf(S, k)
  BY DEF AdmissionInv, Typed, WindowInv
<1>2. PICK count, ttl : count = k.count /\ ttl = k.ttl /\ count \in 0..Limit + 1 /\ ttl \in 0..Window
  BY <1>1 DEF KeyRow
<1>3. PICK row : /\ row = AcquireScript(k).key
                 /\ row \in KeyRow
                 /\ row.count = IF count + 1 > Limit THEN Limit + 1 ELSE count + 1
                 /\ row.ttl = Window \/ (count > 0 /\ row.ttl = ttl)
  BY <1>1, <1>2, ScriptRow
<1>4. PICK next :
        next = (IF k.count = 0 THEN AfterCreation(S) ELSE S)
                 \cup (IF admits THEN {[age |-> 0, keys |-> 0, place |-> row.count]} ELSE {})
  OBVIOUS
<1>5. key' = [key EXCEPT ![e] = row] /\ admitted' = [admitted EXCEPT ![e] = next]
  BY <1>1, <1>3, <1>4 DEF RunScript
<1>6. admits => count + 1 <= Limit /\ row.count = count + 1
  <2>1. admits => count + 1 <= Limit
    BY <1>1, <1>2, ScriptRow
  <2> QED BY <1>2, <1>3, <2>1, QuotaAssumption
<1>7. row.count > 0 /\ row.count >= count
  BY <1>2, <1>3, QuotaAssumption
<1>8. WindowOf(next, row)
  <2>1. CASE count = 0
    <3>1. ~(k.count > 0) /\ row.ttl = Window
      BY <1>2, <1>3, <2>1
    <3>2. /\ WindowOf(AfterCreation(S), row)
          /\ WindowOf(AfterCreation(S) \cup {[age |-> 0, keys |-> 0, place |-> 1]}, row)
      BY <1>1, <1>3, <1>7, <3>1, FirstAdmission
    <3>3. CASE admits
      <4>1. row.count = 1
        BY <1>6, <2>1, <3>3
      <4> QED BY <1>2, <1>4, <2>1, <3>2, <3>3, <4>1
    <3>4. CASE ~admits
      <4>1. next = AfterCreation(S)
        BY <1>2, <1>4, <2>1, <3>4
      <4> QED BY <3>2, <4>1
    <3> QED BY <3>3, <3>4
  <2>2. CASE count > 0
    <3>1. /\ WindowOf(S, row)
          /\ k.count + 1 <= Limit /\ row.count = k.count + 1 =>
               WindowOf(S \cup {NextAdmission(k)}, row)
      BY <1>1, <1>2, <1>3, <1>7, <2>2, NewAdmission
    <3>2. CASE admits
      <4>1. next = S \cup {NextAdmission(k)}
        BY <1>2, <1>4, <1>6, <2>2, <3>2 DEF NextAdmission
      <4> QED BY <1>2, <1>6, <3>1, <3>2, <4>1
    <3>3. CASE ~admits
      <4>1. next = S
        BY <1>2, <1>4, <2>2, <3>3
      <4> QED BY <3>1, <4>1
    <3> QED BY <3>2, <3>3
  <2> QED BY <1>2, <2>1, <2>2
<1>9. PICK all : all = admitted'
  OBVIOUS
<1>10. all = [y \in Emails |-> IF y = e THEN next ELSE admitted[y]]
  BY <1>5, <1>9 DEF WindowInv
<1>11. ASSUME NEW y \in Emails PROVE WindowOf(all[y], key'[y])
  <2>1. CASE y = e
    BY <1>5, <1>8, <1>10, <2>1 DEF AdmissionInv, Typed
  <2>2. CASE y # e
    BY <1>5, <1>10, <2>2 DEF AdmissionInv, Typed, WindowInv
  <2> QED BY <2>1, <2>2
<1>12. all = [y \in Emails |-> all[y]]
  BY <1>10
<1> QED BY <1>9, <1>11, <1>12 DEF WindowInv

LEMMA AcquireKeepsWindow ==
  ASSUME AdmissionInv, WindowInv, NEW r \in Requests, Acquire(r) \/ LoseReply(r)
  PROVE  WindowInv'
<1>1. PICK e : e = request[r].user
  OBVIOUS
<1>2. request[r].step = "current" /\ RequestInv(request[r])
  BY DEF Acquire, LoseReply, AdmissionInv
<1>3. e \in Emails
  BY <1>1, <1>2 DEF RequestInv
<1>4. CASE Acquire(r)
  <2>1. RunScript(e, AcquireScript(key[e]).allowed)
    BY <1>1, <1>4, Zenon DEF Acquire
  <2>2. AcquireScript(key[e]).allowed \in BOOLEAN
    BY DEF AcquireScript
  <2> QED BY <1>3, <2>1, <2>2, ScriptKeepsWindow
<1>5. CASE LoseReply(r)
  <2>1. RunScript(e, FALSE)
    BY <1>1, <1>5 DEF LoseReply
  <2> QED BY <1>3, <2>1, ScriptKeepsWindow
<1> QED BY <1>4, <1>5

\* When the last key ends, what the one before it admitted is a window ago.
LEMMA TickKeepsWindow ==
  ASSUME AdmissionInv, WindowInv, Tick
  PROVE  WindowInv'
<1>1. PICK all : all = admitted'
  OBVIOUS
<1>2. /\ all = [e \in Emails |->
           {[a EXCEPT !.age = @ + 1] : a \in {x \in admitted[e] : x.age + 1 < Window}}]
      /\ key' = [e \in Emails |-> Expire(key[e])]
  BY <1>1 DEF Tick
<1>3. ASSUME NEW e \in Emails PROVE WindowOf(all[e], key'[e])
  <2>1. PICK S, k : S = admitted[e] /\ k = key[e] /\ k \in KeyRow /\ WindowOf(S, k)
    BY DEF AdmissionInv, Typed, WindowInv
  <2>2. PICK row, next : row = Expire(k) /\ next = all[e]
    OBVIOUS
  <2>3. key'[e] = row
    BY <1>2, <2>1, <2>2
  <2>4. next = {[a EXCEPT !.age = @ + 1] : a \in {x \in S : x.age + 1 < Window}}
    BY <1>2, <2>1, <2>2
  <2>5. \A a \in S : a \in Admissions /\ RecentInv(a, k)
    BY <2>1 DEF WindowOf
  <2>6. \A b \in next : \E a \in S :
          a.age + 1 < Window /\ b = [age |-> a.age + 1, keys |-> a.keys, place |-> a.place]
    BY <2>4, <2>5 DEF Admissions
  <2>7. PICK count, ttl : /\ count = k.count /\ ttl = k.ttl
                          /\ count \in Nat /\ ttl \in Nat
    BY <2>1, QuotaAssumption DEF KeyRow
  <2>8. /\ ttl # 1 => row.count = count
        /\ ttl > 1 => row.ttl = ttl - 1
        /\ ttl = 0 => row.ttl = 0
        /\ row.count > 0 => row.count = count
    BY <2>1, <2>2, <2>7 DEF Expire, KeyRow
  <2>9. ASSUME NEW b \in next PROVE b \in Admissions /\ RecentInv(b, row)
    <3>1. PICK a \in S :
            a.age + 1 < Window /\ b = [age |-> a.age + 1, keys |-> a.keys, place |-> a.place]
      BY <2>6
    <3>2. /\ a.age \in Nat /\ a.keys \in Nat /\ a.place \in 1..Limit /\ Window \in Nat
          /\ RecentInv(a, k)
      BY <2>5, QuotaAssumption DEF Admissions
    <3>3. b.age = a.age + 1 /\ b.keys = a.keys /\ b.place = a.place
      BY <3>1
    <3>4. b \in Admissions
      BY <3>1, <3>2 DEF Admissions
    <3>5. a.keys = 1 \/ a.place = 1 => row.count > 0 /\ (row.ttl > 0 => b.age + row.ttl >= Window)
      BY <2>7, <2>8, <3>1, <3>2, <3>3 DEF RecentInv
    <3>6. b.keys = 0 /\ row.count > 0 => b.place <= row.count
      BY <2>7, <2>8, <3>2, <3>3 DEF RecentInv
    <3> QED BY <3>2, <3>3, <3>4, <3>5, <3>6 DEF RecentInv
  <2>10. \A b, c \in next : b.keys = c.keys /\ b.place = c.place => b = c
    <3> SUFFICES ASSUME NEW b \in next, NEW c \in next, b.keys = c.keys, b.place = c.place
                 PROVE  b = c
      OBVIOUS
    <3>1. PICK a \in S : b = [age |-> a.age + 1, keys |-> a.keys, place |-> a.place]
      BY <2>6
    <3>2. PICK d \in S : c = [age |-> d.age + 1, keys |-> d.keys, place |-> d.place]
      BY <2>6
    <3>3. a = d
      BY <2>1, <3>1, <3>2 DEF WindowOf
    <3> QED BY <3>1, <3>2, <3>3
  <2> QED BY <2>2, <2>3, <2>9, <2>10 DEF WindowOf
<1>4. all = [e \in Emails |-> all[e]]
  BY <1>2
<1> QED BY <1>1, <1>3, <1>4 DEF WindowInv

LEMMA LoseKeepsWindow ==
  ASSUME AdmissionInv, WindowInv, NEW e \in Emails, LoseExpiry(e)
  PROVE  WindowInv'
<1>1. key' = [key EXCEPT ![e] = [key[e] EXCEPT !.ttl = 0]] /\ UNCHANGED <<admitted, granted>>
  BY DEF LoseExpiry
<1>2. ASSUME NEW y \in Emails PROVE WindowOf(admitted[y], key'[y])
  <2>1. PICK k, row : k = key[y] /\ row = key'[y] /\ k \in KeyRow
    BY DEF AdmissionInv, Typed
  <2>2. row = k \/ (row.count = k.count /\ row.ttl = 0)
    BY <1>1, <2>1 DEF AdmissionInv, Typed, KeyRow
  <2>3. WindowOf(admitted[y], k)
    BY <2>1 DEF WindowInv
  <2> QED BY <2>1, <2>2, <2>3 DEF WindowOf, RecentInv
<1> QED BY <1>1, <1>2 DEF WindowInv

\* Two keys admit at most twice the limit, and the first query of the older one
\* is a window ago.
LEMMA WindowIsBounded ==
  ASSUME NEW S, NEW k, WindowOf(S, k)
  PROVE  Cardinality(S) < 2 * Limit
<1> DEFINE places == (0..1) \X (1..Limit)
           of == [a \in S |-> <<a.keys, a.place>>]
<1>1. IsFiniteSet(0..1) /\ Cardinality(0..1) = 2
  <2>1. PICK a \in Int, b \in Int : a = 0 /\ b = 1
    OBVIOUS
  <2>2. /\ IsFiniteSet(a..b)
        /\ Cardinality(a..b) = IF a > b THEN 0 ELSE b - a + 1
    BY <2>1, FS_Interval
  <2>3. IsFiniteSet(a..b) /\ Cardinality(a..b) = 2
    BY <2>1, <2>2
  <2> QED BY <2>1, <2>3
<1>2. IsFiniteSet(1..Limit) /\ Cardinality(1..Limit) = Limit
  BY FS_Interval, QuotaAssumption, 1 \in Int, Limit \in Int
<1>3. IsFiniteSet(places) /\ Cardinality(places) = 2 * Limit
  <2>1. Cardinality(places) = Cardinality(0..1) * Cardinality(1..Limit) /\ IsFiniteSet(places)
    BY <1>1, <1>2, FS_Product
  <2> QED BY <1>1, <1>2, <2>1
<1>4. <<1, 1>> \in places
  BY QuotaAssumption
<1>5. /\ IsFiniteSet(places \ {<<1, 1>>})
      /\ Cardinality(places \ {<<1, 1>>}) = 2 * Limit - 1
  <2>1. PICK all, first : all = places /\ first = <<1, 1>>
    OBVIOUS
  <2>2. IsFiniteSet(all) /\ Cardinality(all) = 2 * Limit /\ first \in all
    BY <1>3, <1>4, <2>1
  <2>3. IsFiniteSet(all \ {first}) /\ Cardinality(all \ {first}) = Cardinality(all) - 1
    BY <2>2, FS_RemoveElement
  <2> HIDE DEF places
  <2> QED BY <2>1, <2>2, <2>3
<1>6. of \in Injection(S, places \ {<<1, 1>>})
  BY DEF Injection, IsInjective, WindowOf, RecentInv, Admissions
<1>7. IsFiniteSet(S) /\ Cardinality(S) <= 2 * Limit - 1
  BY <1>5, <1>6, FS_Injection
<1> QED BY <1>7, FS_CardinalityType, QuotaAssumption

-----------------------------------------------------------------------------
(* Theorems. *)

\* Every request has seen the departments its user has had, and every key has
\* counted what was admitted under it.
THEOREM AdmissionInvariant == Spec => []AdmissionInv
<1>1. Init => AdmissionInv
  <2> SUFFICES ASSUME Init PROVE AdmissionInv
    OBVIOUS
  <2>1. Typed
    BY QuotaAssumption DEF Init, Typed, ProvisionRow, TokenRow, RequestRow, KeyRow,
                           NoToken, NoRequest
  <2>2. TokensInv /\ KeysInv
    BY QuotaAssumption DEF Init, TokensInv, KeysInv, NoToken
  <2>3. \A r \in Requests : RequestInv(request[r])
    BY NoRequestInv DEF Init
  <2> QED BY <2>1, <2>2, <2>3 DEF AdmissionInv
<1>2. AdmissionInv /\ [Next]_vars => AdmissionInv'
  <2> SUFFICES ASSUME AdmissionInv, [Next]_vars PROVE AdmissionInv'
    OBVIOUS
  <2>1. CASE Next
    BY <2>1, AccountsPreserve, ChangePreserves, LoginPreserves, VerifyPreserves,
       ReadUserPreserves, EndPreserves, AcquirePreserves, TickPreserves, LosePreserves
       DEF Next
  <2>2. CASE UNCHANGED vars
    BY <2>2 DEF vars, accounts, quota, bounds, AdmissionInv, Typed, TokensInv, KeysInv,
                RequestInv
  <2> QED BY <2>1, <2>2
<1> QED BY <1>1, <1>2, PTL DEF Spec

\* A query runs with departments its user has held since the request came in.
THEOREM ScopesAreCurrent == Spec => []ScopeIsCurrent
<1>1. AdmissionInv => ScopeIsCurrent
  BY DEF AdmissionInv, RequestInv, ScopeIsCurrent
<1> QED BY <1>1, AdmissionInvariant, PTL

\* What was admitted less than a window ago came under two keys at most, and not
\* as the first query of the older one.
THEOREM WindowInvariant == Spec => []WindowInv
<1>1. Init => WindowInv
  BY DEF Init, WindowInv, WindowOf
<1>2. AdmissionInv /\ WindowInv /\ [Next]_vars => WindowInv'
  <2> SUFFICES ASSUME AdmissionInv, WindowInv, [Next]_vars PROVE WindowInv'
    OBVIOUS
  <2>1. CASE \E r \in Requests : Acquire(r) \/ LoseReply(r)
    BY <2>1, AcquireKeepsWindow
  <2>2. CASE Tick
    BY <2>2, TickKeepsWindow
  <2>3. CASE \E e \in Emails : LoseExpiry(e)
    BY <2>3, LoseKeepsWindow
  <2>4. CASE UNCHANGED quota
    BY <2>4 DEF WindowInv, quota
  <2>5. CASE UNCHANGED vars
    BY <2>5 DEF WindowInv, vars
  <2> QED BY <2>1, <2>2, <2>3, <2>4, <2>5 DEF Next, Register, CheckProvision, CreateAdmin,
             ChangeMembership, Login, VerifyClaims, ReadCurrentUser, QuotaUnavailable,
             Finish
<1> QED BY <1>1, <1>2, AdmissionInvariant, PTL DEF Spec

\* Every variable keeps its type.
THEOREM TypeCorrect == Spec => []TypeOK
<1>1. AdmissionInv /\ WindowInv => TypeOK
  BY TypedIsTypeOK DEF AdmissionInv
<1> QED BY <1>1, AdmissionInvariant, WindowInvariant, PTL

\* However many processes ask at once and whatever happens to the expiry of their
\* keys, no key admits more queries than the limit, and a stretch as long as a
\* window sees fewer than twice as many.
THEOREM TheQuotaHolds == Spec => []QuotaHolds
<1>1. AdmissionInv /\ WindowInv => QuotaHolds
  BY WindowIsBounded DEF AdmissionInv, Typed, KeysInv, WindowInv, QuotaHolds
<1> QED BY <1>1, AdmissionInvariant, WindowInvariant, PTL

\* Nobody changes tenants, and once the evaluation tenant has an administrator
\* only commands that looked before go on.
THEOREM IdentitiesAreSettled == Spec => IdentitiesSettle
<1>1. AdmissionInv /\ [Next]_vars =>
        [/\ \A e \in Emails : tenant[e] # NoTenant => tenant'[e] = tenant[e]
         /\ \A o \in Operators :
              (Members(Evaluation) # {} /\ provision'[o].step \in {"creating", "created"})
                => provision[o].step \in {"creating", "created"}]_vars
  <2> SUFFICES ASSUME AdmissionInv, Next
               PROVE  /\ \A e \in Emails : tenant[e] # NoTenant => tenant'[e] = tenant[e]
                      /\ \A o \in Operators :
                           (Members(Evaluation) # {}
                              /\ provision'[o].step \in {"creating", "created"})
                           => provision[o].step \in {"creating", "created"}
    OBVIOUS
  <2>1. CASE UNCHANGED <<tenant, provision>>
    BY <2>1
  <2>2. CASE \E e \in Emails : Register(e)
    BY <2>2 DEF Register, InsertUser, AdmissionInv, Typed
  <2>3. CASE \E e \in Emails, o \in Operators : CheckProvision(o, e)
    BY <2>3 DEF CheckProvision, AdmissionInv, Typed
  <2>4. CASE \E o \in Operators : CreateAdmin(o)
    <3>1. PICK o \in Operators : CreateAdmin(o)
      BY <2>4
    <3>2. \A e \in Emails : tenant[e] # NoTenant => tenant'[e] = tenant[e]
      BY <3>1 DEF CreateAdmin, InsertUser, AdmissionInv, Typed
    <3>3. /\ provision[o].step = "creating"
          /\ \A k \in Operators \ {o} : provision'[k] = provision[k]
      BY <3>1 DEF CreateAdmin, AdmissionInv, Typed
    <3> QED BY <3>2, <3>3
  <2> QED BY <2>1, <2>2, <2>3, <2>4 DEF Next, Login, LoseExpiry, ChangeMembership,
             VerifyClaims, ReadCurrentUser, Acquire, LoseReply, QuotaUnavailable, Finish,
             Tick, accounts
<1> QED BY <1>1, AdmissionInvariant, PTL DEF Spec, IdentitiesSettle

=============================================================================
