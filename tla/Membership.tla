------------------------------ MODULE Membership ------------------------------
(***************************************************************************)
(* Who belongs to what: accounts and their first users, users that an      *)
(* administrator, an invitation or an identity provider brings in, groups, *)
(* roles and API keys.                                                     *)
(*                                                                         *)
(* Every request looks at the rows first and writes in a later statement,  *)
(* in a transaction that commits once.  The unique constraints and foreign *)
(* keys of the database are conjuncts of the writing step: a request whose *)
(* write they refuse fails as a whole.                                     *)
(***************************************************************************)
EXTENDS Integers, Sequences, FiniteSets

CONSTANTS
  Emails,     \* a person: an address, and the identity a provider gives with it
  NoEmail,
  Names,      \* of groups and of roles that are not built in
  Requests,
  Scenes,     \* which requests are sent in a run, see Offers
  Edits,      \* bound: the sets of columns that a superadmin sets for a user, for each scene
  KeyLimit,   \* settings.api_key_max_per_user
  MaxMade,    \* bound: rows ever made in one table
  MaxStarts   \* bound: requests begun

ASSUME MembershipAssumption ==
  /\ NoEmail \notin Emails /\ KeyLimit \in Nat \ {0} /\ MaxMade \in Nat /\ MaxStarts \in Nat
  /\ Scenes \subseteq {"invite", "sso", "register", "groups", "roles", "keys"}
  /\ {"admin", "user", "pii_access"} \cap Names = {}
  /\ Edits \in [Scenes -> SUBSET SUBSET {"email", "role", "identity"}]

VARIABLES
  accounts, users, invitations, states, groups, members, roles, keys, blacklist,
  singleTenant, \* settings.single_tenant_mode
  made,         \* the ids given so far
  scene, req, starts

tables == <<accounts, users, invitations, states, groups, members, roles, keys, blacklist, made>>
vars == <<tables, singleTenant, scene, req, starts>>

SystemAccount == 0 \* SYSTEM_ACCOUNT_ID
Tenant == 1        \* the account of settings.single_tenant_account
Ids == 0..MaxMade

\* origin: who made it.
Account == [id : Ids, slug : Ids, code : Ids, origin : {"seed", "admin", "self", "oauth"}]
\* external: auth_provider_name and external_id.  What came before: crossed, two requests brought
\* the person in together; invited, the invitation that led to the user; byAdmin, what a superadmin
\* has set or changed.
User == [id : Ids, account : Ids, email : Emails, role : Ids, external : Emails \cup {NoEmail},
         crossed : BOOLEAN, invited : Ids, byAdmin : SUBSET {"email", "role", "identity"}]
Invitation == [id : Ids, account : Ids, email : Emails, accepted : BOOLEAN, sent : BOOLEAN,
               crossed : BOOLEAN]
OAuthState == [id : Ids, account : Ids]
Group == [id : Ids, account : Ids, name : Names \cup {"pii_access"}]
Role == [id : Ids, name : Names \cup {"admin", "user"}]
APIKey == [id : Ids, user : Ids, active : BOOLEAN]

Unset == -1 \* a role that a request does not name
NoRequest == [at |-> "idle", op |-> "none", account |-> 0, email |-> NoEmail, row |-> 0,
              code |-> 0, slug |-> 0, name |-> "none", found |-> 0, crossed |-> FALSE,
              role |-> Unset, external |-> NoEmail]

TypeOK ==
  /\ accounts \subseteq Account /\ users \subseteq User /\ invitations \subseteq Invitation
  /\ states \subseteq OAuthState /\ groups \subseteq Group /\ roles \subseteq Role
  /\ members \subseteq Ids \X Ids /\ keys \subseteq APIKey /\ blacklist \subseteq Ids
  /\ singleTenant \in BOOLEAN /\ scene \in Scenes /\ starts \in 0..MaxStarts /\ made \in Ids
  /\ \A r \in Requests : req[r].at \in {"idle", "read", "mail", "taken", "found"}

\* The system account with its superadmin, and one account with its first user.
Init ==
  /\ accounts = {[id |-> SystemAccount, slug |-> 0, code |-> 0, origin |-> "seed"],
                 [id |-> Tenant, slug |-> 1, code |-> 1, origin |-> "seed"]}
  /\ \E e \in Emails : users =
       {[id |-> i, account |-> i, email |-> e, role |-> 0, external |-> NoEmail, crossed |-> FALSE,
         invited |-> 0, byAdmin |-> {}] : i \in {SystemAccount, Tenant}}
  /\ invitations = {} /\ states = {} /\ keys = {} /\ blacklist = {}
  /\ groups = {[id |-> 0, account |-> Tenant, name |-> "pii_access"]}
  /\ members = {<<Tenant, 0>>}
  /\ roles = {[id |-> 0, name |-> "admin"], [id |-> 1, name |-> "user"]}
  /\ singleTenant \in BOOLEAN /\ scene \in Scenes
  /\ req = [r \in Requests |-> NoRequest]
  /\ starts = 0 /\ made = 1

-----------------------------------------------------------------------------
Has(table, id) == \E x \in table : x.id = id
IdsOf(table) == {x.id : x \in table}
Highest(S) == CHOOSE x \in S : \A y \in S : y <= x
\* A new id (a uuid in the program: none that was used before), one for the rows of a request.
NewId == made + 1
MakesRows == made < MaxMade /\ made' = NewId

Begin(r, op, x) ==
  /\ req[r].at = "idle" /\ starts < MaxStarts /\ starts' = starts + 1
  /\ req' = [req EXCEPT ![r] = [x EXCEPT !.op = op, !.at = "read"]]
  /\ UNCHANGED <<singleTenant, scene>>

At(r, op) == req[r].at = "read" /\ req[r].op = op

EndsAnd(r, cross) ==
  /\ req' = [q \in Requests |-> IF q = r THEN NoRequest
                                ELSE [req[q] EXCEPT !.crossed = @ \/ q \in cross]]
  /\ UNCHANGED <<singleTenant, scene, starts>>

EmailIsFree(a, e) == ~\E u \in users : u.account = a /\ u.email = e
SlugIsFree(s) == ~\E x \in accounts : x.slug = s
CodeIsFree(c) == ~\E x \in accounts : x.code = c
GroupIsFree(a, n) == ~\E g \in groups : g.account = a /\ g.name = n

\* AccountCodeGenerator.generate: the code after the highest one in use.
NextCode == Highest({x.code : x \in accounts}) + 1
\* The first of base, base-1, base-2, ... that no account has.
FreeSlug == CHOOSE s \in 0..Cardinality(accounts) :
              SlugIsFree(s) /\ \A t \in 0..s-1 : ~SlugIsFree(t)

RoleId(name) == IF \E x \in roles : x.name = name
                THEN (CHOOSE x \in roles : x.name = name).id ELSE Unset

NewUser(a, e, role, external, crossed) ==
  [id |-> NewId, account |-> a, email |-> e, role |-> role,
   external |-> external, crossed |-> crossed, invited |-> 0, byAdmin |-> {}]

-----------------------------------------------------------------------------
(* Registration. *)

\* Several accounts: the slug given or generated is free; the codes are read.
RegisterChecks(r, s, e) ==
  /\ scene = "register" /\ ~singleTenant /\ SlugIsFree(s)
  /\ Begin(r, "register", [NoRequest EXCEPT !.slug = s, !.code = NextCode, !.email = e])
  /\ UNCHANGED tables

\* A new account with its first user as administrator and its group for personal data.
NewAccount(r, slug, code, origin, e, external, crossed) ==
  LET a == NewId
      u == NewUser(a, e, RoleId("admin"), external, crossed)
      g == [id |-> NewId, account |-> a, name |-> "pii_access"] IN
  /\ SlugIsFree(slug) /\ CodeIsFree(code) /\ RoleId("admin") # Unset /\ MakesRows
  /\ accounts' = accounts \cup {[id |-> a, slug |-> slug, code |-> code, origin |-> origin]}
  /\ users' = users \cup {u}
  /\ groups' = groups \cup {g}
  /\ members' = members \cup {<<u.id, g.id>>}

\* Faulty variant: the account is committed before its user is inserted.
RegisterCommitsEarly(r) ==
  /\ At(r, "register") /\ SlugIsFree(req[r].slug) /\ CodeIsFree(req[r].code)
  /\ MakesRows
  /\ accounts' = accounts \cup {[id |-> NewId, slug |-> req[r].slug,
                                 code |-> req[r].code, origin |-> "self"]}
  /\ EndsAnd(r, {})
  /\ UNCHANGED <<users, invitations, states, groups, members, roles, keys, blacklist>>

RegisterCommits(r) ==
  /\ At(r, "register")
  /\ NewAccount(r, req[r].slug, req[r].code, "self", req[r].email, NoEmail, FALSE)
  /\ EndsAnd(r, {})
  /\ UNCHANGED <<invitations, states, roles, keys, blacklist>>

\* One account: the address is not in it yet.
RegisterInTenant(r, e) ==
  /\ scene = "register" /\ singleTenant /\ Has(accounts, Tenant) /\ EmailIsFree(Tenant, e)
  /\ Begin(r, "join", [NoRequest EXCEPT !.email = e, !.account = Tenant])
  /\ UNCHANGED tables

\* A user is inserted: the address must still be free, the account and the role still there.
InsertUser(u) ==
  /\ Has(accounts, u.account) /\ Has(roles, u.role) /\ EmailIsFree(u.account, u.email)
  /\ MakesRows /\ users' = users \cup {u}

RegisterInTenantCommits(r) ==
  /\ At(r, "join")
  /\ InsertUser(NewUser(req[r].account, req[r].email, RoleId("user"), NoEmail, FALSE))
  /\ EndsAnd(r, {})
  /\ UNCHANGED <<accounts, invitations, states, groups, members, roles, keys, blacklist>>

-----------------------------------------------------------------------------
(* Users, for the superadmin. *)

\* Account, role and address are looked up; the identity of a provider is taken as it is given.
CreateUser(r, a, e, role, external) ==
  /\ Begin(r, "create_user", [NoRequest EXCEPT !.email = e, !.account = a, !.role = role,
                                               !.external = external])
  /\ scene \in {"invite", "sso"} /\ Has(accounts, a) /\ Has(roles, role) /\ EmailIsFree(a, e)
  /\ external # NoEmail => {"identity"} \in Edits[scene]
  /\ UNCHANGED tables

CreateUserCommits(r) ==
  LET u == NewUser(req[r].account, req[r].email, req[r].role, req[r].external, FALSE) IN
  /\ At(r, "create_user")
  /\ InsertUser([u EXCEPT !.byAdmin = IF u.external = NoEmail THEN {} ELSE {"identity"}])
  /\ EndsAnd(r, {})
  /\ UNCHANGED <<accounts, invitations, states, groups, members, roles, keys, blacklist>>

\* The columns of a user that a request changes; only they are written.
Columns(x) == {c \in {"email", "role", "identity"} :
  \/ c = "email" /\ x.email # NoEmail
  \/ c = "role" /\ x.role # Unset
  \/ c = "identity" /\ x.external # NoEmail}

Updated(u, x) ==
  [u EXCEPT !.email = IF x.email = NoEmail THEN @ ELSE x.email,
            !.role = IF x.role = Unset THEN @ ELSE x.role,
            !.external = IF x.external = NoEmail THEN @ ELSE x.external,
            !.byAdmin = @ \cup Columns(x)]

\* Not one's own user.  e, role and external differ from the row as it was read, if they are given.
UpdateUser(r, u, e, role, external) ==
  LET change == [NoRequest EXCEPT !.row = u.id, !.email = e, !.role = role, !.external = external] IN
  /\ Begin(r, "update_user", change)
  /\ Columns(change) \in Edits[scene]
  /\ e # u.email /\ role # u.role /\ (external = NoEmail \/ external # u.external)
  /\ \E by \in users : by.account = SystemAccount /\ by # u
  /\ e # NoEmail => EmailIsFree(u.account, e)
  /\ role # Unset => Has(roles, role)
  /\ UNCHANGED tables

\* The address must be free but for the user, the role still there.
UpdateUserCommits(r) ==
  /\ At(r, "update_user")
  /\ req[r].role # Unset => Has(roles, req[r].role)
  /\ \E u \in users :
       /\ u.id = req[r].row
       /\ req[r].email \in {NoEmail, u.email} \/ EmailIsFree(u.account, req[r].email)
       /\ users' = (users \ {u}) \cup {Updated(u, req[r])}
  /\ EndsAnd(r, {})
  /\ UNCHANGED <<accounts, invitations, states, groups, members, roles, keys, blacklist, made>>

-----------------------------------------------------------------------------
(* Accounts, for the superadmin. *)

CreateAccount(r, s) ==
  /\ scene = "register" /\ SlugIsFree(s)
  /\ Begin(r, "create_account", [NoRequest EXCEPT !.slug = s, !.code = NextCode])
  /\ UNCHANGED tables

CreateAccountCommits(r) ==
  /\ At(r, "create_account") /\ SlugIsFree(req[r].slug) /\ CodeIsFree(req[r].code)
  /\ MakesRows
  /\ accounts' = accounts \cup {[id |-> NewId, slug |-> req[r].slug,
                                 code |-> req[r].code, origin |-> "admin"]}
  /\ EndsAnd(r, {})
  /\ UNCHANGED <<users, invitations, states, groups, members, roles, keys, blacklist>>

\* Not the system account; users, groups and invitations go with it.
DeleteAccount(r, a) ==
  LET gone == {u \in users : u.account = a} IN
  /\ scene = "register" /\ a # SystemAccount /\ Has(accounts, a)
  /\ req[r].at = "idle" /\ starts < MaxStarts /\ starts' = starts + 1
  /\ accounts' = {x \in accounts : x.id # a}
  /\ users' = users \ gone
  /\ groups' = {g \in groups : g.account # a}
  /\ invitations' = {n \in invitations : n.account # a}
  /\ members' = {m \in members : m[1] \notin IdsOf(gone) /\ m[2] \in IdsOf(groups')}
  /\ UNCHANGED <<made, states, roles, keys, blacklist, singleTenant, scene, req>>

-----------------------------------------------------------------------------
(* Invitations. *)

Pending(e, a) == \E n \in invitations : n.email = e /\ n.account = a /\ ~n.accepted

\* The address has no user in the account and no pending invitation.
CreateInvitation(r, a, e) ==
  /\ scene = "invite" /\ EmailIsFree(a, e) /\ ~Pending(e, a)
  /\ Begin(r, "invite", [NoRequest EXCEPT !.account = a, !.email = e])
  /\ UNCHANGED tables

\* The others that are inviting the same person to the same account.
SameInvitation(r) ==
  {q \in Requests \ {r} : /\ At(q, "invite") /\ req[q].account = req[r].account
                          /\ req[q].email = req[r].email}

\* The row is committed before the mail is sent.
CreateInvitationCommits(r) ==
  /\ At(r, "invite") /\ Has(accounts, req[r].account) /\ MakesRows
  /\ invitations' = invitations \cup
       {[id |-> NewId, account |-> req[r].account, email |-> req[r].email, accepted |-> FALSE,
         sent |-> FALSE, crossed |-> req[r].crossed \/ SameInvitation(r) # {}]}
  /\ req' = [q \in Requests |->
       IF q = r THEN [req[r] EXCEPT !.at = "mail", !.row = NewId]
       ELSE [req[q] EXCEPT !.crossed = @ \/ q \in SameInvitation(r)]]
  /\ UNCHANGED <<accounts, users, states, groups, members, roles, keys, blacklist,
                 singleTenant, scene, starts>>

\* Only a pending invitation is sent again.
ResendInvitation(r, n) ==
  /\ scene = "invite" /\ ~n.accepted
  /\ req[r].at = "idle" /\ starts < MaxStarts /\ starts' = starts + 1
  /\ req' = [req EXCEPT ![r] = [NoRequest EXCEPT !.op = "resend", !.at = "mail", !.row = n.id]]
  /\ UNCHANGED <<tables, singleTenant, scene>>

\* The mail went out: email_sent is written to the row, if it still exists.
InvitationIsMailed(r) ==
  /\ req[r].at = "mail" /\ Has(invitations, req[r].row)
  /\ invitations' = {IF n.id = req[r].row THEN [n EXCEPT !.sent = TRUE] ELSE n : n \in invitations}
  /\ EndsAnd(r, {})
  /\ UNCHANGED <<accounts, users, states, groups, members, roles, keys, blacklist, made>>

\* The invitation is there and not accepted (nor expired); the password is hashed next.
AcceptInvitation(r, n) ==
  /\ scene = "invite" /\ ~n.accepted
  /\ Begin(r, "accept", [NoRequest EXCEPT !.account = n.account, !.email = n.email, !.row = n.id])
  /\ UNCHANGED tables

\* Faulty variant: the invitation is marked although the user could not be inserted.
AcceptMarksFirst(r) ==
  /\ At(r, "accept")
  /\ invitations' = {IF n.id = req[r].row THEN [n EXCEPT !.accepted = TRUE] ELSE n : n \in invitations}
  /\ EndsAnd(r, {})
  /\ UNCHANGED <<accounts, users, states, groups, members, roles, keys, blacklist, made>>

\* The user is inserted and the invitation marked, if it has not been cancelled since.
AcceptCommits(r) ==
  /\ At(r, "accept")
  /\ InsertUser([NewUser(req[r].account, req[r].email, RoleId("user"), NoEmail, FALSE)
                   EXCEPT !.invited = req[r].row])
  /\ invitations' = {IF n.id = req[r].row THEN [n EXCEPT !.accepted = TRUE] ELSE n : n \in invitations}
  /\ EndsAnd(r, {})
  /\ UNCHANGED <<accounts, states, groups, members, roles, keys, blacklist>>

CancelInvitation(r, n) ==
  /\ scene = "invite"
  /\ req[r].at = "idle" /\ starts < MaxStarts /\ starts' = starts + 1
  /\ invitations' = {m \in invitations : m.id # n.id}
  /\ UNCHANGED <<accounts, users, states, groups, members, roles, keys, blacklist, made,
                 singleTenant, scene, req>>

-----------------------------------------------------------------------------
(* Identity providers. *)

\* OAuth: a state is stored for the account that was named, or for the system account.
Authorize(r, a) ==
  /\ scene = "sso" /\ Has(accounts, a) /\ MakesRows
  /\ req[r].at = "idle" /\ starts < MaxStarts /\ starts' = starts + 1
  /\ states' = states \cup {[id |-> NewId, account |-> a]}
  /\ UNCHANGED <<accounts, users, invitations, groups, members, roles, keys, blacklist,
                 singleTenant, scene, req>>

\* The state that the provider sent back is known.
Callback(r, s) ==
  /\ scene = "sso"
  /\ Begin(r, "callback", [NoRequest EXCEPT !.row = s.id, !.account = s.account])
  /\ UNCHANGED tables

\* DELETE of the state, not committed: another request for it waits here.
CallbackTakesState(r) ==
  /\ At(r, "callback")
  /\ \A q \in Requests : req[q].op = "callback" /\ req[q].at \in {"taken", "found"} => req[q].row # req[r].row
  /\ req' = [req EXCEPT ![r].at = "taken"]
  /\ UNCHANGED <<tables, singleTenant, scene, starts>>

\* SAML: the response names the account and the provider; nothing is stored for it.
Acs(r, a) ==
  /\ scene = "sso" /\ req[r].at = "idle" /\ starts < MaxStarts /\ starts' = starts + 1
  /\ req' = [req EXCEPT ![r] = [NoRequest EXCEPT !.op = "acs", !.at = "taken", !.account = a]]
  /\ UNCHANGED <<tables, singleTenant, scene>>

Known(e) == {u \in users : u.external = e}

\* Faulty variant: the person is looked up by the address in the account.
FindUserByEmail(r, e) ==
  /\ req[r].at = "taken"
  /\ req' = [req EXCEPT ![r].at = "found", ![r].email = e, ![r].code = NextCode, ![r].slug = FreeSlug,
       ![r].found = Cardinality({u \in Known(e) : u.account = req[r].account})]
  /\ UNCHANGED <<tables, singleTenant, scene, starts>>

\* The provider has said who it is; one user at most may have that identity.
FindUser(r, e) ==
  /\ req[r].at = "taken" /\ Cardinality(Known(e)) <= 1
  /\ req' = [req EXCEPT ![r].at = "found", ![r].email = e, ![r].code = NextCode, ![r].slug = FreeSlug,
       ![r].found = Cardinality(Known(e))]
  /\ UNCHANGED <<tables, singleTenant, scene, starts>>

\* The others that have found the same person to be new.
SamePerson(r) ==
  {q \in Requests \ {r} : req[q].at = "found" /\ req[q].found = 0 /\ req[q].email = req[r].email}

SpendState(r) == states' = IF req[r].op = "callback" THEN {s \in states : s.id # req[r].row} ELSE states

\* A user who was here before: only a refresh token and what the provider says are new.
KnownUserSignsIn(r) ==
  /\ req[r].at = "found" /\ req[r].found = 1
  /\ SpendState(r)
  /\ EndsAnd(r, {})
  /\ UNCHANGED <<accounts, users, invitations, groups, members, roles, keys, blacklist, made>>

\* A new user of the account named at the start, as administrator; of the configured
\* account, as user, if it was the system account and there is only one.
NewUserSignsIn(r) ==
  LET crossed == req[r].crossed \/ SamePerson(r) # {} IN
  /\ req[r].at = "found" /\ req[r].found = 0
  /\ \/ /\ req[r].op = "acs" \/ req[r].account # SystemAccount
        /\ InsertUser(NewUser(req[r].account, req[r].email, RoleId("admin"), req[r].email, crossed))
     \/ /\ req[r].op = "callback" /\ req[r].account = SystemAccount /\ singleTenant
        /\ InsertUser(NewUser(Tenant, req[r].email, RoleId("user"), req[r].email, crossed))
  /\ SpendState(r)
  /\ EndsAnd(r, SamePerson(r))
  /\ UNCHANGED <<accounts, invitations, groups, members, roles, keys, blacklist>>

\* A new user with an account of their own.
NewAccountSignsIn(r) ==
  /\ req[r].at = "found" /\ req[r].found = 0
  /\ req[r].op = "callback" /\ req[r].account = SystemAccount /\ ~singleTenant
  /\ NewAccount(r, req[r].slug, req[r].code, "oauth", req[r].email, req[r].email,
                req[r].crossed \/ SamePerson(r) # {})
  /\ SpendState(r)
  /\ EndsAnd(r, SamePerson(r))
  /\ UNCHANGED <<invitations, roles, keys, blacklist>>

\* authorize finds an expired state only when it comes back, and removes it then.
StateExpires(r, s) ==
  /\ scene = "sso" /\ req[r].at = "idle" /\ starts < MaxStarts /\ starts' = starts + 1
  /\ states' = states \ {s}
  /\ UNCHANGED <<accounts, users, invitations, groups, members, roles, keys, blacklist, made,
                 singleTenant, scene, req>>

-----------------------------------------------------------------------------
(* Groups. *)

CreateGroup(r, a, n) ==
  /\ scene = "groups" /\ GroupIsFree(a, n)
  /\ Begin(r, "create_group", [NoRequest EXCEPT !.account = a, !.name = n])
  /\ UNCHANGED tables

CreateGroupCommits(r) ==
  /\ At(r, "create_group") /\ Has(accounts, req[r].account)
  /\ GroupIsFree(req[r].account, req[r].name) /\ MakesRows
  /\ groups' = groups \cup {[id |-> NewId, account |-> req[r].account, name |-> req[r].name]}
  /\ EndsAnd(r, {})
  /\ UNCHANGED <<accounts, users, invitations, states, members, roles, keys, blacklist>>

\* The name must be free in the account of the one who asks.
UpdateGroup(r, by, g, n) ==
  /\ scene = "groups" /\ by \in {g.account, SystemAccount} /\ n # g.name /\ GroupIsFree(by, n)
  /\ Begin(r, "update_group", [NoRequest EXCEPT !.account = g.account, !.row = g.id, !.name = n])
  /\ UNCHANGED tables

UpdateGroupCommits(r) ==
  /\ At(r, "update_group") /\ Has(groups, req[r].row) /\ GroupIsFree(req[r].account, req[r].name)
  /\ groups' = {IF g.id = req[r].row THEN [g EXCEPT !.name = req[r].name] ELSE g : g \in groups}
  /\ EndsAnd(r, {})
  /\ UNCHANGED <<accounts, users, invitations, states, members, roles, keys, blacklist, made>>

DeleteGroup(r, g) ==
  /\ scene = "groups" /\ req[r].at = "idle" /\ starts < MaxStarts /\ starts' = starts + 1
  /\ groups' = groups \ {g}
  /\ members' = {m \in members : m[2] # g.id}
  /\ UNCHANGED <<accounts, users, invitations, states, roles, keys, blacklist, made, singleTenant, scene, req>>

\* The group is visible to the one who asks, and the user is not in it.
AddUserToGroup(r, g, u) ==
  /\ scene = "groups" /\ <<u.id, g.id>> \notin members
  /\ Begin(r, "add_user", [NoRequest EXCEPT !.row = g.id, !.found = u.id])
  /\ UNCHANGED tables

AddUserToGroupCommits(r) ==
  /\ At(r, "add_user") /\ Has(groups, req[r].row) /\ Has(users, req[r].found)
  /\ <<req[r].found, req[r].row>> \notin members
  /\ members' = members \cup {<<req[r].found, req[r].row>>}
  /\ EndsAnd(r, {})
  /\ UNCHANGED <<accounts, users, invitations, states, groups, roles, keys, blacklist, made>>

RemoveUserFromGroup(r, g, u) ==
  /\ scene = "groups" /\ req[r].at = "idle" /\ starts < MaxStarts /\ starts' = starts + 1
  /\ members' = members \ {<<u.id, g.id>>}
  /\ UNCHANGED <<accounts, users, invitations, states, groups, roles, keys, blacklist, made, singleTenant,
                 scene, req>>

-----------------------------------------------------------------------------
(* Roles. *)

RoleIsFree(n) == RoleId(n) = Unset

CreateRole(r, n) ==
  /\ scene = "roles" /\ RoleIsFree(n)
  /\ Begin(r, "create_role", [NoRequest EXCEPT !.name = n])
  /\ UNCHANGED tables

CreateRoleCommits(r) ==
  /\ At(r, "create_role") /\ RoleIsFree(req[r].name) /\ MakesRows
  /\ roles' = roles \cup {[id |-> NewId, name |-> req[r].name]}
  /\ EndsAnd(r, {})
  /\ UNCHANGED <<accounts, users, invitations, states, groups, members, keys, blacklist>>

\* Any role may be given another name, the built-in ones too.
UpdateRole(r, x, n) ==
  /\ scene = "roles" /\ RoleIsFree(n)
  /\ Begin(r, "update_role", [NoRequest EXCEPT !.row = x.id, !.name = n])
  /\ UNCHANGED tables

UpdateRoleCommits(r) ==
  /\ At(r, "update_role") /\ Has(roles, req[r].row) /\ RoleIsFree(req[r].name)
  /\ roles' = {IF x.id = req[r].row THEN [x EXCEPT !.name = req[r].name] ELSE x : x \in roles}
  /\ EndsAnd(r, {})
  /\ UNCHANGED <<accounts, users, invitations, states, groups, members, keys, blacklist, made>>

\* Not one of DEFAULT_ROLES, as it is called when it is read.
DeleteRole(r, x) ==
  /\ scene = "roles" /\ x.name \notin {"admin", "user"}
  /\ Begin(r, "delete_role", [NoRequest EXCEPT !.row = x.id])
  /\ UNCHANGED tables

\* The foreign key keeps a role that some user has.
DeleteRoleCommits(r) ==
  /\ At(r, "delete_role") /\ ~\E u \in users : u.role = req[r].row
  /\ roles' = {x \in roles : x.id # req[r].row}
  /\ EndsAnd(r, {})
  /\ UNCHANGED <<accounts, users, invitations, states, groups, members, keys, blacklist, made>>

-----------------------------------------------------------------------------
(* API keys, for superadmins. *)

KeysOf(u) == {k \in keys : k.user = u /\ k.active}

CreateKey(r, u) ==
  /\ scene = "keys" /\ u.account = SystemAccount /\ Cardinality(KeysOf(u.id)) < KeyLimit
  /\ Begin(r, "create_key", [NoRequest EXCEPT !.row = u.id])
  /\ UNCHANGED tables

CreateKeyCommits(r) ==
  /\ At(r, "create_key") /\ Has(users, req[r].row) /\ MakesRows
  /\ keys' = keys \cup {[id |-> NewId, user |-> req[r].row, active |-> TRUE]}
  /\ EndsAnd(r, {})
  /\ UNCHANGED <<accounts, users, invitations, states, groups, members, roles, blacklist>>

RevokeKey(r, k) ==
  /\ scene = "keys"
  /\ Begin(r, "revoke_key", [NoRequest EXCEPT !.row = k.id])
  /\ UNCHANGED tables

\* The id goes to the blacklist, which has it once, and the key is no longer active.
RevokeKeyCommits(r) ==
  /\ At(r, "revoke_key") /\ req[r].row \notin blacklist
  /\ blacklist' = blacklist \cup {req[r].row}
  /\ keys' = {IF k.id = req[r].row THEN [k EXCEPT !.active = FALSE] ELSE k : k \in keys}
  /\ EndsAnd(r, {})
  /\ UNCHANGED <<accounts, users, invitations, states, groups, members, roles, made>>

\* A check or a constraint refuses, a statement fails, a mail is not sent, the provider
\* does not answer, the process ends: what was not committed is gone.
Fails(r) == req[r].at # "idle" /\ EndsAnd(r, {}) /\ UNCHANGED tables

RegisterNext(r) ==
  \/ \E s \in Ids, e \in Emails : RegisterChecks(r, s, e)
  \/ \E e \in Emails : RegisterInTenant(r, e)
  \/ \E s \in Ids : CreateAccount(r, s) \/ DeleteAccount(r, s)
  \/ RegisterCommits(r) \/ RegisterInTenantCommits(r) \/ CreateAccountCommits(r)

InviteNext(r) ==
  \/ \E a \in IdsOf(accounts), e \in Emails : CreateInvitation(r, a, e)
  \/ \E n \in invitations : ResendInvitation(r, n) \/ AcceptInvitation(r, n) \/ CancelInvitation(r, n)
  \/ CreateInvitationCommits(r) \/ InvitationIsMailed(r) \/ AcceptCommits(r)

UsersNext(r) ==
  \/ \E a \in IdsOf(accounts), e \in Emails, role \in IdsOf(roles), external \in Emails \cup {NoEmail} :
       CreateUser(r, a, e, role, external)
  \/ \E u \in users, e, external \in Emails \cup {NoEmail}, role \in IdsOf(roles) \cup {Unset} :
       UpdateUser(r, u, e, role, external)
  \/ CreateUserCommits(r) \/ UpdateUserCommits(r)

SignInNext(r) ==
  \/ \E a \in IdsOf(accounts) : Authorize(r, a) \/ Acs(r, a)
  \/ \E s \in states : Callback(r, s) \/ StateExpires(r, s)
  \/ \E e \in Emails : FindUser(r, e)
  \/ CallbackTakesState(r) \/ KnownUserSignsIn(r) \/ NewUserSignsIn(r) \/ NewAccountSignsIn(r)

AdminNext(r) ==
  \/ \E a \in IdsOf(accounts), n \in Names : CreateGroup(r, a, n)
  \/ \E g \in groups : DeleteGroup(r, g) \/ \E by \in IdsOf(accounts), n \in Names : UpdateGroup(r, by, g, n)
  \/ \E g \in groups, u \in users : AddUserToGroup(r, g, u) \/ RemoveUserFromGroup(r, g, u)
  \/ CreateGroupCommits(r) \/ UpdateGroupCommits(r) \/ AddUserToGroupCommits(r)
  \/ \E n \in Names : CreateRole(r, n)
  \/ \E x \in roles : DeleteRole(r, x) \/ \E n \in Names : UpdateRole(r, x, n)
  \/ CreateRoleCommits(r) \/ UpdateRoleCommits(r) \/ DeleteRoleCommits(r)
  \/ \E u \in users : CreateKey(r, u)
  \/ \E k \in keys : RevokeKey(r, k)
  \/ CreateKeyCommits(r) \/ RevokeKeyCommits(r)

Next == \E r \in Requests :
  RegisterNext(r) \/ InviteNext(r) \/ UsersNext(r) \/ SignInNext(r) \/ AdminNext(r) \/ Fails(r)

Spec == Init /\ [][Next]_vars

-----------------------------------------------------------------------------
(* An accepted invitation has led to a user of its account, and that user   *)
(* has the address it was sent to unless a superadmin has changed it; it    *)
(* has led to one user only, unless the address of a first one was changed  *)
(* while a second acceptance was under way.                                 *)
AcceptedHasUser ==
  \A n \in invitations : n.accepted =>
    LET led == {u \in users : u.invited = n.id} IN
    /\ \E u \in led : u.account = n.account /\ (u.email = n.email \/ "email" \in u.byAdmin)
    /\ \A u, v \in led : u # v => "email" \in u.byAdmin \cup v.byAdmin

(* A person has one user by the identity a provider gives, whichever        *)
(* accounts they sign in to, unless two sign-ins of theirs overlap or a     *)
(* superadmin gave the identity to one of the users (POST and PATCH /users  *)
(* take it unchecked): more than one, and no later sign-in succeeds.        *)
OneUserPerPerson ==
  \A u, v \in users : (u # v /\ u.external # NoEmail /\ u.external = v.external)
                        => (u.crossed /\ v.crossed) \/ "identity" \in u.byAdmin \cup v.byAdmin

(* An account that someone registered, or that a sign-in made, has the user *)
(* it was made with, who is its administrator unless a superadmin has given *)
(* them another role, and is in the group that sees personal data.          *)
(* (No request here edits the groups of such an account.)                   *)
AccountHasAdmin ==
  \A a \in accounts : a.origin \in {"self", "oauth"} =>
    \E u \in users : /\ u.account = a.id /\ (u.role = 0 \/ "role" \in u.byAdmin)
                     /\ \E g \in groups : /\ g.account = a.id /\ g.name = "pii_access"
                                          /\ <<u.id, g.id>> \in members

===============================================================================
