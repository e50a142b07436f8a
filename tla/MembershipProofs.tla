--------------------------- MODULE MembershipProofs ---------------------------
(* Proofs about Membership, for any people, names, requests that overlap,    *)
(* and bounds: what the rows of different tables say of each other.          *)
EXTENDS Membership, FiniteSetTheorems, TLAPS

USE MembershipAssumption

-----------------------------------------------------------------------------
(* The inductive invariant.                                                 *)

UserFields == {"id", "account", "email", "role", "external", "crossed", "invited", "byAdmin"}
InvitationFields == {"id", "account", "email", "accepted", "sent", "crossed"}
GroupFields == {"id", "account", "name"}
RequestFields == {"at", "op", "account", "email", "row", "code", "slug", "name", "found", "crossed",
                  "role", "external"}

\* An id is given once, in whichever table.
HasIds(table) ==
  /\ \A x \in table : x.id \in Nat /\ x.id <= made
  /\ \A x, y \in table : x.id = y.id => x = y

\* The account of a user, and the invitation that led to them, are among the first m rows made.
UserIsSound(u, m) ==
  /\ DOMAIN u = UserFields /\ u.crossed \in BOOLEAN
  /\ u.account \in Nat /\ u.account <= m /\ u.invited \in Nat /\ u.invited <= m

TablesAreSound ==
  /\ made \in Nat
  /\ IsFiniteSet(users)
  /\ HasIds(users) /\ HasIds(groups) /\ HasIds(invitations)
  /\ \A a \in accounts : a.id \in Nat /\ a.id <= made
  /\ \A u \in users : UserIsSound(u, made)
  /\ \A n \in invitations : DOMAIN n = InvitationFields
  /\ \A g \in groups : DOMAIN g = GroupFields
  /\ \A x \in roles : DOMAIN x = {"id", "name"}

\* The role that is called admin is the one that is built in.
AdminIsBuiltIn == \A x \in roles : x.name = "admin" => x.id = 0

\* What the program has checked and not yet acted on.  A request that has found a person to be
\* new still finds them to be new, or knows that another sign-in of theirs came between.
RequestIsSound(x) ==
  /\ DOMAIN x = RequestFields /\ x.crossed \in BOOLEAN
  /\ x.op = "register" => scene = "register"
  /\ x.op = "callback" => scene = "sso"
  /\ x.op = "update_group" => scene = "groups"
  /\ x.op \in {"create_role", "update_role"} => x.name \in Names
  /\ x.op = "accept" =>
       /\ x.at = "read" /\ x.row \in Nat /\ x.row <= made
       /\ \A n \in invitations : n.id = x.row => n.account = x.account /\ n.email = x.email
  /\ x.at = "found" =>
       /\ x.email \in Emails
       /\ x.found = 0 => \A u \in users : u.external = x.email =>
            (u.crossed = TRUE /\ x.crossed = TRUE) \/ "identity" \in u.byAdmin

RequestsAreSound == req = [r \in Requests |-> req[r]] /\ \A r \in Requests : RequestIsSound(req[r])

\* The accounts that AccountHasAdmin is about are made by two kinds of requests.
AccountsOfScene == \A a \in accounts : a.origin \in {"self", "oauth"} => scene \in {"register", "sso"}

\* Of AcceptedHasUser: an accepted invitation led to someone, whomever one led to was invited,
\* and no two users of an account have the same address.
IsFor(u, n) == u.account = n.account /\ (u.email = n.email \/ "email" \in u.byAdmin)
AcceptedLed == \A n \in invitations : n.accepted => \E u \in users : u.invited = n.id
LedWereInvited == \A n \in invitations : n.id # 0 /\ \A u \in users : u.invited = n.id => IsFor(u, n)
EmailsDiffer == \A u, v \in users : u.account = v.account /\ u.email = v.email => u = v
InvitedAreSound == AcceptedLed /\ LedWereInvited /\ EmailsDiffer

MInv ==
  /\ TablesAreSound /\ AdminIsBuiltIn /\ RequestsAreSound /\ AccountsOfScene
  /\ InvitedAreSound /\ OneUserPerPerson /\ AccountHasAdmin

LEMMA SoundImpliesAcceptedHasUser == InvitedAreSound => AcceptedHasUser
<1>. SUFFICES ASSUME InvitedAreSound, NEW n \in invitations, n.accepted
              PROVE  /\ \E u \in users : u.invited = n.id /\ IsFor(u, n)
                     /\ \A u, v \in users : u.invited = n.id /\ v.invited = n.id /\ u # v
                                             => "email" \in u.byAdmin \cup v.byAdmin
  BY DEF AcceptedHasUser, IsFor
<1>1. \E u \in users : u.invited = n.id /\ IsFor(u, n)
  BY DEF InvitedAreSound, AcceptedLed, LedWereInvited
<1>2. \A u, v \in users : u.invited = n.id /\ v.invited = n.id /\ u # v => "email" \in u.byAdmin \cup v.byAdmin
  BY DEF InvitedAreSound, LedWereInvited, EmailsDiffer, IsFor
<1>. QED
  BY <1>1, <1>2

\* It speaks of users, invitations and nothing else.
LEMMA SameRowsAreSound == InvitedAreSound /\ UNCHANGED <<users, invitations>> => InvitedAreSound'
BY DEF InvitedAreSound, AcceptedLed, LedWereInvited, EmailsDiffer

LEMMA NoRequestIsSound == RequestIsSound(NoRequest)
BY DEF RequestIsSound, NoRequest, RequestFields

LEMMA PairIsFinite == ASSUME NEW x, NEW y PROVE IsFiniteSet({x, y})
<1>1. IsFiniteSet({x})
  BY FS_Singleton
<1>2. IsFiniteSet({x} \cup {y})
  BY <1>1, FS_AddElement
<1>3. {x, y} = {x} \cup {y}
  OBVIOUS
<1>. QED
  BY <1>2, <1>3

LEMMA InitHasMInv == Init => MInv
<1>. SUFFICES ASSUME Init PROVE MInv
  OBVIOUS
<1>1. RequestsAreSound
  BY NoRequestIsSound DEF Init, RequestsAreSound
<1>2. PICK e \in Emails : users =
       {[id |-> i, account |-> i, email |-> e, role |-> 0, external |-> NoEmail, crossed |-> FALSE,
         invited |-> 0, byAdmin |-> {}] : i \in {SystemAccount, Tenant}}
  BY DEF Init
<1>. DEFINE seeded(i) == [id |-> i, account |-> i, email |-> e, role |-> 0, external |-> NoEmail, crossed |-> FALSE,
                          invited |-> 0, byAdmin |-> {}]
<1>a. users = {seeded(0), seeded(1)}
  BY <1>2 DEF SystemAccount, Tenant
<1>c. \A i \in {0, 1} : /\ seeded(i).id = i /\ seeded(i).account = i /\ seeded(i).crossed = FALSE
                        /\ seeded(i).external = NoEmail /\ seeded(i).invited = 0 /\ DOMAIN seeded(i) = UserFields
  BY DEF UserFields
<1>. HIDE DEF seeded
<1>3. IsFiniteSet(users)
  BY <1>a, PairIsFinite
<1>b. made = 1
  BY DEF Init
<1>4. HasIds(users) /\ (\A u \in users : UserIsSound(u, made) /\ u.external = NoEmail) /\ EmailsDiffer
  <2>3. \A u, v \in users : u.id = v.id => u = v
    BY <1>a, <1>c
  <2>4. \A u \in users : u.id \in Nat /\ u.id <= made
    BY <1>a, <1>b, <1>c
  <2>c. \A u \in users : DOMAIN u = UserFields /\ u.crossed \in BOOLEAN /\ u.external = NoEmail
    BY <1>a, <1>c
  <2>d. \A u \in users : u.account \in Nat /\ u.account <= made /\ u.invited \in Nat /\ u.invited <= made
    BY <1>a, <1>b, <1>c
  <2>5. \A u \in users : UserIsSound(u, made) /\ u.external = NoEmail
    BY <2>c, <2>d DEF UserIsSound
  <2>6. EmailsDiffer
    BY <1>a, <1>c DEF EmailsDiffer
  <2>. QED
    BY <2>3, <2>4, <2>5, <2>6 DEF HasIds
<1>5. TablesAreSound
  <2>1. \A a \in accounts : a.id \in Nat /\ a.id <= made
    BY <1>b DEF Init, SystemAccount, Tenant
  <2>. QED
    BY <1>3, <1>4, <2>1 DEF Init, TablesAreSound, HasIds, InvitationFields, GroupFields
<1>6. AdminIsBuiltIn /\ AccountsOfScene /\ InvitedAreSound /\ AccountHasAdmin
  BY <1>4 DEF Init, AdminIsBuiltIn, AccountsOfScene, InvitedAreSound, AcceptedLed, LedWereInvited, AccountHasAdmin
<1>7. OneUserPerPerson
  BY <1>4 DEF OneUserPerPerson
<1>. QED
  BY <1>1, <1>5, <1>6, <1>7 DEF MInv

-----------------------------------------------------------------------------
(* Requests that begin, and requests that end.                              *)

\* A request that has read what it needs: nothing else has changed.
LEMMA BeginKeepsMInv ==
  ASSUME MInv, NEW r \in Requests, NEW x, RequestIsSound(x),
         req' = [q \in Requests |-> IF q = r THEN x ELSE req[q]], UNCHANGED <<tables, scene>>
  PROVE  MInv'
<1>1. TablesAreSound' /\ AdminIsBuiltIn' /\ AccountsOfScene'
  BY DEF MInv, TablesAreSound, UserIsSound, HasIds, AdminIsBuiltIn, AccountsOfScene, tables
<1>2. InvitedAreSound' /\ OneUserPerPerson' /\ AccountHasAdmin'
  BY SameRowsAreSound DEF MInv, OneUserPerPerson, AccountHasAdmin, tables
<1>3. \A q \in Requests : req'[q] = IF q = r THEN x ELSE req[q]
  OBVIOUS
<1>4. ASSUME NEW q \in Requests PROVE RequestIsSound(req[q])' 
  <2>1. RequestIsSound(req'[q])
    BY <1>3 DEF MInv, RequestsAreSound
  <2>. QED
    BY <2>1 DEF RequestIsSound, tables
<1>5. RequestsAreSound'
  BY <1>4 DEF RequestsAreSound
<1>. QED
  BY <1>1, <1>2, <1>5 DEF MInv

\* What EndsAnd does to the other requests.
LEMMA OthersGoOn ==
  ASSUME RequestsAreSound, NEW r \in Requests, NEW cross, EndsAnd(r, cross), NEW q \in Requests \ {r}
  PROVE  /\ DOMAIN req'[q] = RequestFields
         /\ req'[q].op = req[q].op /\ req'[q].at = req[q].at /\ req'[q].row = req[q].row
         /\ req'[q].account = req[q].account /\ req'[q].email = req[q].email
         /\ req'[q].name = req[q].name /\ req'[q].found = req[q].found
         /\ req'[q].crossed \in BOOLEAN
         /\ req[q].crossed = TRUE \/ q \in cross => req'[q].crossed = TRUE
<1>1. req'[q] = [req[q] EXCEPT !.crossed = @ \/ q \in cross]
  BY DEF EndsAnd
<1>2. DOMAIN req[q] = RequestFields /\ req[q].crossed \in BOOLEAN
  BY DEF RequestsAreSound, RequestIsSound
<1>3. DOMAIN req'[q] = RequestFields
  BY <1>1, <1>2
<1>4. /\ req'[q].op = req[q].op /\ req'[q].at = req[q].at /\ req'[q].row = req[q].row
      /\ req'[q].account = req[q].account /\ req'[q].email = req[q].email
      /\ req'[q].name = req[q].name /\ req'[q].found = req[q].found
  BY <1>1, <1>2 DEF RequestFields
<1>5. req'[q].crossed = (req[q].crossed \/ q \in cross)
  BY <1>1, <1>2 DEF RequestFields
<1>6. req'[q].crossed \in BOOLEAN /\ (req[q].crossed = TRUE \/ q \in cross => req'[q].crossed = TRUE)
  BY <1>2, <1>5
<1>. QED
  BY <1>3, <1>4, <1>6

\* A request ends, and has changed the tables: what the others have read of them is still
\* sound if invitations stay for whom they are, and the others are told of a new identity.
LEMMA EndKeepsRequests ==
  ASSUME MInv, NEW r \in Requests, NEW cross, EndsAnd(r, cross),
         made' \in Nat, made <= made',
         \A n \in invitations' :
           \/ n.id = made + 1
           \/ \E m \in invitations : m.id = n.id /\ m.account = n.account /\ m.email = n.email,
         \A u \in users' \ users :
           \/ u.external = NoEmail \/ "identity" \in u.byAdmin
           \/ \E v \in users : v.external = u.external /\ v.crossed = u.crossed /\ "identity" \notin v.byAdmin
           \/ \A q \in Requests \ {r} :
                req[q].at = "found" /\ req[q].found = 0 /\ req[q].email = u.external
                  => q \in cross /\ u.crossed = TRUE
  PROVE  RequestsAreSound'
<1>1. ASSUME NEW q \in Requests \ {r} PROVE RequestIsSound(req[q])'
  <2>1. RequestIsSound(req[q])
    BY DEF MInv, RequestsAreSound
  <2>2. /\ DOMAIN req'[q] = RequestFields
        /\ req'[q].op = req[q].op /\ req'[q].at = req[q].at /\ req'[q].row = req[q].row
        /\ req'[q].account = req[q].account /\ req'[q].email = req[q].email
        /\ req'[q].name = req[q].name /\ req'[q].found = req[q].found
        /\ req'[q].crossed \in BOOLEAN
        /\ req[q].crossed = TRUE \/ q \in cross => req'[q].crossed = TRUE
    BY OthersGoOn DEF MInv
  <2>3. scene' = scene
    BY DEF EndsAnd
  <2>4. made \in Nat /\ \A m \in invitations : m.id \in Nat
    BY DEF MInv, TablesAreSound, HasIds
  <2>5. ASSUME req[q].op = "accept", NEW n \in invitations', n.id = req[q].row
        PROVE  n.account = req[q].account /\ n.email = req[q].email
    BY <2>1, <2>4, <2>5 DEF RequestIsSound
  <2>6. ASSUME req[q].at = "found", req[q].found = 0, NEW u \in users', u.external = req[q].email
        PROVE  (u.crossed = TRUE /\ req'[q].crossed = TRUE) \/ "identity" \in u.byAdmin
    BY <2>1, <2>2, <2>6 DEF RequestIsSound
  <2>7. req[q].op = "accept" => req[q].row \in Nat /\ req[q].row <= made'
    BY <2>1, <2>4 DEF RequestIsSound
  <2>. QED
    BY <2>1, <2>2, <2>3, <2>5, <2>6, <2>7 DEF RequestIsSound
<1>2. req'[r] = NoRequest
  BY DEF EndsAnd
<1>3. RequestIsSound(req[r])'
  BY <1>2 DEF RequestIsSound, NoRequest, RequestFields
<1>4. req' = [q \in Requests |-> req'[q]]
  BY DEF EndsAnd
<1>. QED
  BY <1>1, <1>3, <1>4 DEF RequestsAreSound
-----------------------------------------------------------------------------
(* Requests that check and write later.                                       *)

\* What a request may have read when it begins.
Fits(op, x) ==
  /\ DOMAIN x = RequestFields /\ x.crossed = FALSE
  /\ op = "register" => scene = "register"
  /\ op = "callback" => scene = "sso"
  /\ op = "update_group" => scene = "groups"
  /\ op \in {"create_role", "update_role"} => x.name \in Names
  /\ op = "accept" =>
       /\ x.row \in Nat /\ x.row <= made
       /\ \A n \in invitations : n.id = x.row => n.account = x.account /\ n.email = x.email

LEMMA FittingBeginKeepsMInv ==
  ASSUME MInv, NEW r \in Requests, NEW op, NEW x, Fits(op, x), Begin(r, op, x), UNCHANGED tables
  PROVE  MInv'
<1>. DEFINE y == [x EXCEPT !.op = op, !.at = "read"]
<1>1. req' = [q \in Requests |-> IF q = r THEN y ELSE req[q]] /\ UNCHANGED <<tables, scene>>
  BY DEF Begin, MInv, RequestsAreSound
<1>2. /\ DOMAIN y = RequestFields /\ y.op = op /\ y.at = "read" /\ y.crossed = FALSE
      /\ y.name = x.name /\ y.row = x.row /\ y.account = x.account /\ y.email = x.email
  BY DEF Fits, RequestFields
<1>. HIDE DEF y
<1>3. RequestIsSound(y)
  BY <1>2 DEF Fits, RequestIsSound
<1>. QED
  BY <1>1, <1>3, BeginKeepsMInv

LEMMA ChecksKeepMInv ==
  ASSUME MInv, NEW r \in Requests
  PROVE  /\ \A s : \A e : RegisterChecks(r, s, e) => MInv'
         /\ \A e : RegisterInTenant(r, e) => MInv'
         /\ \A a : \A e : \A role : \A ext : CreateUser(r, a, e, role, ext) => MInv'
         /\ \A u : \A e : \A role : \A ext : UpdateUser(r, u, e, role, ext) => MInv'
         /\ \A s : CreateAccount(r, s) => MInv'
         /\ \A a : \A e : CreateInvitation(r, a, e) => MInv'
         /\ \A n \in invitations : AcceptInvitation(r, n) => MInv'
         /\ \A s : Callback(r, s) => MInv'
         /\ \A a : \A n : CreateGroup(r, a, n) => MInv'
         /\ \A by : \A g : \A n : UpdateGroup(r, by, g, n) => MInv'
         /\ \A g : \A u : AddUserToGroup(r, g, u) => MInv'
         /\ \A n \in Names : CreateRole(r, n) => MInv'
         /\ \A x : \A n \in Names : UpdateRole(r, x, n) => MInv'
         /\ \A x : DeleteRole(r, x) => MInv'
         /\ \A u : CreateKey(r, u) => MInv'
         /\ \A k : RevokeKey(r, k) => MInv'
<1>1. ASSUME NEW s, NEW e, RegisterChecks(r, s, e) PROVE MInv'
  <2>. DEFINE input == [NoRequest EXCEPT !.slug = s, !.code = NextCode, !.email = e]
  <2>1. DOMAIN input = RequestFields /\ input.crossed = FALSE
    BY DEF NoRequest, RequestFields
  <2>2. Begin(r, "register", input) /\ UNCHANGED tables /\ scene = "register"
    BY <1>1 DEF RegisterChecks
  <2>. HIDE DEF input
  <2>3. Fits("register", input)
    BY <2>1, <2>2 DEF Fits
  <2>. QED
    BY <2>2, <2>3, FittingBeginKeepsMInv
<1>2. ASSUME NEW e, RegisterInTenant(r, e) PROVE MInv'
  <2>. DEFINE input == [NoRequest EXCEPT !.email = e, !.account = Tenant]
  <2>1. DOMAIN input = RequestFields /\ input.crossed = FALSE
    BY DEF NoRequest, RequestFields
  <2>2. Begin(r, "join", input) /\ UNCHANGED tables
    BY <1>2 DEF RegisterInTenant
  <2>. HIDE DEF input
  <2>3. Fits("join", input)
    BY <2>1, <2>2 DEF Fits
  <2>. QED
    BY <2>2, <2>3, FittingBeginKeepsMInv
<1>16. ASSUME NEW u, NEW e, NEW role, NEW ext, UpdateUser(r, u, e, role, ext) PROVE MInv'
  <2>. DEFINE input == [NoRequest EXCEPT !.row = u.id, !.email = e, !.role = role, !.external = ext]
  <2>1. DOMAIN input = RequestFields /\ input.crossed = FALSE
    BY DEF NoRequest, RequestFields
  <2>2. Begin(r, "update_user", input) /\ UNCHANGED tables
    BY <1>16 DEF UpdateUser
  <2>. HIDE DEF input
  <2>3. Fits("update_user", input)
    BY <2>1, <2>2 DEF Fits
  <2>. QED
    BY <2>2, <2>3, FittingBeginKeepsMInv
<1>3. ASSUME NEW a, NEW e, NEW role, NEW ext, CreateUser(r, a, e, role, ext) PROVE MInv'
  <2>. DEFINE input == [NoRequest EXCEPT !.email = e, !.account = a, !.role = role, !.external = ext]
  <2>1. DOMAIN input = RequestFields /\ input.crossed = FALSE
    BY DEF NoRequest, RequestFields
  <2>2. Begin(r, "create_user", input) /\ UNCHANGED tables
    BY <1>3 DEF CreateUser
  <2>. HIDE DEF input
  <2>3. Fits("create_user", input)
    BY <2>1, <2>2 DEF Fits
  <2>. QED
    BY <2>2, <2>3, FittingBeginKeepsMInv
<1>4. ASSUME NEW s, CreateAccount(r, s) PROVE MInv'
  <2>. DEFINE input == [NoRequest EXCEPT !.slug = s, !.code = NextCode]
  <2>1. DOMAIN input = RequestFields /\ input.crossed = FALSE
    BY DEF NoRequest, RequestFields
  <2>2. Begin(r, "create_account", input) /\ UNCHANGED tables
    BY <1>4 DEF CreateAccount
  <2>. HIDE DEF input
  <2>3. Fits("create_account", input)
    BY <2>1, <2>2 DEF Fits
  <2>. QED
    BY <2>2, <2>3, FittingBeginKeepsMInv
<1>5. ASSUME NEW a, NEW e, CreateInvitation(r, a, e) PROVE MInv'
  <2>. DEFINE input == [NoRequest EXCEPT !.account = a, !.email = e]
  <2>1. DOMAIN input = RequestFields /\ input.crossed = FALSE
    BY DEF NoRequest, RequestFields
  <2>2. Begin(r, "invite", input) /\ UNCHANGED tables
    BY <1>5 DEF CreateInvitation
  <2>. HIDE DEF input
  <2>3. Fits("invite", input)
    BY <2>1, <2>2 DEF Fits
  <2>. QED
    BY <2>2, <2>3, FittingBeginKeepsMInv
<1>6. ASSUME NEW n \in invitations, AcceptInvitation(r, n) PROVE MInv'
  <2>. DEFINE input == [NoRequest EXCEPT !.account = n.account, !.email = n.email, !.row = n.id]
  <2>1. DOMAIN input = RequestFields /\ input.crossed = FALSE /\ input.row = n.id /\ input.account = n.account /\ input.email = n.email
    BY DEF NoRequest, RequestFields
  <2>2. Begin(r, "accept", input) /\ UNCHANGED tables
    BY <1>6 DEF AcceptInvitation
  <2>. HIDE DEF input
  <2>3. Fits("accept", input)
    BY <2>1, <2>2 DEF Fits, MInv, TablesAreSound, HasIds
  <2>. QED
    BY <2>2, <2>3, FittingBeginKeepsMInv
<1>7. ASSUME NEW s, Callback(r, s) PROVE MInv'
  <2>. DEFINE input == [NoRequest EXCEPT !.row = s.id, !.account = s.account]
  <2>1. DOMAIN input = RequestFields /\ input.crossed = FALSE
    BY DEF NoRequest, RequestFields
  <2>2. Begin(r, "callback", input) /\ UNCHANGED tables /\ scene = "sso"
    BY <1>7 DEF Callback
  <2>. HIDE DEF input
  <2>3. Fits("callback", input)
    BY <2>1, <2>2 DEF Fits
  <2>. QED
    BY <2>2, <2>3, FittingBeginKeepsMInv
<1>8. ASSUME NEW a, NEW n, CreateGroup(r, a, n) PROVE MInv'
  <2>. DEFINE input == [NoRequest EXCEPT !.account = a, !.name = n]
  <2>1. DOMAIN input = RequestFields /\ input.crossed = FALSE
    BY DEF NoRequest, RequestFields
  <2>2. Begin(r, "create_group", input) /\ UNCHANGED tables
    BY <1>8 DEF CreateGroup
  <2>. HIDE DEF input
  <2>3. Fits("create_group", input)
    BY <2>1, <2>2 DEF Fits
  <2>. QED
    BY <2>2, <2>3, FittingBeginKeepsMInv
<1>9. ASSUME NEW by, NEW g, NEW n, UpdateGroup(r, by, g, n) PROVE MInv'
  <2>. DEFINE input == [NoRequest EXCEPT !.account = g.account, !.row = g.id, !.name = n]
  <2>1. DOMAIN input = RequestFields /\ input.crossed = FALSE
    BY DEF NoRequest, RequestFields
  <2>2. Begin(r, "update_group", input) /\ UNCHANGED tables /\ scene = "groups"
    BY <1>9 DEF UpdateGroup
  <2>. HIDE DEF input
  <2>3. Fits("update_group", input)
    BY <2>1, <2>2 DEF Fits
  <2>. QED
    BY <2>2, <2>3, FittingBeginKeepsMInv
<1>10. ASSUME NEW g, NEW u, AddUserToGroup(r, g, u) PROVE MInv'
  <2>. DEFINE input == [NoRequest EXCEPT !.row = g.id, !.found = u.id]
  <2>1. DOMAIN input = RequestFields /\ input.crossed = FALSE
    BY DEF NoRequest, RequestFields
  <2>2. Begin(r, "add_user", input) /\ UNCHANGED tables
    BY <1>10 DEF AddUserToGroup
  <2>. HIDE DEF input
  <2>3. Fits("add_user", input)
    BY <2>1, <2>2 DEF Fits
  <2>. QED
    BY <2>2, <2>3, FittingBeginKeepsMInv
<1>11. ASSUME NEW n \in Names, CreateRole(r, n) PROVE MInv'
  <2>. DEFINE input == [NoRequest EXCEPT !.name = n]
  <2>1. DOMAIN input = RequestFields /\ input.crossed = FALSE /\ input.name = n
    BY DEF NoRequest, RequestFields
  <2>2. Begin(r, "create_role", input) /\ UNCHANGED tables
    BY <1>11 DEF CreateRole
  <2>. HIDE DEF input
  <2>3. Fits("create_role", input)
    BY <2>1, <2>2 DEF Fits
  <2>. QED
    BY <2>2, <2>3, FittingBeginKeepsMInv
<1>12. ASSUME NEW x, NEW n \in Names, UpdateRole(r, x, n) PROVE MInv'
  <2>. DEFINE input == [NoRequest EXCEPT !.row = x.id, !.name = n]
  <2>1. DOMAIN input = RequestFields /\ input.crossed = FALSE /\ input.name = n
    BY DEF NoRequest, RequestFields
  <2>2. Begin(r, "update_role", input) /\ UNCHANGED tables
    BY <1>12 DEF UpdateRole
  <2>. HIDE DEF input
  <2>3. Fits("update_role", input)
    BY <2>1, <2>2 DEF Fits
  <2>. QED
    BY <2>2, <2>3, FittingBeginKeepsMInv
<1>13. ASSUME NEW x, DeleteRole(r, x) PROVE MInv'
  <2>. DEFINE input == [NoRequest EXCEPT !.row = x.id]
  <2>1. DOMAIN input = RequestFields /\ input.crossed = FALSE
    BY DEF NoRequest, RequestFields
  <2>2. Begin(r, "delete_role", input) /\ UNCHANGED tables
    BY <1>13 DEF DeleteRole
  <2>. HIDE DEF input
  <2>3. Fits("delete_role", input)
    BY <2>1, <2>2 DEF Fits
  <2>. QED
    BY <2>2, <2>3, FittingBeginKeepsMInv
<1>14. ASSUME NEW u, CreateKey(r, u) PROVE MInv'
  <2>. DEFINE input == [NoRequest EXCEPT !.row = u.id]
  <2>1. DOMAIN input = RequestFields /\ input.crossed = FALSE
    BY DEF NoRequest, RequestFields
  <2>2. Begin(r, "create_key", input) /\ UNCHANGED tables
    BY <1>14 DEF CreateKey
  <2>. HIDE DEF input
  <2>3. Fits("create_key", input)
    BY <2>1, <2>2 DEF Fits
  <2>. QED
    BY <2>2, <2>3, FittingBeginKeepsMInv
<1>15. ASSUME NEW k, RevokeKey(r, k) PROVE MInv'
  <2>. DEFINE input == [NoRequest EXCEPT !.row = k.id]
  <2>1. DOMAIN input = RequestFields /\ input.crossed = FALSE
    BY DEF NoRequest, RequestFields
  <2>2. Begin(r, "revoke_key", input) /\ UNCHANGED tables
    BY <1>15 DEF RevokeKey
  <2>. HIDE DEF input
  <2>3. Fits("revoke_key", input)
    BY <2>1, <2>2 DEF Fits
  <2>. QED
    BY <2>2, <2>3, FittingBeginKeepsMInv
<1>. QED
  BY <1>1, <1>2, <1>3, <1>4, <1>5, <1>6, <1>7, <1>8, <1>9, <1>10, <1>11, <1>12, <1>13, <1>14, <1>15, <1>16

\* The steps of a sign-in before it writes, and mail that is sent again.
LEMMA LookupsKeepMInv ==
  ASSUME MInv, NEW r \in Requests
  PROVE  /\ \A n \in invitations : ResendInvitation(r, n) => MInv'
         /\ \A a : Acs(r, a) => MInv'
         /\ CallbackTakesState(r) => MInv'
         /\ \A e \in Emails : FindUser(r, e) => MInv'
<1>1. ASSUME NEW n \in invitations, ResendInvitation(r, n) PROVE MInv'
  <2>. DEFINE input == [NoRequest EXCEPT !.op = "resend", !.at = "mail", !.row = n.id]
  <2>1. req' = [q \in Requests |-> IF q = r THEN input ELSE req[q]] /\ UNCHANGED <<tables, scene>>
    BY <1>1 DEF ResendInvitation, MInv, RequestsAreSound
  <2>2. DOMAIN input = RequestFields /\ input.crossed = FALSE /\ input.op = "resend" /\ input.at = "mail"
    BY DEF NoRequest, RequestFields
  <2>. HIDE DEF input
  <2>3. RequestIsSound(input)
    BY <2>2 DEF RequestIsSound
  <2>. QED
    BY <2>1, <2>3, BeginKeepsMInv
<1>2. ASSUME NEW a, Acs(r, a) PROVE MInv'
  <2>. DEFINE input == [NoRequest EXCEPT !.op = "acs", !.at = "taken", !.account = a]
  <2>1. req' = [q \in Requests |-> IF q = r THEN input ELSE req[q]] /\ UNCHANGED <<tables, scene>>
    BY <1>2 DEF Acs, MInv, RequestsAreSound
  <2>2. DOMAIN input = RequestFields /\ input.crossed = FALSE /\ input.op = "acs" /\ input.at = "taken"
    BY DEF NoRequest, RequestFields
  <2>. HIDE DEF input
  <2>3. RequestIsSound(input)
    BY <2>2 DEF RequestIsSound
  <2>. QED
    BY <2>1, <2>3, BeginKeepsMInv
<1>3. ASSUME CallbackTakesState(r) PROVE MInv'
  <2>. DEFINE input == [req[r] EXCEPT !.at = "taken"]
  <2>1. req' = [q \in Requests |-> IF q = r THEN input ELSE req[q]] /\ UNCHANGED <<tables, scene>>
    BY <1>3 DEF CallbackTakesState, MInv, RequestsAreSound
  <2>2. RequestIsSound(req[r])
    BY DEF MInv, RequestsAreSound
  <2>3. /\ DOMAIN input = RequestFields /\ input.crossed = req[r].crossed /\ input.op = req[r].op
        /\ input.at = "taken" /\ input.row = req[r].row /\ input.account = req[r].account
        /\ input.email = req[r].email /\ input.name = req[r].name
    BY <2>2 DEF RequestIsSound, RequestFields
  <2>. HIDE DEF input
  <2>4. req[r].op = "callback"
    BY <1>3 DEF CallbackTakesState, At
  <2>5. RequestIsSound(input)
    BY <2>2, <2>3, <2>4 DEF RequestIsSound
  <2>. QED
    BY <2>1, <2>5, BeginKeepsMInv
<1>4. ASSUME NEW e \in Emails, FindUser(r, e) PROVE MInv'
  <2>. DEFINE input == [req[r] EXCEPT !.at = "found", !.email = e, !.code = NextCode, !.slug = FreeSlug,
                                      !.found = Cardinality(Known(e))]
  <2>1. req' = [q \in Requests |-> IF q = r THEN input ELSE req[q]] /\ UNCHANGED <<tables, scene>>
    BY <1>4 DEF FindUser, MInv, RequestsAreSound
  <2>2. RequestIsSound(req[r])
    BY DEF MInv, RequestsAreSound
  <2>3. /\ DOMAIN input = RequestFields /\ input.crossed = req[r].crossed /\ input.op = req[r].op
        /\ input.at = "found" /\ input.row = req[r].row /\ input.account = req[r].account
        /\ input.email = e /\ input.name = req[r].name /\ input.found = Cardinality(Known(e))
    BY <2>2 DEF RequestIsSound, RequestFields
  <2>. HIDE DEF input
  <2>4. IsFiniteSet(Known(e))
    BY FS_Subset DEF Known, MInv, TablesAreSound
  <2>5. input.found = 0 => Known(e) = {}
    BY <2>3, <2>4, FS_EmptySet
  <2>6. RequestIsSound(input)
    <3>1. req[r].op # "accept"
      BY <1>4, <2>2 DEF FindUser, RequestIsSound
    <3>. QED
      BY <2>2, <2>3, <2>5, <3>1 DEF RequestIsSound, Known
  <2>. QED
    BY <2>1, <2>6, BeginKeepsMInv
<1>. QED
  BY <1>1, <1>2, <1>3, <1>4

-----------------------------------------------------------------------------
(* Requests that insert users.                                              *)

LEMMA RoleIdOfAdmin == AdminIsBuiltIn /\ RoleId("admin") # Unset => RoleId("admin") = 0
BY DEF AdminIsBuiltIn, RoleId

\* A new identity: whoever else has it, or is about to insert it, is marked; or it was given.
IdentityIsMarked(r, u, cross) ==
  \/ u.external = NoEmail \/ "identity" \in u.byAdmin
  \/ /\ \A q \in Requests \ {r} :
          req[q].at = "found" /\ req[q].found = 0 /\ req[q].email = u.external => q \in cross /\ u.crossed = TRUE
     /\ \A v \in users : v.external = u.external => (v.crossed = TRUE /\ u.crossed = TRUE) \/ "identity" \in v.byAdmin

\* A request that has found nobody has seen to that.
LEMMA FoundIsMarked ==
  ASSUME MInv, NEW r \in Requests, req[r].at = "found", req[r].found = 0, NEW u,
         u.external = req[r].email, u.crossed = (req[r].crossed \/ SamePerson(r) # {})
  PROVE  IdentityIsMarked(r, u, SamePerson(r))
<1>1. RequestIsSound(req[r])
  BY DEF MInv, RequestsAreSound
<1>2. ASSUME NEW q \in Requests \ {r}, req[q].at = "found", req[q].found = 0, req[q].email = req[r].email
      PROVE  q \in SamePerson(r) /\ (req[r].crossed \/ SamePerson(r) # {}) = TRUE
  <2>1. q \in SamePerson(r)
    BY <1>2 DEF SamePerson
  <2>. QED
    BY <2>1
<1>3. ASSUME NEW v \in users, v.external = req[r].email, "identity" \notin v.byAdmin
      PROVE  v.crossed = TRUE /\ (req[r].crossed \/ SamePerson(r) # {}) = TRUE
  <2>1. v.crossed = TRUE /\ req[r].crossed = TRUE
    BY <1>1, <1>3 DEF RequestIsSound
  <2>. QED
    BY <2>1
<1>. QED
  BY <1>2, <1>3 DEF IdentityIsMarked

\* The users table after an insertion.
LEMMA InsertedUserIsSound ==
  ASSUME MInv, NEW r \in Requests, NEW u, users' = users \cup {u}, made' = made + 1, u.id = made + 1,
         UserIsSound(u, made + 1), NEW cross, IdentityIsMarked(r, u, cross)
  PROVE  /\ IsFiniteSet(users') /\ (\A v \in users : UserIsSound(v, made))'
         /\ made' \in Nat /\ HasIds(users)'
         /\ OneUserPerPerson'
<1>1. made \in Nat /\ HasIds(users) /\ IsFiniteSet(users) /\ \A v \in users : UserIsSound(v, made)
  BY DEF MInv, TablesAreSound
<1>2. IsFiniteSet(users')
  BY <1>1, FS_AddElement
<1>3. HasIds(users)'
  BY <1>1 DEF HasIds
<1>4. OneUserPerPerson'
  <2>0. \A v \in users' : v.crossed \in BOOLEAN
    BY <1>1 DEF UserIsSound
  <2>1. \A v, w \in users : v # w /\ v.external # NoEmail /\ v.external = w.external =>
          (v.crossed = TRUE /\ w.crossed = TRUE) \/ "identity" \in v.byAdmin \cup w.byAdmin
    BY <1>1 DEF MInv, OneUserPerPerson, UserIsSound
  <2>2. \A v, w \in users' : v # w /\ v.external # NoEmail /\ v.external = w.external =>
          (v.crossed = TRUE /\ w.crossed = TRUE) \/ "identity" \in v.byAdmin \cup w.byAdmin
    BY <2>1 DEF IdentityIsMarked
  <2>. QED
    BY <2>2 DEF OneUserPerPerson
<1>5. ASSUME NEW v \in users' PROVE UserIsSound(v, made')
  <2>1. CASE v \in users
    BY <1>1, <2>1 DEF UserIsSound
  <2>2. CASE v = u
    BY <2>2
  <2>. QED
    BY <2>1, <2>2
<1>. QED
  BY <1>1, <1>2, <1>3, <1>4, <1>5

\* The new user as the requests of the others see it.
LEMMA InsertedUserKeepsRequests ==
  ASSUME MInv, NEW r \in Requests, NEW u, users' = users \cup {u}, made' = made + 1,
         NEW cross, IdentityIsMarked(r, u, cross), EndsAnd(r, cross),
         \A n \in invitations' : \E m \in invitations : m.id = n.id /\ m.account = n.account /\ m.email = n.email
  PROVE  RequestsAreSound'
<1>1. made \in Nat /\ made' \in Nat /\ made <= made'
  BY DEF MInv, TablesAreSound
<1>2. \A v \in users' \ users :
        \/ v.external = NoEmail \/ "identity" \in v.byAdmin
        \/ \A q \in Requests \ {r} :
             req[q].at = "found" /\ req[q].found = 0 /\ req[q].email = v.external => q \in cross /\ v.crossed = TRUE
  BY DEF IdentityIsMarked
<1>3. \A n \in invitations' :
        \/ n.id = made + 1
        \/ \E m \in invitations : m.id = n.id /\ m.account = n.account /\ m.email = n.email
  OBVIOUS
<1>. QED
  BY <1>1, <1>2, <1>3, EndKeepsRequests

\* What the rows of invitations are after some of them were marked.
InvitationsAreKept ==
  /\ HasIds(invitations)' /\ \A n \in invitations' : DOMAIN n = InvitationFields
  /\ \A n \in invitations' : \E m \in invitations : m.id = n.id /\ m.account = n.account /\ m.email = n.email

\* A new user may have accepted an invitation, which was for them, and no other is newly accepted.
Invited(u) == \A n \in invitations : n.id = u.invited => n.account = u.account /\ n.email = u.email
AcceptedFor(u) ==
  \A n \in invitations' : n.accepted => n.id = u.invited \/ \E m \in invitations : m.accepted /\ m.id = n.id

LEMMA InsertedUserIsInvited ==
  ASSUME MInv, NEW u, users' = users \cup {u}, EmailIsFree(u.account, u.email),
         InvitationsAreKept, Invited(u), AcceptedFor(u)
  PROVE  InvitedAreSound'
<1>0. InvitedAreSound
  BY DEF MInv
<1>1. ASSUME NEW n \in invitations', n.accepted PROVE \E v \in users' : v.invited = n.id
  BY <1>0, <1>1 DEF AcceptedFor, InvitedAreSound, AcceptedLed
<1>2. ASSUME NEW n \in invitations', NEW v \in users', v.invited = n.id PROVE IsFor(v, n)
  <2>1. PICK m \in invitations : m.id = n.id /\ m.account = n.account /\ m.email = n.email
    BY DEF InvitationsAreKept
  <2>2. CASE v \in users
    BY <1>0, <1>2, <2>1, <2>2 DEF InvitedAreSound, LedWereInvited, IsFor
  <2>3. CASE v = u
    BY <1>2, <2>1, <2>3 DEF Invited, IsFor
  <2>. QED
    BY <2>2, <2>3
<1>3. \A n \in invitations' : n.id # 0
  BY <1>0 DEF InvitedAreSound, LedWereInvited, InvitationsAreKept
<1>4. EmailsDiffer'
  BY <1>0 DEF InvitedAreSound, EmailsDiffer, EmailIsFree
<1>. QED
  BY <1>1, <1>2, <1>3, <1>4 DEF InvitedAreSound, AcceptedLed, LedWereInvited

\* Unchanged invitations are kept, and so are those of which a row is marked.
LEMMA SameInvitationsAreKept == MInv /\ made' \in Nat /\ made <= made' /\ UNCHANGED invitations => InvitationsAreKept
BY DEF MInv, TablesAreSound, HasIds, InvitationsAreKept

\* Nobody was invited who was inserted otherwise.
LEMMA UninvitedFits == ASSUME MInv, NEW u, u.invited = 0, UNCHANGED invitations PROVE Invited(u) /\ AcceptedFor(u)
BY DEF MInv, InvitedAreSound, LedWereInvited, Invited, AcceptedFor

\* A new user in an account; an invitation may be marked that was for them.
LEMMA InsertKeepsMInv ==
  ASSUME MInv, NEW r \in Requests, NEW u, UserIsSound(u, made + 1), u.id = made + 1,
         NEW cross, InsertUser(u), EndsAnd(r, cross), UNCHANGED <<accounts, groups, members, roles>>,
         IdentityIsMarked(r, u, cross), InvitationsAreKept, Invited(u), AcceptedFor(u)
  PROVE  MInv'
<1>1. made' = made + 1 /\ users' = users \cup {u} /\ EmailIsFree(u.account, u.email)
  BY DEF InsertUser, MakesRows, NewId
<1>3. /\ IsFiniteSet(users') /\ (\A v \in users : UserIsSound(v, made))'
      /\ made' \in Nat /\ HasIds(users)' /\ OneUserPerPerson'
  BY <1>1, InsertedUserIsSound
<1>4. scene' = scene
  BY DEF EndsAnd
<1>5. HasIds(groups)'
  BY <1>1 DEF MInv, TablesAreSound, HasIds
<1>6. TablesAreSound'
  BY <1>1, <1>3, <1>5 DEF MInv, TablesAreSound, InvitationsAreKept
<1>7. AdminIsBuiltIn' /\ AccountsOfScene'
  BY <1>1, <1>4 DEF MInv, AdminIsBuiltIn, AccountsOfScene
<1>8. RequestsAreSound'
  BY <1>1, InsertedUserKeepsRequests DEF InvitationsAreKept
<1>9. InvitedAreSound'
  BY <1>1, InsertedUserIsInvited
<1>10. AccountHasAdmin'
  BY <1>1 DEF MInv, AccountHasAdmin
<1>. QED
  BY <1>3, <1>6, <1>7, <1>8, <1>9, <1>10 DEF MInv

\* What NewUser makes.
LEMMA NewUserIsSound ==
  ASSUME MInv, NEW a, a \in Nat, a <= made + 1, NEW e, NEW role, NEW external, NEW crossed \in BOOLEAN
  PROVE  /\ UserIsSound(NewUser(a, e, role, external, crossed), made + 1)
         /\ NewUser(a, e, role, external, crossed).id = made + 1
         /\ NewUser(a, e, role, external, crossed).account = a
         /\ NewUser(a, e, role, external, crossed).email = e
         /\ NewUser(a, e, role, external, crossed).role = role
         /\ NewUser(a, e, role, external, crossed).external = external
         /\ NewUser(a, e, role, external, crossed).crossed = crossed
         /\ NewUser(a, e, role, external, crossed).invited = 0
<1>. DEFINE u == NewUser(a, e, role, external, crossed)
<1>1. /\ DOMAIN u = UserFields /\ u.id = made + 1 /\ u.account = a /\ u.email = e /\ u.role = role
      /\ u.external = external /\ u.crossed = crossed /\ u.invited = 0
  BY DEF NewUser, NewId, UserFields
<1>. HIDE DEF u
<1>2. made \in Nat
  BY DEF MInv, TablesAreSound
<1>3. u.crossed \in BOOLEAN
  BY <1>1
<1>4. u.account \in Nat /\ u.account <= made + 1 /\ u.invited \in Nat /\ u.invited <= made + 1
  BY <1>1, <1>2
<1>5. UserIsSound(u, made + 1)
  BY <1>1, <1>3, <1>4 DEF UserIsSound
<1>. QED
  BY <1>1, <1>5 DEF u

\* A new account with its administrator.
LEMMA NewAccountKeepsMInv ==
  ASSUME MInv, NEW r \in Requests, NEW slug, NEW code, NEW origin, NEW e, NEW external, NEW crossed \in BOOLEAN,
         NEW cross, NewAccount(r, slug, code, origin, e, external, crossed), EndsAnd(r, cross),
         UNCHANGED <<invitations, roles>>,
         origin \in {"self", "oauth"} => scene \in {"register", "sso"},
         IdentityIsMarked(r, NewUser(NewId, e, RoleId("admin"), external, crossed), cross)
  PROVE  MInv'
<1>. DEFINE a == NewId
            u == NewUser(a, e, RoleId("admin"), external, crossed)
            g == [id |-> NewId, account |-> a, name |-> "pii_access"]
            acc == [id |-> a, slug |-> slug, code |-> code, origin |-> origin]
<1>1. /\ made' = made + 1 /\ users' = users \cup {u} /\ groups' = groups \cup {g}
      /\ members' = members \cup {<<u.id, g.id>>} /\ accounts' = accounts \cup {acc}
  BY DEF NewAccount, MakesRows, NewId
<1>2. /\ UserIsSound(u, made + 1) /\ u.id = made + 1 /\ u.account = a /\ u.email = e /\ u.role = 0 /\ u.invited = 0
      /\ IdentityIsMarked(r, u, cross)
  <2>1. RoleId("admin") = 0
    BY RoleIdOfAdmin DEF MInv, NewAccount
  <2>2. a \in Nat /\ a <= made + 1
    BY DEF NewId, MInv, TablesAreSound
  <2>. QED
    BY <2>1, <2>2, NewUserIsSound
<1>a. a = made + 1
  BY DEF NewId
<1>3. DOMAIN g = GroupFields /\ g.id = made + 1 /\ g.account = a /\ g.name = "pii_access"
  BY DEF GroupFields, NewId
<1>4. acc.origin = origin /\ acc.id = made + 1
  BY <1>a
<1>. HIDE DEF a, u, g, acc
<1>5. /\ IsFiniteSet(users') /\ (\A v \in users : UserIsSound(v, made))'
      /\ made' \in Nat /\ HasIds(users)' /\ OneUserPerPerson'
  BY <1>1, <1>2, InsertedUserIsSound
<1>6. scene' = scene
  BY DEF EndsAnd
<1>7. HasIds(groups)' /\ HasIds(invitations)'
  BY <1>1, <1>3 DEF MInv, TablesAreSound, HasIds
<1>8. TablesAreSound'
  <2>1. \A b \in accounts' : b.id \in Nat /\ b.id <= made'
    BY <1>1, <1>4, <1>a DEF MInv, TablesAreSound
  <2>. QED
    BY <1>1, <1>3, <1>5, <1>7, <2>1 DEF MInv, TablesAreSound
<1>9. AdminIsBuiltIn' /\ AccountsOfScene'
  BY <1>1, <1>4, <1>6 DEF MInv, AdminIsBuiltIn, AccountsOfScene
<1>10. RequestsAreSound'
  <2>1. \A n \in invitations' : \E m \in invitations : m.id = n.id /\ m.account = n.account /\ m.email = n.email
    OBVIOUS
  <2>. QED
    BY <1>1, <1>2, <2>1, InsertedUserKeepsRequests
<1>11. InvitedAreSound'
  <2>1. EmailIsFree(u.account, u.email)
    BY <1>2, <1>a DEF EmailIsFree, UserIsSound, MInv, TablesAreSound
  <2>2. InvitationsAreKept
    BY <1>1, <1>5, SameInvitationsAreKept DEF MInv, TablesAreSound
  <2>. QED
    BY <1>1, <1>2, <2>1, <2>2, UninvitedFits, InsertedUserIsInvited
<1>12. AccountHasAdmin'
  <2>1. ASSUME NEW b \in accounts, b.origin \in {"self", "oauth"}
        PROVE  \E v \in users' : /\ v.account = b.id /\ (v.role = 0 \/ "role" \in v.byAdmin)
                                 /\ \E h \in groups' : /\ h.account = b.id /\ h.name = "pii_access"
                                                       /\ <<v.id, h.id>> \in members'
    BY <1>1, <2>1 DEF MInv, AccountHasAdmin
  <2>2. \E v \in users' : /\ v.account = made + 1 /\ (v.role = 0 \/ "role" \in v.byAdmin)
                          /\ \E h \in groups' : /\ h.account = made + 1 /\ h.name = "pii_access"
                                                /\ <<v.id, h.id>> \in members'
    BY <1>1, <1>2, <1>3, <1>a
  <2>3. \A b \in accounts' : b \in accounts \/ b.id = made + 1
    BY <1>1, <1>4
  <2>4. ASSUME NEW b \in accounts', b.origin \in {"self", "oauth"}
        PROVE  \E v \in users' : /\ v.account = b.id /\ (v.role = 0 \/ "role" \in v.byAdmin)
                                 /\ \E h \in groups' : /\ h.account = b.id /\ h.name = "pii_access"
                                                       /\ <<v.id, h.id>> \in members'
    <3>1. CASE b \in accounts
      BY <2>1, <2>4, <3>1
    <3>2. CASE b.id = made + 1
      BY <2>2, <3>2
    <3>. QED
      BY <2>3, <3>1, <3>2
  <2>. QED
    BY <2>4 DEF AccountHasAdmin
<1>. QED
  BY <1>5, <1>8, <1>9, <1>10, <1>11, <1>12 DEF MInv

LEMMA MarkedInvitationsAreKept ==
  ASSUME MInv, made' \in Nat, made <= made', NEW mark, NEW row,
         \A n \in invitations' : \E m \in invitations : n = IF m.id = row THEN mark[m] ELSE m,
         \A n \in invitations : /\ DOMAIN mark[n] = InvitationFields /\ mark[n].id = n.id
                                /\ mark[n].account = n.account /\ mark[n].email = n.email
  PROVE  InvitationsAreKept
<1>1. /\ made \in Nat /\ HasIds(invitations)
      /\ \A n \in invitations : DOMAIN n = InvitationFields
  BY DEF MInv, TablesAreSound
<1>2. ASSUME NEW n \in invitations'
      PROVE  /\ DOMAIN n = InvitationFields
             /\ \E m \in invitations : /\ m.id = n.id /\ m.account = n.account /\ m.email = n.email
                                       /\ n = IF m.id = row THEN mark[m] ELSE m
  <2>1. PICK m \in invitations : n = IF m.id = row THEN mark[m] ELSE m
    OBVIOUS
  <2>. QED
    BY <1>1, <2>1
<1>3. \A n \in invitations' : n.id \in Nat /\ n.id <= made'
  BY <1>1, <1>2 DEF HasIds
<1>4. ASSUME NEW n \in invitations', NEW k \in invitations', n.id = k.id PROVE n = k
  <2>1. PICK m \in invitations : m.id = n.id /\ n = IF m.id = row THEN mark[m] ELSE m
    BY <1>2
  <2>2. PICK l \in invitations : l.id = k.id /\ k = IF l.id = row THEN mark[l] ELSE l
    BY <1>2
  <2>3. m = l
    BY <1>1, <1>4, <2>1, <2>2 DEF HasIds
  <2>. QED
    BY <2>1, <2>2, <2>3
<1>5. HasIds(invitations)'
  BY <1>3, <1>4 DEF HasIds
<1>. QED
  BY <1>2, <1>5 DEF InvitationsAreKept

\* The requests that commit a user.
LEMMA UsersAreInserted ==
  ASSUME MInv, NEW r \in Requests,
         \/ RegisterCommits(r) \/ RegisterInTenantCommits(r) \/ CreateUserCommits(r) \/ AcceptCommits(r)
         \/ NewUserSignsIn(r) \/ NewAccountSignsIn(r)
  PROVE  MInv'
<1>0. made \in Nat /\ (made' = made + 1 => made' \in Nat /\ made <= made')
  BY DEF MInv, TablesAreSound
<1>a. \A a : Has(accounts, a) => a \in Nat /\ a <= made + 1
  BY DEF Has, MInv, TablesAreSound
<1>n. \A u, cross : u.external = NoEmail => IdentityIsMarked(r, u, cross)
  BY DEF IdentityIsMarked
<1>s. RequestIsSound(req[r])
  BY DEF MInv, RequestsAreSound
<1>1. CASE RegisterCommits(r)
  <2>1. /\ NewAccount(r, req[r].slug, req[r].code, "self", req[r].email, NoEmail, FALSE)
        /\ EndsAnd(r, {}) /\ UNCHANGED <<invitations, roles>> /\ scene \in {"register", "sso"}
    BY <1>1, <1>s DEF RegisterCommits, At, RequestIsSound
  <2>2. IdentityIsMarked(r, NewUser(NewId, req[r].email, RoleId("admin"), NoEmail, FALSE), {})
    BY <1>n DEF NewUser
  <2>. QED
    BY <2>1, <2>2, NewAccountKeepsMInv
<1>2. ASSUME NEW u, UserIsSound(u, made + 1), u.id = made + 1, u.invited = 0,
             InsertUser(u), NEW cross, EndsAnd(r, cross), UNCHANGED <<accounts, groups, members, roles, invitations>>,
             IdentityIsMarked(r, u, cross)
      PROVE  MInv'
  <2>1. InvitationsAreKept
    BY <1>0, <1>2, SameInvitationsAreKept DEF InsertUser, MakesRows, NewId
  <2>2. Invited(u) /\ AcceptedFor(u)
    BY <1>2, UninvitedFits
  <2>. QED
    BY <1>2, <2>1, <2>2, InsertKeepsMInv
<1>3. CASE RegisterInTenantCommits(r)
  <2>. DEFINE no == FALSE
              u == NewUser(req[r].account, req[r].email, RoleId("user"), NoEmail, no)
  <2>1. InsertUser(u) /\ EndsAnd(r, {}) /\ UNCHANGED <<accounts, groups, members, roles, invitations>>
    BY <1>3 DEF RegisterInTenantCommits
  <2>b. no \in BOOLEAN
    OBVIOUS
  <2>. HIDE DEF no
  <2>2. Has(accounts, req[r].account)
    BY <2>1 DEF InsertUser, NewUser
  <2>a. req[r].account \in Nat /\ req[r].account <= made + 1
    BY <1>a, <2>2
  <2>3. UserIsSound(u, made + 1) /\ u.id = made + 1 /\ u.invited = 0 /\ u.external = NoEmail
    BY <2>a, <2>b, NewUserIsSound
  <2>. HIDE DEF u
  <2>. QED
    BY <1>2, <1>n, <2>1, <2>3
<1>4. CASE CreateUserCommits(r)
  <2>. DEFINE no == FALSE
              fresh == NewUser(req[r].account, req[r].email, req[r].role, req[r].external, no)
              u == [fresh EXCEPT !.byAdmin = IF fresh.external = NoEmail THEN {} ELSE {"identity"}]
  <2>1. InsertUser(u) /\ EndsAnd(r, {}) /\ UNCHANGED <<accounts, groups, members, roles, invitations>>
    BY <1>4 DEF CreateUserCommits
  <2>b. no \in BOOLEAN
    OBVIOUS
  <2>. HIDE DEF no
  <2>2. Has(accounts, req[r].account)
    BY <2>1 DEF InsertUser, NewUser
  <2>a. req[r].account \in Nat /\ req[r].account <= made + 1
    BY <1>a, <2>2
  <2>3. UserIsSound(fresh, made + 1) /\ fresh.id = made + 1 /\ fresh.invited = 0
    BY <2>a, <2>b, NewUserIsSound
  <2>. HIDE DEF fresh
  <2>4. /\ DOMAIN u = UserFields /\ u.id = fresh.id /\ u.account = fresh.account /\ u.invited = fresh.invited
        /\ u.crossed = fresh.crossed /\ u.external = fresh.external
        /\ u.byAdmin = IF fresh.external = NoEmail THEN {} ELSE {"identity"}
    BY <2>3 DEF UserIsSound, UserFields
  <2>. HIDE DEF u
  <2>5. UserIsSound(u, made + 1) /\ u.id = made + 1 /\ u.invited = 0
    BY <2>3, <2>4 DEF UserIsSound
  <2>6. IdentityIsMarked(r, u, {})
    BY <2>4 DEF IdentityIsMarked
  <2>. QED
    BY <1>2, <2>1, <2>5, <2>6
<1>5. CASE AcceptCommits(r)
  <2>. DEFINE mark == [n \in invitations |-> [n EXCEPT !.accepted = TRUE]]
              no == FALSE
              plain == NewUser(req[r].account, req[r].email, RoleId("user"), NoEmail, no)
              u == [plain EXCEPT !.invited = req[r].row]
  <2>1. /\ InsertUser(u) /\ EndsAnd(r, {}) /\ UNCHANGED <<accounts, groups, members, roles>>
        /\ invitations' = {IF n.id = req[r].row THEN mark[n] ELSE n : n \in invitations}
    BY <1>5 DEF AcceptCommits
  <2>b. no \in BOOLEAN
    OBVIOUS
  <2>. HIDE DEF no
  <2>2. \A n \in invitations : DOMAIN n = InvitationFields
    BY DEF MInv, TablesAreSound
  <2>3. \A n \in invitations : /\ DOMAIN mark[n] = InvitationFields /\ mark[n].id = n.id
                               /\ mark[n].account = n.account /\ mark[n].email = n.email
    BY <2>2 DEF InvitationFields
  <2>. HIDE DEF mark
  <2>4. made' \in Nat /\ made <= made'
    BY <1>0, <2>1 DEF InsertUser, MakesRows, NewId
  <2>r. \A n \in invitations' : \E m \in invitations : n = IF m.id = req[r].row THEN mark[m] ELSE m
    BY <2>1
  <2>5. InvitationsAreKept
    BY <2>r, <2>3, <2>4, MarkedInvitationsAreKept
  <2>6. /\ req[r].row \in Nat /\ req[r].row <= made
        /\ \A n \in invitations : n.id = req[r].row => n.account = req[r].account /\ n.email = req[r].email
    BY <1>5, <1>s DEF AcceptCommits, At, RequestIsSound
  <2>7. Has(accounts, req[r].account)
    BY <2>1 DEF InsertUser, NewUser
  <2>a. req[r].account \in Nat /\ req[r].account <= made + 1
    BY <1>a, <2>7
  <2>8. /\ UserIsSound(plain, made + 1) /\ plain.id = made + 1 /\ plain.external = NoEmail
        /\ plain.account = req[r].account /\ plain.email = req[r].email
    BY <2>a, <2>b, NewUserIsSound
  <2>. HIDE DEF plain
  <2>9. /\ DOMAIN u = UserFields /\ u.id = made + 1 /\ u.external = NoEmail /\ u.invited = req[r].row
        /\ u.account = req[r].account /\ u.email = req[r].email /\ u.crossed = plain.crossed
    BY <2>8 DEF UserIsSound, UserFields
  <2>. HIDE DEF u
  <2>10. UserIsSound(u, made + 1)
    BY <1>0, <2>6, <2>8, <2>9 DEF UserIsSound
  <2>11. Invited(u)
    BY <2>6, <2>9 DEF Invited
  <2>12. ASSUME NEW n \in invitations', n.accepted
         PROVE  n.id = u.invited \/ \E m \in invitations : m.accepted /\ m.id = n.id
    <3>1. PICK m \in invitations : n = IF m.id = req[r].row THEN mark[m] ELSE m
      BY <2>1
    <3>. QED
      BY <2>3, <2>9, <2>12, <3>1
  <2>13. AcceptedFor(u)
    BY <2>12 DEF AcceptedFor
  <2>14. IdentityIsMarked(r, u, {})
    BY <1>n, <2>9
  <2>. QED
    BY <2>1, <2>5, <2>9, <2>10, <2>11, <2>13, <2>14, InsertKeepsMInv
<1>6. CASE NewUserSignsIn(r)
  <2>. DEFINE crossed == req[r].crossed \/ SamePerson(r) # {}
  <2>1. /\ req[r].at = "found" /\ req[r].found = 0
        /\ EndsAnd(r, SamePerson(r)) /\ UNCHANGED <<accounts, groups, members, roles, invitations>>
        /\ \E a, role : InsertUser(NewUser(a, req[r].email, role, req[r].email, crossed))
    BY <1>6 DEF NewUserSignsIn
  <2>2. PICK a, role : InsertUser(NewUser(a, req[r].email, role, req[r].email, crossed))
    BY <2>1
  <2>. DEFINE u == NewUser(a, req[r].email, role, req[r].email, crossed)
  <2>3. crossed \in BOOLEAN
    OBVIOUS
  <2>4. crossed = (req[r].crossed \/ SamePerson(r) # {})
    OBVIOUS
  <2>. HIDE DEF crossed
  <2>5. Has(accounts, a)
    BY <2>2 DEF InsertUser, NewUser
  <2>6. UserIsSound(u, made + 1) /\ u.id = made + 1 /\ u.invited = 0 /\ u.external = req[r].email /\ u.crossed = crossed
    BY <1>a, <2>3, <2>5, NewUserIsSound
  <2>7. InsertUser(u)
    BY <2>2
  <2>. HIDE DEF u
  <2>8. IdentityIsMarked(r, u, SamePerson(r))
    BY <2>1, <2>4, <2>6, FoundIsMarked
  <2>. QED
    BY <1>2, <2>1, <2>6, <2>7, <2>8
<1>7. CASE NewAccountSignsIn(r)
  <2>. DEFINE crossed == req[r].crossed \/ SamePerson(r) # {}
  <2>1. /\ req[r].at = "found" /\ req[r].found = 0 /\ req[r].op = "callback"
        /\ EndsAnd(r, SamePerson(r)) /\ UNCHANGED <<roles, invitations>>
        /\ NewAccount(r, req[r].slug, req[r].code, "oauth", req[r].email, req[r].email, crossed)
    BY <1>7 DEF NewAccountSignsIn
  <2>. DEFINE u == NewUser(NewId, req[r].email, RoleId("admin"), req[r].email, crossed)
  <2>2. u.external = req[r].email /\ u.crossed = (req[r].crossed \/ SamePerson(r) # {})
    BY DEF NewUser
  <2>. HIDE DEF u
  <2>3. IdentityIsMarked(r, u, SamePerson(r))
    BY <2>1, <2>2, FoundIsMarked
  <2>4. crossed \in BOOLEAN /\ scene \in {"register", "sso"}
    BY <1>s, <2>1 DEF RequestIsSound
  <2>. HIDE DEF crossed
  <2>. QED
    BY <2>1, <2>3, <2>4, NewAccountKeepsMInv DEF u
<1>. QED
  BY <1>1, <1>3, <1>4, <1>5, <1>6, <1>7

-----------------------------------------------------------------------------
(* All other steps.                                                         *)

\* Steps that insert no user and no invitation.
LEMMA RequestsStaySound ==
  ASSUME MInv, NEW r \in Requests, EndsAnd(r, {}) \/ UNCHANGED <<req, scene>>,
         users' \subseteq users, made' \in Nat, made <= made',
         \A n \in invitations' : \E m \in invitations : m.id = n.id /\ m.account = n.account /\ m.email = n.email
  PROVE  RequestsAreSound'
<1>1. CASE EndsAnd(r, {})
  BY <1>1, EndKeepsRequests
<1>2. CASE UNCHANGED <<req, scene>>
  <2>0. made \in Nat
    BY DEF MInv, TablesAreSound
  <2>1. ASSUME NEW q \in Requests PROVE RequestIsSound(req[q])'
    <3>1. RequestIsSound(req[q]) /\ req'[q] = req[q] /\ scene' = scene
      BY <1>2 DEF MInv, RequestsAreSound
    <3>2. req[q].op = "accept" => req[q].row \in Nat /\ req[q].row <= made'
      BY <2>0, <3>1 DEF RequestIsSound
    <3>3. ASSUME req[q].op = "accept", NEW n \in invitations', n.id = req[q].row
          PROVE  n.account = req[q].account /\ n.email = req[q].email
      BY <3>1, <3>3 DEF RequestIsSound
    <3>. QED
      BY <3>1, <3>2, <3>3 DEF RequestIsSound
  <2>. QED
    BY <1>2, <2>1 DEF RequestsAreSound, MInv
<1>. QED
  BY <1>1, <1>2

LEMMA MadeGrows == MInv /\ (MakesRows \/ UNCHANGED made) => made' \in Nat /\ made <= made'
BY DEF MInv, TablesAreSound, MakesRows, NewId

\* A superadmin edits a user, who stays the one they were but for the columns that are changed.
LEMMA UpdateUserKeepsMInv ==
  ASSUME MInv, NEW r \in Requests, UpdateUserCommits(r)
  PROVE  MInv'
<1>. DEFINE x == req[r]
<1>1. PICK u \in users : /\ x.email \in {NoEmail, u.email} \/ EmailIsFree(u.account, x.email)
                         /\ users' = (users \ {u}) \cup {Updated(u, x)}
  BY DEF UpdateUserCommits
<1>2. /\ UNCHANGED <<accounts, invitations, groups, members, roles, made, scene>> /\ EndsAnd(r, {})
  BY DEF UpdateUserCommits, EndsAnd
<1>. DEFINE w == Updated(u, x)
<1>3. /\ TablesAreSound /\ InvitedAreSound /\ made \in Nat /\ DOMAIN u = UserFields
      /\ u.crossed \in BOOLEAN /\ UserIsSound(u, made)
  BY DEF MInv, TablesAreSound, UserIsSound
<1>4. /\ DOMAIN w = UserFields /\ w.id = u.id /\ w.account = u.account /\ w.crossed = u.crossed
      /\ w.invited = u.invited /\ u.byAdmin \subseteq w.byAdmin
      /\ w.email = IF x.email = NoEmail THEN u.email ELSE x.email
      /\ w.role = IF x.role = Unset THEN u.role ELSE x.role
      /\ w.external = IF x.external = NoEmail THEN u.external ELSE x.external
      /\ w.byAdmin = u.byAdmin \cup Columns(x)
  BY <1>3 DEF Updated, UserFields
<1>5. /\ w.email # u.email => "email" \in w.byAdmin
      /\ w.role # u.role => "role" \in w.byAdmin
      /\ w.external # u.external => "identity" \in w.byAdmin
  BY <1>4 DEF Columns
<1>6. w.email = u.email \/ EmailIsFree(u.account, w.email)
  BY <1>1, <1>4
<1>7. users' = (users \ {u}) \cup {w}
  BY <1>1
<1>. HIDE DEF w, x
<1>8. /\ IsFiniteSet(users') /\ HasIds(users)' /\ \A v \in users' : UserIsSound(v, made)
  <2>1. IsFiniteSet(users \ {u})
    BY <1>3, FS_Subset DEF TablesAreSound
  <2>2. IsFiniteSet(users')
    BY <1>7, <2>1, FS_AddElement
  <2>3. HasIds(users)'
    BY <1>2, <1>3, <1>4, <1>7 DEF TablesAreSound, HasIds
  <2>4. UserIsSound(w, made)
    BY <1>3, <1>4 DEF UserIsSound
  <2>5. \A v \in users : UserIsSound(v, made)
    BY <1>3 DEF TablesAreSound
  <2>. QED
    BY <1>7, <2>2, <2>3, <2>4, <2>5
<1>9. TablesAreSound'
  BY <1>2, <1>3, <1>8 DEF TablesAreSound, HasIds
<1>10. AdminIsBuiltIn' /\ AccountsOfScene'
  BY <1>2 DEF MInv, AdminIsBuiltIn, AccountsOfScene
<1>11. InvitedAreSound'
  <2>1. AcceptedLed'
    BY <1>2, <1>3, <1>4, <1>7 DEF InvitedAreSound, AcceptedLed
  <2>2. LedWereInvited'
    BY <1>2, <1>3, <1>4, <1>5, <1>7 DEF InvitedAreSound, LedWereInvited, IsFor
  <2>3. EmailsDiffer'
    <3>1. \A v \in users : v # u => ~(v.account = w.account /\ v.email = w.email)
      BY <1>3, <1>4, <1>6 DEF InvitedAreSound, EmailsDiffer, EmailIsFree
    <3>. QED
      BY <1>3, <1>7, <3>1 DEF InvitedAreSound, EmailsDiffer
  <2>. QED
    BY <2>1, <2>2, <2>3 DEF InvitedAreSound
<1>12. OneUserPerPerson'
  <2>1. \A v \in users : v.crossed \in BOOLEAN
    BY <1>3 DEF TablesAreSound, UserIsSound
  <2>2. \A v, z \in users : v # z /\ v.external # NoEmail /\ v.external = z.external =>
          (v.crossed = TRUE /\ z.crossed = TRUE) \/ "identity" \in v.byAdmin \cup z.byAdmin
    BY <2>1 DEF MInv, OneUserPerPerson
  <2>3. ASSUME NEW v \in users, v # u, w.external # NoEmail, v.external = w.external
        PROVE  (v.crossed = TRUE /\ w.crossed = TRUE) \/ "identity" \in v.byAdmin \cup w.byAdmin
    <3>1. CASE w.external # u.external
      BY <1>5, <3>1
    <3>2. CASE w.external = u.external
      BY <1>4, <2>2, <2>3, <3>2
    <3>. QED
      BY <3>1, <3>2
  <2>4. \A v, z \in users' : v # z /\ v.external # NoEmail /\ v.external = z.external =>
          (v.crossed = TRUE /\ z.crossed = TRUE) \/ "identity" \in v.byAdmin \cup z.byAdmin
    BY <1>7, <2>2, <2>3
  <2>. QED
    BY <2>4 DEF OneUserPerPerson
<1>13. AccountHasAdmin'
  <2>1. ASSUME NEW a \in accounts, a.origin \in {"self", "oauth"}
        PROVE  \E v \in users' : /\ v.account = a.id /\ (v.role = 0 \/ "role" \in v.byAdmin)
                                 /\ \E g \in groups : /\ g.account = a.id /\ g.name = "pii_access"
                                                      /\ <<v.id, g.id>> \in members
    <3>1. PICK v \in users : /\ v.account = a.id /\ (v.role = 0 \/ "role" \in v.byAdmin)
                             /\ \E g \in groups : /\ g.account = a.id /\ g.name = "pii_access"
                                                  /\ <<v.id, g.id>> \in members
      BY <2>1 DEF MInv, AccountHasAdmin
    <3>2. CASE v # u
      BY <1>7, <3>1, <3>2
    <3>3. CASE v = u
      <4>1. w.role = 0 \/ "role" \in w.byAdmin
        BY <1>4, <1>5, <3>1, <3>3
      <4>2. /\ w.account = a.id
            /\ \E g \in groups : g.account = a.id /\ g.name = "pii_access" /\ <<w.id, g.id>> \in members
        BY <1>4, <3>1, <3>3
      <4>3. w \in users'
        BY <1>7
      <4>. QED
        BY <4>1, <4>2, <4>3
    <3>. QED
      BY <3>2, <3>3
  <2>. QED
    BY <1>2, <2>1 DEF AccountHasAdmin
<1>14. RequestsAreSound'
  <2>1. \A v \in users' \ users :
          \/ "identity" \in v.byAdmin
          \/ \E z \in users : z.external = v.external /\ z.crossed = v.crossed /\ "identity" \notin z.byAdmin
    BY <1>4, <1>5, <1>7
  <2>2. \A n \in invitations' : \E m \in invitations : m.id = n.id /\ m.account = n.account /\ m.email = n.email
    BY <1>2
  <2>3. made' \in Nat /\ made <= made'
    BY <1>2, <1>3
  <2>. QED
    BY <1>2, <2>1, <2>2, <2>3, EndKeepsRequests
<1>. QED
  BY <1>9, <1>10, <1>11, <1>12, <1>13, <1>14 DEF MInv

\* States, keys and requests that fail are of no consequence to the other tables; roles change
\* but for the one that is built in.
LEMMA QuietStepsKeepMInv ==
  ASSUME MInv, NEW r \in Requests,
         \/ \E a : Authorize(r, a)
         \/ \E s : StateExpires(r, s)
         \/ KnownUserSignsIn(r) \/ CreateKeyCommits(r) \/ RevokeKeyCommits(r) \/ Fails(r)
         \/ CreateRoleCommits(r) \/ UpdateRoleCommits(r) \/ DeleteRoleCommits(r)
  PROVE  MInv'
<1>1. /\ UNCHANGED <<accounts, users, invitations, groups, members>>
      /\ EndsAnd(r, {}) \/ UNCHANGED <<req, scene>>
      /\ MakesRows \/ UNCHANGED made
  BY DEF Authorize, StateExpires, KnownUserSignsIn, CreateKeyCommits, RevokeKeyCommits, Fails, tables,
         CreateRoleCommits, UpdateRoleCommits, DeleteRoleCommits
<1>2. made \in Nat /\ made' \in Nat /\ made <= made' /\ scene' = scene
  BY <1>1, MadeGrows DEF EndsAnd, MInv, TablesAreSound
<1>3. (\A x \in roles' : DOMAIN x = {"id", "name"}) /\ AdminIsBuiltIn'
  <2>0. (\A x \in roles : DOMAIN x = {"id", "name"}) /\ AdminIsBuiltIn
    BY DEF MInv, TablesAreSound
  <2>s. RequestIsSound(req[r])
    BY DEF MInv, RequestsAreSound
  <2>1. CASE CreateRoleCommits(r)
    <3>1. req[r].name \in Names /\ roles' = roles \cup {[id |-> NewId, name |-> req[r].name]}
      BY <2>1, <2>s DEF CreateRoleCommits, At, RequestIsSound
    <3>2. req[r].name # "admin"
      BY <3>1
    <3>. QED
      BY <2>0, <3>1, <3>2 DEF AdminIsBuiltIn
  <2>2. CASE UpdateRoleCommits(r)
    <3>1. /\ req[r].name \in Names
          /\ roles' = {IF x.id = req[r].row THEN [x EXCEPT !.name = req[r].name] ELSE x : x \in roles}
      BY <2>2, <2>s DEF UpdateRoleCommits, At, RequestIsSound
    <3>2. req[r].name # "admin"
      BY <3>1
    <3>3. ASSUME NEW x \in roles' PROVE DOMAIN x = {"id", "name"} /\ (x.name = "admin" => x.id = 0)
      <4>1. PICK y \in roles : x = IF y.id = req[r].row THEN [y EXCEPT !.name = req[r].name] ELSE y
        BY <3>1
      <4>2. CASE y.id = req[r].row
        <5>1. x = [y EXCEPT !.name = req[r].name] /\ DOMAIN y = {"id", "name"}
          BY <2>0, <4>1, <4>2
        <5>. QED
          BY <3>2, <5>1
      <4>3. CASE y.id # req[r].row
        BY <2>0, <4>1, <4>3 DEF AdminIsBuiltIn
      <4>. QED
        BY <4>2, <4>3
    <3>. QED
      BY <3>3 DEF AdminIsBuiltIn
  <2>3. CASE DeleteRoleCommits(r)
    BY <2>0, <2>3 DEF DeleteRoleCommits, AdminIsBuiltIn
  <2>4. CASE roles' = roles
    BY <2>0, <2>4 DEF AdminIsBuiltIn
  <2>5. \/ CreateRoleCommits(r) \/ UpdateRoleCommits(r) \/ DeleteRoleCommits(r) \/ roles' = roles
    BY DEF Authorize, StateExpires, KnownUserSignsIn, CreateKeyCommits, RevokeKeyCommits, Fails, tables
  <2>. QED
    BY <2>1, <2>2, <2>3, <2>4, <2>5
<1>4. TablesAreSound'
  BY <1>1, <1>2, <1>3 DEF MInv, TablesAreSound, UserIsSound, HasIds
<1>5. AccountsOfScene' /\ InvitedAreSound' /\ OneUserPerPerson' /\ AccountHasAdmin'
  BY <1>1, <1>2, SameRowsAreSound DEF MInv, AccountsOfScene, OneUserPerPerson, AccountHasAdmin
<1>6. RequestsAreSound'
  <2>1. users' \subseteq users
    BY <1>1
  <2>2. \A n \in invitations' : \E m \in invitations : m.id = n.id /\ m.account = n.account /\ m.email = n.email
    BY <1>1
  <2>. QED
    BY <1>1, <1>2, <2>1, <2>2, RequestsStaySound
<1>. QED
  BY <1>3, <1>4, <1>5, <1>6 DEF MInv

\* Invitations that are mailed or withdrawn.
LEMMA InvitationStepsKeepMInv ==
  ASSUME MInv, NEW r \in Requests, InvitationIsMailed(r) \/ \E n : CancelInvitation(r, n)
  PROVE  MInv'
<1>0. /\ UNCHANGED <<accounts, users, groups, members, roles, made, scene>> /\ made \in Nat
      /\ EndsAnd(r, {}) \/ UNCHANGED <<req, scene>>
  BY DEF InvitationIsMailed, CancelInvitation, EndsAnd, MInv, TablesAreSound
<1>m. made' \in Nat /\ made <= made'
  BY <1>0
<1>1. InvitationsAreKept /\ \A n \in invitations' : n.accepted => \E m \in invitations : m.accepted /\ m.id = n.id
  <2>1. CASE InvitationIsMailed(r)
    <3>. DEFINE mark == [n \in invitations |-> [n EXCEPT !.sent = TRUE]]
    <3>1. invitations' = {IF n.id = req[r].row THEN mark[n] ELSE n : n \in invitations}
      BY <2>1 DEF InvitationIsMailed
    <3>2. \A n \in invitations : DOMAIN n = InvitationFields
      BY DEF MInv, TablesAreSound
    <3>3. \A n \in invitations : /\ DOMAIN mark[n] = InvitationFields /\ mark[n].id = n.id
                                 /\ mark[n].account = n.account /\ mark[n].email = n.email
      BY <3>2 DEF InvitationFields
    <3>4. \A n \in invitations : mark[n].accepted = n.accepted
      BY <3>2 DEF InvitationFields
    <3>. HIDE DEF mark
    <3>r. \A n \in invitations' : \E m \in invitations : n = IF m.id = req[r].row THEN mark[m] ELSE m
      BY <3>1
    <3>5. InvitationsAreKept
      BY <1>m, <3>3, <3>r, MarkedInvitationsAreKept, SMTT(30)
    <3>6. ASSUME NEW n \in invitations', n.accepted PROVE \E m \in invitations : m.accepted /\ m.id = n.id
      <4>1. PICK m \in invitations : n = IF m.id = req[r].row THEN mark[m] ELSE m
        BY <3>1
      <4>. QED
        BY <3>3, <3>4, <3>6, <4>1
    <3>. QED
      BY <3>5, <3>6
  <2>2. CASE \E n : CancelInvitation(r, n)
    <3>1. invitations' \subseteq invitations
      BY <2>2 DEF CancelInvitation
    <3>. QED
      BY <1>0, <3>1 DEF InvitationsAreKept, MInv, TablesAreSound, HasIds
  <2>. QED
    BY <2>1, <2>2
<1>2. InvitedAreSound'
  <2>0. InvitedAreSound
    BY DEF MInv
  <2>1. AcceptedLed' /\ EmailsDiffer'
    BY <1>0, <1>1, <2>0 DEF InvitedAreSound, AcceptedLed, EmailsDiffer
  <2>2. LedWereInvited'
    BY <1>0, <1>1, <2>0 DEF InvitedAreSound, LedWereInvited, IsFor, InvitationsAreKept
  <2>. QED
    BY <2>1, <2>2 DEF InvitedAreSound
<1>3. TablesAreSound'
  BY <1>0, <1>1 DEF MInv, TablesAreSound, HasIds, InvitationsAreKept
<1>4. AdminIsBuiltIn' /\ AccountsOfScene' /\ OneUserPerPerson' /\ AccountHasAdmin'
  BY <1>0 DEF MInv, AdminIsBuiltIn, AccountsOfScene, OneUserPerPerson, AccountHasAdmin
<1>5. RequestsAreSound'
  BY <1>0, <1>1, RequestsStaySound DEF InvitationsAreKept
<1>. QED
  BY <1>2, <1>3, <1>4, <1>5 DEF MInv

LEMMA CreateInvitationKeepsMInv ==
  ASSUME MInv, NEW r \in Requests, CreateInvitationCommits(r)
  PROVE  MInv'
<1>. DEFINE n == [id |-> NewId, account |-> req[r].account, email |-> req[r].email, accepted |-> FALSE,
                  sent |-> FALSE, crossed |-> req[r].crossed \/ SameInvitation(r) # {}]
<1>0. /\ UNCHANGED <<accounts, users, groups, members, roles, scene>>
      /\ made \in Nat /\ made' = made + 1
      /\ invitations' = invitations \cup {n}
  BY DEF CreateInvitationCommits, MakesRows, NewId, MInv, TablesAreSound
<1>1. DOMAIN n = InvitationFields /\ n.id = made + 1 /\ n.accepted = FALSE
  BY DEF InvitationFields, NewId
<1>. HIDE DEF n
<1>2. TablesAreSound'
  <2>1. HasIds(invitations)'
    BY <1>0, <1>1 DEF MInv, TablesAreSound, HasIds
  <2>. QED
    BY <1>0, <1>1, <2>1 DEF MInv, TablesAreSound, UserIsSound, HasIds
<1>3. InvitedAreSound'
  <2>0. InvitedAreSound /\ \A u \in users : u.invited \in Nat /\ u.invited <= made
    BY DEF MInv, TablesAreSound, UserIsSound
  <2>1. AcceptedLed' /\ EmailsDiffer'
    BY <1>0, <1>1, <2>0 DEF InvitedAreSound, AcceptedLed, EmailsDiffer
  <2>2. LedWereInvited'
    BY <1>0, <1>1, <2>0 DEF InvitedAreSound, LedWereInvited, IsFor
  <2>. QED
    BY <2>1, <2>2 DEF InvitedAreSound
<1>4. AdminIsBuiltIn' /\ AccountsOfScene' /\ OneUserPerPerson' /\ AccountHasAdmin'
  BY <1>0 DEF MInv, AdminIsBuiltIn, AccountsOfScene, OneUserPerPerson, AccountHasAdmin
<1>5. req' = [q \in Requests |-> req'[q]]
  BY DEF CreateInvitationCommits
<1>6. ASSUME NEW q \in Requests PROVE RequestIsSound(req[q])'
  <2>1. RequestIsSound(req[q]) /\ \A m \in invitations : m.id \in Nat /\ m.id <= made
    BY DEF MInv, RequestsAreSound, TablesAreSound, HasIds
  <2>2. /\ DOMAIN req'[q] = RequestFields /\ req'[q].crossed \in BOOLEAN
        /\ req[q].crossed = TRUE => req'[q].crossed = TRUE
        /\ req'[q].op = req[q].op /\ req'[q].name = req[q].name /\ req'[q].email = req[q].email
        /\ req'[q].account = req[q].account /\ req'[q].found = req[q].found
        /\ \/ req'[q].at = req[q].at /\ req'[q].row = req[q].row
           \/ req'[q].at = "mail" /\ req[q].op = "invite"
    <3>0. DOMAIN req[q] = RequestFields /\ req[q].crossed \in BOOLEAN
      BY <2>1 DEF RequestIsSound
    <3>1. CASE q = r
      <4>1. req'[q] = [req[q] EXCEPT !.at = "mail", !.row = NewId] /\ req[q].op = "invite"
        BY <3>1 DEF CreateInvitationCommits, At
      <4>. QED
        BY <3>0, <4>1 DEF RequestFields
    <3>2. CASE q # r
      <4>1. req'[q] = [req[q] EXCEPT !.crossed = @ \/ q \in SameInvitation(r)]
        BY <3>2 DEF CreateInvitationCommits
      <4>2. /\ DOMAIN req'[q] = RequestFields
            /\ req'[q].op = req[q].op /\ req'[q].name = req[q].name /\ req'[q].email = req[q].email
            /\ req'[q].account = req[q].account /\ req'[q].found = req[q].found
            /\ req'[q].at = req[q].at /\ req'[q].row = req[q].row
        BY <3>0, <4>1 DEF RequestFields
      <4>3. req'[q].crossed = (req[q].crossed \/ q \in SameInvitation(r))
        BY <3>0, <4>1 DEF RequestFields
      <4>4. req'[q].crossed \in BOOLEAN /\ (req[q].crossed = TRUE => req'[q].crossed = TRUE)
        BY <3>0, <4>3
      <4>. QED
        BY <4>2, <4>4
    <3>. QED
      BY <3>1, <3>2
  <2>3. req[q].op = "accept" =>
          /\ req'[q].at = "read" /\ req'[q].row \in Nat /\ req'[q].row <= made'
          /\ \A m \in invitations' : m.id = req'[q].row => m.account = req'[q].account /\ m.email = req'[q].email
    BY <1>0, <1>1, <2>1, <2>2 DEF RequestIsSound
  <2>4. req'[q].at = "found" =>
          /\ req'[q].email \in Emails
          /\ req'[q].found = 0 => \A u \in users' : u.external = req'[q].email =>
               (u.crossed = TRUE /\ req'[q].crossed = TRUE) \/ "identity" \in u.byAdmin
    BY <1>0, <2>1, <2>2 DEF RequestIsSound
  <2>. QED
    BY <1>0, <2>1, <2>2, <2>3, <2>4 DEF RequestIsSound
<1>7. RequestsAreSound'
  BY <1>5, <1>6 DEF RequestsAreSound
<1>. QED
  BY <1>2, <1>3, <1>4, <1>7 DEF MInv

\* Groups are edited in behaviours whose accounts AccountHasAdmin says nothing about.
LEMMA GroupStepsKeepMInv ==
  ASSUME MInv, NEW r \in Requests,
         \/ CreateGroupCommits(r) \/ UpdateGroupCommits(r) \/ AddUserToGroupCommits(r)
         \/ \E g : DeleteGroup(r, g)
         \/ \E g, u : RemoveUserFromGroup(r, g, u)
  PROVE  MInv'
<1>1. /\ UNCHANGED <<accounts, users, invitations, roles>>
      /\ EndsAnd(r, {}) \/ UNCHANGED <<req, scene>>
      /\ MakesRows \/ UNCHANGED made
  BY DEF CreateGroupCommits, UpdateGroupCommits, AddUserToGroupCommits, DeleteGroup, RemoveUserFromGroup
<1>2. made \in Nat /\ made' \in Nat /\ made <= made' /\ scene' = scene
  BY <1>1, MadeGrows DEF EndsAnd, MInv, TablesAreSound
<1>3. HasIds(groups) /\ (\A g \in groups : DOMAIN g = GroupFields)
  BY DEF MInv, TablesAreSound
<1>s. RequestIsSound(req[r])
  BY DEF MInv, RequestsAreSound
<1>4. HasIds(groups)' /\ (\A g \in groups' : DOMAIN g = GroupFields) /\ AccountHasAdmin'
  <2>0. scene = "groups" => AccountHasAdmin'
    BY <1>1 DEF MInv, AccountsOfScene, AccountHasAdmin
  <2>1. CASE CreateGroupCommits(r)
    <3>. DEFINE g == [id |-> NewId, account |-> req[r].account, name |-> req[r].name]
    <3>1. groups' = groups \cup {g} /\ made' = made + 1 /\ members' = members
      BY <2>1 DEF CreateGroupCommits, MakesRows, NewId
    <3>2. DOMAIN g = GroupFields /\ g.id = made + 1
      BY DEF GroupFields, NewId
    <3>. HIDE DEF g
    <3>3. HasIds(groups)' /\ (\A h \in groups' : DOMAIN h = GroupFields)
      BY <1>2, <1>3, <3>1, <3>2 DEF HasIds
    <3>4. AccountHasAdmin'
      BY <1>1, <3>1 DEF MInv, AccountHasAdmin
    <3>. QED
      BY <3>3, <3>4
  <2>2. CASE UpdateGroupCommits(r)
    <3>1. /\ scene = "groups" /\ made' = made
          /\ groups' = {IF g.id = req[r].row THEN [g EXCEPT !.name = req[r].name] ELSE g : g \in groups}
      BY <1>s, <2>2 DEF UpdateGroupCommits, At, RequestIsSound
    <3>2. ASSUME NEW g \in groups'
          PROVE  \E h \in groups : /\ h.id = g.id /\ DOMAIN g = GroupFields
                                   /\ g = IF h.id = req[r].row THEN [h EXCEPT !.name = req[r].name] ELSE h
      <4>1. PICK h \in groups : g = IF h.id = req[r].row THEN [h EXCEPT !.name = req[r].name] ELSE h
        BY <3>1
      <4>2. DOMAIN h = GroupFields
        BY <1>3
      <4>3. h.id = g.id /\ DOMAIN g = GroupFields
        BY <4>1, <4>2 DEF GroupFields
      <4>. QED
        BY <4>1, <4>3
    <3>3. \A g \in groups' : g.id \in Nat /\ g.id <= made' /\ DOMAIN g = GroupFields
      BY <1>3, <3>1, <3>2 DEF HasIds
    <3>4. ASSUME NEW g \in groups', NEW k \in groups', g.id = k.id PROVE g = k
      <4>1. PICK h \in groups : h.id = g.id /\ g = IF h.id = req[r].row THEN [h EXCEPT !.name = req[r].name] ELSE h
        BY <3>2
      <4>2. PICK l \in groups : l.id = k.id /\ k = IF l.id = req[r].row THEN [l EXCEPT !.name = req[r].name] ELSE l
        BY <3>2
      <4>3. h = l
        BY <1>3, <3>4, <4>1, <4>2 DEF HasIds
      <4>. QED
        BY <4>1, <4>2, <4>3
    <3>5. HasIds(groups)'
      BY <3>3, <3>4 DEF HasIds
    <3>. QED
      BY <2>0, <3>1, <3>3, <3>5
  <2>3. CASE AddUserToGroupCommits(r)
    <3>1. groups' = groups /\ members \subseteq members'
      BY <2>3 DEF AddUserToGroupCommits
    <3>. QED
      BY <1>1, <1>2, <1>3, <3>1 DEF HasIds, MInv, AccountHasAdmin
  <2>4. CASE (\E g : DeleteGroup(r, g)) \/ (\E g, u : RemoveUserFromGroup(r, g, u))
    <3>1. groups' \subseteq groups /\ scene = "groups"
      BY <2>4 DEF DeleteGroup, RemoveUserFromGroup
    <3>. QED
      BY <1>2, <1>3, <2>0, <3>1 DEF HasIds
  <2>. QED
    BY <2>1, <2>2, <2>3, <2>4
<1>5. TablesAreSound'
  BY <1>1, <1>2, <1>4 DEF MInv, TablesAreSound, UserIsSound, HasIds
<1>6. AdminIsBuiltIn' /\ AccountsOfScene' /\ InvitedAreSound' /\ OneUserPerPerson'
  BY <1>1, <1>2, SameRowsAreSound DEF MInv, AdminIsBuiltIn, AccountsOfScene, OneUserPerPerson
<1>7. RequestsAreSound'
  <2>1. users' \subseteq users
    BY <1>1
  <2>2. \A n \in invitations' : \E m \in invitations : m.id = n.id /\ m.account = n.account /\ m.email = n.email
    BY <1>1
  <2>. QED
    BY <1>1, <1>2, <2>1, <2>2, RequestsStaySound
<1>. QED
  BY <1>4, <1>5, <1>6, <1>7 DEF MInv

\* The superadmin's accounts: what goes with one account is not of another.
LEMMA AccountStepsKeepMInv ==
  ASSUME MInv, NEW r \in Requests, CreateAccountCommits(r) \/ \E a : DeleteAccount(r, a)
  PROVE  MInv'
<1>1. CASE CreateAccountCommits(r)
  <2>. DEFINE acc == [id |-> NewId, slug |-> req[r].slug, code |-> req[r].code, origin |-> "admin"]
  <2>1. /\ UNCHANGED <<users, invitations, groups, members, roles>> /\ EndsAnd(r, {}) /\ scene' = scene
        /\ made \in Nat /\ made' = made + 1 /\ accounts' = accounts \cup {acc}
    BY <1>1 DEF CreateAccountCommits, EndsAnd, MakesRows, NewId, MInv, TablesAreSound
  <2>2. acc.origin = "admin" /\ acc.id = made + 1
    BY DEF NewId
  <2>. HIDE DEF acc
  <2>3. TablesAreSound' /\ AdminIsBuiltIn'
    BY <2>1, <2>2 DEF MInv, TablesAreSound, UserIsSound, HasIds, AdminIsBuiltIn
  <2>4. AccountsOfScene' /\ InvitedAreSound' /\ OneUserPerPerson' /\ AccountHasAdmin'
    BY <2>1, <2>2, SameRowsAreSound DEF MInv, AccountsOfScene, OneUserPerPerson, AccountHasAdmin
  <2>5. made' \in Nat /\ made <= made' /\ users' \subseteq users
    BY <2>1
  <2>6. \A n \in invitations' : \E m \in invitations : m.id = n.id /\ m.account = n.account /\ m.email = n.email
    BY <2>1
  <2>7. RequestsAreSound'
    BY <2>1, <2>5, <2>6, RequestsStaySound
  <2>. QED
    BY <2>3, <2>4, <2>7 DEF MInv
<1>2. ASSUME NEW a, DeleteAccount(r, a) PROVE MInv'
  <2>. DEFINE gone == {u \in users : u.account = a}
  <2>1. /\ UNCHANGED <<roles, made, req, scene>> /\ made \in Nat
        /\ accounts' = {x \in accounts : x.id # a} /\ users' = users \ gone
        /\ groups' = {g \in groups : g.account # a}
        /\ invitations' = {n \in invitations : n.account # a}
        /\ members' = {m \in members : m[1] \notin IdsOf(gone) /\ m[2] \in IdsOf(groups')}
    BY <1>2 DEF DeleteAccount, MInv, TablesAreSound
  <2>2. /\ users' \subseteq users /\ groups' \subseteq groups /\ invitations' \subseteq invitations
        /\ \A u \in users : u.account # a => u \in users' /\ u.id \notin IdsOf(gone)
    BY <2>1 DEF MInv, TablesAreSound, HasIds, IdsOf
  <2>. HIDE DEF gone
  <2>3. TablesAreSound' /\ AdminIsBuiltIn'
    <3>1. IsFiniteSet(users')
      BY <2>2, FS_Subset DEF MInv, TablesAreSound
    <3>. QED
      BY <2>1, <2>2, <3>1 DEF MInv, TablesAreSound, UserIsSound, HasIds, AdminIsBuiltIn
  <2>4. AccountsOfScene' /\ OneUserPerPerson'
    BY <2>1, <2>2 DEF MInv, AccountsOfScene, OneUserPerPerson
  <2>5. InvitedAreSound'
    <3>0. InvitedAreSound
      BY DEF MInv
    <3>1. ASSUME NEW n \in invitations', n.accepted PROVE \E u \in users' : u.invited = n.id
      <4>1. n \in invitations /\ n.account # a
        BY <2>1
      <4>2. PICK u \in users : u.invited = n.id
        BY <3>0, <3>1, <4>1 DEF InvitedAreSound, AcceptedLed
      <4>3. u.account = n.account
        BY <3>0, <4>1, <4>2 DEF InvitedAreSound, LedWereInvited, IsFor
      <4>. QED
        BY <2>2, <4>1, <4>2, <4>3
    <3>2. LedWereInvited' /\ EmailsDiffer'
      BY <2>2, <3>0 DEF InvitedAreSound, LedWereInvited, EmailsDiffer, IsFor
    <3>. QED
      BY <3>1, <3>2 DEF InvitedAreSound, AcceptedLed
  <2>6. ASSUME NEW b \in accounts', b.origin \in {"self", "oauth"}
        PROVE  \E u \in users' : /\ u.account = b.id /\ (u.role = 0 \/ "role" \in u.byAdmin)
                                 /\ \E g \in groups' : /\ g.account = b.id /\ g.name = "pii_access"
                                                       /\ <<u.id, g.id>> \in members'
    <3>1. PICK u \in users : /\ u.account = b.id /\ (u.role = 0 \/ "role" \in u.byAdmin)
                             /\ \E g \in groups : /\ g.account = b.id /\ g.name = "pii_access"
                                                  /\ <<u.id, g.id>> \in members
      BY <2>1, <2>6 DEF MInv, AccountHasAdmin
    <3>2. PICK g \in groups : g.account = b.id /\ g.name = "pii_access" /\ <<u.id, g.id>> \in members
      BY <3>1
    <3>3. u \in users' /\ u.id \notin IdsOf(gone) /\ g \in groups' /\ g.id \in IdsOf(groups')
      BY <2>1, <2>2, <3>1, <3>2 DEF IdsOf
    <3>4. <<u.id, g.id>> \in members'
      BY <2>1, <3>2, <3>3
    <3>. QED
      BY <3>1, <3>2, <3>3, <3>4
  <2>7. AccountHasAdmin'
    BY <2>6 DEF AccountHasAdmin
  <2>8. RequestsAreSound'
    <3>1. made' \in Nat /\ made <= made'
      BY <2>1
    <3>2. \A n \in invitations' : \E m \in invitations : m.id = n.id /\ m.account = n.account /\ m.email = n.email
      BY <2>2
    <3>3. UNCHANGED <<req, scene>>
      BY <2>1
    <3>. QED
      BY <2>2, <3>1, <3>2, <3>3, RequestsStaySound
  <2>. QED
    BY <2>3, <2>4, <2>5, <2>7, <2>8 DEF MInv
<1>. QED
  BY <1>1, <1>2

LEMMA NextKeepsMInv == MInv /\ [Next]_vars => MInv'
<1>. SUFFICES ASSUME MInv, [Next]_vars PROVE MInv'
  OBVIOUS
<1>1. CASE UNCHANGED vars
  <2>1. UNCHANGED <<tables, req, scene>>
    BY <1>1 DEF vars
  <2>2. \A r \in Requests : RequestIsSound(req[r])'
    BY <2>1 DEF MInv, RequestsAreSound, RequestIsSound, tables
  <2>. QED
    BY <2>1, <2>2 DEF MInv, TablesAreSound, HasIds, AdminIsBuiltIn, AccountsOfScene, RequestsAreSound,
                      InvitedAreSound, AcceptedLed, LedWereInvited, EmailsDiffer, UserIsSound,
                      OneUserPerPerson, AccountHasAdmin, tables
<1>2. ASSUME NEW r \in Requests, RegisterNext(r) PROVE MInv'
  BY <1>2, ChecksKeepMInv, UsersAreInserted, AccountStepsKeepMInv DEF RegisterNext
<1>3. ASSUME NEW r \in Requests, InviteNext(r) PROVE MInv'
  BY <1>3, ChecksKeepMInv, LookupsKeepMInv, UsersAreInserted, InvitationStepsKeepMInv,
     CreateInvitationKeepsMInv DEF InviteNext
<1>4. ASSUME NEW r \in Requests, SignInNext(r) PROVE MInv'
  BY <1>4, ChecksKeepMInv, LookupsKeepMInv, UsersAreInserted, QuietStepsKeepMInv DEF SignInNext
<1>5. ASSUME NEW r \in Requests, AdminNext(r) PROVE MInv'
  BY <1>5, ChecksKeepMInv, GroupStepsKeepMInv, QuietStepsKeepMInv DEF AdminNext
<1>6. ASSUME NEW r \in Requests, Fails(r) PROVE MInv'
  BY <1>6, QuietStepsKeepMInv
<1>7. ASSUME NEW r \in Requests, UsersNext(r) PROVE MInv'
  BY <1>7, ChecksKeepMInv, UsersAreInserted, UpdateUserKeepsMInv DEF UsersNext
<1>. QED
  BY <1>1, <1>2, <1>3, <1>4, <1>5, <1>6, <1>7 DEF Next

-----------------------------------------------------------------------------
\* An accepted invitation has led to one user of its account, with the address it was for unless
\* a superadmin has changed that, whatever is cancelled, resent, edited or deleted meanwhile.
THEOREM AcceptedHasUserHolds == Spec => []AcceptedHasUser
<1>1. MInv => AcceptedHasUser
  BY SoundImpliesAcceptedHasUser DEF MInv
<1>. QED
  BY <1>1, InitHasMInv, NextKeepsMInv, PTL DEF Spec

\* A person whose sign-ins do not overlap has one user by the identity of a provider,
\* whichever accounts they sign in to, unless a superadmin gave a user that identity.
THEOREM OneUserPerPersonHolds == Spec => []OneUserPerPerson
<1>1. MInv => OneUserPerPerson
  BY DEF MInv
<1>. QED
  BY <1>1, InitHasMInv, NextKeepsMInv, PTL DEF Spec

\* No account that was registered, or made by a sign-in, is without the user it was made with,
\* who is its administrator unless a superadmin gave them another role, and the group for
\* personal data, however requests overlap and fail.
THEOREM AccountHasAdminHolds == Spec => []AccountHasAdmin
<1>1. MInv => AccountHasAdmin
  BY DEF MInv
<1>. QED
  BY <1>1, InitHasMInv, NextKeepsMInv, PTL DEF Spec
===============================================================================
