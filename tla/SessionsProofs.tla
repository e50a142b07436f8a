--------------------------- MODULE SessionsProofs ---------------------------
(* Proofs about Sessions, for any users, addresses and requests and any     *)
(* numbers of tokens and links: refresh tokens form chains, those that      *)
(* still work are recent, and a mailed link works until it is followed.     *)
EXTENDS Sessions, SequenceTheorems, TLAPS

USE SessionsAssumption

-----------------------------------------------------------------------------
(* The inductive invariants.                                                *)

Exchanging(q) == req[q].op = "refresh" /\ req[q].at = "read"
SigningIn(q)  == req[q].op = "login" /\ req[q].at = "read"

MailOps == {"forgot", "admin_link", "ask"}

\* What the requests that are underway know.
RequestsKnow ==
  \A q \in Requests : req[q].at # "idle" =>
    /\ req[q].user \in Users /\ req[q].op \in Ops
    /\ req[q].op \in MailOps => req[q].email \in Emails
    /\ req[q].op \in {"reset", "verify"} \/ req[q].at = "mail" => req[q].subject \in DOMAIN links
    /\ req[q].at = "mail" => req[q].op \in MailOps
    /\ Exchanging(q) => /\ req[q].subject \in DOMAIN refresh
                        /\ refresh[req[q].subject].user = req[q].user

\* A token was issued before those it was exchanged for.  Whoever is still about to
\* exchange a token that was exchanged has been told, and so was the one who did it.
ChainInv ==
  /\ \A i \in DOMAIN refresh : refresh[i].parent \in 0..(i-1)
  /\ TokensFormChains
  /\ \A i \in DOMAIN refresh, q \in Requests :
        Exchanging(q) /\ refresh[i].parent = req[q].subject => refresh[i].crossed /\ req[q].crossed

\* The request has decided to revoke the tokens of its user, and has not done so.
IsEnding(q) == /\ req[q].op \in {"reset", "set_password", "admin_link"}
               /\ req[q].at \in {"written", "mail"}

\* A live token that nothing crossed is as recent as its user's sessions, and among those
\* that every request which is ending them will revoke.
TokenIsRecent(i) ==
  \/ refresh[i].revoked
  \/ refresh[i].crossed
  \/ /\ refresh[i].ended = user[refresh[i].user].ended
     /\ \A q \in Requests : IsEnding(q) /\ req[q].user = refresh[i].user => i \in req[q].revoke

\* A request that nothing crossed will issue a recent token.
IssuesRecent(q) ==
  \/ req[q].crossed
  \/ /\ SigningIn(q) => req[q].ended = user[req[q].user].ended
     /\ Exchanging(q) => \/ refresh[req[q].subject].crossed
                         \/ req[q].ended = user[req[q].user].ended

RecentInv ==
  /\ \A i \in DOMAIN refresh : TokenIsRecent(i)
  /\ \A q \in Requests : IssuesRecent(q)

-----------------------------------------------------------------------------
(* What the helpers of the actions do.                                      *)

\* A request that begins is the only one that changes.
LEMMA BeginFacts ==
  ASSUME req \in [Requests -> Request], NEW r \in Requests, NEW x, Begin(r, x)
  PROVE  /\ req[r].at = "idle"
         /\ req'[r] = x
         /\ \A q \in Requests \ {r} : req'[q] = req[q]
BY DEF Begin

\* What a request read is what it will do: only crossed may be set by another one.
Kept(q) ==
  /\ req'[q].at = req[q].at /\ req'[q].op = req[q].op /\ req'[q].user = req[q].user
  /\ req'[q].subject = req[q].subject /\ req'[q].ended = req[q].ended
  /\ req'[q].email = req[q].email /\ req'[q].revoke = req[q].revoke

LEMMA EndsFacts ==
  ASSUME req \in [Requests -> Request], NEW r \in Requests, NEW C, EndsAnd(r, C)
  PROVE  /\ req' \in [Requests -> Request]
         /\ req'[r] = Idle
         /\ \A q \in Requests \ {r} : Kept(q) /\ (req[q].crossed \/ q \in C => req'[q].crossed)
         /\ \A q \in Requests \ {r} : req'[q].crossed => req[q].crossed \/ q \in C
<1>1. Idle \in Request
  BY DEF Idle, Request, Ops
<1>2. ASSUME NEW q \in Requests \ {r}
      PROVE  /\ req'[q] \in Request /\ Kept(q)
             /\ req[q].crossed \/ q \in C => req'[q].crossed
             /\ req'[q].crossed => req[q].crossed \/ q \in C
  <2>1. req[q] \in Request
    OBVIOUS
  <2>2. CASE q \in C
    <3>1. req'[q] = [req[q] EXCEPT !.crossed = TRUE]
      BY <2>2 DEF EndsAnd
    <3>. QED
      BY <2>1, <2>2, <3>1 DEF Kept, Request
  <2>3. CASE q \notin C
    <3>1. req'[q] = req[q]
      BY <2>3 DEF EndsAnd
    <3>. QED
      BY <2>1, <2>3, <3>1 DEF Kept
  <2>. QED
    BY <2>2, <2>3
<1>3. req'[r] = Idle
  BY DEF EndsAnd
<1>4. req' = [q \in Requests |-> req'[q]]
  BY DEF EndsAnd
<1>. QED
  BY <1>1, <1>2, <1>3, <1>4

\* Tokens that are revoked stay what they were otherwise.
LEMMA RevokeFacts ==
  ASSUME refresh \in Seq(RefreshToken), NEW T
  PROVE  /\ Revoke(T) \in Seq(RefreshToken)
         /\ Len(Revoke(T)) = Len(refresh)
         /\ DOMAIN Revoke(T) = DOMAIN refresh
         /\ \A i \in DOMAIN refresh :
              /\ Revoke(T)[i] \in RefreshToken
              /\ Revoke(T)[i].user = refresh[i].user /\ Revoke(T)[i].parent = refresh[i].parent
              /\ Revoke(T)[i].ended = refresh[i].ended /\ Revoke(T)[i].crossed = refresh[i].crossed
              /\ refresh[i].revoked \/ i \in T => Revoke(T)[i].revoked
<1>1. DOMAIN refresh = 1..Len(refresh) /\ Len(refresh) \in Nat
  OBVIOUS
<1>2. ASSUME NEW i \in DOMAIN refresh
      PROVE  /\ Revoke(T)[i] \in RefreshToken
             /\ Revoke(T)[i].user = refresh[i].user /\ Revoke(T)[i].parent = refresh[i].parent
             /\ Revoke(T)[i].ended = refresh[i].ended /\ Revoke(T)[i].crossed = refresh[i].crossed
             /\ refresh[i].revoked \/ i \in T => Revoke(T)[i].revoked
  <2>1. refresh[i] \in RefreshToken
    BY ElementOfSeq
  <2>2. Revoke(T)[i] = [refresh[i] EXCEPT !.revoked = @ \/ i \in T]
    BY DEF Revoke
  <2>. QED
    BY <2>1, <2>2 DEF RefreshToken
<1>3. Revoke(T) \in [1..Len(refresh) -> RefreshToken]
  BY <1>1, <1>2 DEF Revoke
<1>. QED
  BY <1>1, <1>2, <1>3, SeqDef, LenProperties

-----------------------------------------------------------------------------
(* How the invariants survive each kind of step.                            *)

\* A step after which no request means to issue or to revoke a token that did not before,
\* and which leaves the tokens and the number of times sessions were ended alone.
Quiet ==
  /\ refresh' = refresh
  /\ \A u \in Users : user'[u].ended = user[u].ended
  /\ \A q \in Requests :
       \/ ~Exchanging(q)' /\ ~SigningIn(q)' /\ ~IsEnding(q)'
       \/ Kept(q) /\ (req[q].crossed => req'[q].crossed)

LEMMA QuietKeepsChains == ChainInv /\ Quiet => ChainInv'
<1>. SUFFICES ASSUME ChainInv, Quiet PROVE ChainInv'
  OBVIOUS
<1>1. \A i \in DOMAIN refresh' : refresh'[i].parent \in 0..(i-1)
  BY DEF ChainInv, Quiet
<1>2. TokensFormChains'
  BY DEF ChainInv, Quiet, TokensFormChains
<1>3. ASSUME NEW i \in DOMAIN refresh', NEW q \in Requests,
             Exchanging(q)', refresh'[i].parent = req'[q].subject
      PROVE  refresh'[i].crossed /\ req'[q].crossed
  <2>1. Kept(q) /\ (req[q].crossed => req'[q].crossed)
    BY <1>3 DEF Quiet
  <2>2. Exchanging(q) /\ refresh[i].parent = req[q].subject
    BY <1>3, <2>1 DEF Quiet, Kept, Exchanging
  <2>. QED
    BY <2>1, <2>2 DEF ChainInv, Quiet
<1>. QED
  BY <1>1, <1>2, <1>3 DEF ChainInv

LEMMA QuietKeepsRecent ==
  ASSUME refresh \in Seq(RefreshToken), RequestsKnow, RecentInv, Quiet
  PROVE  RecentInv'
<1>1. ASSUME NEW i \in DOMAIN refresh PROVE refresh[i].user \in Users
  <2>1. refresh[i] \in RefreshToken
    BY ElementOfSeq
  <2>. QED
    BY <2>1 DEF RefreshToken
<1>2. ASSUME NEW i \in DOMAIN refresh'
      PROVE  TokenIsRecent(i)'
  <2>1. TokenIsRecent(i) /\ refresh[i].user \in Users
    BY <1>1 DEF RecentInv, Quiet
  <2>2. \A q \in Requests : IsEnding(q)' => IsEnding(q) /\ Kept(q)
    BY DEF Quiet, Kept, IsEnding
  <2>. QED
    BY <2>1, <2>2 DEF TokenIsRecent, Quiet, Kept
<1>3. ASSUME NEW q \in Requests
      PROVE  IssuesRecent(q)'
  <2>1. CASE ~Exchanging(q)' /\ ~SigningIn(q)'
    BY <2>1 DEF IssuesRecent
  <2>2. CASE (Exchanging(q)' \/ SigningIn(q)') /\ Kept(q) /\ (req[q].crossed => req'[q].crossed)
    <3>1. /\ Exchanging(q)' <=> Exchanging(q)
          /\ SigningIn(q)' <=> SigningIn(q)
      BY <2>2 DEF Kept, Exchanging, SigningIn
    <3>2. req[q].user \in Users
      BY <2>2, <3>1 DEF RequestsKnow, Exchanging, SigningIn
    <3>. QED
      BY <2>2, <3>1, <3>2 DEF IssuesRecent, RecentInv, Quiet, Kept
  <2>. QED
    BY <2>1, <2>2 DEF Quiet
<1>. QED
  BY <1>2, <1>3 DEF RecentInv

\* A request of user u decides to revoke the tokens of u that live now.
CollectsTokens(r) ==
  /\ UNCHANGED <<user, refresh>>
  /\ \A q \in Requests \ {r} : req'[q] = req[q]
  /\ req'[r].at # "read" /\ req'[r].user \in Users
  /\ req'[r].revoke = LiveTokens(req'[r].user)

LEMMA CollectingKeepsInvariants ==
  ASSUME refresh \in Seq(RefreshToken), NEW r \in Requests, CollectsTokens(r),
         ChainInv, RecentInv
  PROVE  ChainInv' /\ RecentInv'
<1>1. \A q \in Requests : Exchanging(q)' \/ SigningIn(q)' => q # r /\ req'[q] = req[q]
  BY DEF CollectsTokens, Exchanging, SigningIn
<1>2. ChainInv'
  <2>1. TokensFormChains'
    BY DEF ChainInv, CollectsTokens, TokensFormChains
  <2>. QED
    BY <1>1, <2>1 DEF ChainInv, CollectsTokens, Exchanging
<1>3. ASSUME NEW i \in DOMAIN refresh'
      PROVE  TokenIsRecent(i)'
  <2>1. TokenIsRecent(i) /\ i \in DOMAIN refresh /\ refresh' = refresh /\ user' = user
    BY DEF RecentInv, CollectsTokens
  <2>2. ASSUME NEW q \in Requests, IsEnding(q)', req'[q].user = refresh[i].user,
               ~refresh[i].revoked, ~refresh[i].crossed
        PROVE  i \in req'[q].revoke
    <3>1. CASE q = r
      BY <2>1, <2>2, <3>1 DEF CollectsTokens, LiveTokens
    <3>2. CASE q # r
      BY <2>1, <2>2, <3>2 DEF CollectsTokens, TokenIsRecent, IsEnding
    <3>. QED
      BY <3>1, <3>2
  <2>. QED
    BY <2>1, <2>2 DEF TokenIsRecent
<1>4. ASSUME NEW q \in Requests
      PROVE  IssuesRecent(q)'
  <2>1. IssuesRecent(q)
    BY DEF RecentInv
  <2>. QED
    BY <1>1, <2>1 DEF IssuesRecent, CollectsTokens, Exchanging, SigningIn
<1>. QED
  BY <1>2, <1>3, <1>4 DEF RecentInv

\* A request ends the sessions of its user: it revokes the tokens it meant to, and
\* crosses all requests that are issuing tokens to that user.
EndsTheSessions(r) ==
  LET u == req[r].user IN
  /\ IsEnding(r)
  /\ refresh' = Revoke(req[r].revoke)
  /\ user'[u].ended = user[u].ended + 1
  /\ \A v \in Users \ {u} : user'[v] = user[v]
  /\ req'[r] = Idle
  /\ \A q \in Requests \ {r} : Kept(q) /\ (req[q].crossed \/ q \in Issuing(u) => req'[q].crossed)

LEMMA EndingKeepsInvariants ==
  ASSUME TypeOK, RequestsKnow, NEW r \in Requests, EndsTheSessions(r), ChainInv, RecentInv
  PROVE  ChainInv' /\ RecentInv'
<1>. DEFINE T == req[r].revoke  u == req[r].user
<1>1. /\ refresh' = Revoke(T) /\ DOMAIN refresh' = DOMAIN refresh
      /\ \A i \in DOMAIN refresh :
           /\ refresh[i] \in RefreshToken
           /\ refresh'[i].user = refresh[i].user /\ refresh'[i].parent = refresh[i].parent
           /\ refresh'[i].ended = refresh[i].ended /\ refresh'[i].crossed = refresh[i].crossed
           /\ refresh[i].revoked \/ i \in T => refresh'[i].revoked
  BY RevokeFacts, ElementOfSeq DEF TypeOK, EndsTheSessions
<1>2. ASSUME NEW q \in Requests
      PROVE  /\ Exchanging(q)' => q # r /\ Exchanging(q) /\ Kept(q) /\ (req[q].crossed => req'[q].crossed)
             /\ SigningIn(q)' => q # r /\ SigningIn(q) /\ Kept(q) /\ (req[q].crossed => req'[q].crossed)
             /\ IsEnding(q)' => q # r /\ IsEnding(q) /\ Kept(q)
  <2>1. CASE q = r
    BY <2>1 DEF EndsTheSessions, Idle, Exchanging, SigningIn, IsEnding
  <2>2. CASE q # r
    BY <2>2 DEF EndsTheSessions, Kept, Exchanging, SigningIn, IsEnding
  <2>. QED
    BY <2>1, <2>2
<1>3. ChainInv'
  <2>1. \A i \in DOMAIN refresh' : refresh'[i].parent \in 0..(i-1)
    BY <1>1 DEF ChainInv
  <2>2. TokensFormChains'
    <3>1. \A i \in DOMAIN refresh : refresh[i].parent # 0 => refresh[i].parent \in DOMAIN refresh
      BY <1>1 DEF ChainInv, TypeOK
    <3>. QED
      BY <1>1, <3>1 DEF ChainInv, TokensFormChains
  <2>3. ASSUME NEW i \in DOMAIN refresh', NEW q \in Requests,
               Exchanging(q)', refresh'[i].parent = req'[q].subject
        PROVE  refresh'[i].crossed /\ req'[q].crossed
    BY <1>1, <1>2, <2>3 DEF ChainInv, Kept
  <2>. QED
    BY <2>1, <2>2, <2>3 DEF ChainInv
<1>4. ASSUME NEW i \in DOMAIN refresh'
      PROVE  TokenIsRecent(i)'
  <2>1. TokenIsRecent(i) /\ i \in DOMAIN refresh /\ refresh[i].user \in Users
    BY <1>1 DEF RecentInv, RefreshToken
  <2>2. CASE refresh[i].revoked \/ refresh[i].crossed
    BY <1>1, <2>1, <2>2 DEF TokenIsRecent
  <2>3. CASE ~refresh[i].revoked /\ ~refresh[i].crossed /\ refresh[i].user = u
    <3>1. i \in T
      BY <2>1, <2>3 DEF TokenIsRecent, EndsTheSessions
    <3>. QED
      BY <1>1, <2>1, <3>1 DEF TokenIsRecent
  <2>4. CASE ~refresh[i].revoked /\ ~refresh[i].crossed /\ refresh[i].user # u
    <3>1. user'[refresh[i].user] = user[refresh[i].user]
      BY <2>1, <2>4 DEF EndsTheSessions
    <3>. QED
      BY <1>1, <1>2, <2>1, <2>4, <3>1 DEF TokenIsRecent, Kept
  <2>. QED
    BY <2>2, <2>3, <2>4
<1>5. ASSUME NEW q \in Requests
      PROVE  IssuesRecent(q)'
  <2>1. CASE ~Exchanging(q)' /\ ~SigningIn(q)'
    BY <2>1 DEF IssuesRecent
  <2>2. CASE Exchanging(q)' \/ SigningIn(q)'
    <3>1. /\ q # r /\ Kept(q) /\ (req[q].crossed => req'[q].crossed)
          /\ Exchanging(q)' => Exchanging(q)
          /\ SigningIn(q)' => SigningIn(q)
      BY <1>2, <2>2
    <3>2. req[q].user \in Users /\ req[q].at # "idle" /\ (req[q].op = "login" \/ req[q].op = "refresh")
      BY <2>2, <3>1 DEF RequestsKnow, Exchanging, SigningIn
    <3>3. CASE req[q].user = u
      <4>1. q \in Issuing(u)
        BY <3>2, <3>3 DEF Issuing, AreUnderway
      <4>. QED
        BY <3>1, <4>1 DEF EndsTheSessions, IssuesRecent
    <3>4. CASE req[q].user # u
      <4>1. user'[req[q].user] = user[req[q].user]
        BY <3>2, <3>4 DEF EndsTheSessions
      <4>2. Exchanging(q) => req[q].subject \in DOMAIN refresh
        BY <3>2 DEF RequestsKnow
      <4>. QED
        BY <1>1, <3>1, <4>1, <4>2 DEF IssuesRecent, RecentInv, Kept
    <3>. QED
      BY <3>3, <3>4
  <2>. QED
    BY <2>1, <2>2
<1>. QED
  BY <1>3, <1>4, <1>5 DEF RecentInv

-----------------------------------------------------------------------------
(* Types, and what requests know.                                           *)

\* Before a request begins it has nothing; then it has what Reading gives it.
LEMMA ReadingFacts ==
  ASSUME TypeOK, NEW u \in Users, NEW op \in Ops
  PROVE  /\ Reading(op, u) \in Request
         /\ Reading(op, u).at = "read" /\ Reading(op, u).op = op /\ Reading(op, u).user = u
         /\ Reading(op, u).ended = user[u].ended /\ Reading(op, u).subject = 0
<1>1. user[u].ended \in Nat
  BY DEF TypeOK, User
<1>2. Idle \in Request /\ Idle.subject = 0
  BY DEF Idle, Request
<1>. QED
  BY <1>1, <1>2 DEF Reading, Request

\* A request that begins with a well-formed record leaves everything else well-formed.
LEMMA BeginKeepsTypes ==
  ASSUME TypeOK, NEW r \in Requests, NEW x \in Request, Begin(r, x),
         UNCHANGED <<user, refresh, rows, links, followed, forgiven>>
  PROVE  TypeOK'
<1>1. req' \in [Requests -> Request] /\ starts' \in 0..MaxStarts
  BY DEF TypeOK, Begin
<1>. QED
  BY <1>1 DEF TypeOK

\* It knows what it needs to know, if its record does.
LEMMA BeginKeepsKnowledge ==
  ASSUME TypeOK, RequestsKnow, NEW r \in Requests, NEW x \in Request, Begin(r, x),
         UNCHANGED <<user, refresh, rows, links, followed, forgiven>>,
         x.at = "read", x.user \in Users, x.op \in Ops,
         x.op \in MailOps => x.email \in Emails,
         x.op \in {"reset", "verify"} => x.subject \in DOMAIN links,
         x.op = "refresh" => x.subject \in DOMAIN refresh /\ refresh[x.subject].user = x.user
  PROVE  RequestsKnow'
<1>1. req'[r] = x /\ \A q \in Requests \ {r} : req'[q] = req[q]
  BY BeginFacts DEF TypeOK
<1>. QED
  BY <1>1 DEF RequestsKnow, Exchanging

\* A request that begins neither to sign in nor to exchange a token is quiet.
LEMMA BeginIsQuiet ==
  ASSUME TypeOK, NEW r \in Requests, NEW x, Begin(r, x),
         UNCHANGED <<user, refresh, rows, links, followed, forgiven>>,
         x.at = "read", x.op \notin {"login", "refresh"}
  PROVE  Quiet
<1>1. req'[r] = x /\ \A q \in Requests \ {r} : req'[q] = req[q]
  BY BeginFacts DEF TypeOK
<1>. QED
  BY <1>1 DEF Quiet, Exchanging, SigningIn, IsEnding, Kept

\* A request that ends forgets what it knew, and the others know what they did.
LEMMA EndKeepsKnowledge ==
  ASSUME TypeOK, RequestsKnow, NEW r \in Requests, NEW C, EndsAnd(r, C),
         DOMAIN links \subseteq DOMAIN links', DOMAIN refresh \subseteq DOMAIN refresh',
         \A i \in DOMAIN refresh : refresh'[i].user = refresh[i].user
  PROVE  RequestsKnow'
<1>1. req'[r] = Idle /\ \A q \in Requests \ {r} : Kept(q)
  BY EndsFacts DEF TypeOK
<1>2. ASSUME NEW q \in Requests \ {r}, req'[q].at # "idle"
      PROVE  /\ req'[q].user \in Users /\ req'[q].op \in Ops
             /\ req'[q].op \in MailOps => req'[q].email \in Emails
             /\ req'[q].op \in {"reset", "verify"} \/ req'[q].at = "mail" => req'[q].subject \in DOMAIN links'
             /\ req'[q].at = "mail" => req'[q].op \in MailOps
             /\ Exchanging(q)' => /\ req'[q].subject \in DOMAIN refresh'
                                  /\ refresh'[req'[q].subject].user = req'[q].user
  <2>1. Kept(q)
    BY <1>1
  <2>2. req[q].at # "idle" /\ (Exchanging(q)' => Exchanging(q))
    BY <1>2, <2>1 DEF Kept, Exchanging
  <2>. QED
    BY <2>1, <2>2 DEF RequestsKnow, Kept
<1>. QED
  BY <1>1, <1>2 DEF RequestsKnow, Idle

LEMMA EndIsQuiet ==
  ASSUME TypeOK, NEW r \in Requests, NEW C, EndsAnd(r, C), refresh' = refresh,
         \A u \in Users : user'[u].ended = user[u].ended
  PROVE  Quiet
<1>1. /\ req'[r] = Idle
      /\ \A q \in Requests \ {r} : Kept(q) /\ (req[q].crossed => req'[q].crossed)
  BY EndsFacts DEF TypeOK
<1>. QED
  BY <1>1 DEF Quiet, Idle, Exchanging, SigningIn, IsEnding

\* The requests that only begin, and neither sign in nor exchange a token.
StartsAnother(r) ==
  \/ \E u \in Users : \/ Forgot(r, u) \/ AdminLink(r, u) \/ SetPassword(r, u)
                      \/ ResendUserVerification(r, u)
  \/ \E n \in DOMAIN links : ResetChecks(r, n) \/ VerifyChecks(r, n)
  \/ \E u \in Users, e \in Emails :
       AskVerification(r, u, e) \/ (\E b \in BOOLEAN : UpdateUser(r, u, e, b))

LEMMA StartsAnotherFacts ==
  ASSUME TypeOK, NEW r \in Requests, StartsAnother(r)
  PROVE  \E x \in Request :
           /\ Begin(r, x)
           /\ UNCHANGED <<user, refresh, rows, links, followed, forgiven>>
           /\ x.at = "read" /\ x.user \in Users /\ x.op \in Ops /\ x.op \notin {"login", "refresh"}
           /\ x.op \in MailOps => x.email \in Emails
           /\ x.op \in {"reset", "verify"} => x.subject \in DOMAIN links
<1>. DEFINE Good(x) == /\ x \in Request /\ Begin(r, x)
                       /\ UNCHANGED <<user, refresh, rows, links, followed, forgiven>>
                       /\ x.at = "read" /\ x.user \in Users /\ x.op \in Ops /\ x.op \notin {"login", "refresh"}
                       /\ x.op \in MailOps => x.email \in Emails
                       /\ x.op \in {"reset", "verify"} => x.subject \in DOMAIN links
<1>1. ASSUME NEW u \in Users, NEW op \in Ops, NEW e \in Emails
      PROVE  [Reading(op, u) EXCEPT !.email = e] \in Request
    /\ [Reading(op, u) EXCEPT !.email = e].at = "read"
    /\ [Reading(op, u) EXCEPT !.email = e].op = op
    /\ [Reading(op, u) EXCEPT !.email = e].user = u
    /\ [Reading(op, u) EXCEPT !.email = e].email = e
  BY ReadingFacts DEF Request
<1>2. ASSUME NEW u \in Users PROVE user[u].email \in Emails
  BY DEF TypeOK, User
<1>3. ASSUME NEW u \in Users, Forgot(r, u) PROVE \E x : Good(x)
  <2>. DEFINE x == [Reading("forgot", u) EXCEPT !.email = user[u].email]
  <2>1. Good(x)
    BY <1>1, <1>2, <1>3 DEF Forgot, Ops
  <2>. QED
    BY <2>1
<1>4. ASSUME NEW u \in Users, AdminLink(r, u) PROVE \E x : Good(x)
  <2>. DEFINE x == [Reading("admin_link", u) EXCEPT !.email = user[u].email]
  <2>1. Good(x)
    BY <1>1, <1>2, <1>4 DEF AdminLink, Ops
  <2>. QED
    BY <2>1
<1>5. ASSUME NEW u \in Users, ResendUserVerification(r, u) PROVE \E x : Good(x)
  <2>. DEFINE x == [Reading("ask", u) EXCEPT !.email = user[u].email]
  <2>1. Good(x)
    BY <1>1, <1>2, <1>5 DEF ResendUserVerification, Ops
  <2>. QED
    BY <2>1
<1>6. ASSUME NEW u \in Users, NEW e \in Emails, AskVerification(r, u, e) PROVE \E x : Good(x)
  <2>. DEFINE x == [Reading("ask", u) EXCEPT !.email = e]
  <2>1. Good(x)
    BY <1>1, <1>6 DEF AskVerification, Ops
  <2>. QED
    BY <2>1
<1>7. ASSUME NEW u \in Users, SetPassword(r, u) PROVE \E x : Good(x)
  <2>1. Good(Reading("set_password", u))
    BY <1>7, ReadingFacts DEF SetPassword, Ops, MailOps
  <2>. QED
    BY <2>1
<1>8. ASSUME NEW n \in DOMAIN links, ResetChecks(r, n) \/ VerifyChecks(r, n) PROVE \E x : Good(x)
  <2>. DEFINE op == IF ResetChecks(r, n) THEN "reset" ELSE "verify"
              x == [Reading(op, links[n].user) EXCEPT !.subject = n]
  <2>1. links[n] \in Link /\ n \in Nat
    BY ElementOfSeq DEF TypeOK
  <2>2. links[n].user \in Users
    BY <2>1 DEF Link
  <2>3. op \in {"reset", "verify"} /\ op \in Ops
    BY DEF Ops
  <2>4. x \in Request /\ x.at = "read" /\ x.op = op /\ x.user = links[n].user /\ x.subject = n
    BY <2>1, <2>2, <2>3, ReadingFacts DEF Request
  <2>5. Begin(r, x) /\ UNCHANGED <<user, refresh, rows, links, followed, forgiven>>
    BY <1>8 DEF ResetChecks, VerifyChecks
  <2>6. Good(x)
    BY <2>2, <2>3, <2>4, <2>5 DEF MailOps
  <2>. QED
    BY <2>6
<1>9. ASSUME NEW u \in Users, NEW e \in Emails, NEW b \in BOOLEAN, UpdateUser(r, u, e, b)
      PROVE  \E x : Good(x)
  <2>. DEFINE y == IF e = user[u].email THEN NoEmail ELSE e
              z == IF b = user[u].active THEN "same" ELSE IF b THEN "on" ELSE "off"
              x == [Reading("update", u) EXCEPT !.email = y, !.active = z]
  <2>1. Reading("update", u) \in Request /\ Reading("update", u).at = "read"
        /\ Reading("update", u).op = "update" /\ Reading("update", u).user = u
    BY ReadingFacts DEF Ops
  <2>2. y \in Emails \cup {NoEmail} /\ z \in {"same", "on", "off"}
    OBVIOUS
  <2>3. x \in Request /\ x.at = "read" /\ x.op = "update" /\ x.user = u
    BY <2>1, <2>2 DEF Request
  <2>4. Begin(r, x) /\ UNCHANGED <<user, refresh, rows, links, followed, forgiven>>
    BY <1>9 DEF UpdateUser
  <2>5. Good(x)
    BY <2>3, <2>4 DEF Ops, MailOps
  <2>. QED
    BY <2>5
<1>10. \E x : Good(x)
  BY <1>3, <1>4, <1>5, <1>6, <1>7, <1>8, <1>9 DEF StartsAnother
<1>. QED
  BY <1>10

\* What Issue makes is a token.
LEMMA IssueFacts ==
  ASSUME TypeOK, RequestsKnow, NEW r \in Requests, req[r].at # "idle",
         NEW p \in 0..MaxTokens
  PROVE  /\ Issue(r, p) \in RefreshToken
         /\ Issue(r, p).user = req[r].user /\ Issue(r, p).parent = p
         /\ Issue(r, p).ended = req[r].ended
<1>1. req[r].user \in Users /\ req[r].ended \in Nat
  BY DEF RequestsKnow, TypeOK, Request
<1>2. (req[r].crossed \/ Ending(req[r].user) # {} \/ (p # 0 /\ refresh[p].crossed)) \in BOOLEAN
  OBVIOUS
<1>3. Issue(r, p) \in RefreshToken
  BY <1>1, <1>2 DEF Issue, RefreshToken
<1>. QED
  BY <1>1, <1>3 DEF Issue, RefreshToken

\* One more token.
LEMMA AppendFacts ==
  ASSUME NEW s \in Seq(RefreshToken), NEW t \in RefreshToken, Len(s) < MaxTokens
  PROVE  /\ Append(s, t) \in Seq(RefreshToken)
         /\ Len(Append(s, t)) = Len(s) + 1 /\ Len(Append(s, t)) <= MaxTokens
         /\ DOMAIN Append(s, t) = DOMAIN s \cup {Len(s) + 1}
         /\ Append(s, t)[Len(s) + 1] = t
         /\ \A i \in DOMAIN s : i # Len(s) + 1 /\ Append(s, t)[i] = s[i]
BY AppendProperties

LEMMA LiveTokensFacts ==
  ASSUME TypeOK, NEW u PROVE LiveTokens(u) \in SUBSET (1..MaxTokens)
<1>1. \A i \in DOMAIN refresh : i \in 1..MaxTokens
  BY DEF TypeOK
<1>. QED
  BY <1>1 DEF LiveTokens

LEMMA LoginIssuesKeepsTypes ==
  ASSUME TypeOK, RequestsKnow, NEW r \in Requests, LoginIssues(r)
  PROVE  TypeOK' /\ RequestsKnow'
<1>1. Issue(r, 0) \in RefreshToken
  <2>1. req[r].at # "idle" /\ 0 \in 0..MaxTokens
    BY DEF LoginIssues
  <2>. QED
    BY <2>1, IssueFacts
<1>2. /\ refresh' \in Seq(RefreshToken) /\ Len(refresh') <= MaxTokens
      /\ DOMAIN refresh \subseteq DOMAIN refresh'
      /\ \A i \in DOMAIN refresh : refresh'[i] = refresh[i]
  BY <1>1, AppendFacts DEF LoginIssues, TypeOK
<1>3. EndsAnd(r, {}) /\ req' \in [Requests -> Request]
  BY EndsFacts DEF LoginIssues, TypeOK
<1>4. TypeOK'
  BY <1>2, <1>3 DEF LoginIssues, TypeOK
<1>5. links' = links
  BY DEF LoginIssues
<1>6. RequestsKnow'
  BY <1>2, <1>3, <1>5, EndKeepsKnowledge
<1>. QED
  BY <1>4, <1>6

\* What the exchange of a token makes of the tokens.
LEMMA RotateFacts ==
  ASSUME TypeOK, RequestsKnow, NEW r \in Requests, RefreshRotates(r)
  PROVE  LET t == req[r].subject  n == Len(refresh) + 1 IN
         /\ t \in DOMAIN refresh /\ req[r].user = refresh[t].user
         /\ refresh' \in Seq(RefreshToken) /\ Len(refresh') <= MaxTokens
         /\ DOMAIN refresh' = DOMAIN refresh \cup {n}
         /\ refresh'[n].user = req[r].user /\ refresh'[n].parent = t /\ refresh'[n].ended = req[r].ended
         /\ Issue(r, t).crossed \/ SameToken(r) # {} => refresh'[n].crossed
         /\ \A i \in DOMAIN refresh :
              /\ i # n
              /\ refresh'[i].user = refresh[i].user /\ refresh'[i].parent = refresh[i].parent
              /\ refresh'[i].ended = refresh[i].ended /\ refresh'[i].crossed = refresh[i].crossed
              /\ refresh[i].revoked \/ i = t => refresh'[i].revoked
<1>. DEFINE t == req[r].subject  n == Len(refresh) + 1
            new == [Issue(r, t) EXCEPT !.crossed = @ \/ SameToken(r) # {}]
            old == Revoke({t})
<1>1. t \in DOMAIN refresh /\ req[r].user = refresh[t].user /\ t \in 0..MaxTokens /\ req[r].at # "idle"
  <2>1. Exchanging(r) /\ req[r].at # "idle"
    BY DEF RefreshRotates, Exchanging
  <2>. QED
    BY <2>1 DEF RequestsKnow, TypeOK
<1>2. Issue(r, t) \in RefreshToken /\ Issue(r, t).user = req[r].user /\ Issue(r, t).parent = t
      /\ Issue(r, t).ended = req[r].ended
  BY <1>1, IssueFacts
<1>3. /\ new \in RefreshToken /\ new.user = req[r].user /\ new.parent = t
      /\ new.ended = req[r].ended
      /\ Issue(r, t).crossed \/ SameToken(r) # {} => new.crossed
  <2>1. (Issue(r, t).crossed \/ SameToken(r) # {}) \in BOOLEAN
    OBVIOUS
  <2>. HIDE DEF t
  <2>. QED
    BY <1>2, <2>1 DEF RefreshToken
<1>4. /\ old \in Seq(RefreshToken) /\ Len(old) = Len(refresh) /\ DOMAIN old = DOMAIN refresh
      /\ \A i \in DOMAIN refresh :
           /\ old[i].user = refresh[i].user /\ old[i].parent = refresh[i].parent
           /\ old[i].ended = refresh[i].ended /\ old[i].crossed = refresh[i].crossed
           /\ refresh[i].revoked \/ i = t => old[i].revoked
  BY RevokeFacts DEF TypeOK
<1>5. refresh' = Append(old, new) /\ Len(old) < MaxTokens
  BY <1>4 DEF RefreshRotates
<1>. HIDE DEF old, new, n, t
<1>6. /\ refresh' \in Seq(RefreshToken) /\ Len(refresh') <= MaxTokens
      /\ DOMAIN refresh' = DOMAIN refresh \cup {n} /\ refresh'[n] = new
      /\ \A i \in DOMAIN refresh : i # n /\ refresh'[i] = old[i]
  BY <1>3, <1>4, <1>5, AppendFacts DEF n
<1>. QED
  BY <1>1, <1>3, <1>4, <1>6 DEF n, t

LEMMA RefreshRotatesKeepsTypes ==
  ASSUME TypeOK, RequestsKnow, NEW r \in Requests, RefreshRotates(r)
  PROVE  TypeOK' /\ RequestsKnow'
<1>1. EndsAnd(r, SameToken(r)) /\ req' \in [Requests -> Request]
  BY EndsFacts DEF RefreshRotates, TypeOK
<1>2. /\ refresh' \in Seq(RefreshToken) /\ Len(refresh') <= MaxTokens
      /\ DOMAIN refresh \subseteq DOMAIN refresh'
      /\ \A i \in DOMAIN refresh : refresh'[i].user = refresh[i].user
  BY RotateFacts
<1>3. TypeOK'
  BY <1>1, <1>2 DEF RefreshRotates, TypeOK
<1>4. links' = links
  BY DEF RefreshRotates
<1>. QED
  BY <1>1, <1>2, <1>3, <1>4, EndKeepsKnowledge

LEMMA StartsAnotherKeepsTypes ==
  ASSUME TypeOK, RequestsKnow, NEW r \in Requests, StartsAnother(r)
  PROVE  TypeOK' /\ RequestsKnow' /\ Quiet
<1>1. PICK x \in Request :
        /\ Begin(r, x)
        /\ UNCHANGED <<user, refresh, rows, links, followed, forgiven>>
        /\ x.at = "read" /\ x.user \in Users /\ x.op \in Ops /\ x.op \notin {"login", "refresh"}
        /\ x.op \in MailOps => x.email \in Emails
        /\ x.op \in {"reset", "verify"} => x.subject \in DOMAIN links
  BY StartsAnotherFacts
<1>2. TypeOK'
  BY <1>1, BeginKeepsTypes
<1>3. RequestsKnow'
  BY <1>1, BeginKeepsKnowledge
<1>4. Quiet
  BY <1>1, BeginIsQuiet
<1>. QED
  BY <1>2, <1>3, <1>4

LEMMA LoginChecksKeepsTypes ==
  ASSUME TypeOK, RequestsKnow, NEW r \in Requests, NEW u \in Users, LoginChecks(r, u)
  PROVE  TypeOK' /\ RequestsKnow'
<1>. DEFINE x == Reading("login", u)
<1>1. x \in Request /\ x.at = "read" /\ x.user = u /\ x.op = "login" /\ "login" \in Ops
  BY ReadingFacts DEF Ops
<1>2. Begin(r, x) /\ UNCHANGED <<user, refresh, rows, links, followed, forgiven>>
  BY DEF LoginChecks
<1>. HIDE DEF x
<1>3. x.op \in Ops /\ x.op \notin MailOps
  BY <1>1 DEF MailOps
<1>. QED
  BY <1>1, <1>2, <1>3, BeginKeepsTypes, BeginKeepsKnowledge

\* What a request that wants to exchange token t has read.
LEMMA RefreshReads ==
  ASSUME TypeOK, NEW t \in DOMAIN refresh
  PROVE  LET x == [Reading("refresh", refresh[t].user) EXCEPT !.subject = t, !.ended = refresh[t].ended]
         IN /\ x \in Request /\ x.at = "read" /\ x.op = "refresh" /\ x.user = refresh[t].user
            /\ x.user \in Users /\ x.subject = t /\ x.ended = refresh[t].ended
<1>1. refresh[t] \in RefreshToken /\ t \in Nat
  BY ElementOfSeq DEF TypeOK
<1>2. refresh[t].user \in Users /\ refresh[t].ended \in Nat
  BY <1>1 DEF RefreshToken
<1>. DEFINE y == Reading("refresh", refresh[t].user)
<1>3. y \in Request /\ y.at = "read" /\ y.op = "refresh" /\ y.user = refresh[t].user
  BY <1>2, ReadingFacts DEF Ops
<1>. HIDE DEF y
<1>4. LET x == [y EXCEPT !.subject = t, !.ended = refresh[t].ended]
      IN /\ x \in Request /\ x.at = "read" /\ x.op = "refresh" /\ x.user = refresh[t].user
         /\ x.subject = t /\ x.ended = refresh[t].ended
  BY <1>1, <1>2, <1>3 DEF Request
<1>. QED
  BY <1>2, <1>4 DEF y

LEMMA RefreshChecksKeepsTypes ==
  ASSUME TypeOK, RequestsKnow, NEW r \in Requests, NEW t \in DOMAIN refresh, RefreshChecks(r, t)
  PROVE  TypeOK' /\ RequestsKnow'
<1>. DEFINE x == [Reading("refresh", refresh[t].user) EXCEPT !.subject = t, !.ended = refresh[t].ended]
<1>1. /\ x \in Request /\ x.at = "read" /\ x.op = "refresh" /\ x.user = refresh[t].user
      /\ x.user \in Users /\ x.subject = t
  BY RefreshReads
<1>2. Begin(r, x) /\ UNCHANGED <<user, refresh, rows, links, followed, forgiven>>
  BY DEF RefreshChecks
<1>. HIDE DEF x
<1>3. x.op \in Ops /\ x.op \notin MailOps
  BY <1>1 DEF MailOps, Ops
<1>. QED
  BY <1>1, <1>2, <1>3, BeginKeepsTypes, BeginKeepsKnowledge

LEMMA LinkIsWrittenKeepsTypes ==
  ASSUME TypeOK, RequestsKnow, NEW r \in Requests, LinkIsWritten(r)
  PROVE  TypeOK' /\ RequestsKnow'
<1>. DEFINE l == [kind |-> KindOf(req[r].op), user |-> req[r].user, email |-> req[r].email, fate |-> "writing"]
            kept == IF req[r].op = "admin_link" THEN LiveTokens(req[r].user) ELSE {}
<1>1. req[r] \in Request /\ req[r].user \in Users /\ req[r].email \in Emails /\ req[r].op \in MailOps
  BY DEF LinkIsWritten, TypeOK, RequestsKnow, MailOps
<1>2. l \in Link
  BY <1>1 DEF Link, KindOf, Kinds
<1>. HIDE DEF l
<1>3. /\ links' = Append(links, l) /\ links' \in Seq(Link) /\ Len(links') <= MaxLinks
      /\ DOMAIN links' = DOMAIN links \cup {Len(links) + 1}
  BY <1>2, AppendProperties DEF LinkIsWritten, TypeOK, l
<1>4. kept \in SUBSET (1..MaxTokens)
  BY LiveTokensFacts
<1>5. Len(links) + 1 \in Nat
  BY DEF TypeOK
<1>. HIDE DEF kept
<1>6. /\ req'[r] \in Request /\ req'[r].at = "mail" /\ req'[r].subject = Len(links) + 1
      /\ req'[r].op = req[r].op /\ req'[r].user = req[r].user /\ req'[r].email = req[r].email
      /\ \A q \in Requests \ {r} : req'[q] = req[q]
  <2>1. req' = [req EXCEPT ![r] = [req[r] EXCEPT !.at = "mail", !.subject = Len(links) + 1, !.revoke = kept]]
    BY DEF LinkIsWritten, TypeOK, kept
  <2>2. req'[r] = [req[r] EXCEPT !.at = "mail", !.subject = Len(links) + 1, !.revoke = kept]
        /\ \A q \in Requests \ {r} : req'[q] = req[q]
    BY <2>1 DEF TypeOK
  <2>. QED
    BY <1>1, <1>4, <1>5, <2>2 DEF Request
<1>7. req' \in [Requests -> Request]
  <2>1. req' = [q \in Requests |-> req'[q]]
    BY DEF LinkIsWritten, TypeOK
  <2>. QED
    BY <1>6, <2>1 DEF TypeOK
<1>8. TypeOK'
  BY <1>3, <1>7 DEF LinkIsWritten, TypeOK
<1>9. refresh' = refresh
  BY DEF LinkIsWritten
<1>10. RequestsKnow'
  BY <1>1, <1>3, <1>6, <1>9 DEF RequestsKnow, Exchanging, Ops, MailOps
<1>. QED
  BY <1>8, <1>10

LEMMA PasswordIsWrittenKeepsTypes ==
  ASSUME TypeOK, RequestsKnow, NEW r \in Requests, PasswordIsWritten(r)
  PROVE  TypeOK' /\ RequestsKnow'
<1>. DEFINE kept == LiveTokens(req[r].user)
            gone == IF req[r].op = "reset" THEN {}
                    ELSE {x.link : x \in {y \in rows["reset"] : y.user = req[r].user}}
<1>1. req[r] \in Request /\ req[r].at = "read" /\ req[r].op \in {"reset", "set_password"}
  BY DEF PasswordIsWritten, TypeOK
<1>2. kept \in SUBSET (1..MaxTokens)
  BY LiveTokensFacts
<1>3. gone \in SUBSET (1..MaxLinks)
  BY DEF TypeOK, Kinds, PasswordResetToken
<1>4. req' = [req EXCEPT ![r] = [req[r] EXCEPT !.at = "written", !.revoke = kept, !.drop = gone]]
  BY DEF PasswordIsWritten, TypeOK
<1>. HIDE DEF kept, gone
<1>5. /\ req'[r] \in Request /\ req'[r].at = "written"
      /\ req'[r].subject = req[r].subject
      /\ req'[r].op = req[r].op /\ req'[r].user = req[r].user /\ req'[r].email = req[r].email
      /\ \A q \in Requests \ {r} : req'[q] = req[q]
  <2>1. req'[r] = [req[r] EXCEPT !.at = "written", !.revoke = kept, !.drop = gone]
        /\ \A q \in Requests \ {r} : req'[q] = req[q]
    BY <1>4 DEF TypeOK
  <2>. QED
    BY <1>1, <1>2, <1>3, <2>1 DEF Request
<1>6. req' \in [Requests -> Request]
  BY <1>4, <1>5 DEF TypeOK
<1>7. TypeOK'
  BY <1>6 DEF PasswordIsWritten, TypeOK
<1>8. refresh' = refresh /\ links' = links
  BY DEF PasswordIsWritten
<1>9. RequestsKnow'
  BY <1>1, <1>5, <1>8 DEF RequestsKnow, Exchanging, MailOps
<1>. QED
  BY <1>7, <1>9

\* Sessions are ended as often as there are numbers.
LEMMA EndedFacts ==
  ASSUME user \in [Users -> User], NEW u \in Users
  PROVE  LET after == [user EXCEPT ![u].ended = @ + 1] IN
         /\ after \in [Users -> User]
         /\ after[u].ended = user[u].ended + 1
         /\ \A v \in Users \ {u} : after[v] = user[v]
<1>1. user[u] \in User
  OBVIOUS
<1>2. [user[u] EXCEPT !.ended = @ + 1] \in User
      /\ [user[u] EXCEPT !.ended = @ + 1].ended = user[u].ended + 1
  BY <1>1 DEF User
<1>. QED
  BY <1>2

\* A user's row changes and its sessions go on.
LEMMA RowChanges ==
  ASSUME user \in [Users -> User], NEW u \in Users, NEW x \in User, x.ended = user[u].ended,
         user' = [user EXCEPT ![u] = x]
  PROVE  user' \in [Users -> User] /\ \A v \in Users : user'[v].ended = user[v].ended
OBVIOUS

LEMMA MarkAsUsedFacts ==
  ASSUME TypeOK, NEW k \in Kinds, NEW n PROVE MarkAsUsed(k, n) \in [Kinds -> SUBSET PasswordResetToken]
<1>1. ASSUME NEW x \in rows[k]
      PROVE  (IF x.link = n THEN [x EXCEPT !.used = TRUE] ELSE x) \in PasswordResetToken
  <2>1. x \in PasswordResetToken
    BY DEF TypeOK
  <2>. QED
    BY <2>1 DEF PasswordResetToken
<1>2. {IF x.link = n THEN [x EXCEPT !.used = TRUE] ELSE x : x \in rows[k]} \subseteq PasswordResetToken
  BY <1>1
<1>. QED
  BY <1>2 DEF MarkAsUsed, TypeOK

LEMMA FollowFacts ==
  ASSUME TypeOK, NEW r \in Requests, req[r].subject \in DOMAIN links
  PROVE  Follow(r) \in Seq([link : 1..MaxLinks, crossed : BOOLEAN])
<1>. DEFINE c == req[r].crossed \/ SameLink(r) # {}
<1>1. LinkOf(r) \in 1..MaxLinks
  BY DEF LinkOf, TypeOK
<1>2. c \in BOOLEAN
  OBVIOUS
<1>. HIDE DEF c
<1>3. [link |-> LinkOf(r), crossed |-> c] \in [link : 1..MaxLinks, crossed : BOOLEAN]
  BY <1>1, <1>2
<1>. QED
  BY <1>3, AppendProperties DEF Follow, TypeOK, c

\* A fate comes over a link.
LEMMA FateFacts ==
  ASSUME TypeOK, NEW f \in {"writing", "mailed", "unsent", "undone"}, NEW new,
         DOMAIN new = DOMAIN links,
         \A n \in DOMAIN links : new[n] = links[n] \/ new[n] = [links[n] EXCEPT !.fate = f],
         new = [n \in DOMAIN links |-> new[n]]
  PROVE  new \in Seq(Link) /\ Len(new) = Len(links)
<1>1. ASSUME NEW n \in DOMAIN links PROVE new[n] \in Link
  <2>1. links[n] \in Link
    BY ElementOfSeq DEF TypeOK
  <2>. QED
    BY <2>1 DEF Link
<1>2. DOMAIN links = 1..Len(links) /\ Len(links) \in Nat
  BY DEF TypeOK
<1>3. new \in [1..Len(links) -> Link]
  BY <1>1, <1>2
<1>. QED
  BY <1>2, <1>3, SeqDef, LenProperties

LEMMA MailIsAnsweredKeepsTypes ==
  ASSUME TypeOK, RequestsKnow, NEW r \in Requests, NEW fate \in {"mailed", "unsent"},
         MailIsAnswered(r, fate)
  PROVE  TypeOK' /\ RequestsKnow'
<1>1. /\ req[r].at = "mail" /\ req[r].user \in Users /\ req[r].email \in Emails
      /\ req[r].subject \in DOMAIN links
  BY DEF MailIsAnswered, RequestsKnow
<1>2. links' \in Seq(Link) /\ Len(links') = Len(links) /\ DOMAIN links' = DOMAIN links
  <2>. DEFINE new == [links EXCEPT ![LinkOf(r)].fate = fate]
  <2>1. links' = new /\ DOMAIN new = DOMAIN links
    BY DEF MailIsAnswered
  <2>2. \A n \in DOMAIN links : new[n] = links[n] \/ new[n] = [links[n] EXCEPT !.fate = fate]
    OBVIOUS
  <2>3. new = [n \in DOMAIN links |-> new[n]]
    OBVIOUS
  <2>. HIDE DEF new
  <2>4. fate \in {"writing", "mailed", "unsent", "undone"}
    OBVIOUS
  <2>. QED
    BY <2>1, <2>2, <2>3, <2>4, FateFacts
<1>3. rows' \in [Kinds -> SUBSET PasswordResetToken]
  <2>1. NewRow(r) \in PasswordResetToken
    BY <1>1 DEF NewRow, PasswordResetToken, LinkOf, TypeOK
  <2>2. KindOf(req[r].op) \in Kinds
    BY DEF KindOf, Kinds
  <2>. QED
    BY <2>1, <2>2 DEF MailIsAnswered, ReplaceRow, TypeOK
<1>4. /\ refresh' \in Seq(RefreshToken) /\ Len(refresh') <= MaxTokens /\ DOMAIN refresh' = DOMAIN refresh
      /\ \A i \in DOMAIN refresh : refresh'[i].user = refresh[i].user
      /\ user' \in [Users -> User]
  <2>1. CASE req[r].op = "ask" \/ req[r].op = "forgot"
    BY <2>1 DEF MailIsAnswered, EndSessions, TypeOK
  <2>2. CASE ~(req[r].op = "ask" \/ req[r].op = "forgot")
    <3>1. refresh' = Revoke(req[r].revoke) /\ user' = [user EXCEPT ![req[r].user].ended = @ + 1]
      BY <2>2 DEF MailIsAnswered, EndSessions
    <3>2. user' \in [Users -> User]
      BY <1>1, <3>1, EndedFacts DEF TypeOK
    <3>. QED
      BY <3>1, <3>2, RevokeFacts DEF TypeOK
  <2>. QED
    BY <2>1, <2>2
<1>5. EndsAnd(r, Crossed(r)) /\ req' \in [Requests -> Request]
  BY EndsFacts DEF MailIsAnswered, TypeOK
<1>6. TypeOK'
  BY <1>2, <1>3, <1>4, <1>5 DEF MailIsAnswered, TypeOK
<1>. QED
  BY <1>2, <1>4, <1>5, <1>6, EndKeepsKnowledge

LEMMA ResetCommitsKeepsTypes ==
  ASSUME TypeOK, RequestsKnow, NEW r \in Requests, ResetCommits(r)
  PROVE  TypeOK' /\ RequestsKnow'
<1>1. req[r].user \in Users /\ req[r].subject \in DOMAIN links
  BY DEF ResetCommits, RequestsKnow
<1>2. user' \in [Users -> User]
  BY <1>1, EndedFacts DEF ResetCommits, TypeOK
<1>3. /\ refresh' \in Seq(RefreshToken) /\ Len(refresh') <= MaxTokens /\ DOMAIN refresh' = DOMAIN refresh
      /\ \A i \in DOMAIN refresh : refresh'[i].user = refresh[i].user
  BY RevokeFacts DEF ResetCommits, TypeOK
<1>4. rows' \in [Kinds -> SUBSET PasswordResetToken]
  BY MarkAsUsedFacts DEF ResetCommits, Kinds
<1>5. followed' \in Seq([link : 1..MaxLinks, crossed : BOOLEAN])
  BY <1>1, FollowFacts DEF ResetCommits
<1>6. EndsAnd(r, Issuing(req[r].user) \cup SameLink(r)) /\ req' \in [Requests -> Request]
  BY EndsFacts DEF ResetCommits, TypeOK
<1>7. links' = links /\ UNCHANGED <<forgiven, starts>>
  BY DEF ResetCommits
<1>8. TypeOK'
  BY <1>2, <1>3, <1>4, <1>5, <1>6, <1>7 DEF TypeOK
<1>. QED
  BY <1>3, <1>6, <1>7, <1>8, EndKeepsKnowledge

LEMMA SetPasswordCommitsKeepsTypes ==
  ASSUME TypeOK, RequestsKnow, NEW r \in Requests, SetPasswordCommits(r)
  PROVE  TypeOK' /\ RequestsKnow'
<1>1. req[r].user \in Users
  BY DEF SetPasswordCommits, RequestsKnow
<1>2. user' \in [Users -> User]
  BY <1>1, EndedFacts DEF SetPasswordCommits, TypeOK
<1>3. /\ refresh' \in Seq(RefreshToken) /\ Len(refresh') <= MaxTokens /\ DOMAIN refresh' = DOMAIN refresh
      /\ \A i \in DOMAIN refresh : refresh'[i].user = refresh[i].user
  BY RevokeFacts DEF SetPasswordCommits, TypeOK
<1>4. rows' \in [Kinds -> SUBSET PasswordResetToken]
  BY DEF SetPasswordCommits, TypeOK, Kinds
<1>5. forgiven' \in [Users -> 0..MaxLinks]
  <2>1. Len(links) \in 0..MaxLinks
    BY DEF TypeOK
  <2>. QED
    BY <2>1 DEF SetPasswordCommits, TypeOK
<1>6. EndsAnd(r, Issuing(req[r].user)) /\ req' \in [Requests -> Request]
  BY EndsFacts DEF SetPasswordCommits, TypeOK
<1>7. links' = links /\ UNCHANGED <<followed, starts>>
  BY DEF SetPasswordCommits
<1>8. TypeOK'
  BY <1>2, <1>3, <1>4, <1>5, <1>6, <1>7 DEF TypeOK
<1>. QED
  BY <1>3, <1>6, <1>7, <1>8, EndKeepsKnowledge

LEMMA VerifyCommitsKeepsTypes ==
  ASSUME TypeOK, RequestsKnow, NEW r \in Requests, VerifyCommits(r)
  PROVE  TypeOK' /\ RequestsKnow' /\ Quiet
<1>1. req[r].user \in Users /\ req[r].subject \in DOMAIN links
  BY DEF VerifyCommits, RequestsKnow
<1>2. user' \in [Users -> User] /\ \A u \in Users : user'[u].ended = user[u].ended
  <2>. DEFINE after == [user[req[r].user] EXCEPT !.verified = TRUE]
  <2>1. after \in User /\ after.ended = user[req[r].user].ended
    <3>1. user[req[r].user] \in User
      BY <1>1 DEF TypeOK
    <3>. QED
      BY <3>1 DEF User
  <2>2. user' = [user EXCEPT ![req[r].user] = after] /\ user \in [Users -> User]
    BY DEF VerifyCommits, TypeOK
  <2>. HIDE DEF after
  <2>. QED
    BY <1>1, <2>1, <2>2, RowChanges
<1>3. rows' \in [Kinds -> SUBSET PasswordResetToken]
  BY MarkAsUsedFacts DEF VerifyCommits, Kinds
<1>4. followed' \in Seq([link : 1..MaxLinks, crossed : BOOLEAN])
  BY <1>1, FollowFacts DEF VerifyCommits
<1>5. EndsAnd(r, SameLink(r)) /\ req' \in [Requests -> Request]
  BY EndsFacts DEF VerifyCommits, TypeOK
<1>6. UNCHANGED <<refresh, links, forgiven, starts>>
  BY DEF VerifyCommits
<1>7. TypeOK'
  BY <1>2, <1>3, <1>4, <1>5, <1>6 DEF TypeOK
<1>. QED
  BY <1>2, <1>5, <1>6, <1>7, EndKeepsKnowledge, EndIsQuiet

LEMMA UpdateCommitsKeepsTypes ==
  ASSUME TypeOK, RequestsKnow, NEW r \in Requests, UpdateCommits(r)
  PROVE  TypeOK' /\ RequestsKnow' /\ Quiet
<1>. DEFINE u == req[r].user
            email == IF req[r].email = NoEmail THEN user[u].email ELSE req[r].email
            active == IF req[r].active = "same" THEN user[u].active ELSE req[r].active = "on"
            C == IF req[r].active = "off" THEN Issuing(u) ELSE {}
<1>1. u \in Users /\ req[r] \in Request /\ user[u] \in User
  BY DEF UpdateCommits, RequestsKnow, TypeOK
<1>2. email \in Emails /\ active \in BOOLEAN
  BY <1>1 DEF Request, User
<1>3. user' = [user EXCEPT ![u] = [user[u] EXCEPT !.email = email, !.active = active]]
  BY DEF UpdateCommits, TypeOK
<1>. HIDE DEF email, active, u
<1>4. user' \in [Users -> User] /\ \A v \in Users : user'[v].ended = user[v].ended
  <2>. DEFINE after == [user[u] EXCEPT !.email = email, !.active = active]
  <2>1. after \in User /\ after.ended = user[u].ended
    BY <1>1, <1>2 DEF User
  <2>2. user' = [user EXCEPT ![u] = after] /\ user \in [Users -> User]
    BY <1>3 DEF TypeOK
  <2>. HIDE DEF after
  <2>. QED
    BY <1>1, <2>1, <2>2, RowChanges
<1>5. EndsAnd(r, C) /\ req' \in [Requests -> Request]
  BY EndsFacts DEF UpdateCommits, TypeOK, u
<1>6. UNCHANGED <<refresh, rows, links, followed, forgiven, starts>>
  BY DEF UpdateCommits
<1>. HIDE DEF C
<1>7. TypeOK'
  BY <1>4, <1>5, <1>6 DEF TypeOK
<1>. QED
  BY <1>4, <1>5, <1>6, <1>7, EndKeepsKnowledge, EndIsQuiet

LEMMA DeactivateUserKeepsTypes ==
  ASSUME TypeOK, RequestsKnow, NEW r \in Requests, NEW u \in Users, DeactivateUser(r, u)
  PROVE  TypeOK' /\ RequestsKnow' /\ Quiet
<1>1. user' \in [Users -> User] /\ \A v \in Users : user'[v].ended = user[v].ended
  <2>. DEFINE after == [user[u] EXCEPT !.active = FALSE]
  <2>1. after \in User /\ after.ended = user[u].ended
    <3>1. user[u] \in User
      BY DEF TypeOK
    <3>. QED
      BY <3>1 DEF User
  <2>2. user' = [user EXCEPT ![u] = after] /\ user \in [Users -> User]
    BY DEF DeactivateUser, TypeOK
  <2>. HIDE DEF after
  <2>. QED
    BY <2>1, <2>2, RowChanges
<1>2. EndsAnd(r, Issuing(u)) /\ req' \in [Requests -> Request]
  BY EndsFacts DEF DeactivateUser, TypeOK
<1>3. UNCHANGED <<refresh, rows, links, followed, forgiven>> /\ starts' \in 0..MaxStarts
  BY DEF DeactivateUser, TypeOK
<1>4. TypeOK'
  BY <1>1, <1>2, <1>3 DEF TypeOK
<1>. QED
  BY <1>1, <1>2, <1>3, <1>4, EndKeepsKnowledge, EndIsQuiet

LEMMA VerifyUserEmailKeepsTypes ==
  ASSUME TypeOK, RequestsKnow, NEW r \in Requests, NEW u \in Users, VerifyUserEmail(r, u)
  PROVE  TypeOK' /\ RequestsKnow' /\ Quiet
<1>1. user' \in [Users -> User] /\ \A v \in Users : user'[v].ended = user[v].ended
  <2>. DEFINE after == [user[u] EXCEPT !.verified = TRUE]
  <2>1. after \in User /\ after.ended = user[u].ended
    <3>1. user[u] \in User
      BY DEF TypeOK
    <3>. QED
      BY <3>1 DEF User
  <2>2. user' = [user EXCEPT ![u] = after] /\ user \in [Users -> User]
    BY DEF VerifyUserEmail, TypeOK
  <2>. HIDE DEF after
  <2>. QED
    BY <2>1, <2>2, RowChanges
<1>2. UNCHANGED <<refresh, rows, links, followed, forgiven, req>> /\ starts' \in 0..MaxStarts
  BY DEF VerifyUserEmail, TypeOK
<1>3. TypeOK'
  BY <1>1, <1>2 DEF TypeOK
<1>4. RequestsKnow'
  BY <1>2 DEF RequestsKnow, Exchanging
<1>. QED
  BY <1>1, <1>2, <1>3, <1>4 DEF Quiet, Kept

LEMMA FailsKeepsTypes ==
  ASSUME TypeOK, RequestsKnow, NEW r \in Requests, Fails(r)
  PROVE  TypeOK' /\ RequestsKnow' /\ Quiet
<1>1. links' \in Seq(Link) /\ Len(links') = Len(links) /\ DOMAIN links' = DOMAIN links
  <2>1. DOMAIN links' = DOMAIN links /\ links' = [n \in DOMAIN links |-> links'[n]]
    BY DEF Fails
  <2>2. \A n \in DOMAIN links : links'[n] = links[n] \/ links'[n] = [links[n] EXCEPT !.fate = "undone"]
    BY DEF Fails
  <2>. QED
    BY <2>1, <2>2, FateFacts
<1>2. EndsAnd(r, {}) /\ req' \in [Requests -> Request]
  BY EndsFacts DEF Fails, TypeOK
<1>3. UNCHANGED <<user, refresh, rows, followed, forgiven, starts>>
  BY DEF Fails
<1>4. TypeOK'
  BY <1>1, <1>2, <1>3 DEF TypeOK
<1>. QED
  BY <1>1, <1>2, <1>3, <1>4, EndKeepsKnowledge, EndIsQuiet

LEMMA LinkCollidesKeepsTypes ==
  ASSUME TypeOK, RequestsKnow, NEW r \in Requests, LinkCollides(r)
  PROVE  TypeOK' /\ RequestsKnow' /\ Quiet
<1>1. EndsAnd(r, {}) /\ req' \in [Requests -> Request]
  BY EndsFacts DEF LinkCollides, TypeOK
<1>2. UNCHANGED <<user, refresh, rows, links, followed, forgiven, starts>>
  BY DEF LinkCollides
<1>3. TypeOK'
  BY <1>1, <1>2 DEF TypeOK
<1>. QED
  BY <1>1, <1>2, <1>3, EndKeepsKnowledge, EndIsQuiet

-----------------------------------------------------------------------------
(* Theorems.                                                                *)

LEMMA InitKnows == Init => TypeOK /\ RequestsKnow
<1>. SUFFICES ASSUME Init PROVE TypeOK /\ RequestsKnow
  OBVIOUS
<1>1. Idle \in Request
  BY DEF Idle, Request
<1>2. PICK u \in Users, e \in Emails : refresh =
        <<[user |-> u, revoked |-> FALSE, parent |-> 0, ended |-> 0, active |-> TRUE, crossed |-> FALSE]>>
  BY DEF Init
<1>3. refresh \in Seq(RefreshToken) /\ Len(refresh) = 1
  <2>1. [user |-> u, revoked |-> FALSE, parent |-> 0, ended |-> 0, active |-> TRUE, crossed |-> FALSE]
          \in RefreshToken
    BY DEF RefreshToken
  <2>. QED
    BY <1>2, <2>1
<1>4. user \in [Users -> User]
  <2>1. ASSUME NEW x \in [email : Emails, verified : BOOLEAN, active : {TRUE}, ended : {0}]
        PROVE  x \in User
    <3>1. x = [email |-> x.email, verified |-> x.verified, active |-> x.active, ended |-> x.ended]
      OBVIOUS
    <3>2. x.email \in Emails /\ x.ended \in Nat
      OBVIOUS
    <3>3. x.verified \in BOOLEAN /\ x.active \in {TRUE}
      BY Zenon
    <3>4. x.active \in BOOLEAN
      BY <3>3, Zenon
    <3>. QED
      BY <3>1, <3>2, <3>3, <3>4 DEF User
  <2>. QED
    BY <2>1 DEF Init
<1>5. links = <<>> /\ followed = <<>> /\ links \in Seq(Link) /\ Len(links) = 0
      /\ followed \in Seq([link : 1..MaxLinks, crossed : BOOLEAN])
  BY DEF Init
<1>6. forgiven \in [Users -> 0..MaxLinks] /\ starts \in 0..MaxStarts
      /\ rows \in [Kinds -> SUBSET PasswordResetToken]
  BY DEF Init
<1>7. req \in [Requests -> Request]
  BY <1>1 DEF Init
<1>8. RequestsKnow
  BY DEF Init, RequestsKnow, Idle
<1>. QED
  BY <1>3, <1>4, <1>5, <1>6, <1>7, <1>8 DEF TypeOK

\* Types are kept, and requests know what they need, whatever overlaps.
LEMMA NextKnows == TypeOK /\ RequestsKnow /\ [Next]_vars => TypeOK' /\ RequestsKnow'
<1>. SUFFICES ASSUME TypeOK, RequestsKnow, [Next]_vars PROVE TypeOK' /\ RequestsKnow'
  OBVIOUS
<1>1. CASE UNCHANGED vars
  BY <1>1 DEF vars, TypeOK, RequestsKnow, Exchanging
<1>2. ASSUME NEW r \in Requests,
             \/ StartsAnother(r)
             \/ \E u \in Users : LoginChecks(r, u) \/ DeactivateUser(r, u) \/ VerifyUserEmail(r, u)
             \/ \E t \in DOMAIN refresh : RefreshChecks(r, t)
      PROVE  TypeOK' /\ RequestsKnow'
  BY <1>2, StartsAnotherKeepsTypes, LoginChecksKeepsTypes, DeactivateUserKeepsTypes,
     VerifyUserEmailKeepsTypes, RefreshChecksKeepsTypes
<1>3. ASSUME NEW r \in Requests, LoginIssues(r) \/ RefreshRotates(r) \/ LinkIsWritten(r) \/ LinkCollides(r)
      PROVE  TypeOK' /\ RequestsKnow'
  BY <1>3, LoginIssuesKeepsTypes, RefreshRotatesKeepsTypes, LinkIsWrittenKeepsTypes, LinkCollidesKeepsTypes
<1>4. ASSUME NEW r \in Requests, MailIsSent(r) \/ MailIsRefused(r)
      PROVE  TypeOK' /\ RequestsKnow'
  BY <1>4, MailIsAnsweredKeepsTypes DEF MailIsSent, MailIsRefused
<1>5. ASSUME NEW r \in Requests, PasswordIsWritten(r) \/ ResetCommits(r) \/ SetPasswordCommits(r)
      PROVE  TypeOK' /\ RequestsKnow'
  BY <1>5, PasswordIsWrittenKeepsTypes, ResetCommitsKeepsTypes, SetPasswordCommitsKeepsTypes
<1>6. ASSUME NEW r \in Requests, VerifyCommits(r) \/ UpdateCommits(r) \/ Fails(r)
      PROVE  TypeOK' /\ RequestsKnow'
  BY <1>6, VerifyCommitsKeepsTypes, UpdateCommitsKeepsTypes, FailsKeepsTypes
<1>7. CASE Next
  <2>1. PICK r \in Requests :
          \/ StartsAnother(r)
          \/ \E u \in Users : LoginChecks(r, u) \/ DeactivateUser(r, u) \/ VerifyUserEmail(r, u)
          \/ \E t \in DOMAIN refresh : RefreshChecks(r, t)
          \/ LoginIssues(r) \/ RefreshRotates(r)
          \/ LinkIsWritten(r) \/ LinkCollides(r) \/ MailIsSent(r) \/ MailIsRefused(r)
          \/ PasswordIsWritten(r) \/ ResetCommits(r) \/ SetPasswordCommits(r)
          \/ VerifyCommits(r) \/ UpdateCommits(r) \/ Fails(r)
    BY <1>7 DEF Next, StartsAnother
  <2>. QED
    BY <2>1, <1>2, <1>3, <1>4, <1>5, <1>6
<1>. QED
  BY <1>1, <1>7

\* A request that signs in, and what it issues.
LEMMA LoginKeepsInvariants ==
  ASSUME TypeOK, RequestsKnow, ChainInv, RecentInv, NEW r \in Requests, NEW u \in Users,
         LoginChecks(r, u)
  PROVE  ChainInv' /\ RecentInv'
<1>1. /\ req'[r].at = "read" /\ req'[r].op = "login" /\ req'[r].user = u /\ req'[r].ended = user[u].ended
      /\ \A q \in Requests \ {r} : req'[q] = req[q]
      /\ UNCHANGED <<user, refresh>>
  BY BeginFacts, ReadingFacts DEF LoginChecks, TypeOK, Ops
<1>2. ChainInv'
  <2>1. TokensFormChains'
    BY <1>1 DEF ChainInv, TokensFormChains
  <2>. QED
    BY <1>1, <2>1 DEF ChainInv, Exchanging
<1>3. \A i \in DOMAIN refresh' : TokenIsRecent(i)'
  BY <1>1 DEF RecentInv, TokenIsRecent, IsEnding
<1>4. \A q \in Requests : IssuesRecent(q)'
  BY <1>1 DEF RecentInv, IssuesRecent, Exchanging, SigningIn
<1>. QED
  BY <1>2, <1>3, <1>4 DEF RecentInv

\* The tokens there were stay as they are when another one is issued that is recent,
\* unless something crossed it.
LEMMA IssuedKeepsRecent ==
  ASSUME TypeOK, RequestsKnow, RecentInv, NEW r \in Requests, NEW C, EndsAnd(r, C), user' = user,
         NEW n, DOMAIN refresh' = DOMAIN refresh \cup {n}, n \notin DOMAIN refresh,
         \A i \in DOMAIN refresh :
           /\ refresh'[i].user = refresh[i].user
           /\ refresh'[i].ended = refresh[i].ended /\ refresh'[i].crossed = refresh[i].crossed
           /\ refresh[i].revoked => refresh'[i].revoked,
         \/ refresh'[n].crossed
         \/ /\ refresh'[n].ended = user[refresh'[n].user].ended
            /\ Ending(refresh'[n].user) = {}
  PROVE  RecentInv'
<1>1. /\ req'[r] = Idle
      /\ \A q \in Requests \ {r} : Kept(q) /\ (req[q].crossed => req'[q].crossed)
  BY EndsFacts DEF TypeOK
<1>2. ASSUME NEW q \in Requests
      PROVE  /\ Exchanging(q)' => Exchanging(q) /\ Kept(q) /\ (req[q].crossed => req'[q].crossed)
             /\ SigningIn(q)' => SigningIn(q) /\ Kept(q) /\ (req[q].crossed => req'[q].crossed)
             /\ IsEnding(q)' => IsEnding(q) /\ Kept(q)
  BY <1>1 DEF Exchanging, SigningIn, IsEnding, Kept, Idle
<1>3. \A i \in DOMAIN refresh : TokenIsRecent(i)'
  BY <1>2 DEF RecentInv, TokenIsRecent, Kept
<1>4. TokenIsRecent(n)'
  <2>1. \A q \in Requests : IsEnding(q) => q \in Ending(req[q].user)
    BY DEF IsEnding, Ending, AreUnderway
  <2>. QED
    BY <1>2, <2>1 DEF TokenIsRecent, Kept
<1>5. ASSUME NEW q \in Requests PROVE IssuesRecent(q)'
  <2>1. Exchanging(q) => req[q].subject \in DOMAIN refresh
    BY DEF RequestsKnow, Exchanging
  <2>. QED
    BY <1>2, <2>1 DEF RecentInv, IssuesRecent, Kept
<1>. QED
  BY <1>3, <1>4, <1>5 DEF RecentInv

LEMMA LoginIssuesKeepsInvariants ==
  ASSUME TypeOK, RequestsKnow, ChainInv, RecentInv, NEW r \in Requests, LoginIssues(r)
  PROVE  ChainInv' /\ RecentInv'
<1>. DEFINE n == Len(refresh) + 1
<1>1. /\ req[r].at # "idle" /\ SigningIn(r) /\ 0 \in 0..MaxTokens
      /\ Issue(r, 0) \in RefreshToken /\ Issue(r, 0).user = req[r].user
      /\ Issue(r, 0).parent = 0 /\ Issue(r, 0).ended = req[r].ended
  <2>1. req[r].at # "idle" /\ SigningIn(r) /\ 0 \in 0..MaxTokens
    BY DEF LoginIssues, SigningIn
  <2>. QED
    BY <2>1, IssueFacts
<1>2. /\ DOMAIN refresh' = DOMAIN refresh \cup {n} /\ n \in Nat \ {0}
      /\ refresh'[n] = Issue(r, 0)
      /\ \A i \in DOMAIN refresh : i # n /\ refresh'[i] = refresh[i]
  BY <1>1, AppendFacts DEF LoginIssues, TypeOK
<1>3. EndsAnd(r, {}) /\ user' = user
  BY DEF LoginIssues
<1>4. Issue(r, 0).crossed \/ (~req[r].crossed /\ Ending(req[r].user) = {})
  BY DEF Issue
<1>. HIDE DEF n
<1>5. RecentInv'
  <2>1. refresh'[n].crossed \/ (/\ refresh'[n].ended = user[refresh'[n].user].ended
                                /\ Ending(refresh'[n].user) = {})
    BY <1>1, <1>2, <1>4 DEF RecentInv, IssuesRecent
  <2>. QED
    BY <1>2, <1>3, <2>1, IssuedKeepsRecent
<1>6. ChainInv'
  <2>1. \A i \in DOMAIN refresh' : refresh'[i].parent \in 0..(i-1)
    BY <1>1, <1>2 DEF ChainInv
  <2>2. \A i \in DOMAIN refresh : refresh[i].parent # 0 => refresh[i].parent \in DOMAIN refresh
    BY DEF ChainInv, TypeOK
  <2>3. TokensFormChains'
    BY <1>1, <1>2, <2>2 DEF ChainInv, TokensFormChains
  <2>4. ASSUME NEW i \in DOMAIN refresh', NEW q \in Requests,
               Exchanging(q)', refresh'[i].parent = req'[q].subject
        PROVE  refresh'[i].crossed /\ req'[q].crossed
    <3>1. q # r /\ Exchanging(q) /\ req'[q].subject = req[q].subject /\ (req[q].crossed => req'[q].crossed)
      BY <1>3, <2>4, EndsFacts DEF TypeOK, Exchanging, Idle, Kept
    <3>2. req[q].subject \in DOMAIN refresh /\ req[q].subject # 0
      BY <3>1 DEF RequestsKnow, Exchanging, TypeOK
    <3>3. i \in DOMAIN refresh /\ refresh[i].parent = req[q].subject
      BY <1>1, <1>2, <2>4, <3>1, <3>2
    <3>. QED
      BY <1>2, <3>1, <3>3 DEF ChainInv
  <2>. QED
    BY <2>1, <2>3, <2>4 DEF ChainInv
<1>. QED
  BY <1>5, <1>6

\* A token that is not revoked was exchanged for no other.
LEMMA RefreshChecksKeepsInvariants ==
  ASSUME TypeOK, RequestsKnow, ChainInv, RecentInv, NEW r \in Requests,
         NEW t \in DOMAIN refresh, RefreshChecks(r, t)
  PROVE  ChainInv' /\ RecentInv'
<1>1. /\ req'[r].at = "read" /\ req'[r].op = "refresh" /\ req'[r].user = refresh[t].user
      /\ req'[r].subject = t /\ req'[r].ended = refresh[t].ended
      /\ \A q \in Requests \ {r} : req'[q] = req[q]
      /\ UNCHANGED <<user, refresh>> /\ ~refresh[t].revoked
  <2>. DEFINE x == [Reading("refresh", refresh[t].user) EXCEPT !.subject = t, !.ended = refresh[t].ended]
  <2>1. /\ x.at = "read" /\ x.op = "refresh" /\ x.user = refresh[t].user
        /\ x.subject = t /\ x.ended = refresh[t].ended
    BY RefreshReads
  <2>2. Begin(r, x) /\ UNCHANGED <<user, refresh>> /\ ~refresh[t].revoked
    BY DEF RefreshChecks
  <2>. HIDE DEF x
  <2>3. req'[r] = x /\ \A q \in Requests \ {r} : req'[q] = req[q]
    BY <2>2, BeginFacts DEF TypeOK
  <2>. QED
    BY <2>1, <2>2, <2>3
<1>2. ChainInv'
  <2>1. TokensFormChains'
    BY <1>1 DEF ChainInv, TokensFormChains
  <2>2. t # 0
    BY DEF TypeOK
  <2>3. \A i \in DOMAIN refresh : refresh[i].parent # t
    BY <1>1, <2>2 DEF ChainInv, TokensFormChains
  <2>. QED
    BY <1>1, <2>1, <2>3 DEF ChainInv, Exchanging
<1>3. \A i \in DOMAIN refresh' : TokenIsRecent(i)'
  BY <1>1 DEF RecentInv, TokenIsRecent, IsEnding
<1>4. ASSUME NEW q \in Requests PROVE IssuesRecent(q)'
  <2>1. CASE q = r
    <3>1. refresh[t].crossed \/ refresh[t].ended = user[refresh[t].user].ended
      BY <1>1 DEF RecentInv, TokenIsRecent
    <3>. QED
      BY <1>1, <2>1, <3>1 DEF IssuesRecent, SigningIn
  <2>2. CASE q # r
    BY <1>1, <2>2 DEF RecentInv, IssuesRecent, Exchanging, SigningIn
  <2>. QED
    BY <2>1, <2>2
<1>. QED
  BY <1>2, <1>3, <1>4 DEF RecentInv

\* The exchange itself: the token that is exchanged is revoked, and if others have read
\* it too, they and the new token are marked.
LEMMA RotateKeepsInvariants ==
  ASSUME TypeOK, RequestsKnow, ChainInv, RecentInv, NEW r \in Requests, RefreshRotates(r)
  PROVE  ChainInv' /\ RecentInv'
<1>. DEFINE t == req[r].subject  n == Len(refresh) + 1
<1>1. /\ t \in DOMAIN refresh /\ req[r].user = refresh[t].user
      /\ DOMAIN refresh' = DOMAIN refresh \cup {n} /\ n \in Nat \ {0} /\ t \in 1..(n-1)
      /\ refresh'[n].user = req[r].user /\ refresh'[n].parent = t /\ refresh'[n].ended = req[r].ended
      /\ Issue(r, t).crossed \/ SameToken(r) # {} => refresh'[n].crossed
      /\ \A i \in DOMAIN refresh :
           /\ i # n
           /\ refresh'[i].user = refresh[i].user /\ refresh'[i].parent = refresh[i].parent
           /\ refresh'[i].ended = refresh[i].ended /\ refresh'[i].crossed = refresh[i].crossed
           /\ refresh[i].revoked \/ i = t => refresh'[i].revoked
  <2>1. DOMAIN refresh = 1..Len(refresh) /\ Len(refresh) \in Nat
    BY DEF TypeOK
  <2>2. t \in DOMAIN refresh
    BY RotateFacts
  <2>3. n \in Nat \ {0} /\ t \in 1..(n-1)
    BY <2>1, <2>2
  <2>. QED
    BY <2>3, RotateFacts
<1>2. EndsAnd(r, SameToken(r)) /\ user' = user /\ Exchanging(r)
  BY DEF RefreshRotates, Exchanging
<1>3. Issue(r, t).crossed \/ (~req[r].crossed /\ Ending(req[r].user) = {} /\ (t = 0 \/ ~refresh[t].crossed))
  BY DEF Issue
<1>. HIDE DEF n, t
<1>4. RecentInv'
  <2>1. refresh'[n].crossed \/ (/\ refresh'[n].ended = user[refresh'[n].user].ended
                                /\ Ending(refresh'[n].user) = {})
    BY <1>1, <1>2, <1>3 DEF RecentInv, IssuesRecent, SigningIn, Exchanging, t
  <2>. QED
    BY <1>1, <1>2, <2>1, IssuedKeepsRecent
<1>5. ChainInv'
  <2>1. \A i \in DOMAIN refresh' : refresh'[i].parent \in 0..(i-1)
    BY <1>1 DEF ChainInv
  <2>2. \A i \in DOMAIN refresh : refresh[i].parent # 0 => refresh[i].parent \in DOMAIN refresh
    BY DEF ChainInv, TypeOK
  <2>3. ASSUME NEW i \in DOMAIN refresh, refresh[i].parent = t
        PROVE  refresh[i].crossed /\ refresh'[n].crossed
    <3>1. refresh[i].crossed /\ req[r].crossed
      BY <1>2, <2>3 DEF ChainInv, t
    <3>. QED
      BY <1>1, <1>3, <3>1
  <2>4. TokensFormChains'
    <3>1. ASSUME NEW i \in DOMAIN refresh', refresh'[i].parent # 0
          PROVE  refresh'[refresh'[i].parent].revoked
      BY <1>1, <2>2, <3>1 DEF ChainInv, TokensFormChains
    <3>2. ASSUME NEW i \in DOMAIN refresh', NEW j \in DOMAIN refresh', refresh'[i].parent # 0,
                 j # i, refresh'[j].parent = refresh'[i].parent
          PROVE  refresh'[i].crossed /\ refresh'[j].crossed
      <4>1. CASE i = n
        BY <1>1, <2>3, <3>2, <4>1
      <4>2. CASE j = n
        BY <1>1, <2>3, <3>2, <4>2
      <4>3. CASE i # n /\ j # n
        BY <1>1, <3>2, <4>3 DEF ChainInv, TokensFormChains
      <4>. QED
        BY <4>1, <4>2, <4>3
    <3>. QED
      BY <3>1, <3>2 DEF TokensFormChains
  <2>5. ASSUME NEW i \in DOMAIN refresh', NEW q \in Requests,
               Exchanging(q)', refresh'[i].parent = req'[q].subject
        PROVE  refresh'[i].crossed /\ req'[q].crossed
    <3>1. /\ q # r /\ Exchanging(q) /\ req'[q].subject = req[q].subject
          /\ req[q].crossed \/ q \in SameToken(r) => req'[q].crossed
      BY <1>2, <2>5, EndsFacts DEF TypeOK, Exchanging, Idle, Kept
    <3>2. CASE i = n
      <4>1. q \in SameToken(r)
        BY <1>1, <2>5, <3>1, <3>2 DEF SameToken, Exchanging, t
      <4>. QED
        BY <1>1, <3>1, <3>2, <4>1
    <3>3. CASE i # n
      BY <1>1, <2>5, <3>1, <3>3 DEF ChainInv
    <3>. QED
      BY <3>2, <3>3
  <2>. QED
    BY <2>1, <2>4, <2>5 DEF ChainInv
<1>. QED
  BY <1>4, <1>5

\* A request that has decided which tokens to revoke.
LEMMA CollectorsCollect ==
  ASSUME TypeOK, RequestsKnow, NEW r \in Requests,
         PasswordIsWritten(r) \/ (LinkIsWritten(r) /\ req[r].op = "admin_link")
  PROVE  CollectsTokens(r)
<1>1. req[r].user \in Users /\ r \in DOMAIN req /\ req[r] \in Request
  BY DEF PasswordIsWritten, LinkIsWritten, RequestsKnow, TypeOK
<1>2. CASE PasswordIsWritten(r)
  <2>1. req'[r].at = "written" /\ req'[r].user = req[r].user /\ req'[r].revoke = LiveTokens(req[r].user)
    BY <1>1, <1>2 DEF PasswordIsWritten, TypeOK, Request
  <2>. QED
    BY <1>1, <1>2, <2>1 DEF CollectsTokens, PasswordIsWritten, TypeOK
<1>3. CASE LinkIsWritten(r) /\ req[r].op = "admin_link"
  <2>1. req'[r].at = "mail" /\ req'[r].user = req[r].user /\ req'[r].revoke = LiveTokens(req[r].user)
    BY <1>1, <1>3 DEF LinkIsWritten, TypeOK, Request
  <2>. QED
    BY <1>1, <1>3, <2>1 DEF CollectsTokens, LinkIsWritten, TypeOK
<1>. QED
  BY <1>2, <1>3

\* The commits that end the sessions of a user.
LEMMA EndersEnd ==
  ASSUME TypeOK, RequestsKnow, NEW r \in Requests, NEW fate,
         \/ ResetCommits(r) \/ SetPasswordCommits(r)
         \/ MailIsAnswered(r, fate) /\ req[r].op = "admin_link"
  PROVE  EndsTheSessions(r)
<1>1. req[r].user \in Users /\ IsEnding(r)
  BY DEF ResetCommits, SetPasswordCommits, MailIsAnswered, RequestsKnow, IsEnding
<1>2. PICK C : EndsAnd(r, C) /\ Issuing(req[r].user) \subseteq C
  BY DEF ResetCommits, SetPasswordCommits, MailIsAnswered, Crossed
<1>3. /\ user' = [user EXCEPT ![req[r].user].ended = @ + 1]
      /\ refresh' = Revoke(req[r].revoke)
  BY DEF ResetCommits, SetPasswordCommits, MailIsAnswered, EndSessions
<1>4. /\ user'[req[r].user].ended = user[req[r].user].ended + 1
      /\ \A v \in Users \ {req[r].user} : user'[v] = user[v]
  BY <1>1, <1>3, EndedFacts DEF TypeOK
<1>5. /\ req'[r] = Idle
      /\ \A q \in Requests \ {r} : Kept(q) /\ (req[q].crossed \/ q \in C => req'[q].crossed)
  BY <1>2, EndsFacts DEF TypeOK
<1>. QED
  BY <1>1, <1>2, <1>3, <1>4, <1>5 DEF EndsTheSessions

\* The mails that end no sessions.
LEMMA MailsAreQuiet ==
  ASSUME TypeOK, RequestsKnow, NEW r \in Requests, NEW fate,
         \/ LinkIsWritten(r) /\ req[r].op # "admin_link"
         \/ MailIsAnswered(r, fate) /\ req[r].op # "admin_link"
  PROVE  Quiet
<1>1. CASE LinkIsWritten(r) /\ req[r].op # "admin_link"
  <2>1. /\ req'[r].at = "mail" /\ req'[r].op = req[r].op
        /\ \A q \in Requests \ {r} : req'[q] = req[q]
        /\ UNCHANGED <<user, refresh>>
    BY <1>1 DEF LinkIsWritten, TypeOK, Request
  <2>2. req[r].op \in {"forgot", "ask"}
    BY <1>1 DEF LinkIsWritten
  <2>. QED
    BY <2>1, <2>2 DEF Quiet, Kept, Exchanging, SigningIn, IsEnding
<1>2. CASE MailIsAnswered(r, fate) /\ req[r].op # "admin_link"
  <2>1. req[r].op \in {"forgot", "ask"}
    BY <1>2 DEF MailIsAnswered, RequestsKnow, MailOps
  <2>2. UNCHANGED <<user, refresh>> /\ EndsAnd(r, Crossed(r))
    BY <1>2, <2>1 DEF MailIsAnswered, EndSessions
  <2>. QED
    BY <2>2, EndIsQuiet
<1>. QED
  BY <1>1, <1>2

LEMMA NextInvariants ==
  TypeOK /\ RequestsKnow /\ ChainInv /\ RecentInv /\ [Next]_vars => ChainInv' /\ RecentInv'
<1>. SUFFICES ASSUME TypeOK, RequestsKnow, ChainInv, RecentInv, [Next]_vars PROVE ChainInv' /\ RecentInv'
  OBVIOUS
<1>1. refresh \in Seq(RefreshToken)
  BY DEF TypeOK
<1>2. ASSUME Quiet PROVE ChainInv' /\ RecentInv'
  BY <1>1, <1>2, QuietKeepsChains, QuietKeepsRecent
<1>3. CASE UNCHANGED vars
  <2>1. Quiet
    BY <1>3 DEF vars, Quiet, Kept
  <2>. QED
    BY <1>2, <2>1
<1>4. ASSUME NEW r \in Requests,
             \/ StartsAnother(r)
             \/ \E u \in Users : DeactivateUser(r, u) \/ VerifyUserEmail(r, u)
             \/ LinkCollides(r) \/ VerifyCommits(r) \/ UpdateCommits(r) \/ Fails(r)
      PROVE  ChainInv' /\ RecentInv'
  <2>1. Quiet
    BY <1>4, StartsAnotherKeepsTypes, DeactivateUserKeepsTypes, VerifyUserEmailKeepsTypes,
       LinkCollidesKeepsTypes, VerifyCommitsKeepsTypes, UpdateCommitsKeepsTypes, FailsKeepsTypes
  <2>. QED
    BY <1>2, <2>1
<1>5. ASSUME NEW r \in Requests,
             \/ \E u \in Users : LoginChecks(r, u)
             \/ \E t \in DOMAIN refresh : RefreshChecks(r, t)
             \/ LoginIssues(r) \/ RefreshRotates(r)
      PROVE  ChainInv' /\ RecentInv'
  BY <1>5, LoginKeepsInvariants, RefreshChecksKeepsInvariants, LoginIssuesKeepsInvariants,
     RotateKeepsInvariants
<1>6. ASSUME NEW r \in Requests, LinkIsWritten(r) \/ PasswordIsWritten(r)
      PROVE  ChainInv' /\ RecentInv'
  <2>1. CollectsTokens(r) \/ Quiet
    BY <1>6, CollectorsCollect, MailsAreQuiet
  <2>. QED
    BY <1>1, <1>2, <2>1, CollectingKeepsInvariants
<1>7. ASSUME NEW r \in Requests,
             \/ \E fate \in {"mailed", "unsent"} : MailIsAnswered(r, fate)
             \/ ResetCommits(r) \/ SetPasswordCommits(r)
      PROVE  ChainInv' /\ RecentInv'
  <2>1. EndsTheSessions(r) \/ Quiet
    BY <1>7, EndersEnd, MailsAreQuiet
  <2>. QED
    BY <1>2, <2>1, EndingKeepsInvariants
<1>8. CASE Next
  <2>1. PICK r \in Requests :
          \/ StartsAnother(r)
          \/ \E u \in Users : LoginChecks(r, u) \/ DeactivateUser(r, u) \/ VerifyUserEmail(r, u)
          \/ \E t \in DOMAIN refresh : RefreshChecks(r, t)
          \/ LoginIssues(r) \/ RefreshRotates(r)
          \/ LinkIsWritten(r) \/ LinkCollides(r)
          \/ \E fate \in {"mailed", "unsent"} : MailIsAnswered(r, fate)
          \/ PasswordIsWritten(r) \/ ResetCommits(r) \/ SetPasswordCommits(r)
          \/ VerifyCommits(r) \/ UpdateCommits(r) \/ Fails(r)
    BY <1>8 DEF Next, StartsAnother, MailIsSent, MailIsRefused
  <2>. QED
    BY <2>1, <1>4, <1>5, <1>6, <1>7
<1>. QED
  BY <1>3, <1>8

LEMMA InitInvariants == Init => ChainInv /\ RecentInv
<1>. SUFFICES ASSUME Init PROVE ChainInv /\ RecentInv
  OBVIOUS
<1>1. PICK u \in Users, e \in Emails : refresh =
        <<[user |-> u, revoked |-> FALSE, parent |-> 0, ended |-> 0, active |-> TRUE, crossed |-> FALSE]>>
  BY DEF Init
<1>2. DOMAIN refresh = {1} /\ refresh[1].parent = 0 /\ refresh[1].user = u /\ refresh[1].ended = 0
  BY <1>1
<1>3. user[u].ended = 0
  BY DEF Init
<1>4. \A q \in Requests : ~Exchanging(q) /\ ~SigningIn(q) /\ ~IsEnding(q)
  BY DEF Init, Exchanging, SigningIn, IsEnding, Idle
<1>. QED
  BY <1>2, <1>3, <1>4 DEF ChainInv, TokensFormChains, RecentInv, TokenIsRecent, IssuesRecent

\* Every variable keeps its type.
THEOREM TypeCorrect == Spec => []TypeOK
<1>1. TypeOK /\ RequestsKnow /\ [Next]_vars => (TypeOK /\ RequestsKnow)'
  BY NextKnows
<1>. QED
  BY <1>1, InitKnows, PTL DEF Spec

LEMMA InvariantsHold == Spec => [](ChainInv /\ RecentInv)
<1>. DEFINE IInv == TypeOK /\ RequestsKnow /\ ChainInv /\ RecentInv
<1>1. Init => IInv
  BY InitKnows, InitInvariants
<1>2. IInv /\ [Next]_vars => IInv'
  BY NextKnows, NextInvariants
<1>3. IInv => ChainInv /\ RecentInv
  OBVIOUS
<1>. HIDE DEF IInv
<1>. QED
  BY <1>1, <1>2, <1>3, PTL DEF Spec

\* However logins and exchanges overlap with each other and with everything that ends
\* sessions, a refresh token is exchanged once, and revoked by it, unless two requests
\* exchange it at the same time.
THEOREM TokensFormChainsHolds == Spec => []TokensFormChains
<1>1. ChainInv => TokensFormChains
  BY DEF ChainInv
<1>. QED
  BY <1>1, InvariantsHold, PTL

\* A refresh token that works after the sessions of its user were ended was issued after
\* it, or by a request that overlapped it.
THEOREM LiveTokensAreRecentHolds == Spec => []LiveTokensAreRecent
<1>1. RecentInv => LiveTokensAreRecent
  BY DEF RecentInv, TokenIsRecent, LiveTokensAreRecent
<1>. QED
  BY <1>1, InvariantsHold, PTL

-----------------------------------------------------------------------------
(* What becomes of the links.                                               *)

Outcomes == {"mailed", "unsent"}

\* Two links that stand in one row of one table.
SameRow(m, n) == links[m].kind = links[n].kind /\ links[m].user = links[n].user
                   /\ links[m].email = links[n].email

\* A row of a table is what its link was made for, and was committed with the outcome of the mail.
RowsAreLinks ==
  \A k \in Kinds : \A x \in rows[k] :
    /\ x.link \in DOMAIN links /\ links[x.link].fate \in Outcomes
    /\ links[x.link].kind = k /\ links[x.link].user = x.user /\ links[x.link].email = x.email

\* The request has written a row that is not committed, and is waiting for the mail.
Mailing(q) == req[q].at = "mail"

\* Nobody else holds the row it has written, and no link in that row is younger than its own.
MailsTheLatest ==
  \A q \in Requests : Mailing(q) =>
    /\ links[LinkOf(q)] = [kind |-> KindOf(req[q].op), user |-> req[q].user,
                           email |-> req[q].email, fate |-> "writing"]
    /\ \A n \in DOMAIN links : SameRow(n, LinkOf(q)) => n <= LinkOf(q)
    /\ \A p \in Requests : Mailing(p) /\ LinkOf(p) = LinkOf(q) => p = q

\* The request has found a link to be good, and is about to use it.
Following(q) == req[q].at \in {"read", "written"} /\ req[q].op \in {"reset", "verify"}

FollowsAMail ==
  \A q \in Requests : Following(q) =>
    links[LinkOf(q)].kind = req[q].op /\ links[LinkOf(q)].fate = "mailed"

\* What an administrator's password will remove are links of that user.
DropsOwnLinks ==
  \A q \in Requests : \A n \in req[q].drop :
    n \in DOMAIN links /\ links[n].kind = "reset" /\ links[n].user = req[q].user

ForgivenExist == \A u \in Users : forgiven[u] <= Len(links)

\* The row of a link that was followed is used; whoever is still about to follow it was
\* overlapped by the request that did.
FollowedAreUsed ==
  \A i \in DOMAIN followed :
    /\ followed[i].link \in DOMAIN links /\ links[followed[i].link].fate = "mailed"
    /\ \A k \in Kinds : \A x \in rows[k] : x.link = followed[i].link => x.used
    /\ \A q \in Requests : Following(q) /\ LinkOf(q) = followed[i].link =>
         followed[i].crossed /\ req[q].crossed

LinkInv ==
  /\ RowsAreLinks
  /\ MailsTheLatest
  /\ FollowsAMail
  /\ DropsOwnLinks
  /\ ForgivenExist
  /\ FollowedAreUsed
  /\ LinksWorkOnce

\* What LinksWorkOnce says of a link that was mailed, in parts.
Works(n)     == \E x \in rows[links[n].kind] : x.link = n /\ ~x.used
WasFollowed(n) == \E i \in DOMAIN followed : followed[i].link = n
WasReplaced(n) == \E m \in n+1..Len(links) : links[m].fate \in Outcomes /\ SameRow(m, n)
WasForgiven(n) == links[n].kind = "reset" /\ n <= forgiven[links[n].user]

LinkIsAccounted(n) == Works(n) \/ WasFollowed(n) \/ WasReplaced(n) \/ WasForgiven(n)

FollowedOnce ==
  \A i, j \in DOMAIN followed :
    i # j /\ followed[i].link = followed[j].link => followed[i].crossed /\ followed[j].crossed

LEMMA LinksWorkOnceParts ==
  LinksWorkOnce <=> /\ \A n \in DOMAIN links : links[n].fate = "mailed" => LinkIsAccounted(n)
                    /\ FollowedOnce
BY DEF LinksWorkOnce, LinkIsAccounted, Works, WasFollowed, WasReplaced, WasForgiven, FollowedOnce,
       SameRow, Outcomes

LEMMA LinksWorkOnceParts_ ==
  LinksWorkOnce' <=> /\ \A n \in DOMAIN links' : links'[n].fate = "mailed" => LinkIsAccounted(n)'
                     /\ FollowedOnce'
BY DEF LinksWorkOnce, LinkIsAccounted, Works, WasFollowed, WasReplaced, WasForgiven, FollowedOnce,
       SameRow, Outcomes

\* The request goes on as it was; the step may only have crossed it.
Stays(q) == Kept(q) /\ req'[q].drop = req[q].drop /\ (req[q].crossed => req'[q].crossed)

\* The request does nothing about links after the step.
LetsGo(q) == ~Mailing(q)' /\ ~Following(q)' /\ req'[q].drop = {}

LEMMA StaysFacts ==
  ASSUME NEW q, Stays(q)
  PROVE  /\ Mailing(q)' <=> Mailing(q)
         /\ Following(q)' <=> Following(q)
         /\ LinkOf(q)' = LinkOf(q)
BY DEF Stays, Kept, Mailing, Following, LinkOf

LEMMA EndsStay ==
  ASSUME req \in [Requests -> Request], NEW r \in Requests, NEW C, EndsAnd(r, C)
  PROVE  /\ LetsGo(r)
         /\ \A q \in Requests \ {r} : Stays(q) /\ (q \in C => req'[q].crossed)
<1>1. /\ req'[r] = Idle
      /\ \A q \in Requests \ {r} : Kept(q) /\ (req[q].crossed \/ q \in C => req'[q].crossed)
  BY EndsFacts
<1>2. ASSUME NEW q \in Requests \ {r} PROVE req'[q].drop = req[q].drop
  <2>1. req[q] \in Request
    OBVIOUS
  <2>. QED
    BY <2>1 DEF EndsAnd, Request
<1>. QED
  BY <1>1, <1>2 DEF Stays, LetsGo, Idle, Mailing, Following

\* A step that leaves the tables, the links and what was made of them alone, and after
\* which every request goes on or does nothing about links.
LinksRest ==
  /\ UNCHANGED <<rows, links, followed, forgiven>>
  /\ \A q \in Requests : Stays(q) \/ LetsGo(q)

LEMMA LinksRestKeeps ==
  ASSUME LinkInv, LinksRest PROVE LinkInv'
<1>1. \A q \in Requests : Mailing(q)' \/ Following(q)' \/ req'[q].drop # {} =>
        Stays(q) /\ (Mailing(q) <=> Mailing(q)') /\ (Following(q) <=> Following(q)') /\ LinkOf(q)' = LinkOf(q)
  BY StaysFacts DEF LinksRest, LetsGo
<1>2. RowsAreLinks' /\ ForgivenExist' /\ LinksWorkOnce'
  BY DEF LinksRest, LinkInv, RowsAreLinks, ForgivenExist, LinksWorkOnce
<1>3. MailsTheLatest'
  BY <1>1 DEF LinksRest, LinkInv, MailsTheLatest, Stays, Kept, SameRow
<1>4. FollowsAMail'
  BY <1>1 DEF LinksRest, LinkInv, FollowsAMail, Stays, Kept
<1>5. DropsOwnLinks'
  BY <1>1 DEF LinksRest, LinkInv, DropsOwnLinks, Stays, Kept
<1>6. FollowedAreUsed'
  BY <1>1 DEF LinksRest, LinkInv, FollowedAreUsed, Stays
<1>. QED
  BY <1>2, <1>3, <1>4, <1>5, <1>6 DEF LinkInv

\* A request finds a link to be good.
LEMMA CheckingKeeps ==
  ASSUME TypeOK, LinkInv, NEW r \in Requests, NEW n \in DOMAIN links, ResetChecks(r, n) \/ VerifyChecks(r, n)
  PROVE  LinkInv'
<1>. DEFINE op == IF ResetChecks(r, n) THEN "reset" ELSE "verify"
            x == [Reading(op, links[n].user) EXCEPT !.subject = n]
<1>1. /\ Begin(r, x) /\ UNCHANGED <<user, refresh, rows, links, followed, forgiven>>
      /\ links[n].fate = "mailed" /\ links[n].kind = op /\ IsValid(op, n) /\ op \in Kinds
  BY DEF ResetChecks, VerifyChecks, Kinds
<1>2. x.at = "read" /\ x.op = op /\ x.subject = n /\ x.drop = {}
  BY DEF Reading, Idle
<1>. HIDE DEF x, op
<1>3. req'[r] = x /\ \A q \in Requests \ {r} : req'[q] = req[q] /\ Stays(q)
  BY <1>1, BeginFacts DEF TypeOK, Stays, Kept
<1>4. ~Mailing(r)' /\ Following(r)' => LinkOf(r)' = n /\ req'[r].op = op
  BY <1>2, <1>3 DEF LinkOf
<1>5. ~Mailing(r)' /\ req'[r].drop = {}
  BY <1>2, <1>3 DEF Mailing
<1>6. \A q \in Requests \ {r} : (Mailing(q) <=> Mailing(q)') /\ (Following(q) <=> Following(q)') /\ LinkOf(q)' = LinkOf(q)
  BY <1>3, StaysFacts
<1>7. RowsAreLinks' /\ ForgivenExist' /\ LinksWorkOnce'
  BY <1>1 DEF LinkInv, RowsAreLinks, ForgivenExist, LinksWorkOnce
<1>8. MailsTheLatest'
  BY <1>1, <1>3, <1>5, <1>6 DEF LinkInv, MailsTheLatest, SameRow
<1>9. FollowsAMail'
  BY <1>1, <1>2, <1>3, <1>4, <1>5, <1>6 DEF LinkInv, FollowsAMail
<1>10. DropsOwnLinks'
  BY <1>1, <1>3, <1>5 DEF LinkInv, DropsOwnLinks
<1>11. \A i \in DOMAIN followed : followed[i].link # n
  BY <1>1 DEF LinkInv, FollowedAreUsed, IsValid, RowsOf
<1>12. FollowedAreUsed'
  BY <1>1, <1>3, <1>4, <1>5, <1>6, <1>11 DEF LinkInv, FollowedAreUsed
<1>. QED
  BY <1>7, <1>8, <1>9, <1>10, <1>12 DEF LinkInv

\* An administrator's password is about to be set, or a link's: the transaction has begun.
LEMMA PasswordKeeps ==
  ASSUME TypeOK, RequestsKnow, LinkInv, NEW r \in Requests, PasswordIsWritten(r)
  PROVE  LinkInv'
<1>. DEFINE kept == LiveTokens(req[r].user)
            gone == IF req[r].op = "reset" THEN {}
                    ELSE {x.link : x \in {y \in rows["reset"] : y.user = req[r].user}}
<1>1. /\ req' = [req EXCEPT ![r] = [req[r] EXCEPT !.at = "written", !.revoke = kept, !.drop = gone]]
      /\ req[r] \in Request /\ req[r].at = "read" /\ req[r].op \in {"reset", "set_password"}
      /\ UNCHANGED <<rows, links, followed, forgiven>>
  BY DEF PasswordIsWritten, TypeOK
<1>2. \A n \in gone : n \in DOMAIN links /\ links[n].kind = "reset" /\ links[n].user = req[r].user
  BY DEF LinkInv, RowsAreLinks, Kinds
<1>. HIDE DEF kept, gone
<1>3. /\ req'[r].at = "written" /\ req'[r].op = req[r].op /\ req'[r].subject = req[r].subject
      /\ req'[r].user = req[r].user /\ req'[r].drop = gone /\ req'[r].crossed = req[r].crossed
      /\ \A q \in Requests \ {r} : req'[q] = req[q] /\ Stays(q)
  <2>1. req'[r] = [req[r] EXCEPT !.at = "written", !.revoke = kept, !.drop = gone]
        /\ \A q \in Requests \ {r} : req'[q] = req[q]
    BY <1>1 DEF TypeOK
  <2>2. \A q \in Requests \ {r} : Stays(q)
    BY <2>1 DEF Stays, Kept
  <2>3. req[r] \in Request
    BY <1>1
  <2>4. /\ req'[r].at = "written" /\ req'[r].op = req[r].op /\ req'[r].subject = req[r].subject
        /\ req'[r].user = req[r].user /\ req'[r].drop = gone /\ req'[r].crossed = req[r].crossed
    BY <2>1, <2>3 DEF Request
  <2>. QED
    BY <2>1, <2>2, <2>4
<1>4. \A q \in Requests : /\ Mailing(q)' => q # r /\ Mailing(q)
                          /\ Following(q)' => Following(q) /\ req'[q].op = req[q].op
                                              /\ req'[q].crossed = req[q].crossed
                          /\ LinkOf(q)' = LinkOf(q)
  BY <1>1, <1>3 DEF Mailing, Following, LinkOf
<1>5. RowsAreLinks' /\ ForgivenExist' /\ LinksWorkOnce'
  BY <1>1 DEF LinkInv, RowsAreLinks, ForgivenExist, LinksWorkOnce
<1>6. MailsTheLatest'
  BY <1>1, <1>3, <1>4 DEF LinkInv, MailsTheLatest, SameRow
<1>7. FollowsAMail'
  BY <1>1, <1>4 DEF LinkInv, FollowsAMail
<1>8. DropsOwnLinks'
  BY <1>1, <1>2, <1>3 DEF LinkInv, DropsOwnLinks
<1>9. FollowedAreUsed'
  BY <1>1, <1>4 DEF LinkInv, FollowedAreUsed
<1>. QED
  BY <1>5, <1>6, <1>7, <1>8, <1>9 DEF LinkInv

\* A step that makes no link, and changes nothing of those there are but what became of
\* the one that r holds uncommitted.
SettlesOwn(r, fate) ==
  /\ Mailing(r) /\ LinkOf(r) \in DOMAIN links
  /\ DOMAIN links' = DOMAIN links /\ Len(links') = Len(links)
  /\ \A n \in DOMAIN links : n # LinkOf(r) => links'[n] = links[n]
  /\ links'[LinkOf(r)] = [links[LinkOf(r)] EXCEPT !.fate = fate]
  /\ UNCHANGED <<followed, forgiven>>
  /\ LetsGo(r) /\ \A q \in Requests \ {r} : Stays(q)

LEMMA SettlingKeepsRequests ==
  ASSUME TypeOK, RequestsKnow, LinkInv, NEW r \in Requests, NEW fate \in {"mailed", "unsent", "undone"},
         SettlesOwn(r, fate)
  PROVE  /\ MailsTheLatest' /\ FollowsAMail' /\ DropsOwnLinks' /\ ForgivenExist'
         /\ \A m, n \in DOMAIN links : SameRow(m, n)' <=> SameRow(m, n)
         /\ \A n \in DOMAIN links : n # LinkOf(r) => links'[n] = links[n]
         /\ links[LinkOf(r)].fate = "writing" /\ links'[LinkOf(r)].fate = fate
         /\ \A n \in DOMAIN links : /\ links'[n].kind = links[n].kind /\ links'[n].user = links[n].user
                                    /\ links'[n].email = links[n].email
<1>1. \A q \in Requests : Mailing(q)' \/ Following(q)' \/ req'[q].drop # {} =>
        q # r /\ Stays(q) /\ (Mailing(q) <=> Mailing(q)') /\ (Following(q) <=> Following(q)') /\ LinkOf(q)' = LinkOf(q)
  BY StaysFacts DEF SettlesOwn, LetsGo
<1>2. links[LinkOf(r)] \in Link /\ links[LinkOf(r)].fate = "writing"
  <2>1. LinkOf(r) \in DOMAIN links
    BY DEF SettlesOwn
  <2>2. links[LinkOf(r)] \in Link
    BY <2>1, ElementOfSeq DEF TypeOK
  <2>3. links[LinkOf(r)] = [kind |-> KindOf(req[r].op), user |-> req[r].user,
                            email |-> req[r].email, fate |-> "writing"]
    BY DEF SettlesOwn, LinkInv, MailsTheLatest
  <2>. QED
    BY <2>2, <2>3
<1>3. /\ links'[LinkOf(r)].fate = fate /\ links'[LinkOf(r)].kind = links[LinkOf(r)].kind
      /\ links'[LinkOf(r)].user = links[LinkOf(r)].user /\ links'[LinkOf(r)].email = links[LinkOf(r)].email
  BY <1>2 DEF SettlesOwn, Link
<1>4. \A n \in DOMAIN links : /\ links'[n].kind = links[n].kind /\ links'[n].user = links[n].user
                              /\ links'[n].email = links[n].email
                              /\ n # LinkOf(r) => links'[n] = links[n]
  BY <1>3 DEF SettlesOwn
<1>5. \A m, n \in DOMAIN links : SameRow(m, n)' <=> SameRow(m, n)
  BY <1>4 DEF SameRow
<1>6. \A q \in Requests \ {r} : Mailing(q) => LinkOf(q) # LinkOf(r)
  BY DEF SettlesOwn, LinkInv, MailsTheLatest
<1>7. \A q \in Requests : Mailing(q) \/ Following(q) => LinkOf(q) \in DOMAIN links
  BY DEF RequestsKnow, Mailing, Following, LinkOf
<1>8. MailsTheLatest'
  <2>1. ASSUME NEW q \in Requests, Mailing(q)'
        PROVE  /\ links'[LinkOf(q)'] = [kind |-> KindOf(req'[q].op), user |-> req'[q].user,
                                        email |-> req'[q].email, fate |-> "writing"]
               /\ \A n \in DOMAIN links' :
                    /\ links'[n].kind = links'[LinkOf(q)'].kind /\ links'[n].user = links'[LinkOf(q)'].user
                    /\ links'[n].email = links'[LinkOf(q)'].email
                    => n <= LinkOf(q)'
               /\ \A p \in Requests : Mailing(p)' /\ LinkOf(p)' = LinkOf(q)' => p = q
    <3>1. q # r /\ Stays(q) /\ Mailing(q) /\ LinkOf(q)' = LinkOf(q) /\ LinkOf(q) \in DOMAIN links
      BY <1>1, <1>7, <2>1
    <3>2. links'[LinkOf(q)] = links[LinkOf(q)]
      BY <1>4, <1>6, <3>1
    <3>3. DOMAIN links' = DOMAIN links
      BY DEF SettlesOwn
    <3>4. \A p \in Requests : Mailing(p)' => Mailing(p) /\ LinkOf(p)' = LinkOf(p)
      BY <1>1
    <3>. HIDE DEF Mailing, LinkOf
    <3>5. \A n \in DOMAIN links : SameRow(n, LinkOf(q)) => n <= LinkOf(q)
      BY <3>1 DEF LinkInv, MailsTheLatest
    <3>6. links'[LinkOf(q)'] = [kind |-> KindOf(req'[q].op), user |-> req'[q].user,
                                email |-> req'[q].email, fate |-> "writing"]
      BY <3>1, <3>2 DEF LinkInv, MailsTheLatest, Stays, Kept
    <3>7. ASSUME NEW n \in DOMAIN links',
                 links'[n].kind = links'[LinkOf(q)'].kind, links'[n].user = links'[LinkOf(q)'].user,
                 links'[n].email = links'[LinkOf(q)'].email
          PROVE  n <= LinkOf(q)'
      BY <1>4, <3>1, <3>2, <3>3, <3>5, <3>7 DEF SameRow
    <3>8. \A p \in Requests : Mailing(p)' /\ LinkOf(p)' = LinkOf(q)' => p = q
      BY <3>1, <3>4 DEF LinkInv, MailsTheLatest
    <3>. QED
      BY <3>6, <3>7, <3>8
  <2>. QED
    BY <2>1 DEF MailsTheLatest, SameRow
<1>9. FollowsAMail'
  <2>1. ASSUME NEW q \in Requests, Following(q)'
        PROVE  links'[LinkOf(q)'].kind = req'[q].op /\ links'[LinkOf(q)'].fate = "mailed"
    <3>1. q # r /\ Stays(q) /\ Following(q) /\ LinkOf(q)' = LinkOf(q) /\ LinkOf(q) \in DOMAIN links
      BY <1>1, <1>7, <2>1
    <3>2. links[LinkOf(q)].kind = req[q].op /\ links[LinkOf(q)].fate = "mailed"
      BY <3>1 DEF LinkInv, FollowsAMail
    <3>. QED
      BY <1>2, <1>4, <3>1, <3>2 DEF Stays, Kept
  <2>. QED
    BY <2>1 DEF FollowsAMail
<1>10. DropsOwnLinks'
  <2>1. ASSUME NEW q \in Requests, NEW n \in req'[q].drop
        PROVE  n \in DOMAIN links' /\ links'[n].kind = "reset" /\ links'[n].user = req'[q].user
    <3>1. Stays(q)
      BY <1>1, <2>1
    <3>. QED
      BY <1>4, <2>1, <3>1 DEF LinkInv, DropsOwnLinks, Stays, Kept, SettlesOwn
  <2>. QED
    BY <2>1 DEF DropsOwnLinks
<1>11. ForgivenExist'
  BY DEF LinkInv, ForgivenExist, SettlesOwn
<1>. QED
  BY <1>2, <1>3, <1>4, <1>5, <1>8, <1>9, <1>10, <1>11

\* The mail was not made up, or the process ended: the link is undone with its row.
LEMMA UndoingKeeps ==
  ASSUME TypeOK, RequestsKnow, LinkInv, NEW r \in Requests, SettlesOwn(r, "undone"), rows' = rows
  PROVE  LinkInv'
<1>. DEFINE n0 == LinkOf(r)
<1>1. /\ MailsTheLatest' /\ FollowsAMail' /\ DropsOwnLinks' /\ ForgivenExist'
      /\ \A m, n \in DOMAIN links : SameRow(m, n)' <=> SameRow(m, n)
      /\ \A n \in DOMAIN links : n # n0 => links'[n] = links[n]
      /\ links[n0].fate = "writing" /\ links'[n0].fate = "undone"
      /\ DOMAIN links' = DOMAIN links /\ Len(links') = Len(links) /\ UNCHANGED <<followed, forgiven>>
  BY SettlingKeepsRequests DEF SettlesOwn
<1>. HIDE DEF n0
<1>2. RowsAreLinks'
  BY <1>1 DEF LinkInv, RowsAreLinks, Outcomes
<1>3. FollowedAreUsed'
  <2>1. \A q \in Requests : Following(q)' =>
          Following(q) /\ LinkOf(q)' = LinkOf(q) /\ (req[q].crossed => req'[q].crossed)
    BY StaysFacts DEF SettlesOwn, LetsGo, Stays
  <2>. QED
    BY <1>1, <2>1 DEF LinkInv, FollowedAreUsed
<1>4. ASSUME NEW n \in DOMAIN links', links'[n].fate = "mailed" PROVE LinkIsAccounted(n)'
  <2>1. n # n0 /\ n \in DOMAIN links /\ links'[n] = links[n] /\ LinkIsAccounted(n)
    BY <1>1, <1>4, LinksWorkOnceParts DEF LinkInv
  <2>2. Works(n) \/ WasFollowed(n) \/ WasForgiven(n) => LinkIsAccounted(n)'
    BY <1>1, <2>1 DEF LinkIsAccounted, Works, WasFollowed, WasForgiven
  <2>3. ASSUME WasReplaced(n) PROVE WasReplaced(n)'
    <3>1. PICK m \in n+1..Len(links) : links[m].fate \in Outcomes /\ SameRow(m, n)
      BY <2>3 DEF WasReplaced
    <3>2. m \in DOMAIN links /\ m # n0
      BY <1>1, <2>1, <3>1 DEF Outcomes, TypeOK
    <3>. QED
      BY <1>1, <2>1, <3>1, <3>2 DEF WasReplaced
  <2>. QED
    BY <2>1, <2>2, <2>3 DEF LinkIsAccounted
<1>5. FollowedOnce'
  BY <1>1, LinksWorkOnceParts DEF LinkInv, FollowedOnce
<1>6. LinksWorkOnce'
  BY <1>4, <1>5, LinksWorkOnceParts_
<1>. QED
  BY <1>1, <1>2, <1>3, <1>6 DEF LinkInv

\* The mail was answered: the row of the link takes the place of the one before it.
LEMMA AnsweringKeeps ==
  ASSUME TypeOK, RequestsKnow, LinkInv, NEW r \in Requests, NEW fate \in Outcomes,
         SettlesOwn(r, fate), rows' = ReplaceRow(r)
  PROVE  LinkInv'
<1>. DEFINE n0 == LinkOf(r)
            k == KindOf(req[r].op)
<1>1. /\ MailsTheLatest' /\ FollowsAMail' /\ DropsOwnLinks' /\ ForgivenExist'
      /\ \A m, n \in DOMAIN links : SameRow(m, n)' <=> SameRow(m, n)
      /\ \A n \in DOMAIN links : n # n0 => links'[n] = links[n]
      /\ links[n0].fate = "writing" /\ links'[n0].fate = fate
      /\ \A n \in DOMAIN links : /\ links'[n].kind = links[n].kind /\ links'[n].user = links[n].user
                                 /\ links'[n].email = links[n].email
      /\ DOMAIN links' = DOMAIN links /\ Len(links') = Len(links) /\ UNCHANGED <<followed, forgiven>>
      /\ n0 \in DOMAIN links
  BY SettlingKeepsRequests DEF SettlesOwn, Outcomes
<1>2. /\ links[n0] = [kind |-> k, user |-> req[r].user, email |-> req[r].email, fate |-> "writing"]
      /\ \A n \in DOMAIN links : SameRow(n, n0) => n <= n0
  BY DEF SettlesOwn, LinkInv, MailsTheLatest
<1>3. /\ k \in Kinds
      /\ rows'[k] = {x \in rows[k] : x.user # req[r].user \/ x.email # req[r].email} \cup {NewRow(r)}
      /\ \A j \in Kinds : j # k => rows'[j] = rows[j]
  BY DEF KindOf, Kinds, ReplaceRow, TypeOK
<1>4. NewRow(r).user = req[r].user /\ NewRow(r).email = req[r].email /\ NewRow(r).link = n0
      /\ NewRow(r).used = FALSE
  BY DEF NewRow
<1>. HIDE DEF n0, k
<1>5. \A j \in Kinds : \A x \in rows'[j] : x \in rows[j] \/ (j = k /\ x = NewRow(r))
  BY <1>3
<1>6. RowsAreLinks'
  <2>1. ASSUME NEW j \in Kinds, NEW x \in rows'[j]
        PROVE  /\ x.link \in DOMAIN links' /\ links'[x.link].fate \in Outcomes
               /\ links'[x.link].kind = j /\ links'[x.link].user = x.user /\ links'[x.link].email = x.email
    <3>1. CASE x \in rows[j]
      BY <1>1, <3>1 DEF LinkInv, RowsAreLinks, Outcomes
    <3>2. CASE j = k /\ x = NewRow(r)
      BY <1>1, <1>2, <1>4, <3>2
    <3>. QED
      BY <1>5, <3>1, <3>2
  <2>. QED
    BY <2>1 DEF RowsAreLinks
<1>7. FollowedAreUsed'
  <2>1. \A q \in Requests : Following(q)' =>
          Following(q) /\ LinkOf(q)' = LinkOf(q) /\ (req[q].crossed => req'[q].crossed)
    BY StaysFacts DEF SettlesOwn, LetsGo, Stays
  <2>2. \A i \in DOMAIN followed : followed[i].link # n0
    BY <1>1 DEF LinkInv, FollowedAreUsed
  <2>3. \A i \in DOMAIN followed : \A j \in Kinds : \A x \in rows'[j] : x.link = followed[i].link => x.used
    BY <1>4, <1>5, <2>2 DEF LinkInv, FollowedAreUsed
  <2>. QED
    BY <1>1, <2>1, <2>2, <2>3 DEF LinkInv, FollowedAreUsed
<1>8. ASSUME NEW n \in DOMAIN links', links'[n].fate = "mailed" PROVE LinkIsAccounted(n)'
  <2>1. CASE n = n0
    <3>1. NewRow(r) \in rows'[links'[n].kind]
      BY <1>1, <1>2, <1>3, <2>1
    <3>. QED
      BY <1>4, <2>1, <3>1 DEF LinkIsAccounted, Works
  <2>2. CASE n # n0
    <3>1. n \in DOMAIN links /\ links'[n] = links[n] /\ LinkIsAccounted(n) /\ n \in Nat /\ n0 \in Nat
          /\ n0 <= Len(links) /\ links[n].kind \in Kinds
      <4>1. n \in DOMAIN links /\ links'[n] = links[n] /\ links[n] \in Link
        BY <1>1, <1>8, <2>2, ElementOfSeq DEF TypeOK
      <4>. QED
        BY <1>1, <1>8, <4>1, LinksWorkOnceParts DEF LinkInv, TypeOK, Link
    <3>2. ASSUME Works(n) PROVE LinkIsAccounted(n)'
      <4>1. PICK x \in rows[links[n].kind] : x.link = n /\ ~x.used
        BY <3>2 DEF Works
      <4>2. CASE x \in rows'[links[n].kind]
        BY <3>1, <4>1, <4>2 DEF LinkIsAccounted, Works
      <4>3. CASE x \notin rows'[links[n].kind]
        <5>1. links[n].kind = k /\ x.user = req[r].user /\ x.email = req[r].email
          BY <1>3, <3>1, <4>1, <4>3
        <5>2. links[n].user = x.user /\ links[n].email = x.email
          BY <3>1, <4>1 DEF LinkInv, RowsAreLinks
        <5>3. SameRow(n, n0) /\ SameRow(n0, n)
          BY <1>2, <5>1, <5>2 DEF SameRow
        <5>4. n0 \in n+1..Len(links')
          BY <1>1, <1>2, <2>2, <3>1, <5>3
        <5>. QED
          BY <1>1, <3>1, <5>3, <5>4 DEF LinkIsAccounted, WasReplaced
      <4>. QED
        BY <4>2, <4>3
    <3>3. WasFollowed(n) \/ WasForgiven(n) => LinkIsAccounted(n)'
      BY <1>1, <3>1 DEF LinkIsAccounted, WasFollowed, WasForgiven
    <3>4. ASSUME WasReplaced(n) PROVE WasReplaced(n)'
      <4>1. PICK m \in n+1..Len(links) : links[m].fate \in Outcomes /\ SameRow(m, n)
        BY <3>4 DEF WasReplaced
      <4>2. m \in DOMAIN links /\ m # n0
        BY <1>1, <3>1, <4>1 DEF Outcomes, TypeOK
      <4>. QED
        BY <1>1, <3>1, <4>1, <4>2 DEF WasReplaced
    <3>. QED
      BY <3>1, <3>2, <3>3, <3>4 DEF LinkIsAccounted
  <2>. QED
    BY <2>1, <2>2
<1>9. FollowedOnce'
  BY <1>1, LinksWorkOnceParts DEF LinkInv, FollowedOnce
<1>10. LinksWorkOnce'
  BY <1>8, <1>9, LinksWorkOnceParts_
<1>. QED
  BY <1>1, <1>6, <1>7, <1>10 DEF LinkInv

\* A link is made for a row that nobody else holds.
LEMMA WritingKeeps ==
  ASSUME TypeOK, RequestsKnow, LinkInv, NEW r \in Requests, LinkIsWritten(r)
  PROVE  LinkInv'
<1>. DEFINE l == [kind |-> KindOf(req[r].op), user |-> req[r].user, email |-> req[r].email, fate |-> "writing"]
            kept == IF req[r].op = "admin_link" THEN LiveTokens(req[r].user) ELSE {}
            n0 == Len(links) + 1
<1>1. /\ req[r] \in Request /\ req[r].op \in MailOps /\ req[r].user \in Users /\ req[r].email \in Emails
      /\ Holding(r) = {} /\ ~Mailing(r) /\ ~Following(r) /\ UNCHANGED <<rows, followed, forgiven>>
  BY DEF LinkIsWritten, TypeOK, RequestsKnow, MailOps, Mailing, Following
<1>2. l \in Link /\ l.fate = "writing" /\ l.kind = KindOf(req[r].op) /\ l.user = req[r].user
      /\ l.email = req[r].email
  BY <1>1 DEF Link, KindOf, Kinds
<1>3. req' = [req EXCEPT ![r] = [req[r] EXCEPT !.at = "mail", !.subject = n0, !.revoke = kept]]
  BY DEF LinkIsWritten, TypeOK
<1>. HIDE DEF l, kept
<1>4. /\ links' = Append(links, l) /\ Len(links') = n0 /\ links'[n0] = l
      /\ DOMAIN links' = DOMAIN links \cup {n0} /\ n0 \notin DOMAIN links /\ n0 \in Nat
      /\ \A n \in DOMAIN links : n \in Nat /\ n < n0 /\ links'[n] = links[n]
  BY <1>2, AppendProperties DEF LinkIsWritten, TypeOK, l
<1>. HIDE DEF n0
<1>5. req'[r] = [req[r] EXCEPT !.at = "mail", !.subject = n0, !.revoke = kept]
      /\ \A q \in Requests \ {r} : req'[q] = req[q] /\ Stays(q)
  <2>1. req'[r] = [req[r] EXCEPT !.at = "mail", !.subject = n0, !.revoke = kept]
        /\ \A q \in Requests \ {r} : req'[q] = req[q]
    BY <1>3 DEF TypeOK
  <2>. QED
    BY <2>1 DEF Stays, Kept
<1>6. /\ req'[r].at = "mail" /\ req'[r].subject = n0 /\ req'[r].op = req[r].op
      /\ req'[r].user = req[r].user /\ req'[r].email = req[r].email /\ req'[r].drop = req[r].drop
  BY <1>1, <1>5 DEF Request
<1>7. Mailing(r)' /\ ~Following(r)' /\ LinkOf(r)' = n0
  BY <1>6 DEF Mailing, Following, LinkOf
<1>8. \A q \in Requests \ {r} : /\ (Mailing(q) <=> Mailing(q)') /\ (Following(q) <=> Following(q)')
                                /\ LinkOf(q)' = LinkOf(q)
                                /\ Mailing(q) \/ Following(q) => LinkOf(q) \in DOMAIN links
  BY <1>5, StaysFacts DEF RequestsKnow, Mailing, Following, LinkOf
<1>9. \A m, n \in DOMAIN links : SameRow(m, n)' <=> SameRow(m, n)
  BY <1>4 DEF SameRow
<1>10. RowsAreLinks'
  BY <1>1, <1>4 DEF LinkInv, RowsAreLinks
<1>11. MailsTheLatest'
  <2>1. ASSUME NEW q \in Requests \ {r}, Mailing(q)
        PROVE  /\ links[LinkOf(q)] = [kind |-> KindOf(req[q].op), user |-> req[q].user,
                                      email |-> req[q].email, fate |-> "writing"]
               /\ \A n \in DOMAIN links : SameRow(n, LinkOf(q)) => n <= LinkOf(q)
               /\ \A p \in Requests : Mailing(p) /\ LinkOf(p) = LinkOf(q) => p = q
    BY <2>1 DEF LinkInv, MailsTheLatest
  <2>2. ASSUME NEW q \in Requests \ {r}, Mailing(q)
        PROVE  ~(/\ links'[n0].kind = links'[LinkOf(q)].kind /\ links'[n0].user = links'[LinkOf(q)].user
                 /\ links'[n0].email = links'[LinkOf(q)].email)
    <3>1. LinkOf(q)' = LinkOf(q) /\ links'[LinkOf(q)] = links[LinkOf(q)]
      BY <1>4, <1>8, <2>2
    <3>2. q \notin Holding(r)
      BY <1>1
    <3>3. ~(KindOf(req[q].op) = l.kind /\ req[q].user = l.user /\ req[q].email = l.email)
      BY <1>2, <2>2, <3>2 DEF Holding, Mailing
    <3>4. /\ links'[LinkOf(q)].kind = KindOf(req[q].op) /\ links'[LinkOf(q)].user = req[q].user
          /\ links'[LinkOf(q)].email = req[q].email
      <4>1. links[LinkOf(q)] = [kind |-> KindOf(req[q].op), user |-> req[q].user,
                                email |-> req[q].email, fate |-> "writing"]
        BY <2>1, <2>2
      <4>. QED
        BY <3>1, <4>1
    <3>5. links'[n0] = l
      BY <1>4
    <3>. QED
      BY <3>3, <3>4, <3>5
  <2>3. ASSUME NEW q \in Requests, Mailing(q)', q # r
        PROVE  /\ links'[LinkOf(q)'] = [kind |-> KindOf(req'[q].op), user |-> req'[q].user,
                                        email |-> req'[q].email, fate |-> "writing"]
               /\ \A n \in DOMAIN links' :
                    /\ links'[n].kind = links'[LinkOf(q)'].kind /\ links'[n].user = links'[LinkOf(q)'].user
                    /\ links'[n].email = links'[LinkOf(q)'].email
                    => n <= LinkOf(q)'
               /\ \A p \in Requests : Mailing(p)' /\ LinkOf(p)' = LinkOf(q)' => p = q
    <3>1. Mailing(q) /\ LinkOf(q)' = LinkOf(q) /\ LinkOf(q) \in DOMAIN links /\ req'[q] = req[q]
      BY <1>5, <1>8, <2>3
    <3>2. links'[LinkOf(q)] = links[LinkOf(q)]
      BY <1>4, <3>1
    <3>3. links'[LinkOf(q)'] = [kind |-> KindOf(req'[q].op), user |-> req'[q].user,
                                email |-> req'[q].email, fate |-> "writing"]
      BY <2>1, <2>3, <3>1, <3>2
    <3>4. ASSUME NEW n \in DOMAIN links',
                 links'[n].kind = links'[LinkOf(q)'].kind, links'[n].user = links'[LinkOf(q)'].user,
                 links'[n].email = links'[LinkOf(q)'].email
          PROVE  n <= LinkOf(q)'
      <4>1. n # n0
        BY <2>2, <2>3, <3>1, <3>4
      <4>2. n \in DOMAIN links /\ SameRow(n, LinkOf(q))
        BY <1>4, <3>1, <3>2, <3>4, <4>1 DEF SameRow
      <4>. QED
        BY <2>1, <2>3, <3>1, <4>2
    <3>5. ASSUME NEW p \in Requests, Mailing(p)', LinkOf(p)' = LinkOf(q)' PROVE p = q
      <4>1. p # r
        BY <1>4, <1>7, <3>1, <3>5
      <4>. QED
        BY <1>8, <2>1, <2>3, <3>1, <3>5, <4>1
    <3>. QED
      BY <3>3, <3>4, <3>5
  <2>4. /\ links'[LinkOf(r)'] = [kind |-> KindOf(req'[r].op), user |-> req'[r].user,
                                 email |-> req'[r].email, fate |-> "writing"]
        /\ \A n \in DOMAIN links' : n <= LinkOf(r)'
    BY <1>4, <1>6, <1>7 DEF l
  <2>5. ASSUME NEW p \in Requests, Mailing(p)', LinkOf(p)' = LinkOf(r)' PROVE p = r
    BY <1>4, <1>7, <1>8, <2>5
  <2>. QED
    BY <2>3, <2>4, <2>5 DEF MailsTheLatest, SameRow
<1>12. FollowsAMail'
  BY <1>4, <1>5, <1>7, <1>8 DEF LinkInv, FollowsAMail
<1>13. DropsOwnLinks'
  <2>1. ASSUME NEW q \in Requests, NEW n \in req'[q].drop
        PROVE  n \in DOMAIN links' /\ links'[n].kind = "reset" /\ links'[n].user = req'[q].user
    <3>1. n \in req[q].drop /\ req'[q].user = req[q].user
      BY <1>5, <1>6, <2>1
    <3>2. n \in DOMAIN links /\ links[n].kind = "reset" /\ links[n].user = req[q].user
      BY <3>1 DEF LinkInv, DropsOwnLinks
    <3>. QED
      BY <1>4, <3>1, <3>2
  <2>. QED
    BY <2>1 DEF DropsOwnLinks
<1>14. ForgivenExist'
  <2>1. \A u \in Users : forgiven[u] \in Nat /\ forgiven[u] <= Len(links)
    BY DEF TypeOK, LinkInv, ForgivenExist
  <2>2. Len(links) \in Nat /\ Len(links') = Len(links) + 1
    BY <1>4 DEF TypeOK, n0
  <2>. QED
    BY <1>1, <2>1, <2>2 DEF ForgivenExist
<1>15. FollowedAreUsed'
  BY <1>1, <1>4, <1>5, <1>7, <1>8 DEF LinkInv, FollowedAreUsed
<1>16. ASSUME NEW n \in DOMAIN links', links'[n].fate = "mailed" PROVE LinkIsAccounted(n)'
  <2>1. n \in DOMAIN links /\ links'[n] = links[n] /\ LinkIsAccounted(n) /\ n \in Nat
    BY <1>2, <1>4, <1>16, LinksWorkOnceParts DEF LinkInv
  <2>2. Works(n) \/ WasFollowed(n) \/ WasForgiven(n) => LinkIsAccounted(n)'
    BY <1>1, <2>1 DEF LinkIsAccounted, Works, WasFollowed, WasForgiven
  <2>3. ASSUME WasReplaced(n) PROVE WasReplaced(n)'
    <3>1. PICK m \in n+1..Len(links) : links[m].fate \in Outcomes /\ SameRow(m, n)
      BY <2>3 DEF WasReplaced
    <3>2. m \in DOMAIN links /\ m \in n+1..Len(links')
      BY <1>4, <2>1, <3>1 DEF TypeOK, n0
    <3>. QED
      BY <1>4, <1>9, <2>1, <3>1, <3>2 DEF WasReplaced
  <2>. QED
    BY <2>1, <2>2, <2>3 DEF LinkIsAccounted
<1>17. FollowedOnce'
  BY <1>1, LinksWorkOnceParts DEF LinkInv, FollowedOnce
<1>18. LinksWorkOnce'
  BY <1>16, <1>17, LinksWorkOnceParts_
<1>. QED
  BY <1>10, <1>11, <1>12, <1>13, <1>14, <1>15, <1>18 DEF LinkInv

\* What marking the row of link n in table k does to the tables.
LEMMA MarkedRows ==
  ASSUME TypeOK, NEW k \in Kinds, NEW n, rows' = MarkAsUsed(k, n)
  PROVE  /\ \A j \in Kinds : \A y \in rows'[j] : \E x \in rows[j] :
              /\ y.link = x.link /\ y.user = x.user /\ y.email = x.email
              /\ x.used \/ (j = k /\ x.link = n) => y.used
         /\ \A j \in Kinds : \A x \in rows[j] : j # k \/ x.link # n => x \in rows'[j]
<1>1. /\ rows'[k] = {IF x.link = n THEN [x EXCEPT !.used = TRUE] ELSE x : x \in rows[k]}
      /\ \A j \in Kinds : j # k => rows'[j] = rows[j]
  BY DEF MarkAsUsed, TypeOK
<1>2. ASSUME NEW y \in rows'[k]
      PROVE  \E x \in rows[k] : /\ y.link = x.link /\ y.user = x.user /\ y.email = x.email
                                /\ x.used \/ x.link = n => y.used
  <2>1. PICK x \in rows[k] : y = IF x.link = n THEN [x EXCEPT !.used = TRUE] ELSE x
    BY <1>1, <1>2
  <2>2. x \in PasswordResetToken
    BY DEF TypeOK
  <2>3. y.link = x.link /\ y.user = x.user /\ y.email = x.email /\ (x.used \/ x.link = n => y.used)
    BY <2>1, <2>2 DEF PasswordResetToken
  <2>. QED
    BY <2>3
<1>3. \A x \in rows[k] : x.link # n => x \in rows'[k]
  BY <1>1
<1>4. ASSUME NEW j \in Kinds, NEW y \in rows'[j]
      PROVE  \E x \in rows[j] : /\ y.link = x.link /\ y.user = x.user /\ y.email = x.email
                                /\ x.used \/ (j = k /\ x.link = n) => y.used
  <2>1. CASE j = k
    BY <1>2, <1>4, <2>1
  <2>2. CASE j # k
    <3>1. y \in rows[j]
      BY <1>1, <1>4, <2>2
    <3>. QED
      BY <2>2, <3>1
  <2>. QED
    BY <2>1, <2>2
<1>5. \A j \in Kinds : \A x \in rows[j] : j # k \/ x.link # n => x \in rows'[j]
  BY <1>1, <1>3
<1>. QED
  BY <1>4, <1>5

\* A request uses the link it has found, and crosses the others that have found it.
Follows(r) ==
  /\ Following(r)
  /\ rows' = MarkAsUsed(req[r].op, LinkOf(r))
  /\ followed' = Follow(r)
  /\ UNCHANGED <<links, forgiven>>
  /\ LetsGo(r)
  /\ \A q \in Requests \ {r} : Stays(q) /\ (q \in SameLink(r) => req'[q].crossed)

LEMMA FollowingKeeps ==
  ASSUME TypeOK, RequestsKnow, LinkInv, NEW r \in Requests, Follows(r)
  PROVE  LinkInv'
<1>. DEFINE n0 == LinkOf(r)
            k == req[r].op
            c == req[r].crossed \/ SameLink(r) # {}
            f == [link |-> n0, crossed |-> c]
<1>1. /\ Following(r) /\ k \in Kinds /\ n0 \in DOMAIN links /\ links[n0].kind = k /\ links[n0].fate = "mailed"
      /\ n0 \in 1..MaxLinks
  BY DEF Follows, Following, LinkInv, FollowsAMail, RequestsKnow, Kinds, LinkOf, TypeOK
<1>2. UNCHANGED <<links, forgiven>> /\ rows' = MarkAsUsed(k, n0) /\ followed' = Append(followed, f)
  BY DEF Follows, Follow
<1>3. f \in [link : 1..MaxLinks, crossed : BOOLEAN] /\ f.link = n0 /\ f.crossed = c
  BY <1>1
<1>. HIDE DEF f
<1>4. /\ DOMAIN followed' = DOMAIN followed \cup {Len(followed) + 1} /\ Len(followed) + 1 \notin DOMAIN followed
      /\ followed'[Len(followed) + 1] = f
      /\ \A i \in DOMAIN followed : followed'[i] = followed[i]
  BY <1>2, <1>3, AppendProperties DEF TypeOK
<1>5. \A q \in Requests : Mailing(q)' \/ Following(q)' \/ req'[q].drop # {} =>
        q # r /\ Stays(q) /\ (Mailing(q) <=> Mailing(q)') /\ (Following(q) <=> Following(q)') /\ LinkOf(q)' = LinkOf(q)
  BY StaysFacts DEF Follows, LetsGo
<1>. HIDE DEF n0, k, c
<1>6. /\ \A j \in Kinds : \A y \in rows'[j] : \E x \in rows[j] :
            /\ y.link = x.link /\ y.user = x.user /\ y.email = x.email
            /\ x.used \/ (j = k /\ x.link = n0) => y.used
      /\ \A j \in Kinds : \A x \in rows[j] : j # k \/ x.link # n0 => x \in rows'[j]
  BY <1>1, <1>2, MarkedRows
<1>7. RowsAreLinks'
  BY <1>2, <1>6 DEF LinkInv, RowsAreLinks
<1>8. MailsTheLatest'
  BY <1>2, <1>5 DEF LinkInv, MailsTheLatest, SameRow, Stays, Kept
<1>9. FollowsAMail'
  BY <1>2, <1>5 DEF LinkInv, FollowsAMail, Stays, Kept
<1>10. DropsOwnLinks' /\ ForgivenExist'
  BY <1>2, <1>5 DEF LinkInv, DropsOwnLinks, ForgivenExist, Stays, Kept
<1>11. \A q \in Requests : Following(q)' /\ LinkOf(q)' = n0 => c /\ req'[q].crossed
  <2>1. ASSUME NEW q \in Requests, Following(q)', LinkOf(q)' = n0 PROVE q \in SameLink(r)
    <3>1. q # r /\ Following(q) /\ LinkOf(q) = n0
      BY <1>5, <2>1
    <3>2. req[q].op = k
      BY <1>1, <3>1 DEF LinkInv, FollowsAMail
    <3>. QED
      BY <3>1, <3>2 DEF SameLink, Following, LinkOf, n0, k
  <2>2. \A q \in SameLink(r) : req'[q].crossed
    BY DEF Follows, SameLink
  <2>. QED
    BY <2>1, <2>2 DEF c
<1>12. FollowedAreUsed'
  <2>1. ASSUME NEW i \in DOMAIN followed
        PROVE  /\ followed[i].link \in DOMAIN links /\ links[followed[i].link].fate = "mailed"
               /\ \A j \in Kinds : \A y \in rows'[j] : y.link = followed[i].link => y.used
               /\ \A q \in Requests : Following(q)' /\ LinkOf(q)' = followed[i].link =>
                    followed[i].crossed /\ req'[q].crossed
    BY <1>5, <1>6 DEF LinkInv, FollowedAreUsed, Stays
  <2>2. \A j \in Kinds : \A y \in rows'[j] : y.link = n0 => y.used
    <3>1. ASSUME NEW j \in Kinds, NEW x \in rows[j], x.link = n0 PROVE j = k
      BY <1>1, <3>1 DEF LinkInv, RowsAreLinks
    <3>. QED
      BY <1>6, <3>1
  <2>. QED
    BY <1>1, <1>2, <1>3, <1>4, <1>11, <2>1, <2>2 DEF FollowedAreUsed
<1>13. ASSUME NEW n \in DOMAIN links', links'[n].fate = "mailed" PROVE LinkIsAccounted(n)'
  <2>1. n \in DOMAIN links /\ LinkIsAccounted(n) /\ links[n].kind \in Kinds
    <3>1. n \in DOMAIN links /\ links[n] \in Link
      BY <1>2, <1>13, ElementOfSeq DEF TypeOK
    <3>. QED
      BY <1>2, <1>13, <3>1, LinksWorkOnceParts DEF LinkInv, Link
  <2>2. WasReplaced(n) \/ WasForgiven(n) => LinkIsAccounted(n)'
    BY <1>2, <2>1 DEF LinkIsAccounted, WasReplaced, WasForgiven, SameRow
  <2>3. WasFollowed(n) => WasFollowed(n)'
    BY <1>4 DEF WasFollowed
  <2>4. n = n0 => WasFollowed(n)'
    BY <1>3, <1>4 DEF WasFollowed
  <2>5. n # n0 /\ Works(n) => Works(n)'
    BY <1>2, <1>6, <2>1 DEF Works
  <2>. QED
    BY <2>1, <2>2, <2>3, <2>4, <2>5 DEF LinkIsAccounted
<1>14. FollowedOnce'
  <2>1. \A i \in DOMAIN followed : followed[i].link = n0 => followed[i].crossed /\ c
    BY <1>1 DEF LinkInv, FollowedAreUsed, c, n0
  <2>2. FollowedOnce
    BY LinksWorkOnceParts DEF LinkInv
  <2>. QED
    BY <1>3, <1>4, <2>1, <2>2 DEF FollowedOnce
<1>15. LinksWorkOnce'
  BY <1>13, <1>14, LinksWorkOnceParts_
<1>. QED
  BY <1>7, <1>8, <1>9, <1>10, <1>12, <1>15 DEF LinkInv

\* An administrator's password removes the rows of the links its user had been sent.
LEMMA SettingPasswordKeeps ==
  ASSUME TypeOK, RequestsKnow, LinkInv, NEW r \in Requests, SetPasswordCommits(r)
  PROVE  LinkInv'
<1>. DEFINE u == req[r].user
<1>1. /\ UNCHANGED <<links, followed>> /\ u \in Users
      /\ rows' = [rows EXCEPT !["reset"] = {x \in @ : x.link \notin req[r].drop}]
      /\ forgiven' = [forgiven EXCEPT ![u] = Len(links)]
  BY DEF SetPasswordCommits, RequestsKnow
<1>2. LetsGo(r) /\ \A q \in Requests \ {r} : Stays(q)
  <2>1. EndsAnd(r, Issuing(u))
    BY DEF SetPasswordCommits
  <2>. QED
    BY <2>1, EndsStay DEF TypeOK
<1>. HIDE DEF u
<1>3. \A q \in Requests : Mailing(q)' \/ Following(q)' \/ req'[q].drop # {} =>
        q # r /\ Stays(q) /\ (Mailing(q) <=> Mailing(q)') /\ (Following(q) <=> Following(q)') /\ LinkOf(q)' = LinkOf(q)
  BY <1>2, StaysFacts DEF LetsGo
<1>4. /\ \A k \in Kinds : rows'[k] \subseteq rows[k]
      /\ \A k \in Kinds : \A x \in rows[k] : k # "reset" \/ x.link \notin req[r].drop => x \in rows'[k]
  BY <1>1 DEF TypeOK, Kinds
<1>5. \A v \in Users : forgiven[v] \in Nat /\ forgiven[v] <= forgiven'[v] /\ forgiven'[v] \in Nat
                       /\ forgiven'[v] <= Len(links) /\ (v = u => forgiven'[v] = Len(links))
  BY <1>1 DEF TypeOK, LinkInv, ForgivenExist
<1>6. RowsAreLinks'
  BY <1>1, <1>4 DEF LinkInv, RowsAreLinks
<1>7. MailsTheLatest'
  BY <1>1, <1>3 DEF LinkInv, MailsTheLatest, SameRow, Stays, Kept
<1>8. FollowsAMail'
  BY <1>1, <1>3 DEF LinkInv, FollowsAMail, Stays, Kept
<1>9. DropsOwnLinks'
  BY <1>1, <1>3 DEF LinkInv, DropsOwnLinks, Stays, Kept
<1>10. ForgivenExist'
  BY <1>1, <1>5 DEF ForgivenExist
<1>11. FollowedAreUsed'
  BY <1>1, <1>3, <1>4 DEF LinkInv, FollowedAreUsed, Stays
<1>12. ASSUME NEW n \in DOMAIN links', links'[n].fate = "mailed" PROVE LinkIsAccounted(n)'
  <2>1. n \in DOMAIN links /\ LinkIsAccounted(n) /\ links[n].kind \in Kinds /\ links[n].user \in Users
        /\ n \in Nat /\ n <= Len(links)
    <3>1. n \in DOMAIN links /\ links[n] \in Link
      BY <1>1, <1>12, ElementOfSeq DEF TypeOK
    <3>. QED
      BY <1>1, <1>12, <3>1, LinksWorkOnceParts DEF LinkInv, Link, TypeOK
  <2>2. WasReplaced(n) \/ WasFollowed(n) => LinkIsAccounted(n)'
    BY <1>1, <2>1 DEF LinkIsAccounted, WasReplaced, WasFollowed, SameRow
  <2>3. WasForgiven(n) => WasForgiven(n)'
    BY <1>1, <1>5, <2>1 DEF WasForgiven
  <2>4. ASSUME Works(n) PROVE LinkIsAccounted(n)'
    <3>1. PICK x \in rows[links[n].kind] : x.link = n /\ ~x.used
      BY <2>4 DEF Works
    <3>2. CASE x \in rows'[links[n].kind]
      BY <1>1, <3>1, <3>2 DEF LinkIsAccounted, Works
    <3>3. CASE x \notin rows'[links[n].kind]
      <4>1. n \in req[r].drop
        BY <1>4, <2>1, <3>1, <3>3
      <4>2. links[n].kind = "reset" /\ links[n].user = u
        BY <4>1 DEF LinkInv, DropsOwnLinks, u
      <4>. QED
        BY <1>1, <1>5, <2>1, <4>2 DEF LinkIsAccounted, WasForgiven
    <3>. QED
      BY <3>2, <3>3
  <2>. QED
    BY <2>1, <2>2, <2>3, <2>4 DEF LinkIsAccounted
<1>13. FollowedOnce'
  BY <1>1, LinksWorkOnceParts DEF LinkInv, FollowedOnce
<1>14. LinksWorkOnce'
  BY <1>12, <1>13, LinksWorkOnceParts_
<1>. QED
  BY <1>6, <1>7, <1>8, <1>9, <1>10, <1>11, <1>14 DEF LinkInv

-----------------------------------------------------------------------------
(* Which action does what to links.                                         *)

\* The requests that begin without a link have nothing to drop and are not about links.
LEMMA BeginningsRest ==
  ASSUME TypeOK, NEW r \in Requests,
         \/ \E u \in Users : LoginChecks(r, u) \/ Forgot(r, u) \/ AdminLink(r, u) \/ SetPassword(r, u)
                             \/ ResendUserVerification(r, u)
         \/ \E t \in DOMAIN refresh : RefreshChecks(r, t)
         \/ \E u \in Users, e \in Emails :
              AskVerification(r, u, e) \/ (\E b \in BOOLEAN : UpdateUser(r, u, e, b))
  PROVE  LinksRest
<1>1. \E x : /\ Begin(r, x) /\ UNCHANGED <<rows, links, followed, forgiven>>
             /\ x.at = "read" /\ x.op \notin {"reset", "verify"} /\ x.drop = {}
  <2>1. \A op, u : /\ DOMAIN Reading(op, u) = DOMAIN Idle /\ Reading(op, u).at = "read"
                   /\ Reading(op, u).op = op /\ Reading(op, u).drop = {}
    BY DEF Reading, Idle
  <2>. DEFINE Fits(x) == /\ Begin(r, x) /\ UNCHANGED <<rows, links, followed, forgiven>>
                         /\ x.at = "read" /\ x.op \notin {"reset", "verify"} /\ x.drop = {}
  <2>2. ASSUME NEW u, LoginChecks(r, u) PROVE Fits(Reading("login", u))
    BY <2>1, <2>2 DEF LoginChecks
  <2>3. ASSUME NEW u, SetPassword(r, u) PROVE Fits(Reading("set_password", u))
    BY <2>1, <2>3 DEF SetPassword
  <2>4. ASSUME NEW u, Forgot(r, u)
        PROVE  Fits([Reading("forgot", u) EXCEPT !.email = user[u].email])
    BY <2>1, <2>4 DEF Forgot, Reading, Idle
  <2>5. ASSUME NEW u, AdminLink(r, u)
        PROVE  Fits([Reading("admin_link", u) EXCEPT !.email = user[u].email])
    BY <2>1, <2>5 DEF AdminLink, Reading, Idle
  <2>6. ASSUME NEW u, ResendUserVerification(r, u)
        PROVE  Fits([Reading("ask", u) EXCEPT !.email = user[u].email])
    BY <2>1, <2>6 DEF ResendUserVerification, Reading, Idle
  <2>7. ASSUME NEW u, NEW e, AskVerification(r, u, e)
        PROVE  Fits([Reading("ask", u) EXCEPT !.email = e])
    BY <2>1, <2>7 DEF AskVerification, Reading, Idle
  <2>8. ASSUME NEW t \in DOMAIN refresh, RefreshChecks(r, t)
        PROVE  Fits([Reading("refresh", refresh[t].user) EXCEPT !.subject = t, !.ended = refresh[t].ended])
    BY <2>1, <2>8 DEF RefreshChecks, Reading, Idle
  <2>9. ASSUME NEW u, NEW e, NEW b, UpdateUser(r, u, e, b)
        PROVE  \E x : Fits(x)
    <3>. DEFINE y == IF e = user[u].email THEN NoEmail ELSE e
                z == IF b = user[u].active THEN "same" ELSE IF b THEN "on" ELSE "off"
                x == [Reading("update", u) EXCEPT !.email = y, !.active = z]
    <3>1. Begin(r, x) /\ UNCHANGED <<rows, links, followed, forgiven>>
      BY <2>9 DEF UpdateUser
    <3>. HIDE DEF y, z
    <3>2. x.at = "read" /\ x.op = "update" /\ x.drop = {}
      BY DEF Reading, Idle
    <3>. QED
      BY <3>1, <3>2
  <2>. HIDE DEF Fits
  <2>10. \E x : Fits(x)
    BY <2>2, <2>3, <2>4, <2>5, <2>6, <2>7, <2>8, <2>9
  <2>. QED
    BY <2>10 DEF Fits
<1>2. PICK x : /\ Begin(r, x) /\ UNCHANGED <<rows, links, followed, forgiven>>
               /\ x.at = "read" /\ x.op \notin {"reset", "verify"} /\ x.drop = {}
  BY <1>1
<1>3. req'[r] = x /\ \A q \in Requests \ {r} : req'[q] = req[q]
  BY <1>2, BeginFacts DEF TypeOK
<1>4. LetsGo(r)
  BY <1>2, <1>3 DEF LetsGo, Mailing, Following
<1>5. \A q \in Requests \ {r} : Stays(q)
  BY <1>3 DEF Stays, Kept
<1>. QED
  BY <1>2, <1>4, <1>5 DEF LinksRest

\* So do those that end without touching a link, and the administrators' requests.
LEMMA OthersRest ==
  ASSUME TypeOK, NEW r \in Requests,
         \/ \E u \in Users : DeactivateUser(r, u) \/ VerifyUserEmail(r, u)
         \/ LoginIssues(r) \/ RefreshRotates(r) \/ LinkCollides(r) \/ UpdateCommits(r)
         \/ Fails(r) /\ ~Mailing(r)
  PROVE  LinksRest
<1>1. ASSUME NEW C, EndsAnd(r, C), UNCHANGED <<rows, links, followed, forgiven>>
      PROVE  LinksRest
  BY <1>1, EndsStay DEF LinksRest, TypeOK
<1>2. ASSUME NEW u, VerifyUserEmail(r, u) PROVE LinksRest
  BY <1>2 DEF VerifyUserEmail, LinksRest, Stays, Kept
<1>3. ASSUME Fails(r), ~Mailing(r) PROVE links' = links
  <2>1. links' = [n \in DOMAIN links |-> links[n]]
    BY <1>3 DEF Fails, Mailing
  <2>2. links = [n \in DOMAIN links |-> links[n]]
    BY DEF TypeOK
  <2>. QED
    BY <2>1, <2>2
<1>. QED
  BY <1>1, <1>2, <1>3 DEF DeactivateUser, LoginIssues, RefreshRotates, LinkCollides, UpdateCommits, Fails

\* An answer, and a failure before it, settle the link that is being mailed.
LEMMA MailsSettle ==
  ASSUME TypeOK, RequestsKnow, NEW r \in Requests, Mailing(r)
  PROVE  /\ \A fate \in Outcomes : MailIsAnswered(r, fate) => SettlesOwn(r, fate) /\ rows' = ReplaceRow(r)
         /\ Fails(r) => SettlesOwn(r, "undone") /\ rows' = rows
<1>. DEFINE n0 == LinkOf(r)
<1>1. n0 \in DOMAIN links /\ DOMAIN links = 1..Len(links) /\ Len(links) \in Nat
  BY DEF RequestsKnow, Mailing, LinkOf, TypeOK
<1>2. \A n \in DOMAIN links : links[n] \in Link
  BY ElementOfSeq DEF TypeOK
<1>3. ASSUME NEW C, EndsAnd(r, C) PROVE LetsGo(r) /\ \A q \in Requests \ {r} : Stays(q)
  BY <1>3, EndsStay DEF TypeOK
<1>. HIDE DEF n0
<1>4. ASSUME NEW fate \in Outcomes, MailIsAnswered(r, fate)
      PROVE  SettlesOwn(r, fate) /\ rows' = ReplaceRow(r)
  <2>1. links' = [links EXCEPT ![n0].fate = fate] /\ EndsAnd(r, Crossed(r)) /\ rows' = ReplaceRow(r)
        /\ UNCHANGED <<followed, forgiven>>
    BY <1>4 DEF MailIsAnswered, n0
  <2>2. /\ DOMAIN links' = DOMAIN links /\ links'[n0] = [links[n0] EXCEPT !.fate = fate]
        /\ \A n \in DOMAIN links : n # n0 => links'[n] = links[n]
    BY <1>1, <2>1
  <2>3. links' \in Seq(Link) /\ Len(links') = Len(links)
    <3>1. fate \in {"writing", "mailed", "unsent", "undone"}
      BY DEF Outcomes
    <3>2. \A n \in DOMAIN links : links'[n] = links[n] \/ links'[n] = [links[n] EXCEPT !.fate = fate]
      BY <2>2
    <3>3. links' = [n \in DOMAIN links |-> links'[n]]
      BY <2>1
    <3>. QED
      BY <2>2, <3>1, <3>2, <3>3, FateFacts
  <2>. QED
    BY <1>1, <1>3, <2>1, <2>2, <2>3 DEF SettlesOwn, n0
<1>5. ASSUME Fails(r) PROVE SettlesOwn(r, "undone") /\ rows' = rows
  <2>1. links' = [n \in DOMAIN links |-> IF n = n0 THEN [links[n] EXCEPT !.fate = "undone"] ELSE links[n]]
        /\ EndsAnd(r, {}) /\ rows' = rows /\ UNCHANGED <<followed, forgiven>>
    BY <1>5 DEF Fails, n0, Mailing
  <2>2. /\ DOMAIN links' = DOMAIN links /\ links'[n0] = [links[n0] EXCEPT !.fate = "undone"]
        /\ \A n \in DOMAIN links : n # n0 => links'[n] = links[n]
    BY <1>1, <2>1
  <2>3. links' \in Seq(Link) /\ Len(links') = Len(links)
    <3>1. \A n \in DOMAIN links : links'[n] = links[n] \/ links'[n] = [links[n] EXCEPT !.fate = "undone"]
      BY <2>2
    <3>2. links' = [n \in DOMAIN links |-> links'[n]]
      BY <2>1
    <3>. QED
      BY <2>2, <3>1, <3>2, FateFacts
  <2>. QED
    BY <1>1, <1>3, <2>1, <2>2, <2>3 DEF SettlesOwn, n0
<1>. QED
  BY <1>4, <1>5

LEMMA CommitsFollow ==
  ASSUME TypeOK, RequestsKnow, NEW r \in Requests, ResetCommits(r) \/ VerifyCommits(r)
  PROVE  Follows(r)
<1>1. Following(r) /\ rows' = MarkAsUsed(req[r].op, LinkOf(r)) /\ followed' = Follow(r)
      /\ UNCHANGED <<links, forgiven>>
  BY DEF ResetCommits, VerifyCommits, Following
<1>2. PICK C : EndsAnd(r, C) /\ SameLink(r) \subseteq C
  BY DEF ResetCommits, VerifyCommits
<1>3. LetsGo(r) /\ \A q \in Requests \ {r} : Stays(q) /\ (q \in C => req'[q].crossed)
  BY <1>2, EndsStay DEF TypeOK
<1>. QED
  BY <1>1, <1>2, <1>3 DEF Follows

LEMMA NextKeepsLinks ==
  TypeOK /\ RequestsKnow /\ LinkInv /\ [Next]_vars => LinkInv'
<1>. SUFFICES ASSUME TypeOK, RequestsKnow, LinkInv, [Next]_vars PROVE LinkInv'
  OBVIOUS
<1>1. CASE UNCHANGED vars
  <2>1. LinksRest
    BY <1>1 DEF vars, LinksRest, Stays, Kept
  <2>. QED
    BY <2>1, LinksRestKeeps
<1>2. CASE Next
  <2>1. PICK r \in Requests :
          \/ \E u \in Users : LoginChecks(r, u) \/ Forgot(r, u) \/ AdminLink(r, u) \/ SetPassword(r, u)
                              \/ ResendUserVerification(r, u)
          \/ \E t \in DOMAIN refresh : RefreshChecks(r, t)
          \/ \E u \in Users, e \in Emails :
               AskVerification(r, u, e) \/ (\E b \in BOOLEAN : UpdateUser(r, u, e, b))
          \/ \E n \in DOMAIN links : ResetChecks(r, n) \/ VerifyChecks(r, n)
          \/ \E u \in Users : DeactivateUser(r, u) \/ VerifyUserEmail(r, u)
          \/ LoginIssues(r) \/ RefreshRotates(r) \/ LinkCollides(r) \/ UpdateCommits(r)
          \/ LinkIsWritten(r)
          \/ \E fate \in Outcomes : MailIsAnswered(r, fate)
          \/ PasswordIsWritten(r) \/ SetPasswordCommits(r)
          \/ ResetCommits(r) \/ VerifyCommits(r)
          \/ Fails(r)
    BY <1>2 DEF Next, MailIsSent, MailIsRefused, Outcomes
  <2>2. CASE \/ \E u \in Users : LoginChecks(r, u) \/ Forgot(r, u) \/ AdminLink(r, u) \/ SetPassword(r, u)
                                 \/ ResendUserVerification(r, u)
             \/ \E t \in DOMAIN refresh : RefreshChecks(r, t)
             \/ \E u \in Users, e \in Emails :
                  AskVerification(r, u, e) \/ (\E b \in BOOLEAN : UpdateUser(r, u, e, b))
    BY <2>2, BeginningsRest, LinksRestKeeps
  <2>3. CASE \E n \in DOMAIN links : ResetChecks(r, n) \/ VerifyChecks(r, n)
    BY <2>3, CheckingKeeps
  <2>4. CASE \/ \E u \in Users : DeactivateUser(r, u) \/ VerifyUserEmail(r, u)
             \/ LoginIssues(r) \/ RefreshRotates(r) \/ LinkCollides(r) \/ UpdateCommits(r)
    BY <2>4, OthersRest, LinksRestKeeps
  <2>5. CASE LinkIsWritten(r)
    BY <2>5, WritingKeeps
  <2>6. ASSUME NEW fate \in Outcomes, MailIsAnswered(r, fate) PROVE LinkInv'
    <3>1. Mailing(r)
      BY <2>6 DEF MailIsAnswered, Mailing
    <3>. QED
      BY <2>6, <3>1, MailsSettle, AnsweringKeeps
  <2>7. CASE PasswordIsWritten(r)
    BY <2>7, PasswordKeeps
  <2>8. CASE SetPasswordCommits(r)
    BY <2>8, SettingPasswordKeeps
  <2>9. CASE ResetCommits(r) \/ VerifyCommits(r)
    BY <2>9, CommitsFollow, FollowingKeeps
  <2>10. CASE Fails(r)
    BY <2>10, OthersRest, LinksRestKeeps, MailsSettle, UndoingKeeps
  <2>. QED
    BY <2>1, <2>2, <2>3, <2>4, <2>5, <2>6, <2>7, <2>8, <2>9, <2>10
<1>. QED
  BY <1>1, <1>2

LEMMA InitLinks == Init => LinkInv
<1>. SUFFICES ASSUME Init PROVE LinkInv
  OBVIOUS
<1>1. links = <<>> /\ followed = <<>> /\ rows = [k \in Kinds |-> {}] /\ forgiven = [u \in Users |-> 0]
      /\ \A q \in Requests : req[q] = Idle
  BY DEF Init
<1>2. DOMAIN links = {} /\ DOMAIN followed = {} /\ Len(links) = 0
  BY <1>1
<1>3. \A q \in Requests : ~Mailing(q) /\ ~Following(q) /\ req[q].drop = {}
  BY <1>1 DEF Idle, Mailing, Following
<1>4. LinksWorkOnce
  BY <1>2 DEF LinksWorkOnce
<1>. QED
  BY <1>1, <1>2, <1>3, <1>4 DEF LinkInv, RowsAreLinks, MailsTheLatest, FollowsAMail, DropsOwnLinks,
     ForgivenExist, FollowedAreUsed

\* However resets, verifications, mails and administrators' passwords overlap, a mailed
\* link works until it is followed, unless it is replaced or forgiven, and is followed
\* once, unless by requests that overlap.
THEOREM LinksWorkOnceHolds == Spec => []LinksWorkOnce
<1>. DEFINE IInv == TypeOK /\ RequestsKnow /\ LinkInv
<1>1. Init => IInv
  BY InitKnows, InitLinks
<1>2. IInv /\ [Next]_vars => IInv'
  BY NextKnows, NextKeepsLinks
<1>3. IInv => LinksWorkOnce
  BY DEF LinkInv
<1>. HIDE DEF IInv
<1>. QED
  BY <1>1, <1>2, <1>3, PTL DEF Spec
=============================================================================
