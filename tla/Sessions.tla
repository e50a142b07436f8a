------------------------------- MODULE Sessions -------------------------------
(***************************************************************************)
(* Signing in, exchanging refresh tokens, forgotten passwords and the      *)
(* verification of email addresses.                                        *)
(*                                                                         *)
(* Every request reads with one statement and writes with a later one, and *)
(* what it writes counts from its commit.  Between the two, other requests *)
(* for the same user run: passwords are hashed and mails are sent there,   *)
(* so the gap is long.  A password is not represented, nor is time: every  *)
(* request shown here has given the right password, and a row that has     *)
(* expired only turns a request away.                                      *)
(***************************************************************************)
EXTENDS Integers, Sequences, FiniteSets

CONSTANTS
  Users, NoUser,
  Emails, NoEmail,
  Requests,
  MaxTokens,  \* bound: refresh tokens issued
  MaxLinks,   \* bound: links made
  MaxStarts   \* bound: requests begun

ASSUME SessionsAssumption ==
  /\ NoUser \notin Users /\ NoEmail \notin Emails
  /\ MaxTokens \in Nat \ {0} /\ MaxLinks \in Nat /\ MaxStarts \in Nat

VARIABLES
  user,       \* user[u]: the row of user u; ended counts how often all its sessions were ended
  refresh,    \* the refresh tokens, by number
  rows,       \* rows[k]: the table of password reset or email verification tokens
  links,      \* the links ever made, by number: the kind, the owner, the address, what became of it
  followed,   \* history: the links that requests have followed to their commit
  forgiven,   \* history: how many links there were when an administrator last set u's password
  req,        \* req[r]: request r
  starts      \* how many requests have begun

vars == <<user, refresh, rows, links, followed, forgiven, req, starts>>

Kinds == {"reset", "verify"}

User == [email : Emails, verified : BOOLEAN, active : BOOLEAN, ended : Nat]

\* parent: the token this one was exchanged for, 0 after a sign-in.  ended and
\* active say what the request that issued it had found; crossed that another
\* request changed what it had found before it was done.
RefreshToken == [user : Users, revoked : BOOLEAN, parent : 0..MaxTokens,
                 ended : Nat, active : BOOLEAN, crossed : BOOLEAN]

\* A row of either table.
PasswordResetToken == [user : Users, email : Emails, link : 1..MaxLinks, used : BOOLEAN]

\* fate "undone": the request failed or stopped before the commit of its log of mails.  Then
\* the database holds nothing of the link, even if the mail server had taken the mail.
Link == [kind : Kinds, user : Users, email : Emails,
         fate : {"writing", "mailed", "unsent", "undone"}]

Ops == {"login", "refresh", "forgot", "admin_link", "ask", "reset", "set_password",
        "verify", "update"}

Idle == [at |-> "idle", op |-> "none", user |-> NoUser, subject |-> 0, email |-> NoEmail,
         active |-> "same", ended |-> 0, revoke |-> {}, drop |-> {}, crossed |-> FALSE]

Request == [at : {"idle", "read", "mail", "written"}, op : Ops \cup {"none"},
            user : Users \cup {NoUser}, subject : Nat, email : Emails \cup {NoEmail},
            active : {"same", "on", "off"}, ended : Nat, revoke : SUBSET (1..MaxTokens),
            drop : SUBSET (1..MaxLinks), crossed : BOOLEAN]

TypeOK ==
  /\ user \in [Users -> User]
  /\ refresh \in Seq(RefreshToken) /\ Len(refresh) <= MaxTokens
  /\ rows \in [Kinds -> SUBSET PasswordResetToken]
  /\ links \in Seq(Link) /\ Len(links) <= MaxLinks
  /\ followed \in Seq([link : 1..MaxLinks, crossed : BOOLEAN])
  /\ forgiven \in [Users -> 0..MaxLinks]
  /\ req \in [Requests -> Request]
  /\ starts \in 0..MaxStarts

\* Every user has signed in once, on an address that may or may not be verified now.
Init ==
  /\ \E u \in Users, e \in Emails : refresh =
       <<[user |-> u, revoked |-> FALSE, parent |-> 0, ended |-> 0, active |-> TRUE, crossed |-> FALSE]>>
  /\ user \in [Users -> [email : Emails, verified : BOOLEAN, active : {TRUE}, ended : {0}]]
  /\ rows = [k \in Kinds |-> {}]
  /\ links = <<>>
  /\ followed = <<>>
  /\ forgiven = [u \in Users |-> 0]
  /\ req = [r \in Requests |-> Idle]
  /\ starts = 0

-----------------------------------------------------------------------------
\* A request begins: what it has read decides what the rest of it does.
Begin(r, x) ==
  /\ req[r].at = "idle" /\ starts < MaxStarts
  /\ starts' = starts + 1
  /\ req' = [req EXCEPT ![r] = x]

Reading(op, u) == [Idle EXCEPT !.at = "read", !.op = op, !.user = u, !.ended = user[u].ended]

\* The request is done, and those that cross says it has got in the way of are marked.
EndsAnd(r, cross) ==
  req' = [q \in Requests |-> IF q = r THEN Idle
                             ELSE IF q \in cross THEN [req[q] EXCEPT !.crossed = TRUE]
                             ELSE req[q]]

AreUnderway(ops, u) == {q \in Requests : req[q].at # "idle" /\ req[q].op \in ops /\ req[q].user = u}

\* The requests that issue a token, and those that end the sessions of a user.
Issuing(u) == AreUnderway({"login", "refresh"}, u)
Ending(u)  == {q \in AreUnderway({"reset", "set_password", "admin_link"}, u) :
                 req[q].at \in {"written", "mail"}}

LiveTokens(u) == {i \in DOMAIN refresh : refresh[i].user = u /\ ~refresh[i].revoked}

\* UPDATE ... SET is_revoked: unconditional, by id.
Revoke(tokens) == [i \in DOMAIN refresh |-> [refresh[i] EXCEPT !.revoked = @ \/ i \in tokens]]

\* A statement waits for rows that another transaction has changed and not committed.
RowLocked(r, u) == \E q \in Requests \ {r} : req[q].at = "written" /\ req[q].user = u

-----------------------------------------------------------------------------
\* The account, the user and the password are right, the user is active and verified.
LoginChecks(r, u) ==
  /\ user[u].active /\ user[u].verified
  /\ Begin(r, Reading("login", u))
  /\ UNCHANGED <<user, refresh, rows, links, followed, forgiven>>

Issue(r, parent) ==
  LET u == req[r].user IN
  [user |-> u, revoked |-> FALSE, parent |-> parent, ended |-> req[r].ended, active |-> TRUE,
   crossed |-> \/ req[r].crossed \/ Ending(u) # {}
               \/ parent # 0 /\ refresh[parent].crossed]

\* last_login is committed first, then the refresh token in a transaction of its own.
LoginIssues(r) ==
  /\ req[r].at = "read" /\ req[r].op = "login" /\ Len(refresh) < MaxTokens
  /\ refresh' = Append(refresh, Issue(r, 0))
  /\ EndsAnd(r, {})
  /\ UNCHANGED <<user, rows, links, followed, forgiven, starts>>

\* The token is not revoked and its user is active.
RefreshChecks(r, t) ==
  /\ ~refresh[t].revoked
  /\ user[refresh[t].user].active
  /\ Begin(r, [Reading("refresh", refresh[t].user) EXCEPT
                 !.subject = t, !.ended = refresh[t].ended])
  /\ UNCHANGED <<user, refresh, rows, links, followed, forgiven>>

\* The others that have read the same token, and will exchange it too.
SameToken(r) == {q \in Requests \ {r} : /\ req[q].op = "refresh" /\ req[q].at = "read"
                                        /\ req[q].subject = req[r].subject}

\* Faulty variant: the old token is left as it is.
RotateKeeps(r) ==
  /\ req[r].at = "read" /\ req[r].op = "refresh" /\ Len(refresh) < MaxTokens
  /\ \A q \in Ending(req[r].user) : req[r].subject \notin req[q].revoke
  /\ LET new == Issue(r, req[r].subject) IN
     refresh' = Append(refresh, [new EXCEPT !.crossed = @ \/ SameToken(r) # {}])
  /\ EndsAnd(r, SameToken(r))
  /\ UNCHANGED <<user, rows, links, followed, forgiven, starts>>

\* The old token is revoked and a new one issued, in one transaction.
RefreshRotates(r) ==
  /\ req[r].at = "read" /\ req[r].op = "refresh" /\ Len(refresh) < MaxTokens
  /\ \A q \in Ending(req[r].user) : req[r].subject \notin req[q].revoke
  /\ LET new == Issue(r, req[r].subject) IN
     refresh' = Append(Revoke({req[r].subject}), [new EXCEPT !.crossed = @ \/ SameToken(r) # {}])
  /\ EndsAnd(r, SameToken(r))
  /\ UNCHANGED <<user, rows, links, followed, forgiven, starts>>

-----------------------------------------------------------------------------
(* Mails with links. *)

KindOf(op) == IF op = "ask" THEN "verify" ELSE "reset"
LinkOf(r) == req[r].subject

\* forgot_password: the user exists in the account and signs in with a password.
Forgot(r, u) ==
  /\ Begin(r, [Reading("forgot", u) EXCEPT !.email = user[u].email])
  /\ UNCHANGED <<user, refresh, rows, links, followed, forgiven>>

\* An administrator asks for the mail instead, and ends the user's sessions with it.
AdminLink(r, u) ==
  /\ Begin(r, [Reading("admin_link", u) EXCEPT !.email = user[u].email])
  /\ UNCHANGED <<user, refresh, rows, links, followed, forgiven>>

\* A signed-in user names the address, which need not be that of the row.
AskVerification(r, u, e) ==
  /\ Begin(r, [Reading("ask", u) EXCEPT !.email = e])
  /\ UNCHANGED <<user, refresh, rows, links, followed, forgiven>>

\* An administrator has the mail sent again, to a user who is not verified.
ResendUserVerification(r, u) ==
  /\ ~user[u].verified
  /\ Begin(r, [Reading("ask", u) EXCEPT !.email = user[u].email])
  /\ UNCHANGED <<user, refresh, rows, links, followed, forgiven>>

\* Requests that hold an uncommitted row of the same table for the same user and address.
Holding(r) ==
  {q \in Requests \ {r} : /\ req[q].at = "mail" /\ KindOf(req[q].op) = KindOf(req[r].op)
                          /\ req[q].user = req[r].user /\ req[q].email = req[r].email}

\* The row of the user and the address is replaced; nothing is committed yet.
LinkIsWritten(r) ==
  /\ req[r].at = "read" /\ req[r].op \in {"forgot", "admin_link", "ask"}
  /\ Holding(r) = {} /\ Len(links) < MaxLinks
  /\ links' = Append(links, [kind |-> KindOf(req[r].op), user |-> req[r].user,
                             email |-> req[r].email, fate |-> "writing"])
  /\ req' = [req EXCEPT ![r].at = "mail", ![r].subject = Len(links) + 1,
                        ![r].revoke = IF req[r].op = "admin_link" THEN LiveTokens(req[r].user) ELSE {}]
  /\ UNCHANGED <<user, refresh, rows, followed, forgiven, starts>>

\* Another request inserted that row first: the unique constraint ends this one.
LinkCollides(r) ==
  /\ req[r].at = "read" /\ req[r].op \in {"forgot", "admin_link", "ask"}
  /\ Holding(r) # {}
  /\ EndsAnd(r, {})
  /\ UNCHANGED <<user, refresh, rows, links, followed, forgiven, starts>>

NewRow(r) == [user |-> req[r].user, email |-> req[r].email, link |-> LinkOf(r), used |-> FALSE]

\* Faulty variant: every earlier link of the user is removed, whatever its address.
ReplaceAllRows(r) ==
  LET k == KindOf(req[r].op) IN
  [rows EXCEPT ![k] = {x \in @ : x.user # req[r].user} \cup {NewRow(r)}]

\* DELETE of the row of this user and address, and INSERT.
ReplaceRow(r) ==
  LET k == KindOf(req[r].op) IN
  [rows EXCEPT ![k] = {x \in @ : x.user # req[r].user \/ x.email # req[r].email} \cup {NewRow(r)}]

EndSessions(r) ==
  IF req[r].op = "ask" \/ req[r].op = "forgot" THEN UNCHANGED <<user, refresh>>
  ELSE /\ refresh' = Revoke(req[r].revoke)
       /\ user' = [user EXCEPT ![req[r].user].ended = @ + 1]

Crossed(r) == IF req[r].op = "admin_link" THEN Issuing(req[r].user) ELSE {}

\* The mail server has answered: the log of mails is committed, and all the rest with it,
\* whether the mail went out or not.  The rollback that follows a refusal finds nothing to undo.
MailIsAnswered(r, fate) ==
  /\ req[r].at = "mail"
  /\ links' = [links EXCEPT ![LinkOf(r)].fate = fate]
  /\ rows' = ReplaceRow(r)
  /\ EndSessions(r)
  /\ EndsAnd(r, Crossed(r))
  /\ UNCHANGED <<followed, forgiven, starts>>

MailIsSent(r) == MailIsAnswered(r, "mailed")
MailIsRefused(r) == MailIsAnswered(r, "unsent")

-----------------------------------------------------------------------------
(* What the links are for. *)

RowsOf(k, n) == {x \in rows[k] : x.link = n}

\* Faulty variant: a link that was used is as good as any.
IsValidAgain(k, n) == RowsOf(k, n) # {}

\* The row is there and not used (nor expired).
IsValid(k, n) == \E x \in RowsOf(k, n) : ~x.used

ResetChecks(r, n) ==
  /\ links[n].fate = "mailed" /\ links[n].kind = "reset" /\ IsValid("reset", n)
  /\ Begin(r, [Reading("reset", links[n].user) EXCEPT !.subject = n])
  /\ UNCHANGED <<user, refresh, rows, links, followed, forgiven>>

SetPassword(r, u) ==
  /\ Begin(r, Reading("set_password", u))
  /\ UNCHANGED <<user, refresh, rows, links, followed, forgiven>>

\* The new hash, the row of the link, the sessions: statements of one transaction.
PasswordIsWritten(r) ==
  LET u == req[r].user IN
  /\ req[r].at = "read" /\ req[r].op \in {"reset", "set_password"} /\ ~RowLocked(r, u)
  /\ req' = [req EXCEPT ![r].at = "written", ![r].revoke = LiveTokens(u),
               ![r].drop = IF req[r].op = "reset" THEN {}
                           ELSE {x.link : x \in {y \in rows["reset"] : y.user = u}}]
  /\ UNCHANGED <<user, refresh, rows, links, followed, forgiven, starts>>

\* mark_as_used finds its row by id, if it is still there.
MarkAsUsed(k, n) ==
  [rows EXCEPT ![k] = {IF x.link = n THEN [x EXCEPT !.used = TRUE] ELSE x : x \in @}]

\* The others that have read the link r follows.
SameLink(r) ==
  {q \in Requests \ {r} : /\ req[q].op = req[r].op /\ req[q].at \in {"read", "written"}
                          /\ req[q].subject = LinkOf(r)}

Follow(r) == Append(followed, [link |-> LinkOf(r), crossed |-> req[r].crossed \/ SameLink(r) # {}])

\* Faulty variant: the sessions are left alone.
ResetCommitsOnly(r) ==
  /\ req[r].at = "written" /\ req[r].op = "reset"
  /\ user' = [user EXCEPT ![req[r].user].ended = @ + 1]
  /\ rows' = MarkAsUsed("reset", LinkOf(r))
  /\ followed' = Follow(r)
  /\ EndsAnd(r, Issuing(req[r].user) \cup SameLink(r))
  /\ UNCHANGED <<refresh, links, forgiven, starts>>

ResetCommits(r) ==
  /\ req[r].at = "written" /\ req[r].op = "reset"
  /\ user' = [user EXCEPT ![req[r].user].ended = @ + 1]
  /\ refresh' = Revoke(req[r].revoke)
  /\ rows' = MarkAsUsed("reset", LinkOf(r))
  /\ followed' = Follow(r)
  /\ EndsAnd(r, Issuing(req[r].user) \cup SameLink(r))
  /\ UNCHANGED <<links, forgiven, starts>>

\* An administrator's password also removes the links the user was sent.
SetPasswordCommits(r) ==
  /\ req[r].at = "written" /\ req[r].op = "set_password"
  /\ user' = [user EXCEPT ![req[r].user].ended = @ + 1]
  /\ refresh' = Revoke(req[r].revoke)
  /\ rows' = [rows EXCEPT !["reset"] = {x \in @ : x.link \notin req[r].drop}]
  /\ forgiven' = [forgiven EXCEPT ![req[r].user] = Len(links)]
  /\ EndsAnd(r, Issuing(req[r].user))
  /\ UNCHANGED <<links, followed, starts>>

VerifyChecks(r, n) ==
  /\ links[n].fate = "mailed" /\ links[n].kind = "verify" /\ IsValid("verify", n)
  /\ Begin(r, [Reading("verify", links[n].user) EXCEPT !.subject = n])
  /\ UNCHANGED <<user, refresh, rows, links, followed, forgiven>>

\* The user of the link is verified; which address it was sent to is not compared.
VerifyCommits(r) ==
  /\ req[r].at = "read" /\ req[r].op = "verify" /\ ~RowLocked(r, req[r].user)
  /\ user' = [user EXCEPT ![req[r].user].verified = TRUE]
  /\ rows' = MarkAsUsed("verify", LinkOf(r))
  /\ followed' = Follow(r)
  /\ EndsAnd(r, SameLink(r))
  /\ UNCHANGED <<refresh, links, forgiven, starts>>

-----------------------------------------------------------------------------
(* Administrators. *)

\* The row is read, and the columns that the request changes are written later.
UpdateUser(r, u, e, active) ==
  /\ Begin(r, [Reading("update", u) EXCEPT
                 !.email = IF e = user[u].email THEN NoEmail ELSE e,
                 !.active = IF active = user[u].active THEN "same" ELSE IF active THEN "on" ELSE "off"])
  /\ UNCHANGED <<user, refresh, rows, links, followed, forgiven>>

\* A new address stays as verified as the old one was; the sessions go on.
UpdateCommits(r) ==
  LET u == req[r].user IN
  /\ req[r].at = "read" /\ req[r].op = "update" /\ ~RowLocked(r, u)
  /\ user' = [user EXCEPT
       ![u].email = IF req[r].email = NoEmail THEN @ ELSE req[r].email,
       ![u].active = IF req[r].active = "same" THEN @ ELSE req[r].active = "on"]
  /\ EndsAnd(r, IF req[r].active = "off" THEN Issuing(u) ELSE {})
  /\ UNCHANGED <<refresh, rows, links, followed, forgiven, starts>>

\* UPDATE ... SET is_active = FALSE, whatever the row held.
DeactivateUser(r, u) ==
  /\ req[r].at = "idle" /\ starts < MaxStarts /\ ~RowLocked(r, u)
  /\ starts' = starts + 1
  /\ user' = [user EXCEPT ![u].active = FALSE]
  /\ EndsAnd(r, Issuing(u))
  /\ UNCHANGED <<refresh, rows, links, followed, forgiven>>

VerifyUserEmail(r, u) ==
  /\ req[r].at = "idle" /\ starts < MaxStarts /\ ~user[u].verified /\ ~RowLocked(r, u)
  /\ starts' = starts + 1
  /\ user' = [user EXCEPT ![u].verified = TRUE]
  /\ UNCHANGED <<refresh, rows, links, followed, forgiven, req>>

\* A statement fails, the mail cannot be made up, or the process ends: nothing is kept.
Fails(r) ==
  /\ req[r].at # "idle"
  /\ links' = [n \in DOMAIN links |->
       IF req[r].at = "mail" /\ n = LinkOf(r) THEN [links[n] EXCEPT !.fate = "undone"] ELSE links[n]]
  /\ EndsAnd(r, {})
  /\ UNCHANGED <<user, refresh, rows, followed, forgiven, starts>>

Next ==
  \E r \in Requests :
    \/ \E u \in Users : LoginChecks(r, u) \/ Forgot(r, u) \/ AdminLink(r, u) \/ SetPassword(r, u)
                      \/ ResendUserVerification(r, u)
    \/ \E t \in DOMAIN refresh : RefreshChecks(r, t)
    \/ \E n \in DOMAIN links : ResetChecks(r, n) \/ VerifyChecks(r, n)
    \/ \E u \in Users, e \in Emails :
         AskVerification(r, u, e) \/ (\E b \in BOOLEAN : UpdateUser(r, u, e, b))
    \/ \E u \in Users : DeactivateUser(r, u) \/ VerifyUserEmail(r, u)
    \/ LoginIssues(r) \/ RefreshRotates(r)
    \/ LinkIsWritten(r) \/ LinkCollides(r) \/ MailIsSent(r) \/ MailIsRefused(r)
    \/ PasswordIsWritten(r) \/ ResetCommits(r) \/ SetPasswordCommits(r)
    \/ VerifyCommits(r) \/ UpdateCommits(r) \/ Fails(r)

Spec == Init /\ [][Next]_vars

-----------------------------------------------------------------------------
(* Refresh tokens form chains: a token is exchanged for one other, and is   *)
(* revoked by it, unless two requests that overlap exchange it together.    *)
TokensFormChains ==
  \A i \in DOMAIN refresh : refresh[i].parent # 0 =>
    /\ refresh[refresh[i].parent].revoked
    /\ \A j \in DOMAIN refresh :
         (j # i /\ refresh[j].parent = refresh[i].parent) => refresh[i].crossed /\ refresh[j].crossed

(* A token that still works goes back to a sign-in after the last time all  *)
(* sessions of its user were ended (a password changed or a link sent by an *)
(* administrator), unless a request that issued it overlapped that.         *)
LiveTokensAreRecent ==
  \A i \in DOMAIN refresh :
    refresh[i].revoked \/ refresh[i].crossed \/ refresh[i].ended = user[refresh[i].user].ended

(* A mailed link works until it is followed, and once.  It may stop to work  *)
(* earlier only because a later one of its kind replaced it for that address *)
(* or an administrator set the password since; it may be followed twice only *)
(* by requests that overlap.  A mail whose request stopped before it was     *)
(* logged is none: its link never worked, and left the earlier ones alone.   *)
LinksWorkOnce ==
  /\ \A n \in DOMAIN links :
       links[n].fate = "mailed" =>
         \/ \E x \in rows[links[n].kind] : x.link = n /\ ~x.used
         \/ \E i \in DOMAIN followed : followed[i].link = n
         \/ \E m \in n+1..Len(links) :
               /\ links[m].fate \in {"mailed", "unsent"} /\ links[m].kind = links[n].kind
               /\ links[m].user = links[n].user /\ links[m].email = links[n].email
         \/ links[n].kind = "reset" /\ n <= forgiven[links[n].user]
  /\ \A i, j \in DOMAIN followed :
       i # j /\ followed[i].link = followed[j].link => followed[i].crossed /\ followed[j].crossed

===============================================================================
