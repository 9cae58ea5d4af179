------------------------------ MODULE UserSync ------------------------------
(***************************************************************************)
(* Who a token is: UserSyncService resolves the local user of every        *)
(* authenticated request, by subject, then by email, or creates it, and    *)
(* MemberService.inviteByEmail creates the placeholder it later claims.    *)
(* Each statement is a step: there is no transaction, only the two unique  *)
(* columns.  Names, dates and the audit of the promotion are left out, and *)
(* rows are never deleted, so an id is a place in a sequence.              *)
(***************************************************************************)
EXTENDS Naturals, Sequences, FiniteSets

CONSTANTS Identities,    \* subjects of the identity provider
          Emails,
          Boss,          \* CORE_BOOTSTRAP_SUPERADMIN_EMAIL
          Logins,        \* requests being authenticated
          Pending,       \* the subject of a placeholder
          Nobody

ASSUME SyncAssumption == Pending \notin Identities /\ Nobody \notin Identities \cup Emails

VARIABLES account,    \* the rows of core.user
          emailOf,    \* the email the identity provider puts in a token
          login,      \* what each request has read and has still to do
          invitation  \* an invitation between its read and its write

syncVars == <<account, emailOf, login, invitation>>

Away == [stage |-> "away", sub |-> Nobody, email |-> Nobody, id |-> 0]
Stages == {"away", "refresh", "find email", "claim", "create", "reread", "rebind",
           "bootstrap", "promote", "in", "conflict"}

Ids == DOMAIN account
BySub(s) == {i \in Ids : account[i].sub = s}
ByEmail(e) == {i \in Ids : account[i].email = e}
Superadmins == {i \in Ids : account[i].superadmin}

\* The unique columns: what row i may become.
Unique(i, row) ==
    \A j \in Ids \ {i} :
        /\ account[j].email # row.email
        /\ row.sub # Pending => account[j].sub # row.sub

GoTo(r, stage, id) == login' = [login EXCEPT ![r].stage = stage, ![r].id = id]

-----------------------------------------------------------------------------
\* A request with the token of s: returning users are found by subject.
FindBySub(r, s) ==
    /\ login[r].stage \in {"away", "in", "conflict"}
    /\ login' = [login EXCEPT ![r] =
            [stage |-> IF BySub(s) = {} THEN "find email" ELSE "refresh", sub |-> s,
             email |-> emailOf[s], id |-> IF BySub(s) = {} THEN 0 ELSE CHOOSE i \in BySub(s) : TRUE]]
    /\ UNCHANGED <<account, emailOf, invitation>>

\* Writing a row by its id, or the conflict of a unique column.
WriteRow(r, i, row) ==
    IF Unique(i, row)
    THEN account' = [account EXCEPT ![i] = row] /\ GoTo(r, "bootstrap", i)
    ELSE UNCHANGED account /\ GoTo(r, "conflict", i)

Refresh(r) ==
    /\ login[r].stage = "refresh"
    /\ LET i == login[r].id IN WriteRow(r, i, [account[i] EXCEPT !.email = login[r].email])
    /\ UNCHANGED <<emailOf, invitation>>

FindByEmail(r) ==
    /\ login[r].stage = "find email"
    /\ LET found == ByEmail(login[r].email)
       IN IF found = {} THEN GoTo(r, "create", 0)
          ELSE GoTo(r, "claim", CHOOSE i \in found : TRUE)
    /\ UNCHANGED <<account, emailOf, invitation>>

\* (The placeholder stays one.)
ClaimedUnbound(row, l) == [row EXCEPT !.email = l.email]

\* Who was invited, or has another subject now, keeps the row of the email.
Claimed(row, l) == [row EXCEPT !.sub = l.sub]

Claim(r) ==
    /\ login[r].stage = "claim"
    /\ LET i == login[r].id IN WriteRow(r, i, Claimed(account[i], login[r]))
    /\ UNCHANGED <<emailOf, invitation>>

Create(r) ==
    /\ login[r].stage = "create"
    /\ LET row == [sub |-> login[r].sub, email |-> login[r].email, superadmin |-> FALSE]
       IN IF Unique(0, row)
          THEN account' = Append(account, row) /\ GoTo(r, "bootstrap", Len(account) + 1)
          ELSE UNCHANGED account /\ GoTo(r, "reread", 0)
    /\ UNCHANGED <<emailOf, invitation>>

\* (Only by the subject: an invitation that came first is not seen.)
WhoCameFirstBySub(r) == BySub(login[r].sub)

\* Somebody came first: the row with the subject or with the email, either.
WhoCameFirst(r) == BySub(login[r].sub) \cup ByEmail(login[r].email)

Reread(r) ==
    /\ login[r].stage = "reread"
    /\ IF WhoCameFirst(r) = {} THEN GoTo(r, "conflict", 0)
       ELSE \E i \in WhoCameFirst(r) : GoTo(r, "rebind", i)
    /\ UNCHANGED <<account, emailOf, invitation>>

Rebind(r) ==
    /\ login[r].stage = "rebind"
    /\ LET i == login[r].id
       IN WriteRow(r, i, [account[i] EXCEPT !.sub = login[r].sub, !.email = login[r].email])
    /\ UNCHANGED <<emailOf, invitation>>

\* The first superadmin of the system, and only the first.
MayBePromoted(r) == login[r].email = Boss /\ Superadmins = {}

Bootstrap(r) ==
    /\ login[r].stage = "bootstrap"
    /\ GoTo(r, IF MayBePromoted(r) /\ ~account[login[r].id].superadmin THEN "promote" ELSE "in",
             login[r].id)
    /\ UNCHANGED <<account, emailOf, invitation>>

Promote(r) ==
    /\ login[r].stage = "promote"
    /\ account' = [account EXCEPT ![login[r].id].superadmin = TRUE]
    /\ GoTo(r, "in", login[r].id)
    /\ UNCHANGED <<emailOf, invitation>>

\* The token without an email of a connector: no user is created or claimed.
FindLinked(r, s) ==
    /\ login[r].stage \in {"away", "in", "conflict"}
    /\ BySub(s) # {}
    /\ login' = [login EXCEPT ![r] =
            [stage |-> "in", sub |-> s, email |-> Nobody, id |-> CHOOSE i \in BySub(s) : TRUE]]
    /\ UNCHANGED <<account, emailOf, invitation>>

\* An invitation reads, and then creates the placeholder of the email unless
\* its unique column refuses it.
BeginInvite(e) ==
    /\ invitation = Nobody /\ ByEmail(e) = {}
    /\ invitation' = e
    /\ UNCHANGED <<account, emailOf, login>>

CommitInvite ==
    /\ invitation # Nobody
    /\ LET row == [sub |-> Pending, email |-> invitation, superadmin |-> FALSE]
       IN account' = IF Unique(0, row) THEN Append(account, row) ELSE account
    /\ invitation' = Nobody
    /\ UNCHANGED <<emailOf, login>>

\* At the identity provider a person changes to an email that nobody else has,
\* there, here or in a token being resolved.
ChangeEmail(s, e) ==
    /\ e # Boss /\ ByEmail(e) = {}
    /\ \A t \in Identities : emailOf[t] # e
    /\ \A r \in Logins : login[r].email # e
    /\ emailOf' = [emailOf EXCEPT ![s] = e]
    /\ UNCHANGED <<account, login, invitation>>

SignIn(r) ==
    \/ \E s \in Identities : FindBySub(r, s) \/ FindLinked(r, s)
    \/ Refresh(r) \/ FindByEmail(r) \/ Claim(r) \/ Create(r) \/ Reread(r) \/ Rebind(r)
    \/ Bootstrap(r) \/ Promote(r)

InviteSomeone == (\E e \in Emails : BeginInvite(e)) \/ CommitInvite

SyncInit(rows, emails) ==
    /\ account = rows
    /\ emailOf = emails
    /\ login = [r \in Logins |-> Away]
    /\ invitation = Nobody

SyncNext ==
    \/ \E r \in Logins : SignIn(r)
    \/ InviteSomeone
    \/ \E s \in Identities, e \in Emails : ChangeEmail(s, e)

\* Rows the unique columns allow, one superadmin at most, and emails that mean
\* one person each, here and at the identity provider.
Account == [sub : Identities \cup {Pending}, email : Emails, superadmin : BOOLEAN]
KnownPeople(rows, emails) ==
    /\ rows \in Seq(Account) /\ emails \in [Identities -> Emails]
    /\ \A i, j \in DOMAIN rows : i # j =>
         /\ rows[i].email # rows[j].email
         /\ rows[i].sub # Pending => rows[i].sub # rows[j].sub
         /\ ~(rows[i].superadmin /\ rows[j].superadmin)
    /\ \A s, t \in Identities : emails[s] = emails[t] => s = t
    /\ \A i \in DOMAIN rows, s \in Identities : rows[i].email = emails[s] => rows[i].sub \in {s, Pending}

SyncSpec ==
    /\ \E rows \in Seq(Account), emails \in [Identities -> Emails] :
         KnownPeople(rows, emails) /\ SyncInit(rows, emails)
    /\ [][SyncNext]_syncVars

-----------------------------------------------------------------------------
SyncTypeOK ==
    /\ account \in Seq(Account)
    /\ emailOf \in [Identities -> Emails]
    /\ \A r \in Logins :
         /\ login[r].stage \in Stages
         /\ login[r].sub \in Identities \cup {Nobody}
         /\ login[r].email \in Emails \cup {Nobody}
         /\ login[r].id \in 0 .. Len(account)
    /\ invitation \in Emails \cup {Nobody}

\* "Safe to call concurrently" (user-sync.service.ts:66): whatever requests of
\* the same person and whatever invitation meet, a request is refused for a
\* conflict only when the token names two people here: one row has its subject
\* and another, of somebody else, its email.
OnlyTwoPeopleConflict ==
    [][\A r \in Logins :
         login[r].stage # "conflict" /\ login'[r].stage = "conflict" =>
            \E i \in BySub(login[r].sub), j \in ByEmail(login[r].email) : i # j]_syncVars

\* The bootstrap is inert once there is a superadmin (D5), and requests of the
\* same person at once do not make two.
OneSuperadmin == Cardinality(Superadmins) <= 1

\* Whatever requests and invitations meet, a request is let in as the person of
\* its token: the row it was given is that of the subject from then on.
InAsOneself ==
    \A r \in Logins : login[r].stage \in {"bootstrap", "promote", "in"} =>
        account[login[r].id].sub = login[r].sub

\* Whoever meets whom on the way in, each is let in as the person of the token,
\* and one of them at most becomes superadmin.
SignInsAreExact == SyncTypeOK /\ OneSuperadmin /\ InAsOneself
=============================================================================
