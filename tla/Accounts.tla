------------------------------ MODULE Accounts ------------------------------
(***************************************************************************)
(* Accounts, their sessions, the links mailed to them and the limits on    *)
(* attempts: the classes Accounts, Sessions and Throttle of                *)
(* src/src/reconcile/auth, on the tables users, user_credentials,          *)
(* auth_sessions, email_tokens and auth_throttles.  A step is one          *)
(* statement, or a group of reads a row lock protects; the steps of        *)
(* concurrent requests interleave at READ COMMITTED.                       *)
(*                                                                         *)
(* Abstracted: a password stands for its hash (rehashing is invisible), a  *)
(* session or a link for its secret, named after the request that issued   *)
(* it; an account's user and credential rows are one record, as both are   *)
(* written under the lock of the user row.  Time is a counter that stops   *)
(* at a horizon.  A browser or mailbox only presents secrets it was given. *)
(***************************************************************************)
EXTENDS Integers, Sequences, FiniteSets

CONSTANTS
    Emails, Passwords, Organizations,
    None,                   \* SQL NULL, no cookie, no link, no row
    Cookies,                \* sessions that may be open at the start
    Requests,               \* HTTP requests, each handled once by one thread
    Starts,                 \* the rows at the start, with the bodies of the requests
                            \* and the bounds of the behaviour
    LoginAttempts, LoginWindow, MailAttempts, MailWindow,
    IdleTime, AbsoluteTime, VerificationTime, ResetTime,
    RequireVerification, RegistrationEnabled

Purpose == {"VERIFICATION", "RESET"}
Operation == Purpose \cup {"login", "register"}
Buckets == Operation \X Emails
Kind == {"register", "login", "forgot", "resend", "verify", "reset", "me", "select", "logout"}
SessionIds == Cookies \cup Requests
Request == [kind: Kind, email: Emails, password: Passwords, cookie: SessionIds \cup {None},
            link: Requests \cup {None}, org: Organizations \cup {None}]

Account == [password: Passwords, verified: BOOLEAN, active: BOOLEAN]
Token == [email: Emails, purpose: Purpose, expires: Nat, consumed: BOOLEAN]
Bucket == [attempts: Nat, started: Nat]
(* with the constraint session_lifetimes                                   *)
Session == {s \in [email: Emails, org: Organizations \cup Requests \cup {None}, idle: Nat,
                   absolute: Nat, revoked: BOOLEAN] : s.idle <= s.absolute}

ASSUME TimeAssumption ==
    /\ {IdleTime, AbsoluteTime, VerificationTime, ResetTime,
        LoginWindow, MailWindow, LoginAttempts, MailAttempts} \subseteq Nat \ {0}
    /\ RequireVerification \in BOOLEAN /\ RegistrationEnabled \in BOOLEAN
ASSUME SeedAssumption ==
    /\ \A s \in Starts :
        /\ s.accounts \in [Emails -> Account \cup {None}]
        /\ s.seats \in [Emails -> SUBSET Organizations]
        /\ s.opened \in [Cookies -> [email: Emails, org: Organizations \cup {None}] \cup {None}]
        /\ \A c \in Cookies : s.opened[c] # None => s.accounts[s.opened[c].email] # None
        /\ s.request \in [Requests -> Request]
        /\ s.bounds \in [horizon: Nat, rosters: [Emails -> SUBSET SUBSET Organizations]]
    /\ Cookies \cap Requests = {} /\ Organizations \cap Requests = {}
    /\ None \notin Account \cup SessionIds \cup Organizations \cup Token \cup Bucket \cup Session

VARIABLES
    bounds,     \* the clock stops at its horizon; its rosters are the
                \* memberships governance may give each account
    clock,
    accounts,   \* users and user_credentials, by address
    seats,      \* the organizations each account is an active member of
    sessions,   \* auth_sessions, by the request that created them
    tokens,     \* email_tokens, by the request that created them
    buckets,    \* auth_throttles
    mailed,     \* the links that reached a mailbox
    request,    \* the body each request carries
    phase,      \* the next statement of each request
    now,        \* the time each request read from the clock
    account,    \* the account each request read
    bucket,     \* the bucket each request read
    chosen,     \* the organization each sign-in made active
    locks,      \* the rows each transaction holds
    reply,      \* the answer each finished request received
    origin,     \* history: the sign-in each session descends from
    issued,     \* history: links in the order they were issued
    uses,       \* history: links in the order they took effect
    admitted    \* history: attempts admitted since a bucket was last reset

tables == <<accounts, seats, sessions, tokens, buckets>>
locals == <<now, account, bucket, chosen>>
history == <<origin, issued, uses, admitted>>
given == <<bounds, request>>
vars == <<clock, tables, mailed, given, phase, locals, locks, reply, history>>

Rows == {"user", "address"} \X Emails \cup {"session"} \X SessionIds
        \cup {"token"} \X Requests \cup {"bucket"} \X Buckets
Origin == [login: SessionIds, password: Passwords, at: Nat]
Phase == {"new", "bucket", "charge", "exists", "insert", "create", "user", "check", "replace",
          "clear", "issue", "mail", "token", "sessions", "find", "touch", "session", "revoke",
          "commit", "done"}

TypeOK ==
    /\ bounds \in [horizon: Nat, rosters: [Emails -> SUBSET SUBSET Organizations]]
    /\ clock \in 0..bounds.horizon
    /\ accounts \in [Emails -> Account \cup {None}]
    /\ seats \in [Emails -> SUBSET (Organizations \cup Requests)]
    /\ sessions \in [SessionIds -> Session \cup {None}]
    /\ tokens \in [Requests -> Token \cup {None}]
    /\ buckets \in [Buckets -> Bucket \cup {None}]
    /\ mailed \subseteq Requests
    /\ request \in [Requests -> Request]
    /\ phase \in [Requests -> Phase]
    /\ now \in [Requests -> 0..bounds.horizon]
    /\ account \in [Requests -> Account \cup {None}]
    /\ bucket \in [Requests -> Bucket \cup {None}]
    /\ chosen \in [Requests -> Organizations \cup Requests \cup {None}]
    /\ locks \in [Requests -> SUBSET Rows]
    /\ reply \in [Requests -> {"none", "ok", "rejected", "lost"}]
    /\ origin \in [SessionIds -> Origin \cup {None}]
    /\ issued \in Seq(Requests) /\ uses \in Seq(Requests)
    /\ admitted \in [Buckets -> Nat]

-----------------------------------------------------------------------------
PurposeOf(kind) == IF kind \in {"forgot", "reset"} THEN "RESET" ELSE "VERIFICATION"

OperationOf(r) ==
    LET k == request[r].kind IN IF k \in {"login", "register"} THEN k ELSE PurposeOf(k)
BucketOf(r) == <<OperationOf(r), request[r].email>>
Limit(b) == IF b[1] = "login" THEN LoginAttempts ELSE MailAttempts
Window(b) == IF b[1] = "login" THEN LoginWindow ELSE MailWindow

(* The account a request is about: by address, by link or by session.      *)
Subject(r) ==
    LET m == request[r] IN
    CASE m.kind \in {"register", "login", "forgot", "resend"} -> m.email
      [] m.kind \in {"verify", "reset"} -> tokens[m.link].email
      [] m.kind \in {"me", "select", "logout"} -> sessions[m.cookie].email

Earlier(a, b) == IF a <= b THEN a ELSE b

NewSession(email, org, at, absolute) ==
    [email |-> email, org |-> org, idle |-> Earlier(at + IdleTime, absolute),
     absolute |-> absolute, revoked |-> FALSE]

Live(s, at) ==
    /\ sessions[s] # None
    /\ ~sessions[s].revoked /\ sessions[s].idle > at /\ sessions[s].absolute > at

Free(row, r) == \A q \in Requests \ {r} : row \notin locks[q]

Goto(r, p) == phase' = [phase EXCEPT ![r] = p] /\ UNCHANGED <<locks, reply>>

(* A statement waits for the rows it locks; they stay locked to the end of *)
(* the transaction.                                                        *)
Acquire(r, rows, p) ==
    /\ \A row \in rows : Free(row, r)
    /\ phase' = [phase EXCEPT ![r] = p]
    /\ locks' = [locks EXCEPT ![r] = @ \cup rows]
    /\ UNCHANGED reply

(* Broken variant: a transaction that ends keeps its locks.                *)
End_KeepsLocks(r, p, answer) ==
    /\ phase' = [phase EXCEPT ![r] = p]
    /\ reply' = [reply EXCEPT ![r] = answer]
    /\ UNCHANGED locks

(* The end of a transaction: COMMIT or ROLLBACK, then the next statement   *)
(* or the answer.                                                          *)
End(r, p, answer) ==
    /\ phase' = [phase EXCEPT ![r] = p]
    /\ reply' = [reply EXCEPT ![r] = answer]
    /\ locks' = [locks EXCEPT ![r] = {}]

Finish(r, answer) == End(r, "done", answer)

Init ==
    /\ clock = 0
    /\ \E s \in Starts :
        LET opened == {c \in Cookies : s.opened[c] # None} IN
        /\ accounts = s.accounts
        /\ seats = s.seats
        /\ sessions = [c \in SessionIds |->
                IF c \in opened
                THEN NewSession(s.opened[c].email, s.opened[c].org, 0, AbsoluteTime) ELSE None]
        /\ origin = [c \in SessionIds |->
                IF c \in opened
                THEN [login |-> c, password |-> s.accounts[s.opened[c].email].password, at |-> 0]
                ELSE None]
        /\ request = s.request /\ bounds = s.bounds
    /\ tokens = [t \in Requests |-> None]
    /\ buckets = [b \in Buckets |-> None]
    /\ mailed = {}
    /\ phase = [r \in Requests |-> "new"]
    /\ now = [r \in Requests |-> 0]
    /\ account = [r \in Requests |-> None]
    /\ bucket = [r \in Requests |-> None]
    /\ chosen = [r \in Requests |-> None]
    /\ locks = [r \in Requests |-> {}]
    /\ reply = [r \in Requests |-> "none"]
    /\ issued = <<>> /\ uses = <<>>
    /\ admitted = [b \in Buckets |-> 0]

Presentable(m) ==
    /\ m.cookie # None => sessions[m.cookie] # None
    /\ m.link # None => m.link \in mailed

(* The handler reads the clock and, for a link, whose it is.               *)
Arrive(r) ==
    LET m == request[r] IN
    /\ phase[r] = "new"
    /\ Presentable(m)
    /\ now' = [now EXCEPT ![r] = clock]
    /\ CASE m.kind = "register" ->
                IF RegistrationEnabled THEN Goto(r, "bucket") ELSE Finish(r, "rejected")
         [] m.kind \in {"login", "forgot", "resend"} -> Goto(r, "bucket")
         [] m.kind \in {"verify", "reset"} ->
                IF m.link # None /\ tokens[m.link].purpose = PurposeOf(m.kind)
                THEN Goto(r, "user") ELSE Finish(r, "rejected")
         [] m.kind \in {"me", "select"} ->
                IF m.cookie # None THEN Goto(r, "find") ELSE Finish(r, "rejected")
         [] m.kind = "logout" ->
                IF m.cookie # None THEN Goto(r, "revoke") ELSE Finish(r, "ok")
    /\ UNCHANGED <<clock, tables, mailed, given, account, bucket, chosen, history>>

-----------------------------------------------------------------------------
(* Throttle.allow, in a transaction of its own.                            *)

(* Broken variant: the bucket is read without FOR UPDATE.                  *)
ReadBucket_Plain(r) ==
    /\ phase[r] = "bucket"
    /\ Goto(r, "charge")
    /\ bucket' = [bucket EXCEPT ![r] = buckets[BucketOf(r)]]
    /\ UNCHANGED <<clock, tables, mailed, given, now, account, chosen, history>>

(* INSERT ... ON CONFLICT DO NOTHING, then SELECT ... FOR UPDATE           *)
ReadBucket(r) ==
    /\ phase[r] = "bucket"
    /\ Acquire(r, {<<"bucket", BucketOf(r)>>}, "charge")
    /\ bucket' = [bucket EXCEPT ![r] = buckets[BucketOf(r)]]
    /\ UNCHANGED <<clock, tables, mailed, given, now, account, chosen, history>>

Charge(r) ==
    LET b == BucketOf(r)
        old == bucket[r]
        fresh == old = None \/ old.started + Window(b) <= now[r]
        row == IF fresh THEN [attempts |-> 0, started |-> now[r]] ELSE old
    IN  /\ phase[r] = "charge"
        /\ IF row.attempts >= Limit(b)
           THEN /\ Finish(r, IF request[r].kind = "login" THEN "rejected" ELSE "ok")
                /\ UNCHANGED <<buckets, admitted>>
           ELSE /\ End(r, IF request[r].kind = "register" THEN "exists" ELSE "user", "none")
                /\ buckets' = [buckets EXCEPT ![b] = [row EXCEPT !.attempts = @ + 1]]
                /\ admitted' = [admitted EXCEPT ![b] = IF fresh THEN 1 ELSE @ + 1]
        /\ UNCHANGED <<clock, accounts, seats, sessions, tokens, mailed, given, locals,
                       origin, issued, uses>>

-----------------------------------------------------------------------------
(* SELECT ... FROM users ... FOR UPDATE, and the credential behind it, for *)
(* every handler that takes the account's lock.                            *)

AfterUser(kind) ==
    CASE kind = "login" -> "check"
      [] kind \in {"forgot", "resend"} -> "issue"
      [] kind \in {"verify", "reset"} -> "token"
      [] kind = "select" -> "session"

(* Broken variant: the user row is read without FOR UPDATE.                *)
LockUser_Plain(r) ==
    /\ phase[r] = "user"
    /\ Goto(r, AfterUser(request[r].kind))
    /\ account' = [account EXCEPT ![r] = accounts[Subject(r)]]
    /\ UNCHANGED <<clock, tables, mailed, given, now, bucket, chosen, history>>

LockUser(r) ==
    LET e == Subject(r) IN
    /\ phase[r] = "user"
    /\ Acquire(r, IF accounts[e] = None THEN {} ELSE {<<"user", e>>},
               AfterUser(request[r].kind))
    /\ account' = [account EXCEPT ![r] = accounts[e]]
    /\ UNCHANGED <<clock, tables, mailed, given, now, bucket, chosen, history>>

MayEnter(row) == row # None /\ row.active /\ (RequireVerification => row.verified)

-----------------------------------------------------------------------------
(* Accounts.register                                                       *)

LookForAccount(r) ==
    /\ phase[r] = "exists"
    /\ IF accounts[Subject(r)] # None THEN Finish(r, "ok") ELSE Goto(r, "insert")
    /\ UNCHANGED <<clock, tables, mailed, given, locals, history>>

(* The flush: uq_users_email waits for a concurrent insert of the address, *)
(* and refuses once that has committed, which is answered like success.    *)
InsertUser(r) ==
    LET e == Subject(r) IN
    /\ phase[r] = "insert"
    /\ Free(<<"address", e>>, r)
    /\ IF accounts[e] # None THEN Finish(r, "ok")
                             ELSE Acquire(r, {<<"address", e>>}, "create")
    /\ UNCHANGED <<clock, tables, mailed, given, locals, history>>

Siblings(e, purpose) ==
    {t \in Requests : tokens[t] # None /\ tokens[t].email = e /\ tokens[t].purpose = purpose}

(* _issue_token: the new link replaces those of the same purpose.          *)
IssueLink(r, e, purpose, lifetime) ==
    /\ tokens' = [t \in Requests |->
                    IF t = r THEN [email |-> e, purpose |-> purpose,
                                   expires |-> now[r] + lifetime, consumed |-> FALSE]
                    ELSE IF t \in Siblings(e, purpose)
                    THEN [tokens[t] EXCEPT !.consumed = TRUE] ELSE tokens[t]]
    /\ issued' = Append(issued, r)

(* The remaining inserts, the first link, and COMMIT.                      *)
CreateAccount(r) ==
    LET e == Subject(r) IN
    /\ phase[r] = "create"
    /\ accounts' = [accounts EXCEPT ![e] =
                        [password |-> request[r].password,
                         verified |-> ~RequireVerification, active |-> TRUE]]
    /\ seats' = [seats EXCEPT ![e] = {r}]
    /\ IF RequireVerification
       THEN /\ IssueLink(r, e, "VERIFICATION", VerificationTime)
            /\ End(r, "mail", "none")
       ELSE /\ UNCHANGED <<tokens, issued>>
            /\ Finish(r, "ok")
    /\ UNCHANGED <<clock, sessions, buckets, mailed, given, locals, origin, uses, admitted>>

-----------------------------------------------------------------------------
(* Accounts.request_email                                                  *)

Issue(r) ==
    LET e == Subject(r)
        purpose == PurposeOf(request[r].kind)
        row == account[r]
        eligible == row # None /\ row.active /\ (purpose = "RESET" \/ ~row.verified)
    IN  /\ phase[r] = "issue"
        /\ IF eligible
           THEN /\ \A t \in Siblings(e, purpose) :
                        ~tokens[t].consumed => Free(<<"token", t>>, r)
                /\ IssueLink(r, e, purpose,
                             IF purpose = "RESET" THEN ResetTime ELSE VerificationTime)
                /\ End(r, "mail", "none")
           ELSE Finish(r, "ok") /\ UNCHANGED <<tokens, issued>>
        /\ UNCHANGED <<clock, accounts, seats, sessions, buckets, mailed, given, locals,
                       origin, uses, admitted>>

(* _deliver, after the commit: a failure is logged and swallowed.          *)
Deliver(r) ==
    /\ phase[r] = "mail"
    /\ mailed' \in {mailed, mailed \cup {r}}
    /\ Finish(r, "ok")
    /\ UNCHANGED <<clock, tables, given, locals, history>>

-----------------------------------------------------------------------------
(* Accounts.login                                                          *)

(* The password is verified, and the memberships are read, under the lock. *)
CheckPassword(r) ==
    LET row == account[r] IN
    /\ phase[r] = "check"
    /\ IF MayEnter(row) /\ row.password = request[r].password
       THEN /\ Goto(r, "replace")
            /\ \E org \in seats[Subject(r)] \cup {None} :
                /\ IF Cardinality(seats[Subject(r)]) = 1 THEN org # None ELSE org = None
                /\ chosen' = [chosen EXCEPT ![r] = org]
       ELSE Finish(r, "rejected") /\ UNCHANGED chosen
    /\ UNCHANGED <<clock, tables, mailed, given, now, account, bucket, history>>

(* UPDATE auth_sessions: the session the browser came with.                *)
ReplaceSession(r) ==
    LET c == request[r].cookie IN
    /\ phase[r] = "replace"
    /\ Acquire(r, IF c = None \/ sessions[c].revoked THEN {} ELSE {<<"session", c>>}, "clear")
    /\ UNCHANGED <<clock, tables, mailed, given, locals, history>>

(* Throttle.clear_login                                                    *)
ClearLogin(r) ==
    /\ phase[r] = "clear"
    /\ Acquire(r, {<<"bucket", BucketOf(r)>>}, "commit")
    /\ UNCHANGED <<clock, tables, mailed, given, locals, history>>

Revoked(held) ==
    [s \in SessionIds |-> IF <<"session", s>> \in held
                          THEN [sessions[s] EXCEPT !.revoked = TRUE] ELSE sessions[s]]

CommitLogin(r) ==
    /\ phase[r] = "commit" /\ request[r].kind = "login"
    /\ sessions' = [Revoked(locks[r]) EXCEPT ![r] =
                        NewSession(Subject(r), chosen[r], now[r], now[r] + AbsoluteTime)]
    /\ origin' = [origin EXCEPT ![r] =
                        [login |-> r, password |-> request[r].password, at |-> now[r]]]
    /\ buckets' = [buckets EXCEPT ![BucketOf(r)] = [@ EXCEPT !.attempts = 0]]
    /\ admitted' = [admitted EXCEPT ![BucketOf(r)] = 0]
    /\ Finish(r, "ok")
    /\ UNCHANGED <<clock, accounts, seats, tokens, mailed, given, locals, issued, uses>>

-----------------------------------------------------------------------------
(* Accounts.consume_token                                                  *)

(* Broken variant: a link is not checked for an earlier use.               *)
LinkWorks_Again(r) == tokens[request[r].link].expires > now[r]

LinkWorks(r) ==
    /\ ~tokens[request[r].link].consumed
    /\ tokens[request[r].link].expires > now[r]

LockLink(r) ==
    LET t == request[r].link IN
    /\ phase[r] = "token"
    /\ Free(<<"token", t>>, r)
    /\ IF LinkWorks(r) /\ account[r].active
       THEN Acquire(r, {<<"token", t>>},
                    IF request[r].kind = "reset" THEN "sessions" ELSE "commit")
       ELSE Finish(r, "rejected")
    /\ UNCHANGED <<clock, tables, mailed, given, locals, history>>

(* UPDATE auth_sessions: every session of the account.                     *)
RevokeSessions(r) ==
    /\ phase[r] = "sessions"
    /\ Acquire(r, {<<"session", s>> : s \in {s \in SessionIds :
                        /\ sessions[s] # None
                        /\ sessions[s].email = Subject(r) /\ ~sessions[s].revoked}},
               "commit")
    /\ UNCHANGED <<clock, tables, mailed, given, locals, history>>

CommitLink(r) ==
    LET m == request[r]
        e == Subject(r)
    IN  /\ phase[r] = "commit" /\ m.kind \in {"verify", "reset"}
        /\ accounts' = [accounts EXCEPT ![e] =
                            IF m.kind = "reset" THEN [@ EXCEPT !.password = m.password]
                                                ELSE [@ EXCEPT !.verified = TRUE]]
        /\ sessions' = Revoked(locks[r])
        /\ tokens' = [t \in Requests |-> IF t \in Siblings(e, PurposeOf(m.kind))
                            THEN [tokens[t] EXCEPT !.consumed = TRUE] ELSE tokens[t]]
        /\ uses' = Append(uses, m.link)
        /\ Finish(r, "ok")
        /\ UNCHANGED <<clock, seats, buckets, mailed, given, locals, origin, issued, admitted>>

-----------------------------------------------------------------------------
(* Sessions.authenticate, on its own (me) or before select_organization    *)

FindSession(r) ==
    /\ phase[r] = "find"
    /\ IF MayEnter(accounts[Subject(r)]) THEN Goto(r, "touch") ELSE Finish(r, "rejected")
    /\ UNCHANGED <<clock, tables, mailed, given, locals, history>>

Touched(row, at) == [row EXCEPT !.idle = Earlier(at + IdleTime, row.absolute)]

(* UPDATE auth_sessions ... WHERE it is live, and COMMIT                   *)
TouchSession(r) ==
    LET c == request[r].cookie
        selecting == request[r].kind = "select"
    IN  /\ phase[r] = "touch"
        /\ Free(<<"session", c>>, r)
        /\ IF Live(c, now[r])
           THEN /\ sessions' = [sessions EXCEPT ![c] = Touched(@, now[r])]
                /\ now' = [now EXCEPT ![r] = IF selecting THEN clock ELSE @]
                /\ IF selecting THEN End(r, "user", "none") ELSE Finish(r, "ok")
           ELSE Finish(r, "rejected") /\ UNCHANGED <<sessions, now>>
        /\ UNCHANGED <<clock, accounts, seats, tokens, buckets, mailed, given, account,
                       bucket, chosen, history>>

(* Broken variant: the session is not looked at again after the wait.      *)
StillOpen_Assumed(r) == TRUE

StillOpen(r) == Live(request[r].cookie, now[r])

LockSession(r) ==
    /\ phase[r] = "session"
    /\ Free(<<"session", request[r].cookie>>, r)
    /\ IF account[r].active /\ StillOpen(r)
       THEN Acquire(r, {<<"session", request[r].cookie>>}, "commit")
       ELSE Finish(r, "rejected")
    /\ UNCHANGED <<clock, tables, mailed, given, locals, history>>

Deadline(r) == sessions[request[r].cookie].absolute

CommitSelect(r) ==
    LET m == request[r] IN
    /\ phase[r] = "commit" /\ m.kind = "select"
    /\ IF m.org \in seats[Subject(r)]
       THEN /\ sessions' = [Revoked(locks[r]) EXCEPT ![r] =
                                NewSession(Subject(r), m.org, now[r], Deadline(r))]
            /\ origin' = [origin EXCEPT ![r] = origin[m.cookie]]
            /\ Finish(r, "ok")
       ELSE Finish(r, "rejected") /\ UNCHANGED <<sessions, origin>>
    /\ UNCHANGED <<clock, accounts, seats, tokens, buckets, mailed, given, locals,
                   issued, uses, admitted>>

(* Sessions.logout: UPDATE auth_sessions ... WHERE it is not revoked       *)
Logout(r) ==
    LET c == request[r].cookie IN
    /\ phase[r] = "revoke"
    /\ IF sessions[c].revoked THEN UNCHANGED sessions
       ELSE Free(<<"session", c>>, r) /\ sessions' = Revoked({<<"session", c>>})
    /\ Finish(r, "ok")
    /\ UNCHANGED <<clock, accounts, seats, tokens, buckets, mailed, given, locals, history>>

-----------------------------------------------------------------------------
(* The connection or the worker is lost: what was not committed is undone. *)
Rollback(r) ==
    /\ phase[r] \notin {"new", "done"}
    /\ Finish(r, "lost")
    /\ UNCHANGED <<clock, tables, mailed, given, locals, history>>

(* Governance (Governance.tla) changes an account's memberships.           *)
Govern(e) ==
    /\ \E orgs \in bounds.rosters[e] \ {seats[e]} : seats' = [seats EXCEPT ![e] = orgs]
    /\ UNCHANGED <<clock, accounts, sessions, tokens, buckets, mailed, given, phase, locals,
                   locks, reply, history>>

Tick ==
    /\ clock < bounds.horizon
    /\ clock' = clock + 1
    /\ UNCHANGED <<tables, mailed, given, phase, locals, locks, reply, history>>

Step(r) ==
    \/ ReadBucket(r) \/ Charge(r) \/ LockUser(r)
    \/ LookForAccount(r) \/ InsertUser(r) \/ CreateAccount(r)
    \/ Issue(r) \/ Deliver(r)
    \/ CheckPassword(r) \/ ReplaceSession(r) \/ ClearLogin(r) \/ CommitLogin(r)
    \/ LockLink(r) \/ RevokeSessions(r) \/ CommitLink(r)
    \/ FindSession(r) \/ TouchSession(r) \/ LockSession(r) \/ CommitSelect(r) \/ Logout(r)

Next ==
    \/ \E r \in Requests : Arrive(r) \/ Step(r) \/ Rollback(r)
    \/ \E e \in Emails : Govern(e)
    \/ Tick

Spec == Init /\ [][Next]_vars

-----------------------------------------------------------------------------
(* Properties.                                                             *)

(* A session that is still open was signed in with the password the        *)
(* account has now: a reset leaves none behind, not even one whose sign-in *)
(* or organization switch was under way.                                   *)
OpenSessionsKnowThePassword ==
    \A s \in SessionIds :
        sessions[s] # None /\ ~sessions[s].revoked
            => origin[s].password = accounts[sessions[s].email].password

(* One sign-in has at most one open session, whichever tabs switch the     *)
(* organization at once, and no sequence of switches carries it past the   *)
(* absolute deadline of the sign-in.                                       *)
OneOpenSessionPerSignIn ==
    \A s \in SessionIds : sessions[s] # None =>
        /\ sessions[s].absolute = origin[s].at + AbsoluteTime
        /\ \A t \in SessionIds \ {s} :
            /\ ~sessions[s].revoked /\ sessions[t] # None /\ ~sessions[t].revoked
            => origin[s].login # origin[t].login

(* A mailed link takes effect at most once, however often it is posted,    *)
(* and only while no newer one of its purpose was issued.                  *)
LinksWorkOnce ==
    [][Len(uses') > Len(uses) =>
        LET t == uses'[Len(uses')] IN
        /\ \A n \in DOMAIN uses : uses[n] # t
        /\ \E k \in DOMAIN issued :
            /\ issued[k] = t
            /\ \A n \in DOMAIN issued :
                /\ tokens[issued[n]].email = tokens[t].email
                /\ tokens[issued[n]].purpose = tokens[t].purpose
                => n <= k]_vars

(* Between two resets of a bucket no more attempts are admitted than its   *)
(* limit, however many arrive at once.                                     *)
AttemptsAreLimited == \A b \in Buckets : admitted[b] <= Limit(b)

(* The rows the next statement of a request locks or writes.               *)
NextRows(r) ==
    LET m == request[r] IN
    CASE phase[r] \in {"bucket", "clear"} -> {<<"bucket", BucketOf(r)>>}
      [] phase[r] = "user" ->
            IF accounts[Subject(r)] = None THEN {} ELSE {<<"user", Subject(r)>>}
      [] phase[r] = "insert" -> {<<"address", Subject(r)>>}
      [] phase[r] = "issue" ->
            {<<"token", t>> : t \in {t \in Siblings(Subject(r), PurposeOf(m.kind)) :
                                        ~tokens[t].consumed}}
      [] phase[r] = "replace" ->
            IF m.cookie = None \/ sessions[m.cookie].revoked THEN {}
            ELSE {<<"session", m.cookie>>}
      [] phase[r] = "token" -> {<<"token", m.link>>}
      [] phase[r] = "sessions" ->
            {<<"session", s>> : s \in {s \in SessionIds :
                /\ sessions[s] # None
                /\ sessions[s].email = Subject(r) /\ ~sessions[s].revoked}}
      [] phase[r] \in {"touch", "session"} -> {<<"session", m.cookie>>}
      [] phase[r] = "revoke" ->
            IF sessions[m.cookie].revoked THEN {} ELSE {<<"session", m.cookie>>}
      [] OTHER -> {}

(* It can go on only when whoever holds one of them has ended.             *)
WaitsFor(r, q) == q # r /\ NextRows(r) \cap locks[q] # {}

(* Transactions never wait for each other in a circle, nor for a row that  *)
(* an ended one left locked, whichever accounts, sessions, links and       *)
(* buckets they share.  In every group of requests one can go on as soon   *)
(* as others than the group have ended.                                    *)
NoCircularWait ==
    LET running == {r \in Requests : phase[r] \notin {"new", "done"}} IN
    \A S \in SUBSET running : S # {} =>
        \E r \in S : \A q \in Requests : WaitsFor(r, q) => q \in running \ S
=============================================================================
