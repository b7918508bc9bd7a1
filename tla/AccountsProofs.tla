--------------------------- MODULE AccountsProofs ---------------------------
(***************************************************************************)
(* What holds of accounts, sessions, links and limits for any addresses,   *)
(* passwords, requests, lifetimes and limits.                              *)
(*                                                                         *)
(* The argument: what a transaction has found out about an account, a      *)
(* session or a bucket under its lock is still so at the commit (Holds),   *)
(* since whoever writes a password, opens a session or settles a link      *)
(* holds the lock of the same account (Exclusive).                         *)
(*                                                                         *)
(* Locks are taken in one order, the user, the link, the sessions, the     *)
(* bucket (LockOrder), so nobody waits in a circle.                        *)
(***************************************************************************)
EXTENDS Accounts, TLAPS

Open(s) == sessions[s] # None /\ ~sessions[s].revoked
(* The statements made while the account is locked.                        *)
UserPhase == {"check", "replace", "clear", "issue", "token", "sessions", "session", "commit"}

(* Which requests reach which statement, and the rows they name.           *)
Sent(r) ==
    LET m == request[r]
        p == phase[r]
    IN  /\ p \in {"bucket", "charge"} => m.kind \in {"register", "login", "forgot", "resend"}
        /\ p \in {"exists", "insert", "create"} => m.kind = "register"
        /\ p = "user" => m.kind \in {"login", "forgot", "resend", "verify", "reset", "select"}
        /\ p \in {"check", "replace", "clear"} => m.kind = "login"
        /\ p = "issue" => m.kind \in {"forgot", "resend"}
        /\ p = "mail" => m.kind \in {"register", "forgot", "resend"} /\ tokens[r] # None
        /\ p = "token" => m.kind \in {"verify", "reset"}
        /\ p = "sessions" => m.kind = "reset"
        /\ p \in {"find", "touch"} => m.kind \in {"me", "select"}
        /\ p = "session" => m.kind = "select"
        /\ p = "revoke" => m.kind = "logout"
        /\ p = "commit" => m.kind \in {"login", "verify", "reset", "select"}
        /\ p # "new" => /\ m.cookie # None => sessions[m.cookie] # None
                        /\ m.link # None => tokens[m.link] # None
        /\ p \notin {"new", "done"} /\ m.kind \in {"verify", "reset"} =>
            m.link # None /\ tokens[m.link].purpose = PurposeOf(m.kind)
        /\ p \notin {"new", "done"} /\ m.kind \in {"me", "select", "logout"} => m.cookie # None
        /\ p # "done" => sessions[r] = None
        /\ p \notin {"mail", "done"} => tokens[r] = None

(* What a request knows under its locks.                                   *)
Holds(r) ==
    LET m == request[r]
        p == phase[r]
        e == Subject(r)
        b == BucketOf(r)
    IN  /\ p \in UserPhase /\ account[r] # None =>
            <<"user", e>> \in locks[r] /\ account[r] = accounts[e]
        /\ p \in UserPhase \ {"check", "issue"} => account[r] # None
        /\ m.kind = "login" /\ p \in {"replace", "clear", "commit"} =>
            account[r].password = m.password
        /\ p = "charge" => <<"bucket", b>> \in locks[r] /\ bucket[r] = buckets[b]
        /\ m.kind = "login" /\ p = "commit" => <<"bucket", b>> \in locks[r]
        /\ m.kind = "login" /\ p \in {"user", "check", "replace", "clear", "commit"} =>
            buckets[b] # None
        /\ p = "create" => <<"address", e>> \in locks[r] /\ accounts[e] = None
        /\ m.kind \in {"verify", "reset"} /\ p \in {"sessions", "commit"} =>
            ~tokens[m.link].consumed
        /\ m.kind = "reset" /\ p = "commit" =>
            \A s \in SessionIds : Open(s) /\ sessions[s].email = e => <<"session", s>> \in locks[r]
        /\ m.kind = "select" /\ p = "commit" => <<"session", m.cookie>> \in locks[r] /\ Open(m.cookie)
        /\ \A s \in SessionIds : <<"session", s>> \in locks[r] => sessions[s] # None
Own == \A r \in Requests : Sent(r) /\ Holds(r)

Exclusive == \A q, r \in Requests : q # r => locks[q] \cap locks[r] = {}

(* Rows refer to rows that exist.                                          *)
Rooted ==
    /\ \A s \in SessionIds : sessions[s] # None =>
        /\ accounts[sessions[s].email] # None
        /\ origin[s] \in Origin /\ sessions[origin[s].login] # None
    /\ \A t \in Requests : tokens[t] # None => accounts[tokens[t].email] # None
    /\ \A t \in mailed : tokens[t] # None

(* A bucket counts at least what it has admitted.                          *)
Counted ==
    \A b \in Buckets :
        IF buckets[b] = None THEN admitted[b] = 0
        ELSE admitted[b] <= buckets[b].attempts /\ buckets[b].attempts <= Limit(b)

(* Of the links of one account and purpose only the last may be open, and  *)
(* none that was used.                                                     *)
Linked ==
    /\ \A t \in Requests : tokens[t] # None <=> \E n \in DOMAIN issued : issued[n] = t
    /\ \A k, n \in DOMAIN issued :
        /\ k < n
        /\ tokens[issued[k]].email = tokens[issued[n]].email
        /\ tokens[issued[k]].purpose = tokens[issued[n]].purpose
        => tokens[issued[k]].consumed
    /\ \A n \in DOMAIN uses : tokens[uses[n]] # None /\ tokens[uses[n]].consumed

IInv ==
    /\ TypeOK /\ Own /\ Exclusive /\ Rooted /\ Counted /\ Linked
    /\ OpenSessionsKnowThePassword /\ OneOpenSessionPerSignIn

-----------------------------------------------------------------------------
(* The first state.                                                        *)

LEMMA NoneApart ==
  None \notin Account /\ None \notin Token /\ None \notin Bucket /\ None \notin Session
  BY SeedAssumption

LEMMA SpentRow ==
  ASSUME NEW x \in Token
  PROVE  LET y == [x EXCEPT !.consumed = TRUE] IN
         y \in Token /\ y # None /\ y.email = x.email /\ y.purpose = x.purpose /\ y.consumed
  <1> DEFINE y == [x EXCEPT !.consumed = TRUE]
  <1>1. y \in Token /\ y.email = x.email /\ y.purpose = x.purpose /\ y.consumed
    BY DEF Token
  <1> QED BY <1>1, NoneApart

LEMMA RevokedRow ==
  ASSUME NEW x \in Session
  PROVE  LET y == [x EXCEPT !.revoked = TRUE] IN
         /\ y \in Session /\ y # None /\ y.email = x.email /\ y.absolute = x.absolute
         /\ y.revoked
  <1> DEFINE y == [x EXCEPT !.revoked = TRUE]
  <1>1. /\ y \in Session /\ y.email = x.email /\ y.absolute = x.absolute
        /\ y.revoked
    BY DEF Session
  <1> QED BY <1>1, NoneApart

LEMMA TouchedRow ==
  ASSUME NEW x \in Session, NEW at \in Nat
  PROVE  LET y == Touched(x, at) IN
         /\ y \in Session /\ y # None /\ y.email = x.email /\ y.absolute = x.absolute
         /\ y.revoked = x.revoked
  <1> DEFINE idle == Earlier(at + IdleTime, x.absolute)
             y == [x EXCEPT !.idle = idle]
  <1>1. IdleTime \in Nat /\ x.absolute \in Nat
    BY TimeAssumption DEF Session
  <1>2. idle \in Nat /\ idle <= x.absolute
    BY <1>1 DEF Earlier
  <1> HIDE DEF idle
  <1>3. /\ y \in Session /\ y.email = x.email /\ y.absolute = x.absolute
        /\ y.revoked = x.revoked
    BY <1>2 DEF Session
  <1> QED BY <1>3, NoneApart DEF Touched, idle

LEMMA NewSessionType ==
  ASSUME NEW email \in Emails, NEW org \in Organizations \cup Requests \cup {None},
         NEW at \in Nat, NEW absolute \in Nat
  PROVE  /\ NewSession(email, org, at, absolute) \in Session
         /\ NewSession(email, org, at, absolute) # None
         /\ NewSession(email, org, at, absolute).email = email
         /\ NewSession(email, org, at, absolute).absolute = absolute
         /\ ~NewSession(email, org, at, absolute).revoked
  <1>1. IdleTime \in Nat
    BY TimeAssumption
  <1>2. Earlier(at + IdleTime, absolute) \in Nat /\ Earlier(at + IdleTime, absolute) <= absolute
    BY <1>1 DEF Earlier
  <1>3. NewSession(email, org, at, absolute) \in Session
    BY <1>2 DEF NewSession, Session
  <1> QED BY <1>3, SeedAssumption DEF NewSession

LEMMA InitInv == Init => IInv
  <1> SUFFICES ASSUME Init PROVE IInv
    OBVIOUS
  <1>1. PICK s \in Starts :
          LET opened == {c \in Cookies : s.opened[c] # None} IN
          /\ accounts = s.accounts
          /\ seats = s.seats
          /\ sessions = [c \in SessionIds |->
                IF c \in opened
                THEN NewSession(s.opened[c].email, s.opened[c].org, 0, AbsoluteTime) ELSE None]
          /\ origin = [c \in SessionIds |->
                IF c \in opened
                THEN [login |-> c, password |-> s.accounts[s.opened[c].email].password, at |-> 0]
                ELSE None]
          /\ request = s.request /\ bounds = s.bounds
    BY Zenon DEF Init
  <1> DEFINE opened == {c \in Cookies : s.opened[c] # None}
             row(c) == NewSession(s.opened[c].email, s.opened[c].org, 0, AbsoluteTime)
             born(c) == [login |-> c, password |-> s.accounts[s.opened[c].email].password, at |-> 0]
  <1>2. /\ s.accounts \in [Emails -> Account \cup {None}]
        /\ s.seats \in [Emails -> SUBSET Organizations]
        /\ s.opened \in [Cookies -> [email: Emails, org: Organizations \cup {None}] \cup {None}]
        /\ \A c \in Cookies : s.opened[c] # None => s.accounts[s.opened[c].email] # None
        /\ s.request \in [Requests -> Request]
        /\ s.bounds \in [horizon: Nat, rosters: [Emails -> SUBSET SUBSET Organizations]]
    BY SeedAssumption
  <1>3. \A c \in opened : /\ s.opened[c].email \in Emails /\ s.opened[c].org \in Organizations \cup {None}
                          /\ s.accounts[s.opened[c].email] \in Account
                          /\ s.accounts[s.opened[c].email] # None
    BY <1>2
  <1>4. ASSUME NEW c \in opened
        PROVE  /\ row(c) \in Session
               /\ row(c) # None
               /\ row(c).email = s.opened[c].email
               /\ row(c).absolute = AbsoluteTime
               /\ ~row(c).revoked
    <2>1. AbsoluteTime \in Nat /\ 0 \in Nat
      BY TimeAssumption
    <2>2. s.opened[c].email \in Emails /\ s.opened[c].org \in Organizations \cup Requests \cup {None}
      BY <1>3
    <2> DEFINE e == s.opened[c].email
               o == s.opened[c].org
    <2>3. row(c) = NewSession(e, o, 0, AbsoluteTime) /\ e = s.opened[c].email
      OBVIOUS
    <2>4. e \in Emails /\ o \in Organizations \cup Requests \cup {None}
      BY <2>2
    <2> HIDE DEF e, o, row
    <2> QED BY <2>1, <2>3, <2>4, NewSessionType
  <1>5. ASSUME NEW c \in opened
        PROVE  /\ born(c) \in Origin
               /\ born(c).login = c
               /\ born(c).password = s.accounts[s.opened[c].email].password
               /\ born(c).at = 0
    <2>1. c \in SessionIds /\ s.accounts[s.opened[c].email].password \in Passwords
      BY <1>3 DEF Account, SessionIds
    <2> HIDE DEF opened
    <2> QED BY <2>1 DEF Origin
  <1>6. /\ sessions = [c \in SessionIds |-> IF c \in opened THEN row(c) ELSE None]
        /\ origin = [c \in SessionIds |-> IF c \in opened THEN born(c) ELSE None]
        /\ accounts = s.accounts /\ seats = s.seats /\ request = s.request /\ bounds = s.bounds
    BY <1>1
  <1>7. opened \subseteq SessionIds /\ opened \cap Requests = {}
    BY SeedAssumption DEF SessionIds
  <1> HIDE DEF row, born
  <1>8. TypeOK
    <2>1. /\ sessions \in [SessionIds -> Session \cup {None}]
          /\ origin \in [SessionIds -> Origin \cup {None}]
      BY <1>4, <1>5, <1>6
    <2>2. bounds.horizon \in Nat /\ seats \in [Emails -> SUBSET (Organizations \cup Requests)]
      BY <1>2, <1>6
    <2> QED BY <1>2, <1>6, <2>1, <2>2 DEF Init, TypeOK, Phase
  <1>9. \A c \in SessionIds : sessions[c] # None <=> c \in opened
    BY <1>4, <1>6
  <1>10. Own
    BY <1>6, <1>7, <1>9 DEF Init, Own, Sent, Holds, UserPhase, SessionIds
  <1>11. Exclusive /\ Counted /\ Linked
    BY DEF Init, Exclusive, Counted, Linked
  <1>12. Rooted
    <2>1. \A t \in Requests : tokens[t] = None
      BY DEF Init
    <2>2. ASSUME NEW c \in opened
          PROVE  /\ accounts[sessions[c].email] # None
                 /\ origin[c] \in Origin /\ origin[c].login = c
      BY <1>3, <1>4, <1>5, <1>6, <1>7
    <2> QED BY <1>9, <2>1, <2>2 DEF Init, Rooted
  <1>13. OpenSessionsKnowThePassword
    BY <1>4, <1>5, <1>6, <1>9 DEF OpenSessionsKnowThePassword
  <1>14. OneOpenSessionPerSignIn
    <2>1. ASSUME NEW c \in opened
          PROVE  sessions[c].absolute = origin[c].at + AbsoluteTime /\ origin[c].login = c
      <3>1. sessions[c] = row(c) /\ origin[c] = born(c)
        BY <1>6, <1>7
      <3>2. 0 + AbsoluteTime = AbsoluteTime
        BY TimeAssumption
      <3> QED BY <1>4, <1>5, <3>1, <3>2
    <2> QED BY <1>9, <2>1 DEF OneOpenSessionPerSignIn
  <1> QED BY <1>8, <1>10, <1>11, <1>12, <1>13, <1>14 DEF IInv

-----------------------------------------------------------------------------
(* Moves of one request: its next statement and its locks.                 *)

Moves(r, p, held) ==
    /\ phase' \in [Requests -> Phase]
    /\ locks' \in [Requests -> SUBSET Rows]
    /\ reply' \in [Requests -> {"none", "ok", "rejected", "lost"}]
    /\ \A q \in Requests \ {r} : phase'[q] = phase[q] /\ locks'[q] = locks[q]
    /\ phase'[r] = p /\ locks'[r] = held
    /\ Exclusive'

LEMMA GotoMoves ==
  ASSUME TypeOK, Exclusive, NEW r \in Requests, NEW p \in Phase, Goto(r, p)
  PROVE  Moves(r, p, locks[r])
  BY DEF TypeOK, Exclusive, Goto, Moves

LEMMA AcquireMoves ==
  ASSUME TypeOK, Exclusive, NEW r \in Requests, NEW p \in Phase, NEW rows \in SUBSET Rows,
         Acquire(r, rows, p)
  PROVE  Moves(r, p, locks[r] \cup rows)
  <1>1. locks[r] \cup rows \in SUBSET Rows /\ \A q \in Requests \ {r} : rows \cap locks[q] = {}
    BY DEF TypeOK, Acquire, Free
  <1>2. /\ phase' = [phase EXCEPT ![r] = p]
        /\ locks' = [locks EXCEPT ![r] = locks[r] \cup rows]
        /\ UNCHANGED reply
    BY DEF Acquire
  <1>3. /\ phase' \in [Requests -> Phase] /\ locks' \in [Requests -> SUBSET Rows]
        /\ phase'[r] = p /\ locks'[r] = locks[r] \cup rows
        /\ \A q \in Requests \ {r} : phase'[q] = phase[q] /\ locks'[q] = locks[q]
    BY <1>1, <1>2 DEF TypeOK
  <1>4. Exclusive'
    BY <1>1, <1>3 DEF Exclusive
  <1> QED BY <1>2, <1>3, <1>4 DEF Moves, TypeOK

LEMMA EndMoves ==
  ASSUME TypeOK, Exclusive, NEW r \in Requests, NEW p \in Phase,
         NEW answer \in {"none", "ok", "rejected", "lost"}, End(r, p, answer)
  PROVE  Moves(r, p, {})
  BY DEF TypeOK, Exclusive, End, Moves

LEMMA FinishMoves ==
  ASSUME TypeOK, Exclusive, NEW r \in Requests,
         NEW answer \in {"none", "ok", "rejected", "lost"}, Finish(r, answer)
  PROVE  Moves(r, "done", {})
  BY EndMoves DEF Finish, Phase

-----------------------------------------------------------------------------
(* Statements that write no table.                                         *)

LEMMA TablesKept ==
  ASSUME UNCHANGED tables
  PROVE  UNCHANGED <<accounts, seats, sessions, tokens, buckets>>
  BY DEF tables

LEMMA OwnKept ==
  ASSUME UNCHANGED tables, request' = request, NEW q,
         phase'[q] = phase[q], locks'[q] = locks[q], account'[q] = account[q], bucket'[q] = bucket[q]
  PROVE  (Sent(q) => Sent(q)') /\ (Holds(q) => Holds(q)')
  <1>1. Subject(q)' = Subject(q) /\ BucketOf(q)' = BucketOf(q) /\ \A s : Open(s)' <=> Open(s)
    BY TablesKept DEF Subject, BucketOf, OperationOf, Open
  <1> QED BY <1>1, TablesKept DEF Sent, Holds

LEMMA ReadInv ==
  ASSUME IInv, NEW r \in Requests, NEW p, NEW held, Moves(r, p, held),
         UNCHANGED <<clock, tables, mailed, given, history>>,
         now' \in [Requests -> 0..bounds.horizon],
         account' \in [Requests -> Account \cup {None}],
         bucket' \in [Requests -> Bucket \cup {None}],
         chosen' \in [Requests -> Organizations \cup Requests \cup {None}],
         \A q \in Requests \ {r} : account'[q] = account[q] /\ bucket'[q] = bucket[q],
         Sent(r)', Holds(r)'
  PROVE  IInv'
  <1>1. /\ UNCHANGED <<accounts, seats, sessions, tokens, buckets, origin, issued, uses, admitted>>
        /\ UNCHANGED <<clock, mailed, bounds, request>>
    BY DEF tables, history, given
  <1>2. TypeOK'
    BY <1>1 DEF IInv, TypeOK, Moves
  <1>3. Own'
    BY <1>1, OwnKept DEF IInv, Own, Moves
  <1>4. Exclusive'
    BY DEF Moves
  <1>5. Rooted' /\ Counted' /\ Linked' /\ OpenSessionsKnowThePassword' /\ OneOpenSessionPerSignIn'
    BY <1>1 DEF IInv, Rooted, Counted, Linked, OpenSessionsKnowThePassword, OneOpenSessionPerSignIn
  <1> QED BY <1>2, <1>3, <1>4, <1>5 DEF IInv

(* A request that has its answer knows nothing any more.                   *)
LEMMA DoneOwn ==
  ASSUME IInv, NEW r \in Requests, phase[r] # "new", UNCHANGED <<tables, request>>,
         Moves(r, "done", {})
  PROVE  Sent(r)' /\ Holds(r)'
  <1>1. Sent(r) /\ phase'[r] = "done" /\ locks'[r] = {}
    BY DEF IInv, Own, Moves
  <1> QED BY <1>1, TablesKept DEF Sent, Holds, UserPhase

LEMMA FinishInv ==
  ASSUME IInv, NEW r \in Requests, phase[r] # "new",
         NEW answer \in {"none", "ok", "rejected", "lost"}, Finish(r, answer),
         UNCHANGED <<clock, tables, mailed, given, locals, history>>
  PROVE  IInv'
  <1>1. TypeOK /\ Exclusive
    BY DEF IInv
  <1>2. Moves(r, "done", {})
    BY <1>1, FinishMoves
  <1>3. request' = request /\ UNCHANGED <<now, account, bucket, chosen>>
    BY DEF given, locals
  <1>4. Sent(r)' /\ Holds(r)'
    BY <1>2, <1>3, DoneOwn
  <1>5. /\ now' \in [Requests -> 0..bounds.horizon]
        /\ account' \in [Requests -> Account \cup {None}]
        /\ bucket' \in [Requests -> Bucket \cup {None}]
        /\ chosen' \in [Requests -> Organizations \cup Requests \cup {None}]
    BY <1>1, <1>3 DEF TypeOK
  <1> QED BY <1>2, <1>3, <1>4, <1>5, ReadInv

(* The next statement, with locals as they are.                            *)
LEMMA MoveInv ==
  ASSUME IInv, NEW r \in Requests, NEW p, NEW held, Moves(r, p, held),
         UNCHANGED <<clock, tables, mailed, given, locals, history>>,
         Sent(r)', Holds(r)'
  PROVE  IInv'
  <1>1. request' = request /\ UNCHANGED <<now, account, bucket, chosen>>
    BY DEF given, locals
  <1>2. /\ now' \in [Requests -> 0..bounds.horizon]
        /\ account' \in [Requests -> Account \cup {None}]
        /\ bucket' \in [Requests -> Bucket \cup {None}]
        /\ chosen' \in [Requests -> Organizations \cup Requests \cup {None}]
    BY <1>1 DEF IInv, TypeOK
  <1> QED BY <1>1, <1>2, ReadInv

(* What every step that writes no table leaves as it is.                   *)
LEMMA NamesKept ==
  ASSUME NEW r, UNCHANGED <<tables, request>>
  PROVE  /\ Subject(r)' = Subject(r) /\ BucketOf(r)' = BucketOf(r)
         /\ \A s : Open(s)' <=> Open(s)
  BY TablesKept DEF Subject, BucketOf, OperationOf, Open

LEMMA ArriveInv == ASSUME IInv, NEW r \in Requests, Arrive(r) PROVE IInv'
  <1> DEFINE m == request[r]
  <1>1. /\ phase[r] = "new" /\ Presentable(m) /\ now' = [now EXCEPT ![r] = clock]
        /\ UNCHANGED <<clock, tables, mailed, given, account, bucket, chosen, history>>
    BY DEF Arrive
  <1>2. TypeOK /\ Exclusive /\ Sent(r) /\ Holds(r) /\ Rooted
    BY DEF IInv, Own
  <1>3. request' = request /\ UNCHANGED <<account, bucket, chosen>>
    BY <1>1 DEF given
  <1>4. /\ now' \in [Requests -> 0..bounds.horizon]
        /\ account' \in [Requests -> Account \cup {None}]
        /\ bucket' \in [Requests -> Bucket \cup {None}]
        /\ chosen' \in [Requests -> Organizations \cup Requests \cup {None}]
    BY <1>1, <1>2, <1>3 DEF TypeOK
  <1>5. (m.cookie # None => sessions[m.cookie] # None) /\ (m.link # None => tokens[m.link] # None)
    BY <1>1, <1>2 DEF Presentable, Rooted
  <1>6. m.kind \in Kind
    BY <1>2 DEF TypeOK, Request
  <1>7. ASSUME NEW p \in {"bucket", "user", "find", "revoke"}, Goto(r, p),
               p = "bucket" => m.kind \in {"register", "login", "forgot", "resend"},
               p = "user" => m.kind \in {"verify", "reset"} /\ m.link # None
                             /\ tokens[m.link].purpose = PurposeOf(m.kind),
               p = "find" => m.kind \in {"me", "select"} /\ m.cookie # None,
               p = "revoke" => m.kind = "logout" /\ m.cookie # None
        PROVE  IInv'
    <2>1. Moves(r, p, locks[r])
      BY <1>2, <1>7, GotoMoves DEF Phase
    <2>2. phase'[r] = p /\ locks'[r] = locks[r]
      BY <2>1 DEF Moves
    <2>3. Sent(r)'
      BY <1>1, <1>2, <1>3, <1>5, <1>7, <2>2, TablesKept DEF Sent
    <2>4. Holds(r)'
      BY <1>1, <1>2, <1>3, <1>7, <2>2, TablesKept DEF Holds, UserPhase
    <2> QED BY <1>1, <1>3, <1>4, <2>1, <2>3, <2>4, ReadInv
  <1>8. ASSUME NEW answer \in {"ok", "rejected"}, Finish(r, answer) PROVE IInv'
    <2>1. Moves(r, "done", {})
      BY <1>2, <1>8, FinishMoves
    <2>2. Sent(r)' /\ Holds(r)'
      BY <1>1, <1>3, <1>5, <2>1, TablesKept DEF Moves, Sent, Holds, UserPhase
    <2> QED BY <1>1, <1>3, <1>4, <2>1, <2>2, ReadInv
  <1> QED BY <1>6, <1>7, <1>8 DEF Arrive, Kind

LEMMA NameTypes ==
  ASSUME TypeOK, NEW r \in Requests, Sent(r)
  PROVE  /\ request[r] \in Request /\ request[r].kind \in Kind /\ request[r].email \in Emails
         /\ request[r].password \in Passwords
         /\ request[r].cookie \in SessionIds \cup {None} /\ request[r].link \in Requests \cup {None}
         /\ BucketOf(r) \in Buckets
         /\ phase[r] \notin {"new", "done"} => Subject(r) \in Emails
  <1>1. /\ request[r] \in Request /\ request[r].kind \in Kind /\ request[r].email \in Emails
        /\ request[r].password \in Passwords
        /\ request[r].cookie \in SessionIds \cup {None} /\ request[r].link \in Requests \cup {None}
    BY DEF TypeOK, Request
  <1>2. BucketOf(r) \in Buckets
    BY <1>1 DEF BucketOf, OperationOf, PurposeOf, Buckets, Operation, Purpose
  <1>3. ASSUME phase[r] \notin {"new", "done"} PROVE Subject(r) \in Emails
    <2>1. CASE request[r].kind \in {"register", "login", "forgot", "resend"}
      BY <1>1, <2>1 DEF Subject
    <2>2. CASE request[r].kind \in {"verify", "reset"}
      <3>1. request[r].link \in Requests /\ tokens[request[r].link] \in Token
        BY <1>1, <1>3, <2>2 DEF Sent, TypeOK
      <3> QED BY <2>2, <3>1 DEF Subject, Token
    <2>3. CASE request[r].kind \in {"me", "select", "logout"}
      <3>1. request[r].cookie \in SessionIds /\ sessions[request[r].cookie] \in Session
        BY <1>1, <1>3, <2>3 DEF Sent, TypeOK
      <3> QED BY <2>3, <3>1 DEF Subject, Session
    <2> QED BY <1>1, <2>1, <2>2, <2>3 DEF Kind
  <1> QED BY <1>1, <1>2, <1>3

LEMMA ReadBucketInv == ASSUME IInv, NEW r \in Requests, ReadBucket(r) PROVE IInv'
  <1> DEFINE rows == {<<"bucket", BucketOf(r)>>}
  <1>1. /\ phase[r] = "bucket" /\ Acquire(r, rows, "charge")
        /\ bucket' = [bucket EXCEPT ![r] = buckets[BucketOf(r)]]
        /\ UNCHANGED <<clock, tables, mailed, given, now, account, chosen, history>>
    BY DEF ReadBucket
  <1>2. TypeOK /\ Exclusive /\ Sent(r) /\ Holds(r)
    BY DEF IInv, Own
  <1>3. BucketOf(r) \in Buckets
    BY <1>2, NameTypes
  <1>4. Moves(r, "charge", locks[r] \cup rows)
    BY <1>1, <1>2, <1>3, AcquireMoves DEF Rows, Phase
  <1>5. request' = request /\ UNCHANGED <<now, account, chosen>>
    BY <1>1 DEF given
  <1>6. bucket' \in [Requests -> Bucket \cup {None}] /\ bucket'[r] = buckets[BucketOf(r)]
        /\ \A q \in Requests \ {r} : bucket'[q] = bucket[q]
    BY <1>1, <1>2, <1>3 DEF TypeOK
  <1>7. phase'[r] = "charge" /\ locks'[r] = locks[r] \cup rows
    BY <1>4 DEF Moves
  <1>8. Sent(r)'
    BY <1>1, <1>2, <1>5, <1>7, TablesKept DEF Sent
  <1>9. Holds(r)'
    BY <1>1, <1>2, <1>5, <1>6, <1>7, TablesKept, NamesKept DEF Holds, UserPhase
  <1>10. /\ now' \in [Requests -> 0..bounds.horizon]
         /\ account' \in [Requests -> Account \cup {None}]
         /\ chosen' \in [Requests -> Organizations \cup Requests \cup {None}]
    BY <1>2, <1>5 DEF TypeOK
  <1> QED BY <1>1, <1>4, <1>5, <1>6, <1>8, <1>9, <1>10, ReadInv

LEMMA LockUserInv == ASSUME IInv, NEW r \in Requests, LockUser(r) PROVE IInv'
  <1> DEFINE m == request[r]
             e == Subject(r)
             next == AfterUser(m.kind)
             rows == IF accounts[e] = None THEN {} ELSE {<<"user", e>>}
  <1>1. /\ phase[r] = "user" /\ Acquire(r, rows, next)
        /\ account' = [account EXCEPT ![r] = accounts[e]]
        /\ UNCHANGED <<clock, tables, mailed, given, now, bucket, chosen, history>>
    BY DEF LockUser
  <1>2. TypeOK /\ Exclusive /\ Sent(r) /\ Holds(r) /\ Rooted
    BY DEF IInv, Own
  <1>3. /\ e \in Emails /\ m.cookie \in SessionIds \cup {None} /\ m.link \in Requests \cup {None}
        /\ m.kind \in {"login", "forgot", "resend", "verify", "reset", "select"}
    BY <1>1, <1>2, NameTypes DEF Sent
  <1>4. /\ next \in {"check", "issue", "token", "session"}
        /\ next = "check" => m.kind = "login"
        /\ next = "issue" => m.kind \in {"forgot", "resend"}
        /\ next = "token" => m.kind \in {"verify", "reset"}
        /\ next = "session" => m.kind = "select"
    BY <1>3 DEF AfterUser
  <1>5. next \in {"token", "session"} => accounts[e] # None
    BY <1>1, <1>2, <1>3, <1>4 DEF Rooted, Sent, Subject
  <1> HIDE DEF next
  <1>6. Moves(r, next, locks[r] \cup rows)
    BY <1>1, <1>2, <1>3, <1>4, AcquireMoves DEF Rows, Phase
  <1>7. request' = request /\ UNCHANGED <<now, bucket, chosen>>
    BY <1>1 DEF given
  <1>8. account' \in [Requests -> Account \cup {None}] /\ account'[r] = accounts[e]
        /\ \A q \in Requests \ {r} : account'[q] = account[q]
    BY <1>1, <1>2, <1>3 DEF TypeOK
  <1>9. phase'[r] = next /\ locks'[r] = locks[r] \cup rows
    BY <1>6 DEF Moves
  <1>10. Sent(r)'
    BY <1>1, <1>2, <1>4, <1>7, <1>9, TablesKept DEF Sent
  <1>11. Holds(r)'
    BY <1>1, <1>2, <1>4, <1>5, <1>7, <1>8, <1>9, TablesKept, NamesKept DEF Holds, UserPhase
  <1>12. /\ now' \in [Requests -> 0..bounds.horizon]
         /\ bucket' \in [Requests -> Bucket \cup {None}]
         /\ chosen' \in [Requests -> Organizations \cup Requests \cup {None}]
    BY <1>2, <1>7 DEF TypeOK
  <1> QED BY <1>1, <1>6, <1>7, <1>8, <1>10, <1>11, <1>12, ReadInv

LEMMA LookForAccountInv == ASSUME IInv, NEW r \in Requests, LookForAccount(r) PROVE IInv'
  <1>1. phase[r] = "exists" /\ UNCHANGED <<clock, tables, mailed, given, locals, history>>
    BY DEF LookForAccount
  <1>2. TypeOK /\ Exclusive /\ Sent(r) /\ Holds(r)
    BY DEF IInv, Own
  <1>3. CASE Finish(r, "ok")
    BY <1>1, <1>3, FinishInv
  <1>4. CASE Goto(r, "insert")
    <2>1. Moves(r, "insert", locks[r])
      BY <1>2, <1>4, GotoMoves DEF Phase
    <2>2. phase'[r] = "insert" /\ locks'[r] = locks[r] /\ request' = request
      BY <1>1, <2>1 DEF Moves, given
    <2>3. Sent(r)'
      BY <1>1, <1>2, <2>2, TablesKept DEF Sent
    <2>4. Holds(r)'
      BY <1>1, <1>2, <2>2, TablesKept, NamesKept DEF Holds, UserPhase
    <2> QED BY <1>1, <2>1, <2>3, <2>4, MoveInv
  <1> QED BY <1>3, <1>4 DEF LookForAccount

LEMMA InsertUserInv == ASSUME IInv, NEW r \in Requests, InsertUser(r) PROVE IInv'
  <1> DEFINE e == Subject(r)
             rows == {<<"address", e>>}
  <1>1. phase[r] = "insert" /\ UNCHANGED <<clock, tables, mailed, given, locals, history>>
    BY DEF InsertUser
  <1>2. TypeOK /\ Exclusive /\ Sent(r) /\ Holds(r)
    BY DEF IInv, Own
  <1>3. CASE Finish(r, "ok")
    BY <1>1, <1>3, FinishInv
  <1>4. CASE accounts[e] = None /\ Acquire(r, rows, "create")
    <2>1. e \in Emails
      BY <1>1, <1>2, NameTypes
    <2>2. Moves(r, "create", locks[r] \cup rows)
      BY <1>2, <1>4, <2>1, AcquireMoves DEF Phase, Rows
    <2>3. phase'[r] = "create" /\ locks'[r] = locks[r] \cup rows /\ request' = request
      BY <1>1, <2>2 DEF Moves, given
    <2>4. Sent(r)'
      BY <1>1, <1>2, <2>3, TablesKept DEF Sent
    <2>5. Holds(r)'
      BY <1>1, <1>2, <1>4, <2>3, TablesKept, NamesKept DEF Holds, UserPhase, Sent
    <2> QED BY <1>1, <2>2, <2>4, <2>5, MoveInv
  <1> QED BY <1>3, <1>4 DEF InsertUser

LEMMA CheckPasswordInv == ASSUME IInv, NEW r \in Requests, CheckPassword(r) PROVE IInv'
  <1>1. phase[r] = "check" /\ UNCHANGED <<clock, tables, mailed, given, now, account, bucket, history>>
    BY DEF CheckPassword
  <1>2. TypeOK /\ Exclusive /\ Sent(r) /\ Holds(r)
    BY DEF IInv, Own
  <1>3. CASE Finish(r, "rejected") /\ UNCHANGED chosen
    <2>1. UNCHANGED locals
      BY <1>1, <1>3 DEF locals
    <2> QED BY <1>1, <1>3, <2>1, FinishInv
  <1>4. CASE /\ MayEnter(account[r]) /\ account[r].password = request[r].password
             /\ Goto(r, "replace")
             /\ \E org \in seats[Subject(r)] \cup {None} : chosen' = [chosen EXCEPT ![r] = org]
    <2>1. Moves(r, "replace", locks[r])
      BY <1>2, <1>4, GotoMoves DEF Phase
    <2>2. phase'[r] = "replace" /\ locks'[r] = locks[r] /\ request' = request
      BY <1>1, <2>1 DEF Moves, given
    <2>3. chosen' \in [Requests -> Organizations \cup Requests \cup {None}]
      <3>1. Subject(r) \in Emails
        BY <1>1, <1>2, NameTypes
      <3> QED BY <1>2, <1>4, <3>1 DEF TypeOK
    <2>4. Sent(r)'
      BY <1>1, <1>2, <2>2, TablesKept DEF Sent
    <2>5. account[r] # None
      BY <1>4 DEF MayEnter
    <2>6. Holds(r)'
      BY <1>1, <1>2, <1>4, <2>2, <2>5, TablesKept, NamesKept DEF Holds, UserPhase, Sent
    <2>7. /\ now' \in [Requests -> 0..bounds.horizon] /\ UNCHANGED <<account, bucket>>
          /\ account' \in [Requests -> Account \cup {None}]
          /\ bucket' \in [Requests -> Bucket \cup {None}]
      BY <1>1, <1>2 DEF TypeOK
    <2> QED BY <1>1, <2>1, <2>3, <2>4, <2>6, <2>7, ReadInv
  <1> QED BY <1>3, <1>4 DEF CheckPassword

LEMMA ReplaceSessionInv == ASSUME IInv, NEW r \in Requests, ReplaceSession(r) PROVE IInv'
  <1> DEFINE c == request[r].cookie
             rows == IF c = None \/ sessions[c].revoked THEN {} ELSE {<<"session", c>>}
  <1>1. /\ phase[r] = "replace" /\ Acquire(r, rows, "clear")
        /\ UNCHANGED <<clock, tables, mailed, given, locals, history>>
    BY DEF ReplaceSession
  <1>2. TypeOK /\ Exclusive /\ Sent(r) /\ Holds(r)
    BY DEF IInv, Own
  <1>3. c \in SessionIds \cup {None} /\ (c # None => sessions[c] # None)
    BY <1>1, <1>2, NameTypes DEF Sent
  <1>4. Moves(r, "clear", locks[r] \cup rows)
    BY <1>1, <1>2, <1>3, AcquireMoves DEF Phase, Rows
  <1>5. phase'[r] = "clear" /\ locks'[r] = locks[r] \cup rows /\ request' = request /\ account' = account
    BY <1>1, <1>4 DEF Moves, given, locals
  <1>6. Sent(r)'
    BY <1>1, <1>2, <1>5, TablesKept DEF Sent
  <1>7. Holds(r)'
    BY <1>1, <1>2, <1>3, <1>5, TablesKept, NamesKept DEF Holds, UserPhase, Sent
  <1> QED BY <1>1, <1>4, <1>6, <1>7, MoveInv

LEMMA ClearLoginInv == ASSUME IInv, NEW r \in Requests, ClearLogin(r) PROVE IInv'
  <1> DEFINE rows == {<<"bucket", BucketOf(r)>>}
  <1>1. /\ phase[r] = "clear" /\ Acquire(r, rows, "commit")
        /\ UNCHANGED <<clock, tables, mailed, given, locals, history>>
    BY DEF ClearLogin
  <1>2. TypeOK /\ Exclusive /\ Sent(r) /\ Holds(r)
    BY DEF IInv, Own
  <1>3. BucketOf(r) \in Buckets
    BY <1>2, NameTypes
  <1>4. Moves(r, "commit", locks[r] \cup rows)
    BY <1>1, <1>2, <1>3, AcquireMoves DEF Phase, Rows
  <1>5. phase'[r] = "commit" /\ locks'[r] = locks[r] \cup rows /\ request' = request /\ account' = account
    BY <1>1, <1>4 DEF Moves, given, locals
  <1>6. Sent(r)'
    BY <1>1, <1>2, <1>5, TablesKept DEF Sent
  <1>7. Holds(r)'
    BY <1>1, <1>2, <1>5, TablesKept, NamesKept DEF Holds, UserPhase, Sent
  <1> QED BY <1>1, <1>4, <1>6, <1>7, MoveInv

LEMMA LockLinkInv == ASSUME IInv, NEW r \in Requests, LockLink(r) PROVE IInv'
  <1> DEFINE t == request[r].link
             rows == {<<"token", t>>}
             next == IF request[r].kind = "reset" THEN "sessions" ELSE "commit"
  <1>1. phase[r] = "token" /\ UNCHANGED <<clock, tables, mailed, given, locals, history>>
    BY DEF LockLink
  <1>2. TypeOK /\ Exclusive /\ Sent(r) /\ Holds(r)
    BY DEF IInv, Own
  <1>3. CASE Finish(r, "rejected")
    BY <1>1, <1>3, FinishInv
  <1>4. CASE LinkWorks(r) /\ Acquire(r, rows, next)
    <2>1. t \in Requests /\ request[r].kind \in {"verify", "reset"} /\ ~tokens[t].consumed
      BY <1>1, <1>2, <1>4, NameTypes DEF Sent, LinkWorks
    <2>2. next \in {"sessions", "commit"} /\ (next = "sessions" <=> request[r].kind = "reset")
      OBVIOUS
    <2> HIDE DEF next
    <2>3. Moves(r, next, locks[r] \cup rows)
      BY <1>2, <1>4, <2>1, <2>2, AcquireMoves DEF Phase, Rows
    <2>4. /\ phase'[r] = next /\ locks'[r] = locks[r] \cup rows
          /\ request' = request /\ account' = account
      BY <1>1, <2>3 DEF Moves, given, locals
    <2>5. Sent(r)'
      BY <1>1, <1>2, <2>1, <2>2, <2>4, TablesKept DEF Sent
    <2>6. Holds(r)'
      BY <1>1, <1>2, <2>1, <2>2, <2>4, TablesKept, NamesKept DEF Holds, UserPhase
    <2> QED BY <1>1, <2>3, <2>5, <2>6, MoveInv
  <1> QED BY <1>3, <1>4 DEF LockLink

LEMMA RevokeSessionsInv == ASSUME IInv, NEW r \in Requests, RevokeSessions(r) PROVE IInv'
  <1> DEFINE mine == {s \in SessionIds : /\ sessions[s] # None
                                         /\ sessions[s].email = Subject(r) /\ ~sessions[s].revoked}
             rows == {<<"session", s>> : s \in mine}
  <1>1. /\ phase[r] = "sessions" /\ Acquire(r, rows, "commit")
        /\ UNCHANGED <<clock, tables, mailed, given, locals, history>>
    BY DEF RevokeSessions
  <1>2. TypeOK /\ Exclusive /\ Sent(r) /\ Holds(r)
    BY DEF IInv, Own
  <1>3. Moves(r, "commit", locks[r] \cup rows)
    BY <1>1, <1>2, AcquireMoves DEF Phase, Rows
  <1>4. /\ phase'[r] = "commit" /\ locks'[r] = locks[r] \cup rows
        /\ request' = request /\ account' = account
    BY <1>1, <1>3 DEF Moves, given, locals
  <1>5. Sent(r)'
    BY <1>1, <1>2, <1>4, TablesKept DEF Sent
  <1>6. /\ \A s \in SessionIds : Open(s) /\ sessions[s].email = Subject(r) => <<"session", s>> \in rows
        /\ \A s \in SessionIds : <<"session", s>> \in rows => sessions[s] # None
        /\ request[r].kind = "reset"
    BY <1>1, <1>2 DEF Open, Sent
  <1> HIDE DEF rows
  <1>7. Holds(r)'
    BY <1>1, <1>2, <1>4, <1>6, TablesKept, NamesKept DEF Holds, UserPhase
  <1> QED BY <1>1, <1>3, <1>5, <1>7, MoveInv

LEMMA FindSessionInv == ASSUME IInv, NEW r \in Requests, FindSession(r) PROVE IInv'
  <1>1. phase[r] = "find" /\ UNCHANGED <<clock, tables, mailed, given, locals, history>>
    BY DEF FindSession
  <1>2. TypeOK /\ Exclusive /\ Sent(r) /\ Holds(r)
    BY DEF IInv, Own
  <1>3. CASE Finish(r, "rejected")
    BY <1>1, <1>3, FinishInv
  <1>4. CASE Goto(r, "touch")
    <2>1. Moves(r, "touch", locks[r])
      BY <1>2, <1>4, GotoMoves DEF Phase
    <2>2. phase'[r] = "touch" /\ locks'[r] = locks[r] /\ request' = request
      BY <1>1, <2>1 DEF Moves, given
    <2>3. Sent(r)'
      BY <1>1, <1>2, <2>2, TablesKept DEF Sent
    <2>4. Holds(r)'
      BY <1>1, <1>2, <2>2, TablesKept, NamesKept DEF Holds, UserPhase, Sent
    <2> QED BY <1>1, <2>1, <2>3, <2>4, MoveInv
  <1> QED BY <1>3, <1>4 DEF FindSession

LEMMA LockSessionInv == ASSUME IInv, NEW r \in Requests, LockSession(r) PROVE IInv'
  <1> DEFINE c == request[r].cookie
             rows == {<<"session", c>>}
  <1>1. phase[r] = "session" /\ UNCHANGED <<clock, tables, mailed, given, locals, history>>
    BY DEF LockSession
  <1>2. TypeOK /\ Exclusive /\ Sent(r) /\ Holds(r)
    BY DEF IInv, Own
  <1>3. CASE Finish(r, "rejected")
    BY <1>1, <1>3, FinishInv
  <1>4. CASE StillOpen(r) /\ Acquire(r, rows, "commit")
    <2>1. c \in SessionIds /\ request[r].kind = "select" /\ Open(c)
      BY <1>1, <1>2, <1>4, NameTypes DEF Sent, StillOpen, Live, Open
    <2>2. Moves(r, "commit", locks[r] \cup rows)
      BY <1>2, <1>4, <2>1, AcquireMoves DEF Phase, Rows
    <2>3. /\ phase'[r] = "commit" /\ locks'[r] = locks[r] \cup rows
          /\ request' = request /\ account' = account
      BY <1>1, <2>2 DEF Moves, given, locals
    <2>4. Sent(r)'
      BY <1>1, <1>2, <2>1, <2>3, TablesKept DEF Sent
    <2>5. Holds(r)'
      BY <1>1, <1>2, <2>1, <2>3, TablesKept, NamesKept DEF Holds, UserPhase, Open
    <2> QED BY <1>1, <2>2, <2>4, <2>5, MoveInv
  <1> QED BY <1>3, <1>4 DEF LockSession

LEMMA RollbackInv == ASSUME IInv, NEW r \in Requests, Rollback(r) PROVE IInv'
  BY FinishInv DEF Rollback

(* A mail that arrives carries a link that exists.                         *)
LEMMA DeliverInv == ASSUME IInv, NEW r \in Requests, Deliver(r) PROVE IInv'
  <1>1. /\ phase[r] = "mail" /\ mailed' \in {mailed, mailed \cup {r}} /\ Finish(r, "ok")
        /\ UNCHANGED <<clock, tables, given, locals, history>>
    BY DEF Deliver
  <1>2. TypeOK /\ Exclusive /\ Sent(r)
    BY DEF IInv, Own
  <1>3. Moves(r, "done", {})
    BY <1>1, <1>2, FinishMoves
  <1>4. /\ UNCHANGED <<accounts, seats, sessions, tokens, buckets, origin, issued, uses, admitted>>
        /\ UNCHANGED <<clock, bounds, request, now, account, bucket, chosen>>
    BY <1>1 DEF tables, history, given, locals
  <1>5. TypeOK'
    BY <1>1, <1>2, <1>3, <1>4 DEF TypeOK, Moves
  <1>6. Own'
    <2>1. Sent(r)' /\ Holds(r)'
      BY <1>1, <1>3, <1>4, DoneOwn
    <2>2. \A q \in Requests \ {r} : Sent(q)' /\ Holds(q)'
      BY <1>1, <1>3, <1>4, OwnKept DEF IInv, Own, Moves
    <2> QED BY <2>1, <2>2 DEF Own
  <1>7. Rooted'
    BY <1>1, <1>2, <1>4 DEF IInv, Rooted, Sent
  <1>8. Counted' /\ Linked' /\ OpenSessionsKnowThePassword' /\ OneOpenSessionPerSignIn'
    BY <1>4 DEF IInv, Counted, Linked, OpenSessionsKnowThePassword, OneOpenSessionPerSignIn
  <1> QED BY <1>3, <1>5, <1>6, <1>7, <1>8 DEF IInv, Moves

(* Time passes, and governance seats people: nobody relies on either.      *)
LEMMA WorldInv == ASSUME IInv, Tick \/ \E e \in Emails : Govern(e) PROVE IInv'
  <1>1. UNCHANGED <<accounts, sessions, tokens, buckets, mailed, bounds, request, phase, now, account,
                    bucket, chosen, locks, reply, origin, issued, uses, admitted>>
    BY DEF Tick, Govern, tables, history, given, locals
  <1>2. TypeOK
    BY DEF IInv
  <1>3. clock' \in 0..bounds.horizon
    <2>1. bounds.horizon \in Nat /\ clock \in 0..bounds.horizon
      BY <1>2 DEF TypeOK
    <2> QED BY <2>1 DEF Tick, Govern
  <1>4. seats' \in [Emails -> SUBSET (Organizations \cup Requests)]
    <2>1. \A e \in Emails : bounds.rosters[e] \subseteq SUBSET Organizations
      BY <1>2 DEF TypeOK
    <2>2. CASE Tick
      BY <1>2, <2>2 DEF TypeOK, Tick, tables
    <2>3. ASSUME NEW e \in Emails, Govern(e) PROVE seats' \in [Emails -> SUBSET (Organizations \cup Requests)]
      <3>1. PICK orgs \in bounds.rosters[e] : seats' = [seats EXCEPT ![e] = orgs]
        BY <2>3 DEF Govern
      <3>2. orgs \in SUBSET (Organizations \cup Requests)
        BY <2>1
      <3> QED BY <1>2, <3>1, <3>2 DEF TypeOK
    <2> QED BY <2>2, <2>3
  <1>5. TypeOK'
    BY <1>1, <1>2, <1>3, <1>4 DEF TypeOK
  <1>6. Own'
    <2>1. \A q \in Requests : Sent(q)' <=> Sent(q)
      BY <1>1 DEF Sent
    <2>2. \A q \in Requests : Holds(q)' <=> Holds(q)
      <3>1. \A q \in Requests : Subject(q)' = Subject(q) /\ BucketOf(q)' = BucketOf(q)
        BY <1>1 DEF Subject, BucketOf, OperationOf
      <3> QED BY <1>1, <3>1 DEF Holds, Open
    <2> QED BY <2>1, <2>2 DEF IInv, Own
  <1> QED BY <1>1, <1>5, <1>6 DEF IInv, Exclusive, Rooted, Counted, Linked,
                                  OpenSessionsKnowThePassword, OneOpenSessionPerSignIn

-----------------------------------------------------------------------------
(* Statements that write: what they leave alone, and the locks they hold.  *)

(* Rows stay, sessions and links are never reopened.                       *)
Grows ==
    /\ \A s \in SessionIds : sessions[s] # None =>
        /\ sessions'[s] # None /\ sessions'[s].email = sessions[s].email
        /\ sessions[s].revoked => sessions'[s].revoked
    /\ \A t \in Requests : tokens[t] # None =>
        /\ tokens'[t] # None
        /\ tokens'[t].email = tokens[t].email /\ tokens'[t].purpose = tokens[t].purpose
        /\ tokens[t].consumed => tokens'[t].consumed
    /\ \A e \in Emails : accounts[e] # None => accounts'[e] # None
    /\ \A b \in Buckets : buckets[b] # None => buckets'[b] # None

(* A password is written, a session opened and a link settled under the    *)
(* lock of the account, a bucket under its own; a session is revoked while *)
(* nobody else has it.                                                     *)
Writes(r) ==
    /\ \A e \in Emails : accounts'[e] # accounts[e] =>
        \/ <<"user", e>> \in locks[r] /\ accounts[e] # None
        \/ <<"address", e>> \in locks[r] /\ accounts[e] = None
    /\ \A s \in SessionIds : Open(s)' /\ ~Open(s) => <<"user", sessions'[s].email>> \in locks[r]
    /\ \A t \in Requests : tokens[t] # None /\ tokens'[t].consumed /\ ~tokens[t].consumed =>
        <<"user", tokens[t].email>> \in locks[r]
    /\ \A b \in Buckets : buckets'[b] # buckets[b] => <<"bucket", b>> \in locks[r]
    /\ \A s \in SessionIds : Open(s) /\ ~Open(s)' => Free(<<"session", s>>, r)
    /\ \A q \in Requests \ {r} : /\ sessions[q] = None => sessions'[q] = None
                                 /\ tokens[q] = None => tokens'[q] = None

LEMMA SubjectKept ==
  ASSUME IInv, NEW q \in Requests, Grows, request' = request, phase[q] \notin {"new", "done"}
  PROVE  Subject(q)' = Subject(q) /\ BucketOf(q)' = BucketOf(q)
  <1>1. Sent(q) /\ TypeOK
    BY DEF IInv, Own
  <1>2. /\ request[q].cookie \in SessionIds \cup {None} /\ request[q].link \in Requests \cup {None}
        /\ request[q].kind \in Kind
    BY <1>1, NameTypes
  <1> QED BY <1>1, <1>2 DEF Sent, Grows, Subject, BucketOf, OperationOf, Kind

LEMMA OthersOwn ==
  ASSUME IInv, NEW r \in Requests, NEW q \in Requests \ {r}, Grows, Writes(r), request' = request,
         phase'[q] = phase[q], locks'[q] = locks[q], account'[q] = account[q], bucket'[q] = bucket[q]
  PROVE  Sent(q)' /\ Holds(q)'
  <1> DEFINE m == request[q]
             e == Subject(q)
             b == BucketOf(q)
  <1>1. Sent(q) /\ Holds(q) /\ TypeOK
    BY DEF IInv, Own
  <1>2. /\ m.cookie \in SessionIds \cup {None} /\ m.link \in Requests \cup {None} /\ b \in Buckets
        /\ phase[q] \notin {"new", "done"} => e \in Emails
    BY <1>1, NameTypes
  <1>3. \A x \in locks[q] : x \notin locks[r] /\ ~Free(x, r)
    BY DEF IInv, Exclusive, Free
  <1>4. Sent(q)'
    <2>1. q \in SessionIds
      BY DEF SessionIds
    <2> QED BY <1>1, <1>2, <2>1 DEF Sent, Grows, Writes
  <1>5. phase[q] \notin {"new", "done"} => Subject(q)' = e /\ BucketOf(q)' = b
    BY SubjectKept
  <1> HIDE DEF e, b
  <1>6. ASSUME phase[q] \in UserPhase, account[q] # None
        PROVE  /\ <<"user", e>> \in locks'[q] /\ account'[q] = accounts'[e]
               /\ \A s \in SessionIds : Open(s)' /\ sessions'[s].email = e => Open(s)
               /\ \A t \in Requests : tokens[t] # None /\ tokens[t].email = e =>
                    (tokens'[t].consumed => tokens[t].consumed)
    <2>1. <<"user", e>> \in locks[q] /\ account[q] = accounts[e] /\ e \in Emails
      BY <1>1, <1>2, <1>6 DEF Holds, e, UserPhase
    <2> QED BY <1>3, <1>6, <2>1 DEF Writes
  <1>7. phase[q] = "create" => accounts'[e] = None
    BY <1>1, <1>2, <1>3 DEF Holds, e, Writes
  <1>8. phase[q] = "charge" => buckets'[b] = bucket[q]
    BY <1>1, <1>2, <1>3 DEF Holds, b, Writes
  <1>9. \A s \in SessionIds : <<"session", s>> \in locks[q] =>
            sessions'[s] # None /\ (Open(s) => Open(s)')
    BY <1>1, <1>3 DEF Holds, Writes, Grows
  <1>10. phase[q] \in UserPhase \ {"check", "issue"} => account[q] # None
    BY <1>1 DEF Holds
  <1>11. /\ m.kind = "login" /\ phase[q] \in {"replace", "clear", "commit"} =>
                account[q].password = m.password
         /\ phase[q] = "charge" => <<"bucket", b>> \in locks[q]
         /\ m.kind = "login" /\ phase[q] = "commit" => <<"bucket", b>> \in locks[q]
         /\ m.kind = "login" /\ phase[q] \in {"user", "check", "replace", "clear", "commit"} =>
                buckets'[b] # None
         /\ phase[q] = "create" => <<"address", e>> \in locks[q]
    BY <1>1, <1>2 DEF Holds, Grows, e, b
  <1>12. m.kind \in {"verify", "reset"} /\ phase[q] \in {"sessions", "commit"} =>
            ~tokens'[m.link].consumed
    <2>1. m.kind \in {"verify", "reset"} => e = tokens[m.link].email
      BY DEF e, Subject
    <2> QED BY <1>1, <1>2, <1>6, <1>10, <2>1 DEF Holds, Sent, UserPhase
  <1>13. m.kind = "reset" /\ phase[q] = "commit" =>
            \A s \in SessionIds : Open(s)' /\ sessions'[s].email = e => <<"session", s>> \in locks[q]
    <2> SUFFICES ASSUME m.kind = "reset", phase[q] = "commit", NEW s \in SessionIds, Open(s)',
                        sessions'[s].email = e
                 PROVE  <<"session", s>> \in locks[q]
      OBVIOUS
    <2>1. Open(s)
      BY <1>6, <1>10 DEF UserPhase
    <2>2. sessions[s].email = e
      BY <2>1 DEF Open, Grows
    <2> QED BY <1>1, <2>1, <2>2 DEF Holds, e
  <1>14. m.kind = "select" /\ phase[q] = "commit" =>
            <<"session", m.cookie>> \in locks[q] /\ Open(m.cookie)'
    <2>1. m.kind = "select" /\ phase[q] = "commit" => m.cookie \in SessionIds
      BY <1>1, <1>2 DEF Sent
    <2> QED BY <1>1, <1>9, <2>1 DEF Holds
  <1>15. Holds(q)'
    BY <1>5, <1>6, <1>7, <1>8, <1>9, <1>10, <1>11, <1>12, <1>13, <1>14 DEF Holds, UserPhase
  <1> QED BY <1>4, <1>15

LEMMA WriteInv ==
  ASSUME IInv, NEW r \in Requests, NEW p, Moves(r, p, {}), Grows, Writes(r), request' = request,
         UNCHANGED <<account, bucket>>, TypeOK', Sent(r)', Holds(r)', Rooted', Counted', Linked',
         OpenSessionsKnowThePassword', OneOpenSessionPerSignIn'
  PROVE  IInv'
  <1>1. \A q \in Requests \ {r} : Sent(q)' /\ Holds(q)'
    BY OthersOwn DEF Moves
  <1>2. Own' /\ Exclusive'
    BY <1>1 DEF Own, Moves
  <1> QED BY <1>2 DEF IInv

LEMMA EndOwn ==
  ASSUME IInv, NEW r \in Requests, phase[r] # "new", request' = request, Grows, Moves(r, "done", {})
  PROVE  Sent(r)' /\ Holds(r)'
  <1>1. Sent(r) /\ phase'[r] = "done" /\ locks'[r] = {}
        /\ request[r].cookie \in SessionIds \cup {None} /\ request[r].link \in Requests \cup {None}
    BY NameTypes DEF IInv, Own, Moves
  <1> QED BY <1>1 DEF Sent, Holds, UserPhase, Grows

(* Throttle.allow                                                          *)
LEMMA ChargeInv == ASSUME IInv, NEW r \in Requests, Charge(r) PROVE IInv'
  <1> DEFINE b == BucketOf(r)
             old == bucket[r]
             fresh == old = None \/ old.started + Window(b) <= now[r]
             row == IF fresh THEN [attempts |-> 0, started |-> now[r]] ELSE old
             next == IF request[r].kind = "register" THEN "exists" ELSE "user"
             new == [row EXCEPT !.attempts = @ + 1]
  <1>1. /\ phase[r] = "charge"
        /\ UNCHANGED <<clock, accounts, seats, sessions, tokens, mailed, given, locals, origin,
                       issued, uses>>
    BY DEF Charge
  <1>2. TypeOK /\ Exclusive /\ Sent(r) /\ Holds(r) /\ Counted
    BY DEF IInv, Own
  <1>3. CASE UNCHANGED <<buckets, admitted>> /\ \E answer \in {"ok", "rejected"} : Finish(r, answer)
    <2>1. UNCHANGED <<tables, history>>
      BY <1>1, <1>3 DEF tables, history
    <2> QED BY <1>1, <1>3, <2>1, FinishInv
  <1>4. CASE /\ row.attempts < Limit(b)
             /\ End(r, next, "none")
             /\ buckets' = [buckets EXCEPT ![b] = new]
             /\ admitted' = [admitted EXCEPT ![b] = IF fresh THEN 1 ELSE @ + 1]
    <2>1. /\ b \in Buckets /\ old = buckets[b] /\ <<"bucket", b>> \in locks[r]
          /\ request[r].kind \in {"register", "login", "forgot", "resend"}
      BY <1>1, <1>2, NameTypes DEF Sent, Holds
    <2>2. /\ now[r] \in Nat /\ old \in Bucket \cup {None} /\ None \notin Bucket
          /\ Limit(b) \in Nat /\ admitted[b] \in Nat /\ UNCHANGED <<now, account, bucket, chosen>>
      BY <1>1, <1>2, <2>1, SeedAssumption, TimeAssumption DEF TypeOK, Limit, locals
    <2>3. row \in [attempts : Nat, started : Nat] /\ row.attempts \in Nat
          /\ (fresh => row.attempts = 0) /\ (~fresh => old # None /\ row = old)
      BY <2>2 DEF Bucket
    <2>4. new = [attempts |-> row.attempts + 1, started |-> row.started]
      BY <2>3
    <2>5. new \in Bucket /\ new # None /\ new.attempts = row.attempts + 1
      BY <2>2, <2>3, <2>4 DEF Bucket
    <2> HIDE DEF new, row, fresh
    <2>6. /\ buckets'[b] = new /\ \A c \in Buckets : c # b => buckets'[c] = buckets[c]
          /\ admitted'[b] = IF fresh THEN 1 ELSE admitted[b] + 1
          /\ \A c \in Buckets : c # b => admitted'[c] = admitted[c]
          /\ buckets' \in [Buckets -> Bucket \cup {None}] /\ admitted' \in [Buckets -> Nat]
      BY <1>2, <1>4, <2>1, <2>2, <2>5 DEF TypeOK
    <2>7. Counted'
      <3>1. row.attempts + 1 <= Limit(b)
        BY <1>4, <2>2, <2>3
      <3>2. admitted'[b] <= row.attempts + 1
        BY <1>2, <2>1, <2>2, <2>3, <2>6 DEF Counted
      <3>3. buckets'[b] # None /\ admitted'[b] <= buckets'[b].attempts /\ buckets'[b].attempts <= Limit(b)
        BY <2>5, <2>6, <3>1, <3>2
      <3> QED BY <1>2, <2>6, <3>3 DEF Counted
    <2>8. next \in {"exists", "user"} /\ (next = "exists" <=> request[r].kind = "register")
      OBVIOUS
    <2> HIDE DEF next
    <2>9. Moves(r, next, {})
      BY <1>2, <1>4, <2>8, EndMoves DEF Phase
    <2>10. phase'[r] = next /\ locks'[r] = {} /\ request' = request /\ bounds' = bounds
      BY <1>1, <2>9 DEF Moves, given
    <2>11. TypeOK'
      BY <1>1, <1>2, <2>2, <2>6, <2>9, <2>10 DEF TypeOK, Moves
    <2>12. Grows
      BY <1>1, <2>5, <2>6 DEF Grows
    <2>13. Writes(r)
      BY <1>1, <2>1, <2>6 DEF Writes, Open
    <2>14. Sent(r)'
      BY <1>1, <1>2, <2>1, <2>8, <2>10 DEF Sent
    <2>15. BucketOf(r)' = b
      BY <2>10 DEF BucketOf, OperationOf
    <2>16. Holds(r)'
      BY <1>1, <2>5, <2>6, <2>8, <2>10, <2>15 DEF Holds, UserPhase
    <2>17. Rooted' /\ Linked' /\ OpenSessionsKnowThePassword' /\ OneOpenSessionPerSignIn'
      BY <1>1 DEF IInv, Rooted, Linked, OpenSessionsKnowThePassword, OneOpenSessionPerSignIn
    <2> QED BY <2>2, <2>7, <2>9, <2>10, <2>11, <2>12, <2>13, <2>14, <2>16, <2>17, WriteInv
  <1>5. row.attempts < Limit(b) \/ row.attempts >= Limit(b)
    <2>1. Limit(b) \in Nat /\ row.attempts \in Nat
      BY <1>1, <1>2, NameTypes, TimeAssumption DEF TypeOK, Limit, Bucket
    <2> QED BY <2>1
  <1> QED BY <1>3, <1>4, <1>5 DEF Charge

(* A new link replaces those of its account and purpose.                   *)
LEMMA IssueLinkFacts ==
  ASSUME IInv, NEW r \in Requests, NEW e \in Emails, NEW purpose \in Purpose, NEW lifetime \in Nat,
         tokens[r] = None, IssueLink(r, e, purpose, lifetime), uses' = uses
  PROVE  /\ tokens' \in [Requests -> Token \cup {None}] /\ issued' \in Seq(Requests)
         /\ Linked'
         /\ tokens'[r] # None /\ tokens'[r].email = e
         /\ \A t \in Requests : tokens[t] # None =>
                /\ tokens'[t] # None
                /\ tokens'[t].email = tokens[t].email /\ tokens'[t].purpose = tokens[t].purpose
                /\ tokens[t].consumed => tokens'[t].consumed
                /\ tokens'[t].consumed /\ ~tokens[t].consumed => tokens[t].email = e
         /\ \A t \in Requests \ {r} : tokens[t] = None => tokens'[t] = None
  <1> DEFINE new == [email |-> e, purpose |-> purpose, expires |-> now[r] + lifetime, consumed |-> FALSE]
             spent(t) == [tokens[t] EXCEPT !.consumed = TRUE]
             old == Siblings(e, purpose)
  <1>1. TypeOK /\ Linked
    BY DEF IInv
  <1>2. new \in Token /\ new # None /\ new.email = e /\ new.purpose = purpose
    <2>1. now[r] + lifetime \in Nat
      <3>1. now[r] \in 0..bounds.horizon /\ bounds.horizon \in Nat
        BY <1>1 DEF TypeOK
      <3> QED BY <3>1
    <2>2. new \in Token
      BY <2>1 DEF Token
    <2>3. new # None
      BY <2>2, NoneApart
    <2> QED BY <2>2, <2>3
  <1>3. ASSUME NEW t \in old
        PROVE  /\ t \in Requests /\ tokens[t] # None
               /\ tokens[t].email = e /\ tokens[t].purpose = purpose
               /\ spent(t) \in Token /\ spent(t) # None
               /\ spent(t).email = e /\ spent(t).purpose = purpose /\ spent(t).consumed
    <2>1. /\ t \in Requests /\ tokens[t] # None
          /\ tokens[t].email = e /\ tokens[t].purpose = purpose
      BY DEF Siblings
    <2>2. tokens[t] \in Token
      BY <1>1, <2>1 DEF TypeOK
    <2>3. /\ spent(t) \in Token /\ spent(t) # None
          /\ spent(t).email = e /\ spent(t).purpose = purpose /\ spent(t).consumed
      BY <2>1, <2>2, SpentRow
    <2> QED BY <2>1, <2>3
  <1>4. r \notin old
    BY <1>3
  <1>5. \A t \in Requests : tokens[t] # None /\ tokens[t].email = e /\ tokens[t].purpose = purpose
            => t \in old
    BY DEF Siblings
  <1>6. /\ tokens' = [t \in Requests |-> IF t = r THEN new ELSE IF t \in old THEN spent(t) ELSE tokens[t]]
        /\ issued' = Append(issued, r)
    BY DEF IssueLink
  <1> HIDE DEF new, old, spent
  <1>7. \A t \in Requests : /\ t = r => tokens'[t] = new
                            /\ t \in old => tokens'[t] = spent(t)
                            /\ t # r /\ t \notin old => tokens'[t] = tokens[t]
    BY <1>4, <1>6
  <1>8. tokens' \in [Requests -> Token \cup {None}] /\ issued' \in Seq(Requests)
    BY <1>1, <1>2, <1>3, <1>6 DEF TypeOK
  <1>9. \A t \in Requests : tokens[t] # None =>
            /\ tokens'[t] # None
            /\ tokens'[t].email = tokens[t].email /\ tokens'[t].purpose = tokens[t].purpose
            /\ tokens[t].consumed => tokens'[t].consumed
            /\ tokens'[t].consumed /\ ~tokens[t].consumed => tokens[t].email = e
    BY <1>3, <1>7
  <1>10. \A t \in Requests \ {r} : tokens[t] = None => tokens'[t] = None
    BY <1>3, <1>7
  <1>11. /\ \A n \in DOMAIN issued' : \/ (n \in DOMAIN issued /\ issued'[n] = issued[n])
                                      \/ (n = Len(issued) + 1 /\ issued'[n] = r)
         /\ \A n \in DOMAIN issued : n \in DOMAIN issued' /\ issued'[n] = issued[n]
                                     /\ issued[n] \in Requests /\ n < Len(issued) + 1
         /\ Len(issued) + 1 \in DOMAIN issued' /\ issued'[Len(issued) + 1] = r
    BY <1>1, <1>6 DEF TypeOK
  <1>12. \A n \in DOMAIN issued : issued[n] # r /\ tokens[issued[n]] # None
    BY <1>1, <1>11 DEF Linked
  <1>13. Linked'
    <2>1. \A t \in Requests : tokens'[t] # None <=> \E n \in DOMAIN issued' : issued'[n] = t
      <3>1. ASSUME NEW t \in Requests, t # r
            PROVE  tokens'[t] # None <=> \E n \in DOMAIN issued' : issued'[n] = t
        <4>1. tokens'[t] # None <=> tokens[t] # None
          BY <1>9, <1>10, <3>1
        <4>2. (\E n \in DOMAIN issued' : issued'[n] = t) <=> \E n \in DOMAIN issued : issued[n] = t
          BY <1>11, <3>1
        <4> QED BY <1>1, <4>1, <4>2 DEF Linked
      <3> QED BY <1>2, <1>7, <1>11, <3>1
    <2>2. ASSUME NEW k \in DOMAIN issued', NEW n \in DOMAIN issued', k < n,
                 tokens'[issued'[k]].email = tokens'[issued'[n]].email,
                 tokens'[issued'[k]].purpose = tokens'[issued'[n]].purpose
          PROVE  tokens'[issued'[k]].consumed
      <3>1. k \in DOMAIN issued /\ issued'[k] = issued[k] /\ n \in Nat
        <4>1. Len(issued) \in Nat /\ DOMAIN issued' = 1..(Len(issued) + 1)
          BY <1>1, <1>6 DEF TypeOK
        <4> QED BY <1>11, <2>2, <4>1
      <3>2. CASE n \in DOMAIN issued /\ issued'[n] = issued[n]
        BY <1>1, <1>9, <1>11, <1>12, <2>2, <3>1, <3>2 DEF Linked
      <3>3. CASE n = Len(issued) + 1 /\ issued'[n] = r
        <4>1. tokens'[issued'[n]].email = e /\ tokens'[issued'[n]].purpose = purpose
          BY <1>2, <1>7, <3>3
        <4>2. issued[k] \in old
          BY <1>5, <1>9, <1>11, <1>12, <2>2, <3>1, <4>1
        <4> QED BY <1>3, <1>7, <3>1, <4>2
      <3> QED BY <1>11, <3>2, <3>3
    <2>3. \A n \in DOMAIN uses' : tokens'[uses'[n]] # None /\ tokens'[uses'[n]].consumed
      <3>1. \A n \in DOMAIN uses : uses[n] \in Requests
        BY <1>1 DEF TypeOK
      <3> QED BY <1>1, <1>9, <3>1 DEF Linked
    <2> QED BY <2>1, <2>2, <2>3 DEF Linked
  <1> QED BY <1>2, <1>7, <1>8, <1>9, <1>10, <1>13

(* Accounts.request_email                                                  *)
LEMMA IssueInv == ASSUME IInv, NEW r \in Requests, Issue(r) PROVE IInv'
  <1> DEFINE e == Subject(r)
             purpose == PurposeOf(request[r].kind)
             row == account[r]
             lifetime == IF purpose = "RESET" THEN ResetTime ELSE VerificationTime
  <1>1. /\ phase[r] = "issue"
        /\ UNCHANGED <<clock, accounts, seats, sessions, buckets, mailed, given, locals, origin,
                       uses, admitted>>
    BY DEF Issue
  <1>2. TypeOK /\ Exclusive /\ Sent(r) /\ Holds(r) /\ Rooted
    BY DEF IInv, Own
  <1>3. CASE Finish(r, "ok") /\ UNCHANGED <<tokens, issued>>
    <2>1. UNCHANGED <<tables, history>>
      BY <1>1, <1>3 DEF tables, history
    <2> QED BY <1>1, <1>3, <2>1, FinishInv
  <1>4. CASE row # None /\ IssueLink(r, e, purpose, lifetime) /\ End(r, "mail", "none")
    <2>1. /\ request[r].kind \in {"forgot", "resend"} /\ e \in Emails /\ purpose \in Purpose
          /\ <<"user", e>> \in locks[r] /\ row = accounts[e] /\ tokens[r] = None
          /\ lifetime \in Nat
      BY <1>1, <1>2, <1>4, NameTypes, TimeAssumption DEF Sent, Holds, UserPhase, PurposeOf, Purpose
    <2>2. UNCHANGED <<now, account, bucket, chosen, request, bounds>>
      BY <1>1 DEF locals, given
    <2> HIDE DEF e, purpose, lifetime
    <2>3. /\ tokens' \in [Requests -> Token \cup {None}] /\ issued' \in Seq(Requests)
          /\ Linked'
          /\ tokens'[r] # None /\ tokens'[r].email = e
          /\ \A t \in Requests : tokens[t] # None =>
                /\ tokens'[t] # None
                /\ tokens'[t].email = tokens[t].email /\ tokens'[t].purpose = tokens[t].purpose
                /\ tokens[t].consumed => tokens'[t].consumed
                /\ tokens'[t].consumed /\ ~tokens[t].consumed => tokens[t].email = e
          /\ \A t \in Requests \ {r} : tokens[t] = None => tokens'[t] = None
      BY <1>1, <1>4, <2>1, IssueLinkFacts
    <2>4. Moves(r, "mail", {})
      BY <1>2, <1>4, EndMoves DEF Phase
    <2>5. phase'[r] = "mail" /\ locks'[r] = {}
      BY <2>4 DEF Moves
    <2>6. TypeOK'
      BY <1>1, <1>2, <2>2, <2>3, <2>4 DEF TypeOK, Moves
    <2>7. Grows
      BY <1>1, <2>3 DEF Grows
    <2>8. Writes(r)
      BY <1>1, <2>1, <2>3 DEF Writes, Open
    <2>9. Sent(r)'
      <3>1. request[r].link \in Requests \cup {None}
        BY <1>2, NameTypes
      <3> QED BY <1>1, <1>2, <2>1, <2>2, <2>3, <2>5, <3>1 DEF Sent
    <2>10. Holds(r)'
      BY <2>1, <2>2, <2>5 DEF Holds, UserPhase
    <2>11. Rooted'
      <3>1. \A t \in Requests : tokens'[t] # None => accounts'[tokens'[t].email] # None
        BY <1>1, <1>2, <1>4, <2>1, <2>3 DEF Rooted
      <3>2. \A t \in mailed : t \in Requests
        BY <1>2 DEF TypeOK
      <3> QED BY <1>1, <1>2, <2>3, <3>1, <3>2 DEF Rooted
    <2>12. Counted' /\ OpenSessionsKnowThePassword' /\ OneOpenSessionPerSignIn'
      BY <1>1 DEF IInv, Counted, OpenSessionsKnowThePassword, OneOpenSessionPerSignIn
    <2> QED BY <2>2, <2>3, <2>4, <2>6, <2>7, <2>8, <2>9, <2>10, <2>11, <2>12, WriteInv
  <1> QED BY <1>3, <1>4 DEF Issue

(* Accounts.register: nobody can have had a session or a link before.      *)
LEMMA CreateAccountInv == ASSUME IInv, NEW r \in Requests, CreateAccount(r) PROVE IInv'
  <1> DEFINE e == Subject(r)
             row == [password |-> request[r].password, verified |-> ~RequireVerification,
                     active |-> TRUE]
  <1>1. /\ phase[r] = "create" /\ accounts' = [accounts EXCEPT ![e] = row]
        /\ seats' = [seats EXCEPT ![e] = {r}]
        /\ UNCHANGED <<clock, sessions, buckets, mailed, given, locals, origin, uses, admitted>>
    BY DEF CreateAccount
  <1>2. TypeOK /\ Exclusive /\ Sent(r) /\ Holds(r) /\ Rooted
    BY DEF IInv, Own
  <1>3. /\ request[r].kind = "register" /\ e \in Emails /\ <<"address", e>> \in locks[r]
        /\ accounts[e] = None /\ tokens[r] = None /\ request[r].password \in Passwords
    BY <1>1, <1>2, NameTypes DEF Sent, Holds
  <1>4. row \in Account /\ row # None
    <2>1. row \in Account
      BY <1>3, TimeAssumption DEF Account
    <2> QED BY <2>1, NoneApart
  <1>5. UNCHANGED <<now, account, bucket, chosen, request, bounds>>
    BY <1>1 DEF locals, given
  <1> HIDE DEF e, row
  <1>6. /\ accounts' \in [Emails -> Account \cup {None}]
        /\ accounts'[e] = row /\ \A f \in Emails : f # e => accounts'[f] = accounts[f]
        /\ seats' \in [Emails -> SUBSET (Organizations \cup Requests)]
    BY <1>1, <1>2, <1>3, <1>4 DEF TypeOK
  <1>7. \/ /\ UNCHANGED <<tokens, issued>> /\ Finish(r, "ok")
        \/ /\ IssueLink(r, e, "VERIFICATION", VerificationTime) /\ End(r, "mail", "none")
    BY DEF CreateAccount, e
  <1>8. PICK p \in {"mail", "done"} :
          /\ Moves(r, p, {})
          /\ p = "mail" => tokens'[r] # None
    <2>1. CASE Finish(r, "ok")
      BY <1>2, <2>1, FinishMoves
    <2>2. CASE IssueLink(r, e, "VERIFICATION", VerificationTime) /\ End(r, "mail", "none")
      <3>1. Moves(r, "mail", {})
        BY <1>2, <2>2, EndMoves DEF Phase
      <3>2. tokens'[r] # None
        BY <1>1, <1>3, <2>2, IssueLinkFacts, TimeAssumption DEF Purpose
      <3> QED BY <3>1, <3>2
    <2> QED BY <1>7, <2>1, <2>2
  <1>9. /\ tokens' \in [Requests -> Token \cup {None}] /\ issued' \in Seq(Requests)
        /\ Linked'
        /\ \A t \in Requests : tokens[t] # None =>
                /\ tokens'[t] # None
                /\ tokens'[t].email = tokens[t].email /\ tokens'[t].purpose = tokens[t].purpose
                /\ tokens[t].consumed => tokens'[t].consumed
                /\ tokens'[t].consumed /\ ~tokens[t].consumed => tokens[t].email = e
        /\ \A t \in Requests \ {r} : tokens[t] = None => tokens'[t] = None
        /\ tokens[r] # tokens'[r] => tokens'[r].email = e
    <2>1. CASE UNCHANGED <<tokens, issued>>
      BY <1>1, <1>2, <2>1 DEF TypeOK, IInv, Linked
    <2>2. CASE IssueLink(r, e, "VERIFICATION", VerificationTime)
      BY <1>1, <1>3, <2>2, IssueLinkFacts, TimeAssumption DEF Purpose
    <2> QED BY <1>7, <2>1, <2>2
  <1>10. phase'[r] = p /\ locks'[r] = {}
    BY <1>8 DEF Moves
  <1>11. \A f \in Emails : accounts[f] # None => accounts'[f] = accounts[f] /\ f # e
    BY <1>3, <1>6
  <1>12. \A t \in Requests : tokens[t] # None => tokens[t].email # e /\ tokens[t].email \in Emails
    <2>1. \A t \in Requests : tokens[t] # None => tokens[t].email \in Emails
      BY <1>2 DEF TypeOK, Token
    <2> QED BY <1>2, <1>11, <2>1 DEF Rooted
  <1>13. \A s \in SessionIds : sessions[s] # None =>
            sessions[s].email \in Emails /\ accounts[sessions[s].email] # None
    <2>1. \A s \in SessionIds : sessions[s] # None => sessions[s].email \in Emails
      BY <1>2 DEF TypeOK, Session
    <2> QED BY <1>2, <2>1 DEF Rooted
  <1>14. TypeOK'
    BY <1>1, <1>2, <1>5, <1>6, <1>8, <1>9 DEF TypeOK, Moves
  <1>15. Grows
    BY <1>1, <1>9, <1>11 DEF Grows
  <1>16. Writes(r)
    BY <1>1, <1>3, <1>6, <1>9, <1>12 DEF Writes, Open
  <1>17. Sent(r)'
    <2>1. request[r].link \in Requests \cup {None}
      BY <1>2, NameTypes
    <2> QED BY <1>1, <1>2, <1>3, <1>5, <1>8, <1>9, <1>10, <2>1 DEF Sent
  <1>18. Holds(r)'
    BY <1>3, <1>5, <1>8, <1>10 DEF Holds, UserPhase
  <1>19. Rooted'
    <2>1. \A t \in Requests : tokens'[t] # None => accounts'[tokens'[t].email] # None
      BY <1>2, <1>4, <1>6, <1>9, <1>11, <1>12 DEF Rooted
    <2>2. \A t \in mailed : t \in Requests
      BY <1>2 DEF TypeOK
    <2>3. \A s \in SessionIds : sessions[s] # None => accounts'[sessions[s].email] # None
      BY <1>11, <1>13
    <2> QED BY <1>1, <1>2, <1>9, <2>1, <2>2, <2>3 DEF Rooted
  <1>20. OpenSessionsKnowThePassword'
    BY <1>1, <1>11, <1>13 DEF IInv, OpenSessionsKnowThePassword
  <1>21. Counted' /\ OneOpenSessionPerSignIn'
    BY <1>1 DEF IInv, Counted, OneOpenSessionPerSignIn
  <1> QED BY <1>5, <1>8, <1>9, <1>14, <1>15, <1>16, <1>17, <1>18, <1>19, <1>20, <1>21, WriteInv

-----------------------------------------------------------------------------
(* Statements that write sessions.                                         *)

(* Sessions are used or revoked, none is opened.                           *)
Quiet(rows) ==
    /\ rows \in [SessionIds -> Session \cup {None}]
    /\ \A s \in SessionIds : rows[s] # None <=> sessions[s] # None
    /\ \A s \in SessionIds : sessions[s] # None =>
        /\ rows[s].email = sessions[s].email /\ rows[s].absolute = sessions[s].absolute
        /\ sessions[s].revoked => rows[s].revoked

LEMMA RevokedQuiet ==
  ASSUME TypeOK, NEW held, \A s \in SessionIds : <<"session", s>> \in held => sessions[s] # None
  PROVE  /\ Quiet(Revoked(held))
         /\ \A s \in SessionIds : /\ <<"session", s>> \in held => Revoked(held)[s].revoked
                                  /\ <<"session", s>> \notin held => Revoked(held)[s] = sessions[s]
  <1> DEFINE spent(s) == [sessions[s] EXCEPT !.revoked = TRUE]
             in(s) == <<"session", s>> \in held
  <1>1. ASSUME NEW s \in SessionIds, in(s)
        PROVE  /\ spent(s) \in Session /\ spent(s) # None /\ spent(s).email = sessions[s].email
               /\ spent(s).absolute = sessions[s].absolute /\ spent(s).revoked
               /\ sessions[s] # None
    <2>1. sessions[s] \in Session /\ sessions[s] # None
      BY <1>1 DEF TypeOK
    <2> QED BY <2>1, RevokedRow
  <1>2. Revoked(held) = [s \in SessionIds |-> IF in(s) THEN spent(s) ELSE sessions[s]]
    BY DEF Revoked
  <1> HIDE DEF spent
  <1>3. \A s \in SessionIds : /\ in(s) => Revoked(held)[s] = spent(s)
                              /\ ~in(s) => Revoked(held)[s] = sessions[s]
    BY <1>2
  <1>4. Revoked(held) \in [SessionIds -> Session \cup {None}]
    BY <1>1, <1>2 DEF TypeOK
  <1> QED BY <1>1, <1>3, <1>4 DEF Quiet

LEMMA QuietInv ==
  ASSUME IInv, NEW r \in Requests, NEW p, Moves(r, p, {}), Quiet(sessions'),
         UNCHANGED <<clock, accounts, seats, tokens, buckets, mailed, given, account, bucket, chosen,
                     history>>,
         now' \in [Requests -> 0..bounds.horizon],
         \A s \in SessionIds : Open(s) /\ ~Open(s)' => Free(<<"session", s>>, r),
         Sent(r)', Holds(r)'
  PROVE  IInv'
  <1>1. /\ UNCHANGED <<clock, accounts, seats, tokens, buckets, mailed, account, bucket, chosen>>
        /\ UNCHANGED <<bounds, request, origin, issued, uses, admitted>>
    BY DEF given, history
  <1>2. TypeOK /\ Rooted
    BY DEF IInv
  <1>3. \A s \in SessionIds : Open(s)' => Open(s)
    BY DEF Quiet, Open
  <1>4. TypeOK'
    BY <1>1, <1>2 DEF TypeOK, Moves, Quiet
  <1>5. Grows
    BY <1>1 DEF Grows, Quiet
  <1>6. Writes(r)
    <2>1. \A q \in Requests : q \in SessionIds
      BY DEF SessionIds
    <2> QED BY <1>1, <1>3, <2>1 DEF Writes, Quiet
  <1>7. Rooted'
    <2>1. \A s \in SessionIds : sessions'[s] # None =>
            /\ accounts'[sessions'[s].email] # None
            /\ origin'[s] \in Origin /\ sessions'[origin'[s].login] # None
      <3>1. \A s \in SessionIds : origin[s] \in Origin => origin[s].login \in SessionIds
        BY DEF Origin
      <3> QED BY <1>1, <1>2, <3>1 DEF Rooted, Quiet
    <2> QED BY <1>1, <1>2, <2>1 DEF Rooted
  <1>8. Counted' /\ Linked'
    BY <1>1 DEF IInv, Counted, Linked
  <1>9. OpenSessionsKnowThePassword'
    BY <1>1, <1>3 DEF IInv, OpenSessionsKnowThePassword, Quiet, Open
  <1>10. OneOpenSessionPerSignIn'
    BY <1>1, <1>3 DEF IInv, OneOpenSessionPerSignIn, Quiet, Open
  <1> QED BY <1>1, <1>4, <1>5, <1>6, <1>7, <1>8, <1>9, <1>10, WriteInv

LEMMA LogoutInv == ASSUME IInv, NEW r \in Requests, Logout(r) PROVE IInv'
  <1> DEFINE c == request[r].cookie
             held == {<<"session", c>>}
  <1>1. /\ phase[r] = "revoke" /\ Finish(r, "ok")
        /\ UNCHANGED <<clock, accounts, seats, tokens, buckets, mailed, given, locals, history>>
    BY DEF Logout
  <1>2. TypeOK /\ Exclusive /\ Sent(r)
    BY DEF IInv, Own
  <1>3. UNCHANGED <<now, account, bucket, chosen, request>>
    BY <1>1 DEF locals, given
  <1>4. Moves(r, "done", {})
    BY <1>1, <1>2, FinishMoves
  <1>5. c \in SessionIds /\ sessions[c] # None
    BY <1>1, <1>2, NameTypes DEF Sent
  <1>6. CASE UNCHANGED sessions
    <2>1. UNCHANGED tables
      BY <1>1, <1>6 DEF tables
    <2> QED BY <1>1, <2>1, FinishInv
  <1>7. CASE Free(<<"session", c>>, r) /\ sessions' = Revoked(held)
    <2>1. \A s \in SessionIds : <<"session", s>> \in held => sessions[s] # None /\ s = c
      BY <1>5
    <2> HIDE DEF held
    <2>2. Quiet(sessions')
      BY <1>2, <1>7, <2>1, RevokedQuiet
    <2>3. \A s \in SessionIds : Open(s) /\ ~Open(s)' => Free(<<"session", s>>, r)
      <3>1. \A s \in SessionIds : sessions'[s] # sessions[s] => s = c
        BY <1>2, <1>7, <2>1, RevokedQuiet
      <3> QED BY <1>7, <3>1 DEF Open
    <2>4. Grows
      BY <1>1, <2>2 DEF Grows, Quiet
    <2>5. Sent(r)' /\ Holds(r)'
      BY <1>1, <1>3, <1>4, <2>4, EndOwn
    <2>6. now' \in [Requests -> 0..bounds.horizon]
      BY <1>2, <1>3 DEF TypeOK
    <2> QED BY <1>1, <1>3, <1>4, <2>2, <2>3, <2>5, <2>6, QuietInv
  <1> QED BY <1>6, <1>7 DEF Logout

LEMMA TouchSessionInv == ASSUME IInv, NEW r \in Requests, TouchSession(r) PROVE IInv'
  <1> DEFINE c == request[r].cookie
             p == IF request[r].kind = "select" THEN "user" ELSE "done"
             new == Touched(sessions[c], now[r])
             at == IF request[r].kind = "select" THEN clock ELSE now[r]
  <1>1. /\ phase[r] = "touch"
        /\ UNCHANGED <<clock, accounts, seats, tokens, buckets, mailed, given, account, bucket,
                       chosen, history>>
    BY DEF TouchSession
  <1>2. TypeOK /\ Exclusive /\ Sent(r) /\ Holds(r)
    BY DEF IInv, Own
  <1>3. CASE Finish(r, "rejected") /\ UNCHANGED <<sessions, now>>
    <2>1. UNCHANGED <<tables, locals>>
      BY <1>1, <1>3 DEF tables, locals
    <2> QED BY <1>1, <1>3, <2>1, FinishInv
  <1>4. CASE /\ sessions' = [sessions EXCEPT ![c] = new]
             /\ now' = [now EXCEPT ![r] = at]
             /\ IF request[r].kind = "select" THEN End(r, "user", "none") ELSE Finish(r, "ok")
    <2>1. /\ c \in SessionIds /\ sessions[c] # None /\ sessions[c] \in Session
          /\ request[r].kind \in {"me", "select"}
          /\ request[r].cookie \in SessionIds \cup {None} /\ request[r].link \in Requests \cup {None}
      BY <1>1, <1>2, NameTypes DEF Sent, TypeOK
    <2>2. now[r] \in 0..bounds.horizon /\ clock \in 0..bounds.horizon /\ now[r] \in Nat
      BY <1>2 DEF TypeOK
    <2>3. /\ new \in Session /\ new # None /\ new.email = sessions[c].email
          /\ new.absolute = sessions[c].absolute /\ new.revoked = sessions[c].revoked
      BY <2>1, <2>2, TouchedRow
    <2>4. p \in {"user", "done"} /\ (p = "user" => request[r].kind = "select")
      OBVIOUS
    <2>5. Moves(r, p, {})
      <3>1. CASE request[r].kind = "select"
        BY <1>2, <1>4, <3>1, EndMoves DEF Phase
      <3>2. CASE request[r].kind # "select"
        BY <1>2, <1>4, <3>2, FinishMoves
      <3> QED BY <3>1, <3>2
    <2>6. now' \in [Requests -> 0..bounds.horizon]
      BY <1>2, <1>4, <2>2 DEF TypeOK
    <2> HIDE DEF new, p, at
    <2>7. sessions'[c] = new /\ \A s \in SessionIds : s # c => sessions'[s] = sessions[s]
      BY <1>2, <1>4, <2>1 DEF TypeOK
    <2>8. Quiet(sessions')
      BY <1>2, <1>4, <2>1, <2>3, <2>7 DEF TypeOK, Quiet
    <2>9. \A s \in SessionIds : Open(s)' <=> Open(s)
      BY <2>1, <2>3, <2>7 DEF Open
    <2>10. phase'[r] = p /\ locks'[r] = {} /\ request' = request
      BY <1>1, <2>5 DEF Moves, given
    <2>11. Sent(r)'
      <3>1. r \in SessionIds
        BY DEF SessionIds
      <3> QED BY <1>1, <1>2, <2>1, <2>4, <2>8, <2>10, <3>1 DEF Sent, Quiet
    <2>12. Holds(r)'
      BY <2>1, <2>4, <2>10 DEF Holds, UserPhase
    <2> QED BY <1>1, <2>5, <2>6, <2>8, <2>9, <2>11, <2>12, QuietInv
  <1> QED BY <1>3, <1>4 DEF TouchSession

(* A request opens its session, under the lock of the account, next to     *)
(* sessions it may have revoked.                                           *)
Opens(r, rows, new, birth) ==
    /\ phase[r] = "commit" /\ Moves(r, "done", {})
    /\ Quiet(rows) /\ \A s \in SessionIds : rows[s] # sessions[s] => <<"session", s>> \in locks[r]
    /\ new \in Session /\ new # None /\ ~new.revoked /\ birth \in Origin
    /\ sessions' = [rows EXCEPT ![r] = new] /\ origin' = [origin EXCEPT ![r] = birth]
    /\ <<"user", new.email>> \in locks[r] /\ accounts[new.email] # None
    /\ birth.password = accounts[new.email].password
    /\ new.absolute = birth.at + AbsoluteTime
    /\ birth.login = r \/ sessions[birth.login] # None
    /\ \A t \in SessionIds \ {r} :
            rows[t] # None /\ ~rows[t].revoked => origin[t].login # birth.login
    /\ UNCHANGED <<clock, accounts, seats, tokens, mailed, given, locals, issued, uses>>
    /\ buckets' \in [Buckets -> Bucket \cup {None}] /\ admitted' \in [Buckets -> Nat] /\ Counted'
    /\ \A b \in Buckets : /\ buckets[b] # None => buckets'[b] # None
                          /\ buckets'[b] # buckets[b] => <<"bucket", b>> \in locks[r]

LEMMA OpenInv ==
  ASSUME IInv, NEW r \in Requests, NEW rows, NEW new, NEW birth, Opens(r, rows, new, birth)
  PROVE  IInv'
  <1> USE DEF Opens
  <1>1. UNCHANGED <<accounts, seats, tokens, mailed, issued, uses, bounds, request, now, account,
                    bucket, chosen>>
    BY DEF given, locals
  <1>2. TypeOK /\ Exclusive /\ Sent(r) /\ Rooted
    BY DEF IInv, Own
  <1>3. r \in SessionIds /\ sessions[r] = None
    BY <1>2 DEF Sent, SessionIds
  <1>4. /\ sessions'[r] = new /\ \A s \in SessionIds : s # r => sessions'[s] = rows[s]
        /\ origin'[r] = birth /\ \A s \in SessionIds : s # r => origin'[s] = origin[s]
    BY <1>2, <1>3 DEF TypeOK, Quiet
  <1>5. TypeOK'
    <2>1. sessions' \in [SessionIds -> Session \cup {None}]
      BY <1>3 DEF Quiet
    <2>2. origin' \in [SessionIds -> Origin \cup {None}]
      BY <1>2, <1>3 DEF TypeOK
    <2> QED BY <1>1, <1>2, <2>1, <2>2 DEF TypeOK, Moves
  <1>6. Grows
    <2>1. Quiet(rows) /\ new # None /\ \A b \in Buckets : buckets[b] # None => buckets'[b] # None
      OBVIOUS
    <2> HIDE DEF Opens
    <2> QED BY <1>1, <1>3, <1>4, <2>1 DEF Grows, Quiet
  <1>7. \A s \in SessionIds : s # r => (Open(s)' => Open(s))
    BY <1>4 DEF Quiet, Open
  <1>8. \A x \in locks[r] : Free(x, r)
    BY <1>2 DEF Exclusive, Free
  <1>9. Writes(r)
    <2>1. \A s \in SessionIds : Open(s) /\ ~Open(s)' => Free(<<"session", s>>, r)
      BY <1>3, <1>4, <1>8 DEF Open
    <2>2. \A s \in SessionIds : Open(s)' /\ ~Open(s) => <<"user", sessions'[s].email>> \in locks[r]
      BY <1>4, <1>7
    <2>3. \A q \in Requests \ {r} : sessions[q] = None => sessions'[q] = None
      BY <1>4 DEF Quiet, SessionIds
    <2>4. \A b \in Buckets : buckets'[b] # buckets[b] => <<"bucket", b>> \in locks[r]
      OBVIOUS
    <2> HIDE DEF Opens
    <2> QED BY <1>1, <2>1, <2>2, <2>3, <2>4 DEF Writes
  <1>10. Sent(r)' /\ Holds(r)'
    BY <1>1, <1>6, EndOwn
  <1>11. Rooted'
    <2>1. \A s \in SessionIds : origin[s] \in Origin => origin[s].login \in SessionIds
      BY DEF Origin
    <2>2. birth.login \in SessionIds
      BY DEF Origin
    <2>3. ASSUME NEW s \in SessionIds, sessions'[s] # None
          PROVE  /\ accounts'[sessions'[s].email] # None
                 /\ origin'[s] \in Origin /\ sessions'[origin'[s].login] # None
      <3>1. CASE s = r
        BY <1>1, <1>4, <1>6, <2>2, <3>1 DEF Grows
      <3>2. CASE s # r
        BY <1>1, <1>2, <1>4, <1>6, <2>1, <2>3, <3>2 DEF Rooted, Quiet, Grows
      <3> QED BY <3>1, <3>2
    <2> QED BY <1>1, <1>2, <2>3 DEF Rooted
  <1>12. Linked'
    BY <1>1 DEF IInv, Linked
  <1>13. OpenSessionsKnowThePassword'
    BY <1>1, <1>4, <1>7 DEF IInv, OpenSessionsKnowThePassword, Quiet, Open
  <1>14. OneOpenSessionPerSignIn'
    <2>1. \A s \in SessionIds : sessions'[s] # None =>
            sessions'[s].absolute = origin'[s].at + AbsoluteTime
      BY <1>4 DEF IInv, OneOpenSessionPerSignIn, Quiet
    <2>2. ASSUME NEW s \in SessionIds, NEW t \in SessionIds \ {s}, Open(s)', Open(t)'
          PROVE  origin'[s].login # origin'[t].login
      <3>1. CASE s = r
        BY <1>4, <2>2, <3>1 DEF Open
      <3>2. CASE t = r
        BY <1>4, <2>2, <3>2 DEF Open
      <3>3. CASE s # r /\ t # r
        BY <1>4, <1>7, <2>2, <3>3 DEF IInv, OneOpenSessionPerSignIn, Open
      <3> QED BY <3>1, <3>2, <3>3
    <2> QED BY <2>1, <2>2 DEF OneOpenSessionPerSignIn, Open
  <1> QED BY <1>1, <1>5, <1>6, <1>9, <1>10, <1>11, <1>12, <1>13, <1>14, WriteInv

LEMMA CommitLoginInv == ASSUME IInv, NEW r \in Requests, CommitLogin(r) PROVE IInv'
  <1> DEFINE e == Subject(r)
             b == BucketOf(r)
             m == request[r]
             rows == Revoked(locks[r])
             new == NewSession(e, chosen[r], now[r], now[r] + AbsoluteTime)
             birth == [login |-> r, password |-> m.password, at |-> now[r]]
             cleared == [buckets[b] EXCEPT !.attempts = 0]
  <1>1. /\ phase[r] = "commit" /\ m.kind = "login" /\ Finish(r, "ok")
        /\ sessions' = [rows EXCEPT ![r] = new] /\ origin' = [origin EXCEPT ![r] = birth]
        /\ buckets' = [buckets EXCEPT ![b] = cleared] /\ admitted' = [admitted EXCEPT ![b] = 0]
        /\ UNCHANGED <<clock, accounts, seats, tokens, mailed, given, locals, issued, uses>>
    BY DEF CommitLogin
  <1>2. TypeOK /\ Exclusive /\ Sent(r) /\ Holds(r) /\ Rooted /\ Counted
    BY DEF IInv, Own
  <1>3. /\ e \in Emails /\ b \in Buckets /\ m.password \in Passwords
        /\ account[r] # None /\ account[r] = accounts[e] /\ account[r].password = m.password
        /\ <<"user", e>> \in locks[r] /\ <<"bucket", b>> \in locks[r] /\ buckets[b] # None
        /\ \A s \in SessionIds : <<"session", s>> \in locks[r] => sessions[s] # None
    BY <1>1, <1>2, NameTypes DEF Holds, UserPhase
  <1>4. /\ now[r] \in Nat /\ now[r] + AbsoluteTime \in Nat /\ Limit(b) \in Nat
        /\ chosen[r] \in Organizations \cup Requests \cup {None}
    <2>1. now[r] \in 0..bounds.horizon /\ bounds.horizon \in Nat
      BY <1>2 DEF TypeOK
    <2> QED BY <1>2, <2>1, TimeAssumption DEF TypeOK, Limit
  <1>5. /\ new \in Session /\ new # None /\ new.email = e /\ ~new.revoked
        /\ new.absolute = now[r] + AbsoluteTime
    <2> DEFINE o == chosen[r]
               d == now[r] + AbsoluteTime
    <2>1. new = NewSession(e, o, now[r], d)
      OBVIOUS
    <2>2. e \in Emails /\ o \in Organizations \cup Requests \cup {None} /\ now[r] \in Nat /\ d \in Nat
      BY <1>3, <1>4
    <2> HIDE DEF e, o, d, new
    <2>3. /\ new \in Session /\ new # None /\ new.email = e /\ ~new.revoked /\ new.absolute = d
      BY <2>1, <2>2, NewSessionType
    <2> QED BY <2>3 DEF d
  <1>6. birth \in Origin /\ birth.login = r /\ birth.password = m.password /\ birth.at = now[r]
    BY <1>3, <1>4 DEF Origin, SessionIds
  <1>7. cleared \in Bucket /\ cleared # None /\ cleared.attempts = 0
    <2>1. buckets[b] \in Bucket
      BY <1>2, <1>3 DEF TypeOK
    <2>2. cleared \in Bucket /\ cleared.attempts = 0
      BY <2>1 DEF Bucket
    <2> QED BY <2>2, NoneApart
  <1> HIDE DEF e, b, new, birth, cleared
  <1>8. Quiet(rows) /\ \A s \in SessionIds : rows[s] # sessions[s] => <<"session", s>> \in locks[r]
    BY <1>2, <1>3, RevokedQuiet
  <1>9. \A t \in SessionIds \ {r} : rows[t] # None => origin[t].login # r
    <2>1. sessions[r] = None
      BY <1>1, <1>2 DEF Sent
    <2> QED BY <1>2, <1>8, <2>1 DEF Rooted, Quiet
  <1>10. Moves(r, "done", {})
    BY <1>1, <1>2, FinishMoves
  <1>11. /\ buckets' \in [Buckets -> Bucket \cup {None}] /\ admitted' \in [Buckets -> Nat]
         /\ \A c \in Buckets : /\ c # b => buckets'[c] = buckets[c] /\ admitted'[c] = admitted[c]
                               /\ c = b => buckets'[c] = cleared /\ admitted'[c] = 0
    BY <1>1, <1>2, <1>3, <1>7 DEF TypeOK
  <1>12. Counted'
    BY <1>2, <1>4, <1>7, <1>11 DEF Counted
  <1>13. /\ <<"user", new.email>> \in locks[r] /\ accounts[new.email] # None
         /\ birth.password = accounts[new.email].password
         /\ new.absolute = birth.at + AbsoluteTime
    BY <1>3, <1>5, <1>6
  <1>14. \A t \in SessionIds \ {r} : rows[t] # None /\ ~rows[t].revoked => origin[t].login # birth.login
    BY <1>6, <1>9
  <1>15. \A c \in Buckets : /\ buckets[c] # None => buckets'[c] # None
                            /\ buckets'[c] # buckets[c] => <<"bucket", c>> \in locks[r]
    BY <1>3, <1>7, <1>11
  <1> HIDE DEF rows
  <1>16. Opens(r, rows, new, birth)
    BY <1>1, <1>5, <1>6, <1>8, <1>10, <1>11, <1>12, <1>13, <1>14, <1>15 DEF Opens
  <1> QED BY <1>16, OpenInv

LEMMA CommitSelectInv == ASSUME IInv, NEW r \in Requests, CommitSelect(r) PROVE IInv'
  <1> DEFINE e == Subject(r)
             m == request[r]
             c == m.cookie
             rows == Revoked(locks[r])
             new == NewSession(e, m.org, now[r], Deadline(r))
             birth == origin[c]
  <1>1. /\ phase[r] = "commit" /\ m.kind = "select"
        /\ UNCHANGED <<clock, accounts, seats, tokens, buckets, mailed, given, locals, issued, uses,
                       admitted>>
    BY DEF CommitSelect
  <1>2. CASE Finish(r, "rejected") /\ UNCHANGED <<sessions, origin>>
    <2>1. UNCHANGED <<tables, history>>
      BY <1>1, <1>2 DEF tables, history
    <2> QED BY <1>1, <1>2, <2>1, FinishInv
  <1>3. CASE /\ m.org \in seats[e] /\ sessions' = [rows EXCEPT ![r] = new]
             /\ origin' = [origin EXCEPT ![r] = birth] /\ Finish(r, "ok")
    <2>1. /\ TypeOK /\ Exclusive /\ Sent(r) /\ Holds(r) /\ Rooted /\ Counted
          /\ OpenSessionsKnowThePassword /\ OneOpenSessionPerSignIn
      BY DEF IInv, Own
    <2>2. /\ e \in Emails /\ c \in SessionIds /\ account[r] # None /\ account[r] = accounts[e]
          /\ <<"user", e>> \in locks[r] /\ <<"session", c>> \in locks[r] /\ Open(c)
          /\ \A s \in SessionIds : <<"session", s>> \in locks[r] => sessions[s] # None
      BY <1>1, <2>1, NameTypes DEF Holds, UserPhase, Sent
    <2>3. /\ e = sessions[c].email /\ Deadline(r) = sessions[c].absolute
          /\ sessions[c] \in Session /\ sessions[c].absolute \in Nat
      <3>1. sessions[c] \in Session
        BY <2>1, <2>2 DEF TypeOK, Open
      <3> QED BY <1>1, <3>1 DEF Subject, Deadline, Session
    <2>4. now[r] \in Nat /\ m.org \in Organizations \cup Requests \cup {None}
      <3>1. now[r] \in 0..bounds.horizon /\ bounds.horizon \in Nat
        BY <2>1 DEF TypeOK
      <3>2. m \in Request
        BY <2>1 DEF TypeOK
      <3> QED BY <3>1, <3>2 DEF Request
    <2>5. /\ new \in Session /\ new # None /\ new.email = e /\ ~new.revoked
          /\ new.absolute = sessions[c].absolute
      <3> DEFINE o == m.org
                 d == sessions[c].absolute
      <3>1. new = NewSession(e, o, now[r], d)
        BY <2>3
      <3>2. o \in Organizations \cup Requests \cup {None} /\ d \in Nat
        BY <2>3, <2>4
      <3> HIDE DEF e, o, d
      <3>3. /\ new \in Session /\ new # None /\ new.email = e /\ ~new.revoked /\ new.absolute = d
        BY <2>2, <2>4, <3>1, <3>2, NewSessionType
      <3> QED BY <3>3 DEF d
    <2>6. /\ birth \in Origin /\ birth.password = accounts[e].password
          /\ new.absolute = birth.at + AbsoluteTime /\ sessions[birth.login] # None
      BY <2>1, <2>2, <2>3, <2>5 DEF Rooted, OpenSessionsKnowThePassword, OneOpenSessionPerSignIn, Open
    <2>7. /\ Quiet(rows) /\ rows[c].revoked
          /\ \A s \in SessionIds : rows[s] # sessions[s] => <<"session", s>> \in locks[r]
      BY <2>1, <2>2, RevokedQuiet
    <2>8. \A t \in SessionIds \ {r} :
            rows[t] # None /\ ~rows[t].revoked => origin[t].login # birth.login
      <3> SUFFICES ASSUME NEW t \in SessionIds \ {r}, rows[t] # None, ~rows[t].revoked
                   PROVE  origin[t].login # birth.login
        OBVIOUS
      <3>1. t # c /\ Open(t)
        BY <2>7 DEF Quiet, Open
      <3> QED BY <2>1, <2>2, <3>1 DEF OneOpenSessionPerSignIn, Open
    <2>9. Moves(r, "done", {})
      BY <1>3, <2>1, FinishMoves
    <2>10. /\ buckets' \in [Buckets -> Bucket \cup {None}] /\ admitted' \in [Buckets -> Nat] /\ Counted'
           /\ buckets' = buckets
      BY <1>1, <2>1 DEF TypeOK, Counted
    <2>11. /\ <<"user", new.email>> \in locks[r] /\ accounts[new.email] # None
           /\ birth.password = accounts[new.email].password
      BY <2>2, <2>5, <2>6
    <2>12. \A b \in Buckets : /\ buckets[b] # None => buckets'[b] # None
                              /\ buckets'[b] # buckets[b] => <<"bucket", b>> \in locks[r]
      BY <2>10
    <2> HIDE DEF e, c, new, birth, rows
    <2>13. Opens(r, rows, new, birth)
      BY <1>1, <1>3, <2>5, <2>6, <2>7, <2>8, <2>9, <2>10, <2>11, <2>12 DEF Opens
    <2> QED BY <2>13, OpenInv
  <1> QED BY <1>2, <1>3 DEF CommitSelect

(* Accounts.consume_token.  A reset leaves no session of the account open: *)
(* all of them are locked, and the lock of the account keeps new ones out. *)
LEMMA CommitLinkInv == ASSUME IInv, NEW r \in Requests, CommitLink(r) PROVE IInv'
  <1> DEFINE m == request[r]
             e == Subject(r)
             purpose == PurposeOf(m.kind)
             old == Siblings(e, purpose)
             spent(t) == [tokens[t] EXCEPT !.consumed = TRUE]
             row == IF m.kind = "reset" THEN [accounts[e] EXCEPT !.password = m.password]
                                        ELSE [accounts[e] EXCEPT !.verified = TRUE]
  <1>1. /\ phase[r] = "commit" /\ m.kind \in {"verify", "reset"} /\ Finish(r, "ok")
        /\ accounts' = [accounts EXCEPT ![e] = row] /\ sessions' = Revoked(locks[r])
        /\ tokens' = [t \in Requests |-> IF t \in old THEN spent(t) ELSE tokens[t]]
        /\ uses' = Append(uses, m.link)
        /\ UNCHANGED <<clock, seats, buckets, mailed, given, locals, origin, issued, admitted>>
    BY DEF CommitLink
  <1>2. /\ TypeOK /\ Exclusive /\ Sent(r) /\ Holds(r) /\ Rooted /\ Linked
        /\ OpenSessionsKnowThePassword
    BY DEF IInv, Own
  <1>3. UNCHANGED <<now, account, bucket, chosen, request, bounds>>
    BY <1>1 DEF locals, given
  <1>4. /\ e \in Emails /\ account[r] # None /\ account[r] = accounts[e]
        /\ <<"user", e>> \in locks[r] /\ m.password \in Passwords
        /\ m.link \in Requests /\ tokens[m.link] # None
        /\ m.kind = "reset" =>
            \A s \in SessionIds : Open(s) /\ sessions[s].email = e => <<"session", s>> \in locks[r]
        /\ \A s \in SessionIds : <<"session", s>> \in locks[r] => sessions[s] # None
    BY <1>1, <1>2, NameTypes DEF Sent, Holds, UserPhase
  <1>5. tokens[m.link].email = e /\ tokens[m.link].purpose = purpose
    BY <1>1, <1>2 DEF Sent, Subject
  <1>6. row \in Account /\ row # None /\ (m.kind # "reset" => row.password = accounts[e].password)
    <2>1. accounts[e] \in Account
      BY <1>2, <1>4 DEF TypeOK
    <2>2. row \in Account /\ (m.kind # "reset" => row.password = accounts[e].password)
      BY <1>4, <2>1 DEF Account
    <2> QED BY <2>2, NoneApart
  <1>7. ASSUME NEW t \in old
        PROVE  /\ t \in Requests /\ tokens[t] # None /\ tokens[t].email = e
               /\ spent(t) \in Token /\ spent(t) # None /\ spent(t).email = tokens[t].email
               /\ spent(t).purpose = tokens[t].purpose /\ spent(t).consumed
    <2>1. t \in Requests /\ tokens[t] # None /\ tokens[t].email = e /\ tokens[t] \in Token
      BY <1>2 DEF Siblings, TypeOK
    <2> QED BY <2>1, SpentRow
  <1>8. m.link \in old
    BY <1>4, <1>5 DEF Siblings
  <1>9. /\ Quiet(sessions')
        /\ \A s \in SessionIds : /\ <<"session", s>> \in locks[r] => sessions'[s].revoked
                                 /\ <<"session", s>> \notin locks[r] => sessions'[s] = sessions[s]
    BY <1>1, <1>2, <1>4, RevokedQuiet
  <1>10. Moves(r, "done", {})
    BY <1>1, <1>2, FinishMoves
  <1> HIDE DEF e, purpose, old, spent, row
  <1>11. /\ accounts' \in [Emails -> Account \cup {None}]
         /\ accounts'[e] = row /\ \A f \in Emails : f # e => accounts'[f] = accounts[f]
    BY <1>1, <1>2, <1>4, <1>6 DEF TypeOK
  <1>12. \A t \in Requests : /\ t \in old => tokens'[t] = spent(t)
                             /\ t \notin old => tokens'[t] = tokens[t]
    BY <1>1
  <1>13. tokens' \in [Requests -> Token \cup {None}]
    BY <1>1, <1>2, <1>7 DEF TypeOK
  <1>14. \A t \in Requests : /\ tokens'[t] = None <=> tokens[t] = None
                             /\ tokens[t] # None =>
                                /\ tokens'[t].email = tokens[t].email
                                /\ tokens'[t].purpose = tokens[t].purpose
                                /\ tokens[t].consumed => tokens'[t].consumed
                                /\ tokens'[t].consumed /\ ~tokens[t].consumed => tokens[t].email = e
    BY <1>7, <1>12
  <1>15. uses' \in Seq(Requests)
    BY <1>1, <1>2, <1>4 DEF TypeOK
  <1>16. TypeOK'
    BY <1>1, <1>2, <1>3, <1>9, <1>10, <1>11, <1>13, <1>15 DEF TypeOK, Moves, Quiet
  <1>17. \A f \in Emails : accounts[f] # None => accounts'[f] # None
    BY <1>6, <1>11
  <1>18. Grows
    BY <1>1, <1>9, <1>14, <1>17 DEF Grows, Quiet
  <1>19. \A s \in SessionIds : /\ Open(s)' => Open(s) /\ <<"session", s>> \notin locks[r]
                               /\ Open(s) /\ ~Open(s)' => <<"session", s>> \in locks[r]
    BY <1>9 DEF Quiet, Open
  <1>20. Writes(r)
    <2>1. \A x \in locks[r] : Free(x, r)
      BY <1>2 DEF Exclusive, Free
    <2>2. \A q \in Requests : q \in SessionIds
      BY DEF SessionIds
    <2>3. accounts[e] # None
      BY <1>4
    <2>4. \A q \in Requests : sessions[q] = None => sessions'[q] = None
      BY <1>9, <2>2 DEF Quiet
    <2> QED BY <1>1, <1>4, <1>11, <1>14, <1>19, <2>1, <2>3, <2>4 DEF Writes
  <1>21. Sent(r)' /\ Holds(r)'
    BY <1>1, <1>3, <1>10, <1>18, EndOwn
  <1>22. Rooted'
    <2>1. \A s \in SessionIds : sessions'[s] # None =>
            /\ accounts'[sessions'[s].email] # None
            /\ origin'[s] \in Origin /\ sessions'[origin'[s].login] # None
      <3>1. \A s \in SessionIds : origin[s] \in Origin => origin[s].login \in SessionIds
        BY DEF Origin
      <3>2. \A s \in SessionIds : sessions[s] # None => sessions[s].email \in Emails
        BY <1>2 DEF TypeOK, Session
      <3> QED BY <1>1, <1>2, <1>9, <1>17, <3>1, <3>2 DEF Rooted, Quiet
    <2>2. \A t \in Requests : tokens'[t] # None => accounts'[tokens'[t].email] # None
      <3>1. \A t \in Requests : tokens[t] # None => tokens[t].email \in Emails
        BY <1>2 DEF TypeOK, Token
      <3> QED BY <1>2, <1>14, <1>17, <3>1 DEF Rooted
    <2>3. \A t \in mailed' : tokens'[t] # None
      <3>1. mailed \subseteq Requests
        BY <1>2 DEF TypeOK
      <3> QED BY <1>1, <1>2, <1>14, <3>1 DEF Rooted
    <2> QED BY <2>1, <2>2, <2>3 DEF Rooted
  <1>23. Linked'
    <2>1. \A n \in DOMAIN issued : issued[n] \in Requests /\ tokens[issued[n]] # None
      <3>1. \A n \in DOMAIN issued : issued[n] \in Requests
        BY <1>2 DEF TypeOK
      <3> QED BY <1>2, <3>1 DEF Linked
    <2>2. \A t \in Requests : tokens'[t] # None <=> \E n \in DOMAIN issued' : issued'[n] = t
      BY <1>1, <1>2, <1>14 DEF Linked
    <2>3. ASSUME NEW k \in DOMAIN issued', NEW n \in DOMAIN issued', k < n,
                 tokens'[issued'[k]].email = tokens'[issued'[n]].email,
                 tokens'[issued'[k]].purpose = tokens'[issued'[n]].purpose
          PROVE  tokens'[issued'[k]].consumed
      BY <1>1, <1>2, <1>14, <2>1, <2>3 DEF Linked
    <2>4. ASSUME NEW n \in DOMAIN uses'
          PROVE  tokens'[uses'[n]] # None /\ tokens'[uses'[n]].consumed
      <3>1. \/ (n \in DOMAIN uses /\ uses'[n] = uses[n] /\ uses[n] \in Requests)
            \/ uses'[n] = m.link
        BY <1>1, <1>2 DEF TypeOK
      <3>2. tokens'[m.link] # None /\ tokens'[m.link].consumed
        BY <1>4, <1>7, <1>8, <1>12
      <3> QED BY <1>2, <1>14, <3>1, <3>2 DEF Linked
    <2> QED BY <2>2, <2>3, <2>4 DEF Linked
  <1>24. OpenSessionsKnowThePassword'
    <2> SUFFICES ASSUME NEW s \in SessionIds, Open(s)'
                 PROVE  origin'[s].password = accounts'[sessions'[s].email].password
      BY DEF OpenSessionsKnowThePassword, Open
    <2>1. /\ Open(s) /\ sessions'[s] = sessions[s] /\ <<"session", s>> \notin locks[r]
          /\ sessions[s].email \in Emails
      BY <1>2, <1>9, <1>19 DEF Open, TypeOK, Session
    <2>2. origin[s].password = accounts[sessions[s].email].password
      BY <1>2, <2>1 DEF OpenSessionsKnowThePassword, Open
    <2>3. CASE sessions[s].email = e
      BY <1>1, <1>4, <1>6, <1>11, <2>1, <2>2, <2>3
    <2>4. CASE sessions[s].email # e
      BY <1>1, <1>11, <2>1, <2>2, <2>4
    <2> QED BY <2>3, <2>4
  <1>25. OneOpenSessionPerSignIn'
    BY <1>1, <1>9, <1>19 DEF IInv, OneOpenSessionPerSignIn, Quiet, Open
  <1>26. Counted'
    BY <1>1 DEF IInv, Counted
  <1> QED BY <1>3, <1>10, <1>16, <1>18, <1>20, <1>21, <1>22, <1>23, <1>24, <1>25, <1>26, WriteInv

-----------------------------------------------------------------------------
(* Together.                                                               *)

LEMMA NextInv == ASSUME IInv, [Next]_vars PROVE IInv'
  <1>1. ASSUME UNCHANGED vars PROVE IInv'
    <2>1. UNCHANGED <<clock, tables, mailed, given, phase, locals, locks, reply, history>>
      BY <1>1 DEF vars
    <2>2. UNCHANGED <<accounts, seats, sessions, tokens, buckets, origin, issued, uses, admitted,
                      bounds, request, now, account, bucket, chosen>>
      BY <2>1 DEF tables, history, given, locals
    <2>3. Own'
      <3>1. \A q \in Requests : (Sent(q) => Sent(q)') /\ (Holds(q) => Holds(q)')
        BY <2>1, <2>2, OwnKept
      <3> QED BY <3>1 DEF IInv, Own
    <2> QED BY <2>1, <2>2, <2>3 DEF IInv, TypeOK, Exclusive, Rooted, Counted, Linked,
                                    OpenSessionsKnowThePassword, OneOpenSessionPerSignIn
  <1>2. ASSUME NEW r \in Requests, Step(r) PROVE IInv'
    BY <1>2, ReadBucketInv, ChargeInv, LockUserInv, LookForAccountInv, InsertUserInv,
       CreateAccountInv, IssueInv, DeliverInv, CheckPasswordInv, ReplaceSessionInv, ClearLoginInv,
       CommitLoginInv, LockLinkInv, RevokeSessionsInv, CommitLinkInv, FindSessionInv,
       TouchSessionInv, LockSessionInv, CommitSelectInv, LogoutInv DEF Step
  <1> QED BY <1>1, <1>2, ArriveInv, RollbackInv, WorldInv DEF Next

(* The invariant the theorems below rest on.                               *)
THEOREM AccountsInvariant == Spec => []IInv
  BY InitInv, NextInv, PTL DEF Spec

(* Rows, clocks, locks and answers are always of the shape the schema      *)
(* gives them; no session outlives its absolute deadline by its idle one.  *)
THEOREM TypeCorrect == Spec => []TypeOK
  <1>1. IInv => TypeOK
    BY DEF IInv
  <1> QED BY <1>1, AccountsInvariant, PTL

(* A password reset leaves no session open that was signed in with the     *)
(* password before it, however sign-ins and switches interleave with it.   *)
THEOREM SessionsKnowThePassword == Spec => []OpenSessionsKnowThePassword
  <1>1. IInv => OpenSessionsKnowThePassword
    BY DEF IInv
  <1> QED BY <1>1, AccountsInvariant, PTL

(* Concurrent organization switches leave a sign-in one open session, and  *)
(* none carries it past the absolute deadline of the sign-in.              *)
THEOREM SignInsKeepOneSession == Spec => []OneOpenSessionPerSignIn
  <1>1. IInv => OneOpenSessionPerSignIn
    BY DEF IInv
  <1> QED BY <1>1, AccountsInvariant, PTL

(* No bucket admits more attempts between two resets than its limit.       *)
THEOREM AttemptsStayLimited == Spec => []AttemptsAreLimited
  <1>1. ASSUME IInv PROVE AttemptsAreLimited
    <2>1. TypeOK /\ Counted
      BY <1>1 DEF IInv
    <2>2. \A b \in Buckets : Limit(b) \in Nat
      <3>1. LoginAttempts \in Nat /\ MailAttempts \in Nat
        BY TimeAssumption
      <3> QED BY <3>1 DEF Limit
    <2>3. ASSUME NEW b \in Buckets, buckets[b] # None PROVE admitted[b] <= Limit(b)
      <3>1. /\ buckets[b].attempts \in Nat /\ admitted[b] \in Nat /\ Limit(b) \in Nat
            /\ admitted[b] <= buckets[b].attempts /\ buckets[b].attempts <= Limit(b)
        BY <2>1, <2>3, <2>2 DEF TypeOK, Bucket, Counted
      <3> QED BY <3>1
    <2>4. ASSUME NEW b \in Buckets, buckets[b] = None PROVE admitted[b] <= Limit(b)
      BY <2>1, <2>4, <2>2 DEF Counted
    <2> QED BY <2>3, <2>4 DEF AttemptsAreLimited
  <1> QED BY <1>1, AccountsInvariant, PTL

(* What a link that takes effect has not done before.                      *)
LinkUse ==
    Len(uses') > Len(uses) =>
        LET t == uses'[Len(uses')] IN
        /\ \A n \in DOMAIN uses : uses[n] # t
        /\ \E k \in DOMAIN issued :
            /\ issued[k] = t
            /\ \A n \in DOMAIN issued :
                /\ tokens[issued[n]].email = tokens[t].email
                /\ tokens[issued[n]].purpose = tokens[t].purpose
                => n <= k

LEMMA LinkUseStep == ASSUME IInv, [Next]_vars PROVE LinkUse
  <1>1. ASSUME NEW r \in Requests, CommitLink(r) PROVE LinkUse
    <2> DEFINE t == request[r].link
    <2>1. TypeOK /\ Linked /\ Sent(r) /\ Holds(r)
      BY DEF IInv, Own
    <2>2. phase[r] = "commit" /\ request[r].kind \in {"verify", "reset"} /\ uses' = Append(uses, t)
      BY <1>1 DEF CommitLink
    <2>3. t \in Requests /\ tokens[t] # None /\ ~tokens[t].consumed
      BY <2>1, <2>2, NameTypes DEF Sent, Holds
    <2>4. uses'[Len(uses')] = t
      BY <2>1, <2>2, <2>3 DEF TypeOK
    <2>5. \A n \in DOMAIN uses : uses[n] # t
      BY <2>1, <2>3 DEF Linked
    <2>6. PICK k \in DOMAIN issued : issued[k] = t
      BY <2>1, <2>3 DEF Linked
    <2>7. ASSUME NEW n \in DOMAIN issued, tokens[issued[n]].email = tokens[t].email,
                 tokens[issued[n]].purpose = tokens[t].purpose
          PROVE  n <= k
      <3>1. n \in Nat /\ k \in Nat
        BY <2>1 DEF TypeOK
      <3>2. ~(k < n)
        BY <2>1, <2>3, <2>6, <2>7 DEF Linked
      <3> QED BY <3>1, <3>2
    <2> HIDE DEF t
    <2> QED BY <2>4, <2>5, <2>6, <2>7 DEF LinkUse
  <1>2. ASSUME uses' = uses PROVE LinkUse
    <2>1. Len(uses) \in Nat
      BY DEF IInv, TypeOK
    <2> QED BY <1>2, <2>1 DEF LinkUse
  <1>3. ASSUME UNCHANGED history \/ UNCHANGED uses PROVE uses' = uses
    BY <1>3 DEF history
  <1>4. ASSUME NEW r \in Requests, Step(r) PROVE CommitLink(r) \/ uses' = uses
    BY <1>4, <1>3 DEF Step, ReadBucket, Charge, LockUser, LookForAccount, InsertUser, CreateAccount,
       Issue, Deliver, CheckPassword, ReplaceSession, ClearLogin, CommitLogin, LockLink,
       RevokeSessions, FindSession, TouchSession, LockSession, CommitSelect, Logout
  <1>5. ASSUME NEW r \in Requests, Arrive(r) \/ Rollback(r) PROVE uses' = uses
    BY <1>5, <1>3 DEF Arrive, Rollback
  <1>6. ASSUME (\E e \in Emails : Govern(e)) \/ Tick \/ UNCHANGED vars PROVE uses' = uses
    BY <1>6, <1>3 DEF Govern, Tick, vars
  <1> QED BY <1>1, <1>2, <1>4, <1>5, <1>6 DEF Next

(* A mailed link takes effect once, and only while it is the newest of its *)
(* account and purpose, however often and wherever it is posted.           *)
THEOREM LinksTakeEffectOnce == Spec => LinksWorkOnce
  <1>1. IInv /\ [Next]_vars => [LinkUse]_vars
    BY LinkUseStep
  <1> QED BY <1>1, AccountsInvariant, PTL DEF Spec, LinksWorkOnce, LinkUse

-----------------------------------------------------------------------------
(* Who waits for whom.                                                     *)

(* The order of the locks: user, link, session, bucket.  The tables of     *)
(* which a request holds rows while it executes a statement that may wait. *)
InLockOrder(r) ==
    LET p == phase[r] IN
    /\ p \in {"new", "bucket", "exists", "insert", "user", "find", "touch", "revoke",
              "mail", "done"} => locks[r] = {}
    /\ p \in {"check", "replace", "issue", "token", "session"} =>
        \A row \in locks[r] : row[1] = "user"
    /\ p = "sessions" => \A row \in locks[r] : row[1] \in {"user", "token"}
    /\ p = "clear" => \A row \in locks[r] : row[1] \in {"user", "session"}

LockOrder == \A r \in Requests : InLockOrder(r)

(* These are all the requests that keep the rows of a statement from it.   *)
LEMMA WaitingIsBlocking ==
  ASSUME NEW r \in Requests, \A q \in Requests : ~WaitsFor(r, q)
  PROVE  \A row \in NextRows(r) : Free(row, r)
  BY DEF WaitsFor, Free

(* The tables of the rows a statement may wait for.                        *)
LEMMA NextRowsAre ==
  ASSUME NEW r
  PROVE  /\ \A row \in NextRows(r) : row[1] \in {"user", "token", "session", "bucket", "address"}
         /\ \A row \in NextRows(r) :
                /\ row[1] = "user" => phase[r] = "user"
                /\ row[1] = "token" => phase[r] \in {"issue", "token"}
                /\ row[1] = "session" =>
                    phase[r] \in {"replace", "session", "sessions", "touch", "revoke"}
  <1> SUFFICES ASSUME NEW row \in NextRows(r)
               PROVE  /\ row[1] \in {"user", "token", "session", "bucket", "address"}
                      /\ row[1] = "user" => phase[r] = "user"
                      /\ row[1] = "token" => phase[r] \in {"issue", "token"}
                      /\ row[1] = "session" =>
                          phase[r] \in {"replace", "session", "sessions", "touch", "revoke"}
    OBVIOUS
  <1>1. CASE phase[r] \in {"bucket", "clear"}
    BY <1>1 DEF NextRows
  <1>2. CASE phase[r] = "user"
    BY <1>2 DEF NextRows
  <1>3. CASE phase[r] = "insert"
    BY <1>3 DEF NextRows
  <1>4. CASE phase[r] = "issue"
    <2>1. \E t : row = <<"token", t>>
      BY <1>4 DEF NextRows
    <2> QED BY <1>4, <2>1
  <1>5. CASE phase[r] = "replace"
    BY <1>5 DEF NextRows
  <1>6. CASE phase[r] = "token"
    BY <1>6 DEF NextRows
  <1>7. CASE phase[r] = "sessions"
    <2>1. \E s : row = <<"session", s>>
      BY <1>7 DEF NextRows
    <2> QED BY <1>7, <2>1
  <1>8. CASE phase[r] \in {"touch", "session"}
    BY <1>8 DEF NextRows
  <1>9. CASE phase[r] = "revoke"
    BY <1>9 DEF NextRows
  <1> QED BY <1>1, <1>2, <1>3, <1>4, <1>5, <1>6, <1>7, <1>8, <1>9 DEF NextRows

(* A request that holds nothing keeps every order.                         *)
LEMMA EmptyHanded ==
  ASSUME NEW r, locks'[r] = {}
  PROVE  InLockOrder(r)'
  BY DEF InLockOrder

(* A request that takes a step keeps to the order of the locks.            *)
LEMMA StepInLockOrder ==
  ASSUME IInv, LockOrder, NEW r \in Requests, Arrive(r) \/ Step(r) \/ Rollback(r)
  PROVE  /\ InLockOrder(r)'
         /\ \A q \in Requests \ {r} : phase'[q] = phase[q] /\ locks'[q] = locks[q]
  <1>1. TypeOK /\ Sent(r) /\ InLockOrder(r)
    BY DEF IInv, Own, LockOrder
  <1> DEFINE Others == \A q \in Requests \ {r} : phase'[q] = phase[q] /\ locks'[q] = locks[q]
  <1>2. ASSUME NEW p, NEW answer, End(r, p, answer)
        PROVE  Others /\ InLockOrder(r)'
    <2>1. Others /\ locks'[r] = {}
      BY <1>1, <1>2 DEF End, TypeOK
    <2> QED BY <2>1, EmptyHanded
  <1>3. ASSUME NEW answer, Finish(r, answer)
        PROVE  Others /\ InLockOrder(r)'
    BY <1>2, <1>3 DEF Finish
  <1>4. ASSUME NEW p, Goto(r, p)
        PROVE  Others /\ phase'[r] = p /\ locks' = locks
    BY <1>1, <1>4 DEF Goto, TypeOK
  <1>5. ASSUME NEW p, Goto(r, p), locks[r] = {}
        PROVE  Others /\ InLockOrder(r)'
    BY <1>4, <1>5, EmptyHanded
  <1>6. ASSUME NEW p, NEW rows, Acquire(r, rows, p)
        PROVE  Others /\ phase'[r] = p /\ locks'[r] = locks[r] \cup rows
    BY <1>1, <1>6 DEF Acquire, TypeOK
  <1>7. ASSUME phase'[r] \in {"charge", "create", "commit"}
        PROVE  InLockOrder(r)'
    BY <1>7 DEF InLockOrder
  <1> HIDE DEF Others
  <1>8. CASE Arrive(r)
    <2>1. locks[r] = {}
      BY <1>1, <1>8 DEF Arrive, InLockOrder
    <2>2. \/ \E p : Goto(r, p)
          \/ \E answer : Finish(r, answer)
      <3>1. request[r].kind \in Kind
        BY <1>1 DEF TypeOK, Request
      <3> QED BY <3>1, <1>8 DEF Arrive, Kind
    <2> QED BY <2>1, <2>2, <1>3, <1>5 DEF Others
  <1>9. CASE ReadBucket(r)
    BY <1>6, <1>7, <1>9 DEF ReadBucket, Others
  <1>10. CASE Charge(r)
    BY <1>2, <1>3, <1>10 DEF Charge, Others
  <1>11. CASE LockUser(r)
    <2>1. locks[r] = {} /\ phase[r] = "user"
      BY <1>1, <1>11 DEF LockUser, InLockOrder
    <2>2. AfterUser(request[r].kind) \in {"check", "issue", "token", "session"}
      BY <1>1, <2>1 DEF Sent, AfterUser
    <2> DEFINE rows == IF accounts[Subject(r)] = None THEN {} ELSE {<<"user", Subject(r)>>}
    <2>3. Acquire(r, rows, AfterUser(request[r].kind))
      BY <1>11 DEF LockUser
    <2>4. \A row \in rows : row[1] = "user"
      OBVIOUS
    <2> HIDE DEF rows
    <2>5. Others /\ phase'[r] = AfterUser(request[r].kind) /\ locks'[r] = rows
      BY <2>1, <2>3, <1>6
    <2> QED BY <2>2, <2>4, <2>5 DEF InLockOrder, Others
  <1>12. CASE LookForAccount(r)
    <2>1. locks[r] = {}
      BY <1>1, <1>12 DEF LookForAccount, InLockOrder
    <2> QED BY <2>1, <1>3, <1>5, <1>12 DEF LookForAccount, Others
  <1>13. CASE InsertUser(r)
    BY <1>3, <1>6, <1>7, <1>13 DEF InsertUser, Others
  <1>14. CASE CreateAccount(r)
    BY <1>2, <1>3, <1>14 DEF CreateAccount, Others
  <1>15. CASE Issue(r)
    BY <1>2, <1>3, <1>15 DEF Issue, Others
  <1>16. CASE CheckPassword(r)
    <2>1. phase[r] = "check" /\ (Goto(r, "replace") \/ Finish(r, "rejected"))
      BY <1>16 DEF CheckPassword
    <2>2. CASE Goto(r, "replace")
      BY <2>1, <2>2, <1>1, <1>4 DEF InLockOrder, Others
    <2> QED BY <2>1, <2>2, <1>3 DEF Others
  <1>17. CASE ReplaceSession(r)
    <2> DEFINE c == request[r].cookie
               rows == IF c = None \/ sessions[c].revoked THEN {} ELSE {<<"session", c>>}
    <2>1. phase[r] = "replace" /\ Acquire(r, rows, "clear")
      BY <1>17 DEF ReplaceSession
    <2>2. \A row \in rows : row[1] = "session"
      OBVIOUS
    <2> HIDE DEF rows
    <2>3. Others /\ phase'[r] = "clear" /\ locks'[r] = locks[r] \cup rows
      BY <2>1, <1>6
    <2>4. \A row \in locks[r] : row[1] = "user"
      BY <2>1, <1>1 DEF InLockOrder
    <2> QED BY <2>2, <2>3, <2>4 DEF InLockOrder, Others
  <1>18. CASE ClearLogin(r)
    BY <1>6, <1>7, <1>18 DEF ClearLogin, Others
  <1>19. CASE LockLink(r)
    <2> DEFINE rows == {<<"token", request[r].link>>}
    <2>1. \/ Finish(r, "rejected")
          \/ \E p \in {"sessions", "commit"} : Acquire(r, rows, p)
      BY <1>19 DEF LockLink
    <2>2. CASE \E p \in {"sessions", "commit"} : Acquire(r, rows, p)
      <3>1. \A row \in rows : row[1] = "token"
        OBVIOUS
      <3> HIDE DEF rows
      <3>2. Others /\ phase'[r] \in {"sessions", "commit"} /\ locks'[r] = locks[r] \cup rows
        BY <2>2, <1>6
      <3>3. \A row \in locks[r] : row[1] = "user"
        BY <1>1, <1>19 DEF LockLink, InLockOrder
      <3> QED BY <3>1, <3>2, <3>3 DEF InLockOrder, Others
    <2> QED BY <2>1, <2>2, <1>3 DEF Others
  <1>20. CASE RevokeSessions(r)
    BY <1>6, <1>7, <1>20 DEF RevokeSessions, Others
  <1>21. CASE FindSession(r)
    <2>1. locks[r] = {}
      BY <1>1, <1>21 DEF FindSession, InLockOrder
    <2> QED BY <2>1, <1>3, <1>5, <1>21 DEF FindSession, Others
  <1>22. CASE TouchSession(r)
    BY <1>2, <1>3, <1>22 DEF TouchSession, Others
  <1>23. CASE LockSession(r)
    BY <1>3, <1>6, <1>7, <1>23 DEF LockSession, Others
  <1>24. CASE CommitLogin(r) \/ CommitLink(r) \/ CommitSelect(r) \/ Logout(r) \/ Deliver(r)
              \/ Rollback(r)
    <2>1. \E answer : Finish(r, answer)
      BY <1>24 DEF CommitLogin, CommitLink, CommitSelect, Logout, Deliver, Rollback
    <2> QED BY <2>1, <1>3 DEF Others
  <1> QED BY <1>8, <1>9, <1>10, <1>11, <1>12, <1>13, <1>14, <1>15, <1>16, <1>17, <1>18, <1>19,
             <1>20, <1>21, <1>22, <1>23, <1>24 DEF Step, Others

(* Every step keeps the order of the locks.                                *)
LEMMA NextLockOrder == ASSUME IInv, LockOrder, [Next]_vars PROVE LockOrder'
  <1>1. CASE UNCHANGED <<phase, locks>>
    BY <1>1 DEF LockOrder, InLockOrder
  <1>2. ASSUME NEW r \in Requests, Arrive(r) \/ Step(r) \/ Rollback(r) PROVE LockOrder'
    <2>1. /\ InLockOrder(r)'
          /\ \A q \in Requests \ {r} : phase'[q] = phase[q] /\ locks'[q] = locks[q]
      BY <1>2, StepInLockOrder
    <2> QED BY <2>1 DEF LockOrder, InLockOrder
  <1>3. UNCHANGED vars \/ Tick \/ (\E e \in Emails : Govern(e)) => UNCHANGED <<phase, locks>>
    BY DEF vars, Tick, Govern
  <1> QED BY <1>1, <1>2, <1>3 DEF Next

(* How far a request that waits is along the order.                        *)
Rank(p) == CASE p = "clear" -> 4
             [] p = "sessions" -> 3
             [] p \in {"replace", "issue", "token", "session"} -> 2
             [] OTHER -> 1

(* Whoever is waited for and waits itself is further along.                *)
LEMMA WaitsGoUp ==
  ASSUME LockOrder, NEW r \in Requests, NEW q \in Requests, NEW p \in Requests,
         WaitsFor(r, q), WaitsFor(q, p)
  PROVE  Rank(phase[r]) < Rank(phase[q])
  <1>1. PICK row \in NextRows(r) : row \in locks[q]
    BY DEF WaitsFor
  <1>2. NextRows(q) # {} /\ InLockOrder(q)
    BY DEF WaitsFor, LockOrder
  <1>3. phase[q] \in {"bucket", "clear", "user", "insert", "issue", "replace", "token",
                      "sessions", "touch", "session", "revoke"}
    BY <1>2 DEF NextRows
  <1>4. phase[q] \in {"clear", "issue", "replace", "token", "sessions", "session"}
    BY <1>1, <1>2, <1>3 DEF InLockOrder
  <1>5. CASE phase[q] \in {"issue", "replace", "token", "session"}
    <2>1. row[1] = "user"
      BY <1>1, <1>2, <1>5 DEF InLockOrder
    <2>2. phase[r] = "user"
      BY <1>1, <2>1, NextRowsAre
    <2> QED BY <2>2, <1>5 DEF Rank
  <1>6. CASE phase[q] = "sessions"
    <2>1. row[1] \in {"user", "token"}
      BY <1>1, <1>2, <1>6 DEF InLockOrder
    <2>2. phase[r] \in {"user", "issue", "token"}
      BY <1>1, <2>1, NextRowsAre
    <2> QED BY <2>2, <1>6 DEF Rank
  <1>7. CASE phase[q] = "clear"
    <2>1. row[1] \in {"user", "session"}
      BY <1>1, <1>2, <1>7 DEF InLockOrder
    <2>2. phase[r] \in {"user", "replace", "session", "sessions", "touch", "revoke"}
      BY <1>1, <2>1, NextRowsAre
    <2> QED BY <2>2, <1>7 DEF Rank
  <1> QED BY <1>4, <1>5, <1>6, <1>7

(* So a row of waiting requests has an end: it is never longer than the    *)
(* order of the locks.                                                     *)
LEMMA NoCircle == ASSUME LockOrder PROVE NoCircularWait
  <1>1. ASSUME NEW r \in Requests, NEW q \in Requests, WaitsFor(r, q)
        PROVE  phase[q] \notin {"new", "done"}
    BY <1>1 DEF WaitsFor, LockOrder, InLockOrder
  <1> SUFFICES ASSUME NEW S \in SUBSET Requests, S # {},
                      \A r \in S : \E q \in S : WaitsFor(r, q)
               PROVE  FALSE
    BY <1>1 DEF NoCircularWait
  <1>2. ASSUME NEW r \in S
        PROVE  /\ Rank(phase[r]) \in 1..4
               /\ \E q \in S : Rank(phase[r]) < Rank(phase[q])
    <2>1. PICK q \in S : WaitsFor(r, q)
      OBVIOUS
    <2>2. PICK p \in S : WaitsFor(q, p)
      OBVIOUS
    <2>3. Rank(phase[r]) < Rank(phase[q])
      BY <2>1, <2>2, WaitsGoUp
    <2>4. Rank(phase[r]) \in 1..4
      BY DEF Rank
    <2> QED BY <2>3, <2>4
  <1>3. PICK r1 \in S : TRUE
    OBVIOUS
  <1>4. PICK r2 \in S : Rank(phase[r1]) < Rank(phase[r2])
    BY <1>2
  <1>5. PICK r3 \in S : Rank(phase[r2]) < Rank(phase[r3])
    BY <1>2
  <1>6. PICK r4 \in S : Rank(phase[r3]) < Rank(phase[r4])
    BY <1>2
  <1>7. PICK r5 \in S : Rank(phase[r4]) < Rank(phase[r5])
    BY <1>2
  <1>8. \A r \in {r1, r2, r3, r4, r5} : Rank(phase[r]) \in 1..4
    BY <1>2
  <1> QED BY <1>4, <1>5, <1>6, <1>7, <1>8

(* Transactions never wait for each other in a circle, nor for an ended    *)
(* one: in every group of requests, whichever accounts, sessions, links    *)
(* and buckets they share, one waits for nobody in the group.  Rows are    *)
(* locked in one order: the user, the link, the sessions, the bucket.      *)
THEOREM CirclesDoNotForm == Spec => []NoCircularWait
  <1>1. Init => LockOrder
    BY DEF Init, LockOrder, InLockOrder
  <1> QED BY <1>1, InitInv, NextInv, NextLockOrder, NoCircle, PTL DEF Spec
=============================================================================
