----------------------------- MODULE MCAccounts -----------------------------
(***************************************************************************)
(* Finite instances of Accounts.                                           *)
(***************************************************************************)
EXTENDS Accounts, TLC

CONSTANTS ann, bob, weak, strong, wrong, acme, bolt, c1, c2, r1, r2, r3, r4

Filler == [kind |-> "me", email |-> ann, password |-> weak, cookie |-> None,
           link |-> None, org |-> None]
Ask(kind, email) == [Filler EXCEPT !.kind = kind, !.email = email]
SignUp(email, password) == [Ask("register", email) EXCEPT !.password = password]
SignIn(email, password, cookie) ==
    [Ask("login", email) EXCEPT !.password = password, !.cookie = cookie]
Reset(link, password) == [Filler EXCEPT !.kind = "reset", !.link = link, !.password = password]
Verify(link) == [Filler EXCEPT !.kind = "verify", !.link = link]
With(kind, cookie) == [Filler EXCEPT !.kind = kind, !.cookie = cookie]
Switch(cookie, org) == [With("select", cookie) EXCEPT !.org = org]

Fresh(password) == [password |-> password, verified |-> TRUE, active |-> TRUE]
Registered == [e \in Emails |-> Fresh(weak)]
Unverified == [Registered EXCEPT ![ann].verified = FALSE]
Nobody == [e \in Emails |-> None]
AnnsAndBobs == [c \in {c1, c2} |-> [email |-> IF c = c1 THEN ann ELSE bob,
                                   org |-> IF c = c1 THEN acme ELSE None]]
Anns == [AnnsAndBobs EXCEPT ![c2] = None]
NoSessions == [Anns EXCEPT ![c1] = None]
Fixed == [e \in Emails |-> {}]
Moving == [e \in Emails |-> IF e = ann THEN {{acme}} ELSE {}]

(* Every account belongs to both organizations; one body per request.      *)
Brief == [horizon |-> 1, rosters |-> Fixed]
Long == [horizon |-> 3, rosters |-> Moving]
From(limits, accs, opened, A, B, C, D) ==
    {[bounds |-> limits, accounts |-> accs, seats |-> [e \in Emails |-> {acme, bolt}], opened |-> opened,
      request |-> (r1 :> a) @@ (r2 :> b) @@ (r3 :> c) @@ (r4 :> d)] :
        a \in A, b \in B, c \in C, d \in D}
(* A cookie nobody has: the request is never sent.                         *)
Unsent == {With("me", c2)}

(* A session is used, switched and replaced up to its deadlines; guesses   *)
(* at one password, and the owner's own sign-in.                           *)
Ageing ==
    From(Long, Registered, Anns, {Switch(c1, bolt)},
         {Switch(r1, acme), Switch(c1, acme), With("me", r1)},
         {With("me", c1), SignIn(ann, weak, c1), With("logout", r1), Switch(r2, bolt)}, Unsent)
Guessing ==
    From(Long, Registered, NoSessions, {SignIn(ann, wrong, None)},
         {SignIn(ann, wrong, None)}, {SignIn(ann, wrong, None), SignIn(ann, weak, None)}, Unsent)

(* A password is reset while the account signs in, switches organization   *)
(* in two tabs, signs out, and works.                                      *)
Resetting ==
    From(Brief, Registered, Anns, {Ask("forgot", ann)}, {Reset(r1, strong)},
         {SignIn(ann, weak, None), Switch(c1, bolt)},
         {Switch(c1, bolt), Switch(r3, acme), With("logout", c1), SignIn(ann, strong, c1)})

(* Links are requested, replaced and posted twice.                         *)
Mailing ==
    From(Brief, Unverified, Anns, {Ask("forgot", ann), Ask("resend", ann)},
         {Ask("forgot", ann), Ask("resend", ann)}, {Reset(r1, strong), Verify(r1)},
         {Reset(r1, wrong), Reset(r2, wrong), Verify(r2)})

(* An address is registered twice at once, and its owner recovers it.      *)
Joining ==
    From(Brief, Nobody, NoSessions, {SignUp(ann, weak)}, {SignUp(ann, strong)},
         {Verify(r1), Ask("forgot", ann)}, {Reset(r3, strong), Verify(r2)})

(* Requests that hold one row of another account while they wait.          *)
Crossing ==
    From(Brief, Registered, AnnsAndBobs, {Ask("forgot", ann)}, {Reset(r1, strong)},
         {SignIn(bob, weak, c1), Switch(c1, bolt)},
         {SignIn(ann, weak, c2), SignIn(bob, weak, c2), With("me", c1)})
Scenes == Resetting \cup Mailing \cup Joining \cup Crossing \cup Ageing \cup Guessing
=============================================================================
