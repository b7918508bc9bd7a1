------------------------------ MODULE MCServer ------------------------------
(***************************************************************************)
(* Finite instances of Server: an editor and a commenter of one finding    *)
(* with as many administrators as there are identity connections, and one  *)
(* more request; or more requests that use both pools than either has      *)
(* connections.                                                            *)
(***************************************************************************)
EXTENDS Server, TLC

CONSTANTS r1, r2, r3, r4, r5

Mix(a, b, c, d, e) == (r1 :> a) @@ (r2 :> b) @@ (r3 :> c) @@ (r4 :> d) @@ (r5 :> e)
Burst == {Mix("manage", "comment", "govern", "govern", k) : k \in {"account", "post", "list"}}
Crowd == {Mix("list", "list", "manage", "manage", k) : k \in {"upload", "audit"}}
Hours == Burst \cup Crowd
=============================================================================
