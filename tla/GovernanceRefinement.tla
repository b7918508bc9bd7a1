------------------------ MODULE GovernanceRefinement ------------------------
(***************************************************************************)
(* Governance implements Roster: the offers are the PENDING invitations,   *)
(* and every committed change is one act of the abstract roster, made by   *)
(* somebody who is entitled to it at that moment.                          *)
(***************************************************************************)
EXTENDS Governance

Offers == {[user |-> invitations[n].user, role |-> invitations[n].role] :
              n \in {k \in DOMAIN invitations : Pending(k)}}

LastAuthor == IF events = <<>> THEN "nobody" ELSE events[Len(events)].actor

R == INSTANCE Roster WITH name <- organization.name, members <- members,
                          offers <- Offers, author <- LastAuthor

(* The services, their locks and their second look at the membership add   *)
(* up to the roster users are promised.                                    *)
ImplementsRoster == R!Spec
=============================================================================
