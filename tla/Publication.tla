----------------------------- MODULE Publication -----------------------------
(***************************************************************************)
(* What the review pipeline promises the public, without the requests,     *)
(* sessions and locks that keep the promise: each time a review appears on *)
(* the page a moderator is approving it just then, approvals stay on       *)
(* record, and scores are computed from approved reviews only.             *)
(***************************************************************************)
CONSTANT Reviews

VARIABLES
    deciding,   \* reviews a moderator is about to approve
    shown,      \* reviews on the public page
    approved,   \* reviews with an approval on record
    counted     \* reviews the public scores were computed from

vars == <<deciding, shown, approved, counted>>

(* Moderators open reviews, and decide otherwise or give up.               *)
Deliberate ==
    /\ deciding' \in SUBSET Reviews
    /\ UNCHANGED <<shown, approved, counted>>

(* Scores may lag behind, but only ever over approved reviews.             *)
Recount == counted' \in SUBSET approved'

(* An approval is recorded as it takes effect.  Another moderator may be   *)
(* approving the same review, and one who saw it shown already changes     *)
(* nothing.                                                                *)
Approve(r) ==
    /\ r \in deciding
    /\ deciding' \in {deciding, deciding \ {r}}
    /\ approved' = approved \cup {r}
    /\ shown' \in {shown, shown \cup {r}}
    /\ Recount

(* Edits, refusals, withdrawals and closures take reviews off the page.    *)
Hide ==
    /\ shown' \in SUBSET shown
    /\ Recount
    /\ deciding' = deciding
    /\ approved' = approved

Init == deciding = {} /\ shown = {} /\ approved = {} /\ counted = {}

Next == Deliberate \/ Hide \/ \E r \in Reviews : Approve(r)

Spec == Init /\ [][Next]_vars
=============================================================================
