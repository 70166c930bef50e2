------------------------------ MODULE MCReviews ------------------------------
(* Small instances of Reviews: reviews of one property by one tenant, the  *)
(* second with the later tenancy.  "plain" passes check_text, "risky" does *)
(* not; both carry a rent.                                                 *)
EXTENDS Reviews

CONSTANTS r1, r2, u1, u2, p1, plain, risky

SameAuthor  == [r \in Reviews |-> u1]
OneHome     == [r \in Reviews |-> p1]
LaterIsR2   == [r \in Reviews |-> IF r = r1 THEN 1 ELSE 2]
RentOf      == [c \in Contents |-> IF c = plain THEN 5 ELSE 7]

=============================================================================
