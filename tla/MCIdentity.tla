------------------------------ MODULE MCIdentity ------------------------------
(* A street of four points, three to a geohash cell; dedup radius 1, photo *)
(* radius 3.  Photos are numbers, alike when they differ by at most one,   *)
(* so likeness is not transitive; "1 Oak St" is written in two ways.       *)
EXTENDS Identity, TLC

CONSTANTS w1, w2, i1, i2, i3

Alike(a, b) == Dist(a, b) <= 1
Plain(address) == IF address = "1 oak st." THEN "1 oak street" ELSE address

Pin(at, address, photo, approximate) ==
    [at |-> at, area |-> "lek", address |-> address, photo |-> photo,
     approximate |-> approximate]

Sent ==
    {Pin(0, "1 oak street", NoPhoto, FALSE),
     Pin(1, NoAddress, 5, FALSE),
     Pin(3, "1 oak st.", 6, FALSE),
     Pin(2, "1 oak st.", NoPhoto, TRUE),
     Pin(2, "9 elm street", 7, TRUE)}

(* Requests and row ids are interchangeable.                               *)
Symmetric == Permutations({w1, w2}) \cup Permutations({i1, i2, i3})

Mapped == {Pin(1, "niger towers", NoPhoto, FALSE), Pin(3, "palm estate", NoPhoto, TRUE)}
=============================================================================
