------------------------------- MODULE Gallery -------------------------------
(***************************************************************************)
(* What a gallery of photos promises over a database and a media store     *)
(* that share no transaction: a photo appears once its files are all       *)
(* there, files once deleted do not come back, a photo is rejected or      *)
(* withdrawn only after its files are gone, and a decision on record keeps *)
(* its photo.                                                              *)
(***************************************************************************)
CONSTANTS Photos, Files

VARIABLES
    row,       \* each photo's status, "unused" before and "gone" after
    files,     \* what the store has of it
    decided    \* photos with a decision on record

vars == <<row, files, decided>>

Visible == {"pending", "approved", "rejected"}

(* An upload that breaks off leaves files no row will ever refer to.       *)
Store(p) ==
    /\ row[p] = "unused"
    /\ \E f \in Files : files' = [files EXCEPT ![p] = @ \cup {f}]
    /\ UNCHANGED <<row, decided>>

Post(p) ==
    /\ row[p] = "unused" /\ files[p] = Files
    /\ row' = [row EXCEPT ![p] = "pending"]
    /\ UNCHANGED <<files, decided>>

(* Files go first, whatever then becomes of the row.                       *)
Erase(p) ==
    /\ row[p] # "unused"
    /\ files' = [files EXCEPT ![p] = {}]
    /\ UNCHANGED <<row, decided>>

(* A moderator who saw the photo decided that way already changes nothing  *)
(* but the record.                                                         *)
Decide(p, outcome) ==
    /\ row[p] \in Visible
    /\ outcome = "rejected" => files[p] = {}
    /\ row' \in {row, [row EXCEPT ![p] = outcome]}
    /\ decided' = decided \cup {p}
    /\ files' = files

Withdraw(S) ==
    /\ S \cap decided = {}
    /\ \A p \in S : row[p] # "unused" /\ files[p] = {}
    /\ row' = [p \in Photos |-> IF p \in S THEN "gone" ELSE row[p]]
    /\ UNCHANGED <<files, decided>>

Init ==
    /\ row = [p \in Photos |-> "unused"]
    /\ files = [p \in Photos |-> {}]
    /\ decided = {}

Next ==
    \/ \E p \in Photos : \/ Store(p) \/ Post(p) \/ Erase(p)
                         \/ \E outcome \in {"approved", "rejected"} : Decide(p, outcome)
    \/ \E S \in SUBSET Photos : Withdraw(S)

Spec == Init /\ [][Next]_vars
=============================================================================
