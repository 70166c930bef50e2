------------------------------- MODULE Photos -------------------------------
(***************************************************************************)
(* Photos of a property: a row in PostgreSQL and two objects in the media  *)
(* store, with no transaction between them (app/api/v1/photos.py,          *)
(* app/services/media.py, moderate_photo in app/api/v1/admin.py, and the   *)
(* photos of an account that closes, app/api/v1/users.py).                 *)
(*                                                                         *)
(*   upload:           full -> thumb -> commit                             *)
(*   delete, reject:   store -> commit                                     *)
(*   approve:          commit                                              *)
(*   close:            load -> store (photo by photo) -> commit            *)
(*                                                                         *)
(* A call to the store acts at once and does all it was asked (the keys an *)
(* answer may list as failed are not read); what the database session      *)
(* holds lands with the commit, or not at all.                             *)
(***************************************************************************)
EXTENDS Naturals, FiniteSets

CONSTANTS
    Workers,      \* requests that can be in flight at once
    Users,
    Admins,       \* those with role "admin"
    Photos,       \* ids, each with its storage key, of one property
    Owner,        \* Owner[p]: who uploads p
    Ops,          \* "upload", "delete", "approve", "reject", "close"
    NoUser, NoPhoto

Decisions == {"approve", "reject"}
AllOps == Decisions \cup {"upload", "delete", "close"}

ASSUME ConstantsOK ==
    /\ Admins \subseteq Users
    /\ Owner \in [Photos -> Users]
    /\ Ops \subseteq AllOps
    /\ NoUser \notin Users /\ NoPhoto \notin Photos

VARIABLES
    photo,      \* property_photos.moderation_status, or no row
    objects,    \* what the store has under the photo's key
    audit,      \* decisions in moderation_actions that refer to the photo
    active,     \* users.is_active
    identity,   \* the photo whose hash is properties.photo_hash
    req         \* the request each worker is running

rows == <<photo, audit, active, identity>>
vars == <<photo, objects, audit, active, identity, req>>

-----------------------------------------------------------------------------
Live == {"pending", "approved", "rejected"}
Exists(p) == photo[p] \in Live
Files == {"full", "thumb"}

Request ==
    [pc:   {"idle", "full", "thumb", "load", "store", "commit"},
     op:   AllOps \cup {"none"},
     me:   Users \cup {NoUser},
     own:  SUBSET Photos,                    \* the rows it will write
     left: SUBSET Photos,                    \* keys still to be deleted
     mine: Live \cup {"unused"},             \* the status as loaded
     hash: Photos \cup {NoPhoto}]            \* photo_hash as loaded

Idle == [pc |-> "idle", op |-> "none", me |-> NoUser, own |-> {}, left |-> {},
         mine |-> "unused", hash |-> NoPhoto]

At(w, pc, ops) == req[w].pc = pc /\ req[w].op \in ops
Become(w, r) == req' = [req EXCEPT ![w] = r]
(* get_current_user, then the handler: one request per idle worker.        *)
Begin(w, u, op) == op \in Ops /\ req[w].pc = "idle" /\ active[u]
Go(w, r) == Become(w, r) /\ UNCHANGED <<rows, objects>>
Drop(w) == Go(w, Idle)

-----------------------------------------------------------------------------
(* upload_photo: the bytes go to the store, then the row to the database.  *)
(* The storage key is random: nobody else has it.                          *)

Upload(w, p) ==
    /\ photo[p] = "unused" /\ objects[p] = {}
    /\ \A v \in Workers : ~(req[v].op = "upload" /\ p \in req[v].own)
    /\ Begin(w, Owner[p], "upload")
    /\ Go(w, [Idle EXCEPT !.pc = "full", !.op = "upload", !.me = Owner[p],
                          !.own = {p}, !.hash = identity])

PutFull(w) ==
    /\ req[w].pc = "full"
    /\ objects' = [p \in Photos |->
                     IF p \in req[w].own THEN objects[p] \cup {"full"} ELSE objects[p]]
    /\ Become(w, [req[w] EXCEPT !.pc = "thumb"])
    /\ UNCHANGED rows

PutThumb(w) ==
    /\ req[w].pc = "thumb"
    /\ objects' = [p \in Photos |->
                     IF p \in req[w].own THEN objects[p] \cup {"thumb"} ELSE objects[p]]
    /\ Become(w, [req[w] EXCEPT !.pc = "commit"])
    /\ UNCHANGED rows

CommitUpload(w) ==
    /\ At(w, "commit", {"upload"})
    /\ \E p \in req[w].own :
         /\ photo' = [photo EXCEPT ![p] = "pending"]
         /\ identity' = IF req[w].hash = NoPhoto THEN p ELSE identity
    /\ Become(w, Idle)
    /\ UNCHANGED <<objects, audit, active>>

-----------------------------------------------------------------------------
(* Requests about photos already there.                                    *)

(* delete_photo: the owner, or an admin.                                   *)
MayDelete(u, p) == Exists(p) /\ (u = Owner[p] \/ u \in Admins)

Delete(w, u, p) ==
    /\ MayDelete(u, p)
    /\ Begin(w, u, "delete")
    /\ Go(w, [Idle EXCEPT !.pc = "store", !.op = "delete", !.me = u,
                          !.own = {p}, !.left = {p}])

(* moderate_photo asks for no particular status; a rejection deletes the   *)
(* bytes before it commits.                                                *)
KeepsObjects(d) == d \in Decisions
Keeps(d) == d = "approve"

Moderate(w, u, p, d) ==
    /\ Exists(p) /\ u \in Admins
    /\ Begin(w, u, d)
    /\ Go(w, [Idle EXCEPT !.pc = IF Keeps(d) THEN "commit" ELSE "store",
                          !.op = d, !.me = u, !.own = {p},
                          !.left = IF Keeps(d) THEN {} ELSE {p},
                          !.mine = photo[p]])

Outcome(d) == IF d = "approve" THEN "approved" ELSE "rejected"

(* delete_my_account: the caller's photos, whatever their status.          *)
Close(w, u) ==
    /\ Begin(w, u, "close")
    /\ Go(w, [Idle EXCEPT !.pc = "load", !.op = "close", !.me = u])

LoadPhotos(w) ==
    LET mine == {p \in Photos : Owner[p] = req[w].me /\ Exists(p)} IN
    /\ req[w].pc = "load"
    /\ Go(w, [req[w] EXCEPT !.pc = IF mine = {} THEN "commit" ELSE "store",
                            !.own = mine, !.left = mine])

(* MediaStore.delete: both objects in one call, missing ones ignored.      *)
DeleteObjects(w) ==
    /\ req[w].pc = "store"
    /\ \E p \in req[w].left :
         LET left == req[w].left \ {p} IN
         /\ objects' = [objects EXCEPT ![p] = {}]
         /\ Become(w, [req[w] EXCEPT !.left = left,
                                     !.pc = IF left = {} THEN "commit" ELSE "store"])
    /\ UNCHANGED rows

-----------------------------------------------------------------------------
(* Commits.  moderation_actions.photo_id is a foreign key without ON       *)
(* DELETE: a row decided on cannot be deleted, nor a decision recorded on  *)
(* a row deleted meanwhile.  Deleting a row already gone is a warning.     *)

NoForeignKey(w) == TRUE
Deletable(w) == \A p \in req[w].own : audit[p] = {}

Withdrawn(w) == [p \in Photos |-> IF p \in req[w].own THEN "gone" ELSE photo[p]]

CommitDelete(w) ==
    /\ At(w, "commit", {"delete"})
    /\ Deletable(w)
    /\ photo' = Withdrawn(w)
    /\ Become(w, Idle)
    /\ UNCHANGED <<objects, audit, active, identity>>

CommitClose(w) ==
    /\ At(w, "commit", {"close"})
    /\ Deletable(w)
    /\ photo' = Withdrawn(w)
    /\ active' = [active EXCEPT ![req[w].me] = FALSE]
    /\ Become(w, Idle)
    /\ UNCHANGED <<objects, audit, identity>>

(* The session writes the status only if it differs from the one loaded.   *)
CommitDecision(w) ==
    LET r == req[w] IN
    /\ At(w, "commit", Decisions)
    /\ \A p \in r.own : Exists(p)
    /\ photo' = [p \in Photos |->
                   IF p \in r.own /\ Outcome(r.op) # r.mine THEN Outcome(r.op)
                   ELSE photo[p]]
    /\ audit' = [p \in Photos |-> IF p \in r.own THEN audit[p] \cup {r.op} ELSE audit[p]]
    /\ Become(w, Idle)
    /\ UNCHANGED <<objects, active, identity>>

(* The request ends in a 500; the store keeps what was done to it.         *)
CommitError(w) ==
    /\ \/ At(w, "commit", {"delete", "close"}) /\ ~Deletable(w)
       \/ At(w, "commit", Decisions) /\ \E p \in req[w].own : ~Exists(p)
    /\ Drop(w)

(* A lost worker, connection, or call to the store.                        *)
Crash(w) == req[w].pc # "idle" /\ Drop(w)

-----------------------------------------------------------------------------
Init ==
    /\ photo = [p \in Photos |-> "unused"]
    /\ objects = [p \in Photos |-> {}]
    /\ audit = [p \in Photos |-> {}]
    /\ active = [u \in Users |-> TRUE]
    /\ identity = NoPhoto
    /\ req = [w \in Workers |-> Idle]

Receive(w) ==
    \/ \E p \in Photos : Upload(w, p)
    \/ \E u \in Users, p \in Photos : \/ Delete(w, u, p)
                                      \/ \E d \in Decisions : Moderate(w, u, p, d)
    \/ \E u \in Users : Close(w, u)

Proceed(w) ==
    \/ PutFull(w) \/ PutThumb(w) \/ CommitUpload(w)
    \/ LoadPhotos(w) \/ DeleteObjects(w)
    \/ CommitDelete(w) \/ CommitClose(w) \/ CommitDecision(w) \/ CommitError(w)

Next == \E w \in Workers : Receive(w) \/ Proceed(w) \/ Crash(w)

Spec == Init /\ [][Next]_vars
-----------------------------------------------------------------------------
(* Properties.                                                             *)

(* Every row, object and request keeps its shape.                          *)
TypeOK ==
    /\ photo \in [Photos -> Live \cup {"unused", "gone"}]
    /\ objects \in [Photos -> SUBSET Files]
    /\ audit \in [Photos -> SUBSET Decisions]
    /\ active \in [Users -> BOOLEAN]
    /\ identity \in Photos \cup {NoPhoto}
    /\ req \in [Workers -> Request]

(* "A rejected photo has no reason to keep occupying disk"                 *)
(* (moderate_photo), and a withdrawn one no right to: wherever requests    *)
(* die, and however uploads, decisions, deletions and closures interleave, *)
(* a photo rejected or withdrawn has no bytes left in the store.           *)
WithdrawnLeavesNothing ==
    \A p \in Photos : photo[p] \in {"gone", "rejected"} => objects[p] = {}

(* A decision on record keeps its photo: a deletion or a closure in flight *)
(* with the decision does not remove the row from under it                 *)
(* (moderation_actions.photo_id).                                          *)
DecidedPhotosStay == \A p \in Photos : audit[p] # {} => Exists(p)

(* "Photos are tied to an identifiable place and were uploaded by this     *)
(* person, so they go regardless" (delete_my_account): a closure that has  *)
(* deleted the bytes can also delete the rows and close the account.       *)
ClosuresCommit ==
    \A w \in Workers : At(w, "commit", {"close"}) => Deletable(w)

(* Wherever requests interleave and die between the two stores, photos     *)
(* change only as Gallery says: a row appears after its files, its files   *)
(* go before it does, and do not come back (upload_photo, delete_photo,    *)
(* moderate_photo, delete_my_account).                                     *)
GalleryView ==
    INSTANCE Gallery WITH
        row     <- photo,
        files   <- objects,
        decided <- {p \in Photos : audit[p] # {}}

ImplementsGallery == GalleryView!Spec
=============================================================================
