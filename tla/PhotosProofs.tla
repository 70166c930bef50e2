---------------------------- MODULE PhotosProofs ----------------------------
(***************************************************************************)
(* Theorems about Photos, for any number of workers, users and photos, and *)
(* any interleaving of their requests and crashes.                         *)
(***************************************************************************)
EXTENDS Photos, TLAPS

USE DEF At, Become, Go, Drop, rows

(* What a request in flight may rely on.  An upload works on a key without *)
(* a row, and what it has stored stays; every other request works on       *)
(* photos that have or had a row, and what it has deleted from the store   *)
(* stays deleted, since nobody uploads to that key again.                  *)
Withdraws(r) == r.op \in {"delete", "reject", "close"}

Shape(r) ==
    /\ r.pc \in {"full", "thumb"} => r.op = "upload"
    /\ r.pc = "load" => r.op = "close" /\ r.own = {}
    /\ r.pc = "idle" => r.own = {}
    /\ r.pc = "commit" => r.left = {}
    /\ r.left \subseteq r.own
    /\ r.op = "upload" => r.left = {}
    /\ r.pc = "store" => Withdraws(r)
    /\ r.op \in Decisions \cup {"upload"} => \E p \in Photos : r.own = {p}

Rows(r) == \A p \in r.own : photo[p] = "unused" <=> r.op = "upload"

Emptied(r) == Withdraws(r) => \A p \in r.own \ r.left : objects[p] = {}

Stored(r) ==
    r.op = "upload" => \A p \in r.own : /\ r.pc = "thumb" => "full" \in objects[p]
                                        /\ r.pc = "commit" => objects[p] = Files

RequestOK(r) == Shape(r) /\ Rows(r) /\ Emptied(r) /\ Stored(r)

UploadsApart ==
    \A v, w \in Workers :
      v # w /\ req[v].op = "upload" /\ req[w].op = "upload" =>
        req[v].own \cap req[w].own = {}

Inv == /\ TypeOK
       /\ WithdrawnLeavesNothing
       /\ DecidedPhotosStay
       /\ UploadsApart
       /\ \A w \in Workers : RequestOK(req[w])

-----------------------------------------------------------------------------
LEMMA IdleOK == Idle \in Request /\ RequestOK(Idle)
BY DEF Idle, Request, RequestOK, Shape, Rows, Emptied, Stored, Withdraws, AllOps, Decisions, Live

LEMMA InvInit == Init => Inv
<1> SUFFICES ASSUME Init PROVE Inv
    OBVIOUS
<1>1. TypeOK
  BY IdleOK DEF Init, TypeOK, Live
<1>2. WithdrawnLeavesNothing /\ DecidedPhotosStay
  BY DEF Init, WithdrawnLeavesNothing, DecidedPhotosStay
<1>3. UploadsApart
  BY DEF Init, UploadsApart, Idle
<1>4. ASSUME NEW w \in Workers PROVE RequestOK(req[w])
  <2>1. req[w] = Idle
    BY DEF Init
  <2> QED BY <2>1, IdleOK
<1> QED BY <1>1, <1>2, <1>3, <1>4 DEF Inv

(* A step that writes only its own request.                                *)
LEMMA InvAdvance ==
    ASSUME Inv, NEW w \in Workers, NEW r \in Request, RequestOK(r),
           req' = [req EXCEPT ![w] = r], UNCHANGED <<rows, objects>>,
           r.op = "upload" =>
             \A v \in Workers \ {w} : req[v].op = "upload" => req[v].own \cap r.own = {}
    PROVE  Inv'
<1>1. TypeOK'
  BY DEF Inv, TypeOK
<1>2. WithdrawnLeavesNothing' /\ DecidedPhotosStay'
  BY DEF Inv, WithdrawnLeavesNothing, DecidedPhotosStay, Exists
<1>3. UploadsApart'
  BY DEF Inv, UploadsApart, TypeOK
<1>4. ASSUME NEW v \in Workers PROVE RequestOK(req[v])'
  <2>1. req'[v] = IF v = w THEN r ELSE req[v]
    BY DEF Inv, TypeOK
  <2>2. RequestOK(req'[v])
    BY <2>1 DEF Inv
  <2> QED BY <2>2 DEF RequestOK, Shape, Rows, Emptied, Stored, Withdraws
<1> QED BY <1>1, <1>2, <1>3, <1>4 DEF Inv

LEMMA InvDrop ==
    ASSUME Inv, NEW w \in Workers, Drop(w)
    PROVE  Inv'
<1>1. Idle.op # "upload"
  BY DEF Idle
<1> QED BY <1>1, IdleOK, InvAdvance

LEMMA InvReceive ==
    ASSUME Inv, NEW w \in Workers, Receive(w)
    PROVE  Inv'
<1> USE DEF Request, Idle, AllOps, Decisions, Live
<1>1. ASSUME NEW p \in Photos, Upload(w, p) PROVE Inv'
  <2> DEFINE r == [Idle EXCEPT !.pc = "full", !.op = "upload", !.me = Owner[p],
                               !.own = {p}, !.hash = identity]
  <2>1. Become(w, r) /\ UNCHANGED <<rows, objects>> /\ photo[p] = "unused"
    BY <1>1 DEF Upload
  <2>2. r \in Request
    BY ConstantsOK DEF ConstantsOK, Inv, TypeOK
  <2>3. RequestOK(r)
    BY <2>1 DEF RequestOK, Shape, Rows, Emptied, Stored, Withdraws
  <2>4. \A v \in Workers \ {w} : req[v].op = "upload" => req[v].own \cap r.own = {}
    BY <1>1 DEF Upload
  <2> HIDE DEF r
  <2> QED BY <2>1, <2>2, <2>3, <2>4, InvAdvance
<1>2. ASSUME NEW u \in Users, NEW p \in Photos, Delete(w, u, p) PROVE Inv'
  <2> DEFINE r == [Idle EXCEPT !.pc = "store", !.op = "delete", !.me = u,
                               !.own = {p}, !.left = {p}]
  <2>1. Become(w, r) /\ UNCHANGED <<rows, objects>> /\ Exists(p)
    BY <1>2 DEF Delete, MayDelete
  <2>2. r \in Request /\ r.op # "upload"
    OBVIOUS
  <2>3. RequestOK(r)
    BY <2>1 DEF RequestOK, Shape, Rows, Emptied, Stored, Withdraws, Exists
  <2> HIDE DEF r
  <2> QED BY <2>1, <2>2, <2>3, InvAdvance
<1>3. ASSUME NEW u \in Users, NEW p \in Photos, NEW d \in Decisions, Moderate(w, u, p, d)
      PROVE Inv'
  <2> DEFINE r == [Idle EXCEPT !.pc = IF Keeps(d) THEN "commit" ELSE "store",
                               !.op = d, !.me = u, !.own = {p},
                               !.left = IF Keeps(d) THEN {} ELSE {p},
                               !.mine = photo[p]]
  <2>1. Become(w, r) /\ UNCHANGED <<rows, objects>> /\ Exists(p)
    BY <1>3 DEF Moderate
  <2>2. r \in Request /\ r.op # "upload"
    BY <2>1 DEF Exists
  <2>3. RequestOK(r)
    BY <2>1 DEF RequestOK, Shape, Rows, Emptied, Stored, Withdraws, Exists, Keeps
  <2> HIDE DEF r
  <2> QED BY <2>1, <2>2, <2>3, InvAdvance
<1>4. ASSUME NEW u \in Users, Close(w, u) PROVE Inv'
  <2> DEFINE r == [Idle EXCEPT !.pc = "load", !.op = "close", !.me = u]
  <2>1. Become(w, r) /\ UNCHANGED <<rows, objects>>
    BY <1>4 DEF Close
  <2>2. r \in Request /\ r.op # "upload"
    OBVIOUS
  <2>3. RequestOK(r)
    BY DEF RequestOK, Shape, Rows, Emptied, Stored, Withdraws
  <2> HIDE DEF r
  <2> QED BY <2>1, <2>2, <2>3, InvAdvance
<1> QED BY <1>1, <1>2, <1>3, <1>4 DEF Receive

(* An upload writes objects under a key without a row: no other request    *)
(* and no withdrawn photo has it.                                          *)
LEMMA InvPut ==
    ASSUME Inv, NEW w \in Workers, PutFull(w) \/ PutThumb(w)
    PROVE  Inv'
<1>0. /\ req[w] \in Request /\ req \in [Workers -> Request] /\ RequestOK(req[w])
      /\ objects \in [Photos -> SUBSET Files]
  BY DEF Inv, TypeOK
<1>1. req[w].pc \in {"full", "thumb"} /\ UNCHANGED rows
  BY DEF PutFull, PutThumb
<1>2. PICK s \in {"thumb", "commit"}, f \in Files :
        /\ req' = [req EXCEPT ![w] = [req[w] EXCEPT !.pc = s]]
        /\ objects' = [p \in Photos |->
                         IF p \in req[w].own THEN objects[p] \cup {f} ELSE objects[p]]
        /\ \/ s = "thumb" /\ f = "full"
           \/ s = "commit" /\ f = "thumb" /\ req[w].pc = "thumb"
  BY DEF PutFull, PutThumb, Files
<1>3. \A p \in Photos : objects[p] \subseteq objects'[p] /\ objects'[p] \subseteq Files
  BY <1>0, <1>2
<1>4. [req[w] EXCEPT !.pc = s] \in Request /\ objects' \in [Photos -> SUBSET Files]
  BY <1>0, <1>2 DEF Request
<1>5. TypeOK'
  BY <1>0, <1>1, <1>2, <1>4 DEF Inv, TypeOK
<1>6. req[w].op = "upload" /\ \A p \in req[w].own : photo[p] = "unused"
  BY <1>0, <1>1 DEF RequestOK, Shape, Rows
<1>7. \A p \in Photos : photo[p] # "unused" => objects'[p] = objects[p]
  BY <1>2, <1>6
<1>8. WithdrawnLeavesNothing' /\ DecidedPhotosStay'
  BY <1>1, <1>7 DEF Inv, WithdrawnLeavesNothing, DecidedPhotosStay, Exists
<1>9. \A v \in Workers : req'[v].op = req[v].op /\ req'[v].own = req[v].own
  BY <1>0, <1>2 DEF Request
<1>10. UploadsApart'
  BY <1>9 DEF Inv, UploadsApart
<1>11. ASSUME NEW v \in Workers PROVE RequestOK(req[v])'
  <2>1. CASE v = w
    <3>1. /\ req'[v].pc = s /\ req'[v].op = "upload" /\ req'[v].own = req[w].own
          /\ req'[v].left = req[w].left
      BY <1>0, <1>2, <1>6, <2>1 DEF Request
    <3>2. req[w].left = {}
      BY <1>0, <1>1, <1>6 DEF RequestOK, Shape, Withdraws
    <3>3. Stored(req[v])'
      <4>1. \A p \in req[w].own : p \in Photos /\ objects'[p] = objects[p] \cup {f}
        BY <1>0, <1>2 DEF Request
      <4>2. req[w].pc = "thumb" => \A p \in req[w].own : "full" \in objects[p]
        BY <1>0, <1>6 DEF RequestOK, Stored
      <4> QED BY <1>2, <1>3, <3>1, <4>1, <4>2 DEF Stored, Files
    <3>4. (Shape(req[v]) /\ Rows(req[v]) /\ Emptied(req[v]))'
      BY <1>0, <1>1, <1>2, <1>6, <3>1, <3>2
         DEF RequestOK, Shape, Rows, Emptied, Withdraws
    <3> QED BY <3>3, <3>4 DEF RequestOK
  <2>2. CASE v # w
    <3>1. req'[v] = req[v] /\ RequestOK(req[v]) /\ req[v] \in Request
      BY <1>0, <1>2, <2>2 DEF Inv, TypeOK
    <3>2. \A p \in req[v].own : Withdraws(req[v]) => objects'[p] = objects[p]
      BY <1>7, <3>1 DEF RequestOK, Rows, Withdraws, Request
    <3>3. Stored(req[v])'
      BY <1>3, <3>1 DEF RequestOK, Stored, Request, Files
    <3> QED BY <1>1, <3>1, <3>2, <3>3 DEF RequestOK, Shape, Rows, Emptied, Withdraws
  <2> QED BY <2>1, <2>2
<1> QED BY <1>5, <1>8, <1>10, <1>11 DEF Inv

LEMMA InvLoadPhotos ==
    ASSUME Inv, NEW w \in Workers, LoadPhotos(w)
    PROVE  Inv'
<1> DEFINE own == {p \in Photos : Owner[p] = req[w].me /\ Exists(p)}
           r == [req[w] EXCEPT !.pc = IF own = {} THEN "commit" ELSE "store",
                               !.own = own, !.left = own]
<1>0. req[w] \in Request /\ req[w].pc = "load" /\ Shape(req[w])
  BY DEF LoadPhotos, Inv, TypeOK, RequestOK
<1>1. req[w].op = "close"
  BY <1>0 DEF Shape
<1>2. Become(w, r) /\ UNCHANGED <<rows, objects>>
  BY DEF LoadPhotos
<1>3. r \in Request /\ r.op = "close" /\ r.own = own /\ r.left = own
      /\ r.pc = IF own = {} THEN "commit" ELSE "store"
  BY <1>0, <1>1 DEF Request
<1> HIDE DEF r
<1>4. RequestOK(r)
  BY <1>3 DEF RequestOK, Shape, Rows, Emptied, Stored, Withdraws, Exists, Live, Decisions
<1> QED BY <1>2, <1>3, <1>4, InvAdvance

(* Emptying a key disturbs nobody.                                         *)
LEMMA InvDeleteObjects ==
    ASSUME Inv, NEW w \in Workers, DeleteObjects(w)
    PROVE  Inv'
<1>1. PICK p \in req[w].left :
        /\ objects' = [objects EXCEPT ![p] = {}]
        /\ req' = [req EXCEPT ![w] = [req[w] EXCEPT
               !.left = req[w].left \ {p},
               !.pc = IF req[w].left \ {p} = {} THEN "commit" ELSE "store"]]
  BY DEF DeleteObjects
<1> DEFINE left == req[w].left \ {p}
           r == [req[w] EXCEPT !.left = left,
                               !.pc = IF left = {} THEN "commit" ELSE "store"]
<1>0. /\ req[w] \in Request /\ req[w].pc = "store" /\ RequestOK(req[w])
      /\ req \in [Workers -> Request] /\ objects \in [Photos -> SUBSET Files]
      /\ UNCHANGED rows
  BY DEF DeleteObjects, Inv, TypeOK
<1>2. p \in Photos /\ p \in req[w].own
  BY <1>0, <1>1 DEF Request, RequestOK, Shape
<1>3. r \in Request /\ r.op = req[w].op /\ r.own = req[w].own /\ r.left = left
      /\ r.pc = IF left = {} THEN "commit" ELSE "store"
  BY <1>0 DEF Request
<1>4. req' = [req EXCEPT ![w] = r]
  BY <1>1
<1> HIDE DEF r
<1>5. \A q \in Photos : objects'[q] = IF q = p THEN {} ELSE objects[q]
  BY <1>0, <1>1
<1>6. TypeOK'
  BY <1>0, <1>1, <1>3, <1>4 DEF Inv, TypeOK
<1>7. WithdrawnLeavesNothing' /\ DecidedPhotosStay'
  BY <1>0, <1>5 DEF Inv, WithdrawnLeavesNothing, DecidedPhotosStay, Exists
<1>8. \A v \in Workers : req'[v].op = req[v].op /\ req'[v].own = req[v].own
  BY <1>0, <1>3, <1>4
<1>9. UploadsApart'
  BY <1>8 DEF Inv, UploadsApart
<1>10. ASSUME NEW v \in Workers PROVE RequestOK(req[v])'
  <2>1. req[v] \in Request /\ RequestOK(req[v])
    BY <1>0 DEF Inv
  <2>2. CASE v = w
    <3>1. req'[v] = r
      BY <1>0, <1>4, <2>2
    <3>2. Shape(r) /\ Withdraws(req[w]) /\ r.op # "upload"
      BY <1>0, <1>3 DEF RequestOK, Shape, Withdraws
    <3>3. \A q \in r.own : photo'[q] = "unused" <=> r.op = "upload"
      BY <1>0, <1>3 DEF RequestOK, Rows
    <3>4. ASSUME NEW q \in r.own \ r.left PROVE objects'[q] = {}
      <4>1. q \in Photos /\ (q = p \/ q \in req[w].own \ req[w].left)
        BY <1>0, <1>3 DEF Request
      <4> QED BY <1>0, <1>5, <3>2, <4>1 DEF RequestOK, Emptied
    <3>5. (Shape(req[v]) /\ Rows(req[v]) /\ Emptied(req[v]) /\ Stored(req[v]))'
      BY <3>1, <3>2, <3>3, <3>4 DEF Shape, Rows, Emptied, Stored, Withdraws, Decisions
    <3> QED BY <3>5 DEF RequestOK
  <2>3. CASE v # w
    <3>1. req'[v] = req[v]
      BY <1>0, <1>4, <2>3
    <3>2. \A q \in req[v].own : objects[q] = {} => objects'[q] = {}
      BY <1>5, <2>1 DEF Request
    <3>3. photo[p] # "unused"
      BY <1>0, <1>2 DEF RequestOK, Shape, Rows, Withdraws
    <3>4. req[v].op = "upload" => \A q \in req[v].own : objects'[q] = objects[q]
      BY <1>5, <2>1, <3>3 DEF RequestOK, Rows, Request
    <3> QED BY <1>0, <2>1, <3>1, <3>2, <3>4
            DEF RequestOK, Shape, Rows, Emptied, Stored, Withdraws
  <2> QED BY <2>2, <2>3
<1> QED BY <1>6, <1>7, <1>9, <1>10 DEF Inv

(* A commit ends its request; the photos of the others keep or lack their  *)
(* row as before.                                                          *)
LEMMA InvCommit ==
    ASSUME Inv, NEW w \in Workers, req' = [req EXCEPT ![w] = Idle], UNCHANGED objects,
           TypeOK', WithdrawnLeavesNothing', DecidedPhotosStay',
           \A v \in Workers \ {w} : \A p \in req[v].own :
             photo'[p] = "unused" <=> photo[p] = "unused"
    PROVE  Inv'
<1>1. UploadsApart'
  BY DEF Inv, UploadsApart, TypeOK, Idle
<1>2. ASSUME NEW v \in Workers PROVE RequestOK(req[v])'
  <2>1. CASE v = w
    <3>1. req'[v] = Idle
      BY <2>1 DEF Inv, TypeOK
    <3> QED BY <3>1 DEF RequestOK, Shape, Rows, Emptied, Stored, Withdraws, Idle, Decisions
  <2>2. CASE v # w
    <3>1. req'[v] = req[v] /\ RequestOK(req[v])
      BY <2>2 DEF Inv, TypeOK
    <3> QED BY <2>2, <3>1 DEF RequestOK, Shape, Rows, Emptied, Stored, Withdraws
  <2> QED BY <2>1, <2>2
<1> QED BY <1>1, <1>2 DEF Inv

LEMMA InvCommitUpload ==
    ASSUME Inv, NEW w \in Workers, CommitUpload(w)
    PROVE  Inv'
<1>0. /\ req[w] \in Request /\ req[w].op = "upload" /\ Rows(req[w])
      /\ UNCHANGED <<objects, audit, active>>
  BY DEF CommitUpload, Inv, TypeOK, RequestOK
<1>1. PICK p \in req[w].own :
        /\ photo' = [photo EXCEPT ![p] = "pending"]
        /\ identity' = IF req[w].hash = NoPhoto THEN p ELSE identity
  BY DEF CommitUpload
<1>2. p \in Photos /\ photo[p] = "unused"
  BY <1>0, <1>1 DEF Request, Rows
<1>3. req' = [req EXCEPT ![w] = Idle]
  BY DEF CommitUpload
<1>4. TypeOK'
  BY <1>0, <1>1, <1>2, <1>3, IdleOK DEF Inv, TypeOK, Live
<1>5. \A q \in Photos : photo'[q] = IF q = p THEN "pending" ELSE photo[q]
  BY <1>1 DEF Inv, TypeOK
<1>6. WithdrawnLeavesNothing' /\ DecidedPhotosStay'
  BY <1>0, <1>5 DEF Inv, WithdrawnLeavesNothing, DecidedPhotosStay, Exists, Live
<1>7. ASSUME NEW v \in Workers \ {w}, NEW q \in req[v].own
      PROVE  photo'[q] = "unused" <=> photo[q] = "unused"
  <2>1. req[v] \in Request /\ q \in Photos /\ Rows(req[v])
    BY DEF Inv, TypeOK, Request, RequestOK
  <2>2. q # p
    BY <1>0, <1>1, <1>2, <2>1 DEF Inv, UploadsApart, Rows
  <2> QED BY <1>5, <2>1, <2>2
<1> QED BY <1>0, <1>3, <1>4, <1>6, <1>7, InvCommit

(* A photo withdrawn has lost its bytes before, and no decision refers to  *)
(* it.                                                                     *)
LEMMA InvCommitWithdrawal ==
    ASSUME Inv, NEW w \in Workers, CommitDelete(w) \/ CommitClose(w)
    PROVE  Inv'
<1>0. /\ req[w] \in Request /\ req[w].op \in {"delete", "close"} /\ req[w].pc = "commit"
      /\ RequestOK(req[w]) /\ Deletable(w)
      /\ UNCHANGED <<objects, audit, identity>>
      /\ req' = [req EXCEPT ![w] = Idle] /\ photo' = Withdrawn(w)
  BY DEF CommitDelete, CommitClose, Inv, TypeOK
<1>1. \A p \in req[w].own : objects[p] = {} /\ audit[p] = {} /\ photo[p] # "unused"
  BY <1>0 DEF RequestOK, Shape, Rows, Emptied, Stored, Withdraws, Deletable
<1>2. \A p \in Photos : photo'[p] = IF p \in req[w].own THEN "gone" ELSE photo[p]
  BY <1>0 DEF Withdrawn
<1>3. active' \in [Users -> BOOLEAN]
  BY DEF CommitDelete, CommitClose, Inv, TypeOK
<1>4. TypeOK'
  BY <1>0, <1>3, IdleOK DEF Inv, TypeOK, Withdrawn
<1>5. WithdrawnLeavesNothing' /\ DecidedPhotosStay'
  BY <1>0, <1>1, <1>2 DEF Inv, WithdrawnLeavesNothing, DecidedPhotosStay, Exists
<1>6. \A v \in Workers \ {w} : \A p \in req[v].own :
        photo'[p] = "unused" <=> photo[p] = "unused"
  BY <1>1, <1>2 DEF Inv, TypeOK, Request
<1> QED BY <1>0, <1>4, <1>5, <1>6, InvCommit

(* A decision is recorded on rows that are there, and a rejection is       *)
(* recorded after the bytes are gone.                                      *)
LEMMA InvCommitDecision ==
    ASSUME Inv, NEW w \in Workers, CommitDecision(w)
    PROVE  Inv'
<1> DEFINE r == req[w]
<1>0. /\ r \in Request /\ r.op \in Decisions /\ r.pc = "commit" /\ RequestOK(r)
      /\ \A p \in r.own : Exists(p)
      /\ UNCHANGED <<objects, active, identity>> /\ req' = [req EXCEPT ![w] = Idle]
  BY DEF CommitDecision, Inv, TypeOK
<1>1. /\ photo' = [p \in Photos |->
                     IF p \in r.own /\ Outcome(r.op) # r.mine THEN Outcome(r.op)
                     ELSE photo[p]]
      /\ audit' = [p \in Photos |->
                     IF p \in r.own THEN audit[p] \cup {r.op} ELSE audit[p]]
  BY DEF CommitDecision
<1>2. Outcome(r.op) \in Live
  BY DEF Outcome, Live
<1>3. Outcome(r.op) = "rejected" => \A p \in r.own : objects[p] = {}
  BY <1>0 DEF Outcome, Decisions, RequestOK, Shape, Emptied, Stored, Withdraws
<1>4. TypeOK'
  BY <1>0, <1>1, <1>2, IdleOK DEF Inv, TypeOK
<1>5. WithdrawnLeavesNothing'
  BY <1>0, <1>1, <1>2, <1>3 DEF Inv, WithdrawnLeavesNothing, Live
<1>6. DecidedPhotosStay'
  BY <1>0, <1>1, <1>2 DEF Inv, DecidedPhotosStay, Exists
<1>7. \A p \in Photos : photo'[p] = "unused" <=> photo[p] = "unused"
  BY <1>0, <1>1, <1>2 DEF Exists, Live
<1>8. \A v \in Workers \ {w} : \A p \in req[v].own :
        photo'[p] = "unused" <=> photo[p] = "unused"
  BY <1>7 DEF Inv, TypeOK, Request
<1> QED BY <1>0, <1>4, <1>5, <1>6, <1>8, InvCommit

LEMMA InvNext == Inv /\ [Next]_vars => Inv'
<1> SUFFICES ASSUME Inv, [Next]_vars PROVE Inv'
    OBVIOUS
<1>1. ASSUME NEW w \in Workers, Receive(w) PROVE Inv'
  BY <1>1, InvReceive
<1>2. ASSUME NEW w \in Workers, Proceed(w) PROVE Inv'
  <2>1. CASE PutFull(w) \/ PutThumb(w)
    BY <2>1, InvPut
  <2>2. CASE CommitUpload(w)
    BY <2>2, InvCommitUpload
  <2>3. CASE LoadPhotos(w)
    BY <2>3, InvLoadPhotos
  <2>4. CASE DeleteObjects(w)
    BY <2>4, InvDeleteObjects
  <2>5. CASE CommitDelete(w) \/ CommitClose(w)
    BY <2>5, InvCommitWithdrawal
  <2>6. CASE CommitDecision(w)
    BY <2>6, InvCommitDecision
  <2>7. CASE CommitError(w)
    <3>1. Drop(w)
      BY <2>7 DEF CommitError
    <3> QED BY <3>1, InvDrop
  <2> QED BY <1>2, <2>1, <2>2, <2>3, <2>4, <2>5, <2>6, <2>7 DEF Proceed
<1>3. ASSUME NEW w \in Workers, Crash(w) PROVE Inv'
  <2>1. Drop(w)
    BY <1>3 DEF Crash
  <2> QED BY <2>1, InvDrop
<1>4. CASE UNCHANGED vars
  BY <1>4 DEF vars, Inv, TypeOK, WithdrawnLeavesNothing, DecidedPhotosStay, UploadsApart,
              Exists, RequestOK, Shape, Rows, Emptied, Stored, Withdraws
<1> QED BY <1>1, <1>2, <1>3, <1>4 DEF Next

LEMMA Invariance == Spec => []Inv
BY InvInit, InvNext, PTL DEF Spec

-----------------------------------------------------------------------------
(* Every row, object and request keeps its shape.                          *)
THEOREM TypeCorrect == Spec => []TypeOK
<1>1. Inv => TypeOK
  BY DEF Inv
<1> QED BY <1>1, Invariance, PTL

(* A photo rejected or withdrawn has no bytes left in the media store,     *)
(* whatever dies between the store and the commit (moderate_photo,         *)
(* delete_photo, delete_my_account).                                       *)
THEOREM WithdrawnIsGone == Spec => []WithdrawnLeavesNothing
<1>1. Inv => WithdrawnLeavesNothing
  BY DEF Inv
<1> QED BY <1>1, Invariance, PTL

(* No deletion or closure removes a photo from under a decision recorded   *)
(* on it (moderation_actions.photo_id).                                    *)
THEOREM DecisionsKeepPhotos == Spec => []DecidedPhotosStay
<1>1. Inv => DecidedPhotosStay
  BY DEF Inv
<1> QED BY <1>1, Invariance, PTL
-----------------------------------------------------------------------------
(* The refinement: each write to either store is one step of Gallery.      *)
OnRecord == {p \in Photos : audit[p] # {}}

LEMMA ViewInit == Init => GalleryView!Init
BY DEF Init, GalleryView!Init

LEMMA ViewUnseen ==
    ASSUME UNCHANGED <<photo, objects, audit>>
    PROVE  UNCHANGED GalleryView!vars
BY DEF GalleryView!vars

(* A put works on one key without a row, and adds one file under it.       *)
LEMMA ViewStore ==
    ASSUME Inv, NEW w \in Workers, PutFull(w) \/ PutThumb(w)
    PROVE  GalleryView!Next
<1>1. req[w] \in Request /\ RequestOK(req[w]) /\ req[w].pc \in {"full", "thumb"}
      /\ UNCHANGED rows /\ objects \in [Photos -> SUBSET Files]
  BY DEF PutFull, PutThumb, Inv, TypeOK
<1>2. req[w].op = "upload"
  BY <1>1 DEF RequestOK, Shape
<1>3. PICK p \in Photos : req[w].own = {p}
  BY <1>1, <1>2 DEF RequestOK, Shape
<1>4. photo[p] = "unused"
  BY <1>1, <1>2, <1>3 DEF RequestOK, Rows
<1>5. PICK f \in Files : objects' = [q \in Photos |->
          IF q \in req[w].own THEN objects[q] \cup {f} ELSE objects[q]]
  BY DEF PutFull, PutThumb, Files
<1>6. objects' = [objects EXCEPT ![p] = @ \cup {f}]
  BY <1>1, <1>3, <1>5
<1>7. GalleryView!Store(p)
  BY <1>1, <1>4, <1>6 DEF GalleryView!Store
<1> QED BY <1>7 DEF GalleryView!Next

(* The row is inserted when both puts are done, and nobody has deleted     *)
(* under its key meanwhile.                                                *)
LEMMA ViewPost ==
    ASSUME Inv, NEW w \in Workers, CommitUpload(w)
    PROVE  GalleryView!Next
<1>1. /\ req[w] \in Request /\ RequestOK(req[w])
      /\ req[w].op = "upload" /\ req[w].pc = "commit" /\ UNCHANGED <<objects, audit>>
  BY DEF CommitUpload, Inv, TypeOK
<1>2. PICK p \in req[w].own : photo' = [photo EXCEPT ![p] = "pending"]
  BY DEF CommitUpload
<1>3. p \in Photos /\ photo[p] = "unused" /\ objects[p] = Files
  BY <1>1, <1>2 DEF Request, RequestOK, Rows, Stored
<1>4. GalleryView!Post(p)
  BY <1>1, <1>2, <1>3 DEF GalleryView!Post
<1> QED BY <1>3, <1>4 DEF GalleryView!Next

(* Files are deleted under the keys of photos that have or had a row.      *)
LEMMA ViewErase ==
    ASSUME Inv, NEW w \in Workers, DeleteObjects(w)
    PROVE  GalleryView!Next
<1>1. /\ req[w] \in Request /\ RequestOK(req[w]) /\ req[w].pc = "store" /\ UNCHANGED rows
  BY DEF DeleteObjects, Inv, TypeOK
<1>2. PICK p \in req[w].left : objects' = [objects EXCEPT ![p] = {}]
  BY DEF DeleteObjects
<1>3. p \in Photos /\ p \in req[w].own /\ req[w].op # "upload"
  BY <1>1, <1>2 DEF Request, RequestOK, Shape, Withdraws
<1>4. photo[p] # "unused"
  BY <1>1, <1>3 DEF RequestOK, Rows
<1>5. GalleryView!Erase(p)
  BY <1>1, <1>2, <1>4 DEF GalleryView!Erase
<1> QED BY <1>3, <1>5 DEF GalleryView!Next

LEMMA ViewWithdraw ==
    ASSUME Inv, NEW w \in Workers, CommitDelete(w) \/ CommitClose(w)
    PROVE  GalleryView!Next
<1>1. /\ req[w] \in Request /\ RequestOK(req[w]) /\ req[w].pc = "commit"
      /\ req[w].op \in {"delete", "close"} /\ Deletable(w)
      /\ photo' = Withdrawn(w) /\ UNCHANGED <<objects, audit>>
  BY DEF CommitDelete, CommitClose, Inv, TypeOK
<1>2. \A p \in req[w].own : objects[p] = {} /\ photo[p] # "unused" /\ p \notin OnRecord
  BY <1>1 DEF RequestOK, Shape, Rows, Emptied, Withdraws, Deletable, OnRecord
<1>3. PICK S \in SUBSET Photos : S = req[w].own
  BY <1>1 DEF Request
<1>4. S \cap OnRecord = {} /\ \A p \in S : photo[p] # "unused" /\ objects[p] = {}
  BY <1>2, <1>3
<1>5. photo' = [p \in Photos |-> IF p \in S THEN "gone" ELSE photo[p]]
  BY <1>1, <1>3 DEF Withdrawn
<1>6. GalleryView!Withdraw(S)
  BY <1>1, <1>4, <1>5 DEF GalleryView!Withdraw, OnRecord
<1> QED BY <1>6 DEF GalleryView!Next

LEMMA ViewDecide ==
    ASSUME Inv, NEW w \in Workers, CommitDecision(w)
    PROVE  GalleryView!Next
<1> DEFINE r == req[w]
<1>1. /\ r \in Request /\ RequestOK(r) /\ r.op \in Decisions /\ r.pc = "commit"
      /\ \A p \in r.own : Exists(p)
      /\ photo \in [Photos -> Live \cup {"unused", "gone"}]
      /\ audit \in [Photos -> SUBSET Decisions]
      /\ UNCHANGED objects
  BY DEF CommitDecision, Inv, TypeOK
<1>2. PICK p \in Photos : r.own = {p}
  BY <1>1 DEF RequestOK, Shape
<1>3. PICK outcome \in {"approved", "rejected"} : outcome = Outcome(r.op)
  BY DEF Outcome
<1>4. outcome = "rejected" => objects[p] = {}
  BY <1>1, <1>2, <1>3 DEF Outcome, Decisions, RequestOK, Shape, Emptied, Withdraws
<1>5. photo[p] \in GalleryView!Visible
  BY <1>1, <1>2 DEF Exists, Live, GalleryView!Visible
<1>6. photo' \in {photo, [photo EXCEPT ![p] = outcome]}
  <2>1. photo' = [q \in Photos |-> IF q \in r.own /\ Outcome(r.op) # r.mine
                                   THEN Outcome(r.op) ELSE photo[q]]
    BY DEF CommitDecision
  <2>2. CASE outcome = r.mine
    BY <1>1, <1>3, <2>1, <2>2
  <2>3. CASE outcome # r.mine
    BY <1>1, <1>2, <1>3, <2>1, <2>3
  <2> QED BY <2>2, <2>3
<1>7. OnRecord' = OnRecord \cup {p}
  <2>1. \A q \in Photos : audit'[q] = IF q = p THEN audit[q] \cup {r.op} ELSE audit[q]
    BY <1>2 DEF CommitDecision
  <2> QED BY <2>1 DEF OnRecord
<1>8. GalleryView!Decide(p, outcome)
  BY <1>1, <1>4, <1>5, <1>6, <1>7 DEF GalleryView!Decide, OnRecord
<1> QED BY <1>8 DEF GalleryView!Next

LEMMA ViewNext ==
    ASSUME Inv, [Next]_vars
    PROVE  [GalleryView!Next]_(GalleryView!vars)
<1>1. ASSUME NEW w \in Workers, Receive(w) \/ Crash(w)
      PROVE  UNCHANGED GalleryView!vars
  BY <1>1, ViewUnseen DEF Receive, Crash, Upload, Delete, Moderate, Close
<1>2. ASSUME NEW w \in Workers, LoadPhotos(w) \/ CommitError(w)
      PROVE  UNCHANGED GalleryView!vars
  BY <1>2, ViewUnseen DEF LoadPhotos, CommitError
<1>3. CASE UNCHANGED vars
  BY <1>3, ViewUnseen DEF vars
<1> QED BY <1>1, <1>2, <1>3, ViewStore, ViewPost, ViewErase, ViewWithdraw, ViewDecide
        DEF Next, Proceed

(* Photos implements Gallery, for any number of requests in flight and a   *)
(* crash anywhere: a photo appears after its files, they go before it is   *)
(* rejected or withdrawn, and a decided one stays (upload_photo,           *)
(* delete_photo, moderate_photo, delete_my_account).                       *)
THEOREM GalleryImplemented == Spec => ImplementsGallery
<1>1. Inv /\ [Next]_vars => [GalleryView!Next]_(GalleryView!vars)
  BY ViewNext
<1> QED BY <1>1, ViewInit, Invariance, PTL DEF Spec, ImplementsGallery, GalleryView!Spec
=============================================================================
