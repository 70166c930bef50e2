------------------------------- MODULE Identity -------------------------------
(***************************************************************************)
(* One record per building: registration by pin drop                       *)
(* (app/services/identity.py, app/core/property_id.py) and the import of   *)
(* mapped buildings that runs beside it (scripts/import_reference_data.py).*)
(*                                                                         *)
(* Positions are points of a line.  A PropertyID is a bucket, the area and *)
(* the geohash cell, with a sequence number; the column is unique.  A      *)
(* request is up to three selects and a commit, each an await.             *)
(***************************************************************************)
EXTENDS Integers, FiniteSets

CONSTANTS
    Workers,       \* requests in flight at once
    Rows,          \* ids of properties rows
    Submissions,   \* what tenants send: pin, area, address, photo, precision
    Buildings,     \* what the map lists within reach of an area, likewise
    DedupRadius, PhashRadius,
    CellSize,      \* points in a geohash cell
    SamePhoto(_, _),  \* is_same_building: Hamming distance under the threshold
    Normalise(_),     \* address.normalise
    MaxSeq,        \* MAX_SEQ
    MaxRuns,       \* bound on the times the import is started
    NoAddress, NoPhoto, NoBuilding

ASSUME ConstantsOK == MaxSeq \in Nat /\ MaxRuns \in Nat

VARIABLES
    prop,      \* properties, per id; Absent before it is inserted
    sourced,   \* imported rows whose data_sources rows are committed
    req,       \* the request each worker runs
    imp,       \* the import
    lost       \* history: import runs that died with provenance uncommitted

vars == <<prop, sourced, req, imp, lost>>

Dist(a, b) == IF a < b THEN b - a ELSE a - b
Absent == [state |-> "absent"]
Live == {i \in Rows : prop[i] # Absent}

(* Two pins of one cell and area share the ID's prefix.                    *)
Bucket(s) == <<s.area, s.at \div CellSize>>
InBucket(b) == {i \in Live : Bucket(prop[i]) = b}

Within(p, radius) == {i \in Live : Dist(prop[i].at, p) <= radius}

Idle == [pc |-> "idle"]

Become(w, r) == req' = [req EXCEPT ![w] = r]
At(w, pc) == req[w].pc = pc

-----------------------------------------------------------------------------
(* identify_or_create.  A submission with a photo looks in a second, wider *)
(* circle for buildings that look the same.                                *)

Corroborated(s, i, hits) ==
    \/ i \in hits
    \/ s.address # NoAddress /\ Normalise(prop[i].address) = Normalise(s.address)
Confident(s, near, hits) ==
    IF s.approximate THEN {i \in near : Corroborated(s, i, hits)}
    ELSE {i \in near : i \in hits \/ Dist(prop[i].at, s.at) <= DedupRadius}

(* Records nearby end the request: attached to the one confident match, or *)
(* sent back to the tenant.  There is no way to insist on a new record.    *)
Resolved(s, near, hits, saw) ==
    IF near = {} THEN [pc |-> "seq", sent |-> s, saw |-> saw]
    ELSE IF \E i \in near : Confident(s, near, hits) = {i}
         THEN [pc |-> "existing", sent |-> s,
               row |-> CHOOSE i \in near : Confident(s, near, hits) = {i}]
         ELSE [pc |-> "ambiguous", sent |-> s]

Identify(w, s) ==
    LET near == Within(s.at, DedupRadius) IN
    /\ req[w].pc \in {"idle", "existing", "ambiguous", "created"}
    /\ Become(w, IF s.photo = NoPhoto THEN Resolved(s, near, {}, Live)
                 ELSE [pc |-> "wider", sent |-> s, near |-> near, saw |-> Live])
    /\ UNCHANGED <<prop, sourced, imp, lost>>

LooksTheSame(s) ==
    {i \in Within(s.at, PhashRadius) :
       prop[i].photo # NoPhoto /\ SamePhoto(s.photo, prop[i].photo)}

QueryWider(w) ==
    LET r == req[w]  hits == LooksTheSame(r.sent) IN
    /\ At(w, "wider")
    /\ Become(w, Resolved(r.sent, r.near \cup hits, hits, r.saw))
    /\ UNCHANGED <<prop, sourced, imp, lost>>

-----------------------------------------------------------------------------
(* create_property: the next free sequence number, then the insert.        *)
NextSeqSkips(used) == IF used = {} THEN 0 ELSE 1 + Cardinality(used)
NextSeq(used) == CHOOSE n \in 0..MaxSeq : n \notin used /\ \A m \in 0..(n-1) : m \in used
Exhausted(used) == 0..MaxSeq \subseteq used
Used(b) == {prop[i].seq : i \in InBucket(b)}

Free(s, n) == n \notin Used(Bucket(s))

Registered(s, n, source) ==
    [state |-> "live", at |-> s.at, area |-> s.area, seq |-> n,
     address |-> s.address, photo |-> s.photo,
     approximate |-> s.approximate, source |-> source]

SelectSeq(w) ==
    LET used == Used(Bucket(req[w].sent)) IN
    /\ At(w, "seq")
    /\ Become(w, IF Exhausted(used) THEN Idle
                 ELSE [pc |-> "insert", sent |-> req[w].sent, saw |-> req[w].saw,
                       seq |-> NextSeq(used)])
    /\ UNCHANGED <<prop, sourced, imp, lost>>

CommitCreate(w, i) ==
    LET r == req[w] IN
    /\ At(w, "insert") /\ prop[i] = Absent
    /\ Free(r.sent, r.seq)
    /\ prop' = [prop EXCEPT ![i] = Registered(r.sent, r.seq, "tenant")]
    /\ Become(w, [pc |-> "created", sent |-> r.sent, row |-> i])
    /\ UNCHANGED <<sourced, imp, lost>>

(* Another request took the number: the unique column refuses the row.     *)
CreateError(w) ==
    /\ At(w, "insert") /\ ~Free(req[w].sent, req[w].seq)
    /\ Become(w, Idle)
    /\ UNCHANGED <<prop, sourced, imp, lost>>

-----------------------------------------------------------------------------
(* import_properties.  What exists is read once; create_property commits   *)
(* each building, and with it the provenance recorded for the one before.  *)
StartImport ==
    /\ imp.pc = "idle" /\ imp.runs < MaxRuns
    /\ imp' = [pc |-> "loop", runs |-> imp.runs + 1, todo |-> Buildings,
               known |-> Live, pending |-> {}, next |-> NoBuilding, seq |-> 0]
    /\ UNCHANGED <<prop, sourced, req, lost>>

AlreadyThereByName(b) == \E i \in imp.known : prop[i].address = b.address
AlreadyThereIfExact(b) ==
    ~b.approximate /\ \E i \in imp.known : prop[i].address = b.address
AlreadyThere(b) ==
    \E i \in imp.known : \/ prop[i].address = b.address
                         \/ Dist(prop[i].at, b.at) <= DedupRadius

SkipBuilding(b) ==
    /\ imp.pc = "loop" /\ b \in imp.todo /\ AlreadyThere(b)
    /\ imp' = [imp EXCEPT !.todo = @ \ {b}]
    /\ UNCHANGED <<prop, sourced, req, lost>>

NumberBuilding(b) ==
    LET used == Used(Bucket(b)) IN
    /\ imp.pc = "loop" /\ b \in imp.todo /\ ~AlreadyThere(b)
    /\ ~Exhausted(used)
    /\ imp' = [imp EXCEPT !.pc = "insert", !.todo = @ \ {b}, !.next = b,
                          !.seq = NextSeq(used)]
    /\ UNCHANGED <<prop, sourced, req, lost>>

ProvenanceLate == sourced
Provenance == sourced \cup imp.pending

InsertBuilding(i) ==
    /\ imp.pc = "insert" /\ prop[i] = Absent /\ Free(imp.next, imp.seq)
    /\ prop' = [prop EXCEPT ![i] = Registered(imp.next, imp.seq, "import")]
    /\ sourced' = Provenance
    /\ imp' = [imp EXCEPT !.pc = "loop", !.known = @ \cup {i}, !.pending = {i},
                          !.next = NoBuilding, !.seq = 0]
    /\ UNCHANGED <<req, lost>>

FinishImport ==
    /\ imp.pc = "loop" /\ imp.todo = {}
    /\ sourced' = Provenance
    /\ imp' = [imp EXCEPT !.pc = "idle", !.known = {}, !.pending = {}]
    /\ UNCHANGED <<prop, req, lost>>

(* A number taken meanwhile, a full bucket, a lost connection or Ctrl-C:   *)
(* the run ends where it is.                                               *)
ImportDies ==
    /\ imp.pc # "idle"
    /\ lost' = lost + Cardinality(imp.pending)
    /\ imp' = [imp EXCEPT !.pc = "idle", !.todo = {}, !.known = {}, !.pending = {},
                          !.next = NoBuilding, !.seq = 0]
    /\ UNCHANGED <<prop, sourced, req>>

-----------------------------------------------------------------------------
Init ==
    /\ prop = [i \in Rows |-> Absent]
    /\ sourced = {}
    /\ req = [w \in Workers |-> Idle]
    /\ imp = [pc |-> "idle", runs |-> 0, todo |-> {}, known |-> {}, pending |-> {},
              next |-> NoBuilding, seq |-> 0]
    /\ lost = 0

Request(w) == \/ \E s \in Submissions : Identify(w, s)
              \/ QueryWider(w) \/ SelectSeq(w) \/ CreateError(w)
              \/ \E i \in Rows : CommitCreate(w, i)

Import == \/ StartImport \/ FinishImport \/ ImportDies
          \/ \E b \in Buildings : SkipBuilding(b) \/ NumberBuilding(b)
          \/ \E i \in Rows : InsertBuilding(i)

Next == (\E w \in Workers : Request(w)) \/ Import

Spec == Init /\ [][Next]_vars
-----------------------------------------------------------------------------
(* Properties.                                                             *)

(* However registrations and the import race for numbers, the PropertyIDs  *)
(* of a bucket are 0, 1, 2, ... without gap or repetition, so a bucket     *)
(* takes all of MAX_SEQ + 1 buildings before create_property gives up.     *)
BucketsDense ==
    \A i \in Live :
      LET B == InBucket(Bucket(prop[i])) IN
      {prop[j].seq : j \in B} = 0 .. (Cardinality(B) - 1)

(* Two records for one spot come only from overlap: whoever registers a    *)
(* building had not seen, when it looked, any record within the dedup      *)
(* radius of it (identify_or_create, import_properties).                   *)
CloseTo(i) == {j \in Live \ {i} : Dist(prop[j].at, prop'[i].at) <= DedupRadius}

DuplicatesOnlyByRace ==
    [][/\ \A w \in Workers, i \in Rows :
            CommitCreate(w, i) => CloseTo(i) \cap req[w].saw = {}
       /\ \A i \in Rows : InsertBuilding(i) => CloseTo(i) \cap imp.known = {}]_vars

(* Every imported building carries its source, but for one per import run  *)
(* that died and the one a running import still holds: later runs find the *)
(* building and never go back for its provenance.                          *)
UnsourcedBounded ==
    LET unsourced == {i \in Live : prop[i].source = "import"} \ sourced
    IN /\ Cardinality(unsourced) = lost + Cardinality(imp.pending)
       /\ lost <= imp.runs

(* The import can be run again: no name is imported twice, over any number *)
(* of runs and of crashes between its commits.                             *)
ImportedOnce ==
    \A i, j \in Live :
      /\ i # j /\ prop[i].source = "import" /\ prop[j].source = "import"
      => prop[i].address # prop[j].address
=============================================================================
