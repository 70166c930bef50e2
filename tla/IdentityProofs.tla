---------------------------- MODULE IdentityProofs ----------------------------
(***************************************************************************)
(* Theorems about Identity, for any map, any submissions, any notion of    *)
(* alike photos and addresses, and any number of requests and import runs. *)
(***************************************************************************)
EXTENDS Identity, FiniteSetTheorems, TLAPS

USE DEF At, Become

(* The variables are functions of rows and requests.                       *)
Shapes ==
    /\ prop = [i \in Rows |-> prop[i]]
    /\ req = [w \in Workers |-> req[w]]
    /\ imp = [pc |-> imp.pc, runs |-> imp.runs, todo |-> imp.todo, known |-> imp.known,
              pending |-> imp.pending, next |-> imp.next, seq |-> imp.seq]

(* A record, once there, never changes: what a request saw of it is so.    *)
Kept == \A i \in Live : prop'[i] = prop[i]

LEMMA RowsAppear ==
  ASSUME Shapes, NEW i \in Rows, prop[i] = Absent, NEW s, NEW n, NEW source,
         prop' = [prop EXCEPT ![i] = Registered(s, n, source)]
  PROVE  /\ Live' = Live \cup {i} /\ i \notin Live /\ Kept
         /\ prop'[i] = Registered(s, n, source)
         /\ prop' = [j \in Rows |-> prop'[j]]
<1>1. Registered(s, n, source).state = "live" /\ Absent.state = "absent"
  BY DEF Registered, Absent
<1>2. prop'[i] = Registered(s, n, source) /\ \A j \in Rows : j # i => prop'[j] = prop[j]
  BY DEF Shapes
<1>3. Live' = {j \in Rows : prop'[j] # Absent}
  BY DEF Live
<1> QED BY <1>1, <1>2, <1>3 DEF Shapes, Live, Kept

LEMMA ShapesInit == Init => Shapes
BY DEF Init, Shapes

LEMMA ShapesNext == Shapes /\ [Next]_vars => Shapes'
<1> SUFFICES ASSUME Shapes, [Next]_vars PROVE Shapes'
    OBVIOUS
<1> USE DEF Shapes
<1>1. ASSUME NEW w \in Workers, Request(w) PROVE Shapes'
  BY <1>1 DEF Request, Identify, QueryWider, SelectSeq, CreateError, CommitCreate
<1>2. CASE Import
  BY <1>2 DEF Import, StartImport, SkipBuilding, NumberBuilding, InsertBuilding, FinishImport,
              ImportDies
<1>3. CASE UNCHANGED vars
  BY <1>3 DEF vars
<1> QED BY <1>1, <1>2, <1>3 DEF Next

-----------------------------------------------------------------------------
(* Sequence numbers.  A bucket that holds k buildings holds the numbers    *)
(* 0..k-1, so a request numbers its building k; buckets only grow, so by   *)
(* the time it inserts, the number is still k or it is taken.              *)
Dense == \A b : Used(b) = 0 .. (Cardinality(InBucket(b)) - 1)

Next0(s, n) == n \in Nat /\ n <= Cardinality(InBucket(Bucket(s)))

Inserts(r, s, n) == r.pc = "insert" /\ r.sent = s /\ r.seq = n
Imports(s, n) == imp.pc = "insert" /\ imp.next = s /\ imp.seq = n

SeqInv ==
    /\ Shapes
    /\ IsFiniteSet(Live)
    /\ Dense
    /\ \A w \in Workers : \A s, n : Inserts(req[w], s, n) => Next0(s, n)
    /\ \A s, n : Imports(s, n) => Next0(s, n)

LEMMA BucketsFinite ==
  ASSUME IsFiniteSet(Live), NEW b
  PROVE  IsFiniteSet(InBucket(b)) /\ Cardinality(InBucket(b)) \in Nat
<1>1. InBucket(b) \subseteq Live
  BY DEF InBucket
<1>2. IsFiniteSet(InBucket(b))
  BY <1>1, FS_Subset
<1> QED BY <1>2, FS_CardinalityType

LEMMA NextIsCount ==
  ASSUME SeqInv, NEW b, ~Exhausted(Used(b))
  PROVE  NextSeq(Used(b)) \in Nat /\ NextSeq(Used(b)) = Cardinality(InBucket(b))
<1> DEFINE k == Cardinality(InBucket(b))
<1>1. k \in Nat /\ Used(b) = 0..(k - 1)
  BY BucketsFinite DEF SeqInv, Dense
<1>2. k \in 0..MaxSeq
  BY <1>1, ConstantsOK DEF Exhausted
<1>3. k \notin Used(b) /\ \A m \in 0..(k - 1) : m \in Used(b)
  BY <1>1
<1>4. ASSUME NEW n \in 0..MaxSeq, n \notin Used(b), \A m \in 0..(n - 1) : m \in Used(b)
      PROVE  n = k
  <2>1. n >= k
    BY <1>1, <1>4
  <2>2. n > k => k \in 0..(n - 1)
    BY <1>1, <1>4
  <2> QED BY <1>1, <1>3, <1>4, <2>1, <2>2
<1> HIDE DEF k
<1>5. NextSeq(Used(b)) = k
  BY <1>2, <1>3, <1>4 DEF NextSeq
<1> QED BY <1>1, <1>5 DEF k

LEMMA Grows ==
  ASSUME SeqInv, NEW i \in Rows, prop[i] = Absent, NEW s, NEW n, NEW source,
         Next0(s, n), Free(s, n),
         prop' = [prop EXCEPT ![i] = Registered(s, n, source)]
  PROVE  /\ IsFiniteSet(Live)' /\ Dense'
         /\ \A t, m : Next0(t, m) => Next0(t, m)'
<1>1. /\ Live' = Live \cup {i} /\ i \notin Live /\ Kept
      /\ prop'[i] = Registered(s, n, source)
  BY RowsAppear DEF SeqInv
<1>2. IsFiniteSet(Live')
  BY <1>1, FS_AddElement DEF SeqInv
<1>3. Bucket(prop'[i]) = Bucket(s) /\ prop'[i].seq = n
  BY <1>1 DEF Registered, Bucket
<1>4. ASSUME NEW b PROVE InBucket(b)' = IF b = Bucket(s) THEN InBucket(b) \cup {i} ELSE InBucket(b)
  <2>1. InBucket(b)' = {j \in Live' : Bucket(prop'[j]) = b}
    BY DEF InBucket, Bucket
  <2>2. \A j \in Live : Bucket(prop'[j]) = Bucket(prop[j])
    BY <1>1 DEF Kept
  <2> QED BY <1>1, <1>3, <2>1, <2>2 DEF InBucket
<1>5. ASSUME NEW b
      PROVE  /\ Used(b)' = 0..(Cardinality(InBucket(b)') - 1)
             /\ Cardinality(InBucket(b)') \in Nat
             /\ Cardinality(InBucket(b)) <= Cardinality(InBucket(b)')
  <2> DEFINE k == Cardinality(InBucket(b))
  <2>1. k \in Nat /\ Used(b) = 0..(k - 1) /\ IsFiniteSet(InBucket(b))
    BY BucketsFinite DEF SeqInv, Dense
  <2>2. Used(b)' = {prop'[j].seq : j \in InBucket(b)'}
    BY DEF Used
  <2>3. \A j \in InBucket(b) : prop'[j].seq = prop[j].seq
    BY <1>1 DEF Kept, InBucket
  <2>4. CASE b = Bucket(s)
    <3>1. InBucket(b)' = InBucket(b) \cup {i} /\ i \notin InBucket(b)
      BY <1>1, <1>4, <2>4 DEF InBucket
    <3>2. Cardinality(InBucket(b)') = k + 1
      BY <2>1, <3>1, FS_AddElement
    <3>3. Used(b)' = Used(b) \cup {n}
      BY <1>3, <2>2, <2>3, <3>1 DEF Used
    <3>4. n = k
      BY <2>1, <2>4 DEF Next0, Free
    <3>5. 0..((k + 1) - 1) = (0..(k - 1)) \cup {k}
      BY <2>1
    <3> QED BY <2>1, <3>2, <3>3, <3>4, <3>5
  <2>5. CASE b # Bucket(s)
    <3>1. InBucket(b)' = InBucket(b)
      BY <1>4, <2>5
    <3>2. Used(b)' = Used(b)
      BY <2>2, <2>3, <3>1 DEF Used
    <3> QED BY <2>1, <3>1, <3>2
  <2> QED BY <2>4, <2>5
<1>6. Dense'
  BY <1>5 DEF Dense
<1>7. ASSUME NEW t, NEW m, Next0(t, m) PROVE Next0(t, m)'
  <2>1. Next0(t, m)' <=> m \in Nat /\ m <= Cardinality(InBucket(Bucket(t))')
    BY DEF Next0, Bucket
  <2>2. Cardinality(InBucket(Bucket(t))) \in Nat
    BY BucketsFinite DEF SeqInv
  <2> QED BY <1>5, <1>7, <2>1, <2>2 DEF Next0
<1> QED BY <1>2, <1>6, <1>7

(* A step that registers nothing.                                          *)
LEMMA Stands ==
  ASSUME SeqInv, UNCHANGED prop
  PROVE  /\ IsFiniteSet(Live)' /\ Dense'
         /\ \A t, m : Next0(t, m) => Next0(t, m)'
<1>1. Live' = Live
  BY DEF Live
<1>2. ASSUME NEW b PROVE InBucket(b)' = InBucket(b) /\ Used(b)' = Used(b)
  <2>1. InBucket(b)' = InBucket(b)
    BY <1>1 DEF InBucket, Bucket
  <2> QED BY <2>1 DEF Used
<1>3. Dense'
  BY <1>2 DEF SeqInv, Dense
<1>4. ASSUME NEW t, NEW m, Next0(t, m) PROVE Next0(t, m)'
  BY <1>2, <1>4 DEF Next0, Bucket
<1> QED BY <1>1, <1>3, <1>4 DEF SeqInv

(* Either way, what is left to show is about requests newly at "insert".   *)
LEMMA SeqKept ==
  ASSUME SeqInv, Shapes',
         IsFiniteSet(Live)', Dense', \A t, m : Next0(t, m) => Next0(t, m)',
         \A w \in Workers : \A s, n :
           Inserts(req'[w], s, n) => Inserts(req[w], s, n) \/ Next0(s, n),
         \A s, n : Imports(s, n)' => Imports(s, n) \/ Next0(s, n)
  PROVE  SeqInv'
<1>1. ASSUME NEW w \in Workers, NEW s, NEW n, Inserts(req[w], s, n)' PROVE Next0(s, n)'
  <2>1. Inserts(req'[w], s, n)
    BY <1>1 DEF Inserts
  <2> QED BY <2>1 DEF SeqInv
<1>2. ASSUME NEW s, NEW n, Imports(s, n)' PROVE Next0(s, n)'
  BY <1>2 DEF SeqInv
<1> QED BY <1>1, <1>2 DEF SeqInv

LEMMA SeqInit == Init => SeqInv
<1> SUFFICES ASSUME Init PROVE SeqInv
    OBVIOUS
<1>1. Live = {}
  BY DEF Init, Live
<1>2. \A b : InBucket(b) = {} /\ Used(b) = {}
  BY <1>1 DEF InBucket, Used
<1>3. Cardinality({}) = 0 /\ IsFiniteSet({})
  BY FS_EmptySet
<1>4. Dense
  BY <1>2, <1>3 DEF Dense
<1> QED BY <1>1, <1>3, <1>4, ShapesInit DEF Init, SeqInv, Idle, Inserts, Imports

LEMMA SeqRequest ==
  ASSUME SeqInv, Shapes', NEW w \in Workers, Request(w)
  PROVE  SeqInv'
<1>0. \A s, n : Imports(s, n)' <=> Imports(s, n)
  BY DEF Request, Identify, QueryWider, SelectSeq, CreateError, CommitCreate, Imports
<1>1. ASSUME UNCHANGED prop, NEW r, req' = [req EXCEPT ![w] = r],
             \A s, n : Inserts(r, s, n) => Next0(s, n)
      PROVE  SeqInv'
  <2>1. \A v \in Workers : \A s, n :
          Inserts(req'[v], s, n) => Inserts(req[v], s, n) \/ Next0(s, n)
    BY <1>1 DEF SeqInv, Shapes
  <2> QED BY <1>0, <1>1, <2>1, Stands, SeqKept
<1>2. ASSUME NEW s \in Submissions, Identify(w, s) PROVE SeqInv'
  BY <1>1, <1>2 DEF Identify, Resolved, Inserts
<1>3. CASE QueryWider(w)
  BY <1>1, <1>3 DEF QueryWider, Resolved, Inserts
<1>4. CASE SelectSeq(w)
  <2> DEFINE used == Used(Bucket(req[w].sent))
  <2>1. CASE Exhausted(used)
    BY <1>1, <1>4, <2>1 DEF SelectSeq, Idle, Inserts
  <2>2. CASE ~Exhausted(used)
    <3>1. Next0(req[w].sent, NextSeq(used))
      BY <2>2, NextIsCount DEF Next0
    <3> DEFINE r == [pc |-> "insert", sent |-> req[w].sent, saw |-> req[w].saw,
                     seq |-> NextSeq(used)]
    <3>2. req' = [req EXCEPT ![w] = r] /\ UNCHANGED prop
      BY <1>4, <2>2 DEF SelectSeq
    <3>3. r.sent = req[w].sent /\ r.seq = NextSeq(used)
      OBVIOUS
    <3> HIDE DEF r, used
    <3> QED BY <1>1, <3>1, <3>2, <3>3 DEF Inserts
  <2> QED BY <2>1, <2>2
<1>5. CASE CreateError(w)
  BY <1>1, <1>5 DEF CreateError, Idle, Inserts
<1>6. ASSUME NEW i \in Rows, CommitCreate(w, i) PROVE SeqInv'
  <2>1. Next0(req[w].sent, req[w].seq)
    BY <1>6 DEF CommitCreate, SeqInv, Inserts
  <2>2. /\ IsFiniteSet(Live)' /\ Dense' /\ \A t, m : Next0(t, m) => Next0(t, m)'
    BY <1>6, <2>1, Grows DEF CommitCreate
  <2>3. \A v \in Workers : \A s, n : Inserts(req'[v], s, n) => Inserts(req[v], s, n)
    BY <1>6 DEF CommitCreate, SeqInv, Shapes, Inserts
  <2> QED BY <1>0, <2>2, <2>3, SeqKept
<1> QED BY <1>2, <1>3, <1>4, <1>5, <1>6 DEF Request

LEMMA SeqImport ==
  ASSUME SeqInv, Shapes', Import
  PROVE  SeqInv'
<1>0. \A w \in Workers : \A s, n : Inserts(req'[w], s, n) <=> Inserts(req[w], s, n)
  BY DEF Import, StartImport, SkipBuilding, NumberBuilding, InsertBuilding, FinishImport, ImportDies
<1>1. CASE StartImport \/ FinishImport \/ ImportDies \/ \E b \in Buildings : SkipBuilding(b)
  <2>1. UNCHANGED prop /\ imp'.pc # "insert"
    <3> USE DEF SeqInv, Shapes
    <3>1. CASE StartImport
      BY <3>1 DEF StartImport
    <3>2. CASE FinishImport
      BY <3>2 DEF FinishImport
    <3>3. CASE ImportDies
      BY <3>3 DEF ImportDies
    <3>4. ASSUME NEW b \in Buildings, SkipBuilding(b) PROVE UNCHANGED prop /\ imp'.pc # "insert"
      BY <3>4 DEF SkipBuilding
    <3> QED BY <1>1, <3>1, <3>2, <3>3, <3>4
  <2>2. \A s, n : ~Imports(s, n)'
    BY <2>1 DEF Imports
  <2> QED BY <1>0, <2>1, <2>2, Stands, SeqKept
<1>2. ASSUME NEW b \in Buildings, NumberBuilding(b) PROVE SeqInv'
  <2> DEFINE used == Used(Bucket(b))
  <2>1. Next0(b, NextSeq(used))
    BY <1>2, NextIsCount DEF Next0, NumberBuilding
  <2>2. imp'.next = b /\ imp'.seq = NextSeq(used) /\ UNCHANGED prop
    BY <1>2 DEF NumberBuilding, SeqInv, Shapes
  <2>3. \A s, n : Imports(s, n)' => Next0(s, n)
    <3> HIDE DEF used
    <3> QED BY <2>1, <2>2 DEF Imports
  <2> QED BY <1>0, <2>2, <2>3, Stands, SeqKept
<1>3. ASSUME NEW i \in Rows, InsertBuilding(i) PROVE SeqInv'
  <2>1. Next0(imp.next, imp.seq)
    BY <1>3 DEF InsertBuilding, SeqInv, Imports
  <2>2. /\ IsFiniteSet(Live)' /\ Dense' /\ \A t, m : Next0(t, m) => Next0(t, m)'
    BY <1>3, <2>1, Grows DEF InsertBuilding
  <2>3. \A s, n : ~Imports(s, n)'
    BY <1>3 DEF InsertBuilding, SeqInv, Shapes, Imports
  <2> QED BY <1>0, <2>2, <2>3, SeqKept
<1> QED BY <1>1, <1>2, <1>3 DEF Import

LEMMA SeqNext == SeqInv /\ [Next]_vars => SeqInv'
<1> SUFFICES ASSUME SeqInv, [Next]_vars PROVE SeqInv'
    OBVIOUS
<1>1. Shapes'
  BY ShapesNext DEF SeqInv
<1>2. CASE UNCHANGED vars
  <2>1. \A w \in Workers : \A s, n : Inserts(req'[w], s, n) <=> Inserts(req[w], s, n)
    BY <1>2 DEF vars
  <2>2. \A s, n : Imports(s, n)' <=> Imports(s, n)
    BY <1>2 DEF vars, Imports
  <2> QED BY <1>1, <1>2, <2>1, <2>2, Stands, SeqKept DEF vars
<1> QED BY <1>1, <1>2, SeqRequest, SeqImport DEF Next

(* The PropertyIDs of a bucket are 0, 1, 2, ... without gap or repetition  *)
(* (property_id.next_seq, create_property, import_properties), whatever    *)
(* registers at the same time, fails or dies.                              *)
THEOREM NumbersAreDense == Spec => []BucketsDense
<1>1. SeqInv => BucketsDense
  BY DEF SeqInv, Dense, BucketsDense, Used
<1> QED BY <1>1, SeqInit, SeqNext, PTL DEF Spec

-----------------------------------------------------------------------------
(* What a request or the import saw when it looked is still there, as it   *)
(* was: records are only added (RecordsStay).                              *)
LEMMA RecordsStay ==
  ASSUME Shapes, [Next]_vars
  PROVE  Kept /\ Live \subseteq Live'
<1>1. ASSUME UNCHANGED prop PROVE Kept /\ Live \subseteq Live'
  BY <1>1 DEF Kept, Live
<1>2. ASSUME NEW w \in Workers, Request(w) PROVE Kept /\ Live \subseteq Live'
  <2>1. ASSUME NEW i \in Rows, CommitCreate(w, i) PROVE Kept /\ Live \subseteq Live'
    BY <2>1, RowsAppear DEF CommitCreate
  <2>2. CASE ~\E i \in Rows : CommitCreate(w, i)
    BY <1>1, <1>2, <2>2 DEF Request, Identify, QueryWider, SelectSeq, CreateError
  <2> QED BY <2>1, <2>2
<1>3. CASE Import
  <2>1. ASSUME NEW i \in Rows, InsertBuilding(i) PROVE Kept /\ Live \subseteq Live'
    BY <2>1, RowsAppear DEF InsertBuilding
  <2>2. CASE ~\E i \in Rows : InsertBuilding(i)
    BY <1>1, <1>3, <2>2 DEF Import, StartImport, SkipBuilding, NumberBuilding, FinishImport, ImportDies
  <2> QED BY <2>1, <2>2
<1>4. CASE UNCHANGED vars
  BY <1>1, <1>4 DEF vars
<1> QED BY <1>2, <1>3, <1>4 DEF Next

Apart(i, s) == ~(Dist(prop[i].at, s.at) <= DedupRadius)

Looked(r) ==
    /\ r.pc \in {"wider", "seq", "insert"} => r.saw \subseteq Live
    /\ r.pc = "wider" => \A i \in r.saw : Apart(i, r.sent) \/ i \in r.near
    /\ r.pc \in {"seq", "insert"} => \A i \in r.saw : Apart(i, r.sent)

LookedInv == Shapes /\ \A w \in Workers : Looked(req[w])

(* An answer that goes on to register found nothing near.                  *)
LEMMA ResolvedLooked ==
  ASSUME NEW s, NEW near, NEW hits, NEW saw, saw \subseteq Live,
         \A i \in saw : Apart(i, s) \/ i \in near
  PROVE  Looked(Resolved(s, near, hits, saw))
<1>1. CASE near = {}
  <2> DEFINE r == [pc |-> "seq", sent |-> s, saw |-> saw]
  <2>1. r.pc = "seq" /\ r.sent = s /\ r.saw = saw
    OBVIOUS
  <2>2. Resolved(s, near, hits, saw) = r
    BY <1>1 DEF Resolved
  <2> HIDE DEF r
  <2> QED BY <1>1, <2>1, <2>2 DEF Looked
<1>2. CASE near # {}
  <2>1. Resolved(s, near, hits, saw).pc \in {"existing", "ambiguous"}
    BY <1>2 DEF Resolved
  <2> HIDE DEF Looked
  <2> QED BY <2>1 DEF Looked
<1> QED BY <1>1, <1>2

LEMMA LookedKept ==
  ASSUME Kept, Live \subseteq Live', NEW r, Looked(r)
  PROVE  /\ r.pc \in {"wider", "seq", "insert"} => r.saw \subseteq Live'
         /\ r.pc = "wider" => \A i \in r.saw :
               ~(Dist(prop'[i].at, r.sent.at) <= DedupRadius) \/ i \in r.near
         /\ r.pc \in {"seq", "insert"} => \A i \in r.saw :
               ~(Dist(prop'[i].at, r.sent.at) <= DedupRadius)
BY DEF Looked, Kept, Apart

LEMMA LookedRequest ==
  ASSUME LookedInv, NEW w \in Workers, Request(w)
  PROVE  \A v \in Workers : Looked(req'[v])
<1>1. ASSUME NEW r, req' = [req EXCEPT ![w] = r], Looked(r)
      PROVE  \A v \in Workers : Looked(req'[v])
  BY <1>1 DEF LookedInv, Shapes
<1>2. ASSUME NEW s \in Submissions, Identify(w, s)
      PROVE  \A v \in Workers : Looked(req'[v])
  <2> DEFINE near == Within(s.at, DedupRadius)
             wide == [pc |-> "wider", sent |-> s, near |-> near, saw |-> Live]
             r == IF s.photo = NoPhoto THEN Resolved(s, near, {}, Live) ELSE wide
  <2>1. \A i \in Live : Apart(i, s) \/ i \in near
    BY DEF Within, Apart
  <2>2. Looked(Resolved(s, near, {}, Live))
    BY <2>1, ResolvedLooked
  <2>3. wide.pc = "wider" /\ wide.saw = Live /\ wide.sent = s /\ wide.near = near
    OBVIOUS
  <2>4. Looked(wide)
    <3> HIDE DEF wide, near
    <3> QED BY <2>1, <2>3 DEF Looked
  <2>5. req' = [req EXCEPT ![w] = r]
    BY <1>2 DEF Identify
  <2>6. Looked(r)
    BY <2>2, <2>4
  <2> HIDE DEF r
  <2> QED BY <1>1, <2>5, <2>6
<1>3. CASE QueryWider(w)
  <2> DEFINE q == req[w]
             hits == LooksTheSame(q.sent)
             r == Resolved(q.sent, q.near \cup hits, hits, q.saw)
  <2>1. Looked(r)
    <3>1. q.saw \subseteq Live /\ \A i \in q.saw : Apart(i, q.sent) \/ i \in q.near
      BY <1>3 DEF QueryWider, LookedInv, Looked
    <3> HIDE DEF q, hits
    <3> QED BY <3>1, ResolvedLooked
  <2>2. req' = [req EXCEPT ![w] = r]
    BY <1>3 DEF QueryWider
  <2> HIDE DEF r
  <2> QED BY <1>1, <2>1, <2>2
<1>4. CASE SelectSeq(w)
  <2> DEFINE q == req[w]
             r == [pc |-> "insert", sent |-> q.sent, saw |-> q.saw,
                   seq |-> NextSeq(Used(Bucket(q.sent)))]
  <2>1. q.saw \subseteq Live /\ \A i \in q.saw : Apart(i, q.sent)
    BY <1>4 DEF SelectSeq, LookedInv, Looked
  <2>2. r.pc = "insert" /\ r.sent = q.sent /\ r.saw = q.saw
    OBVIOUS
  <2>3. req' = [req EXCEPT ![w] = Idle] \/ req' = [req EXCEPT ![w] = r]
    BY <1>4 DEF SelectSeq
  <2>4. Looked(Idle)
    BY DEF Looked, Idle
  <2>5. Looked(r)
    <3> HIDE DEF r, q
    <3> QED BY <2>1, <2>2 DEF Looked
  <2> HIDE DEF r
  <2> QED BY <1>1, <2>3, <2>4, <2>5
<1>5. CASE CreateError(w)
  <2>1. Looked(Idle)
    BY DEF Looked, Idle
  <2> QED BY <1>1, <1>5, <2>1 DEF CreateError
<1>6. ASSUME NEW i \in Rows, CommitCreate(w, i)
      PROVE  \A v \in Workers : Looked(req'[v])
  <2> DEFINE r == [pc |-> "created", sent |-> req[w].sent, row |-> i]
  <2>1. r.pc = "created"
    OBVIOUS
  <2>2. req' = [req EXCEPT ![w] = r]
    BY <1>6 DEF CommitCreate
  <2> HIDE DEF r
  <2>3. Looked(r)
    BY <2>1 DEF Looked
  <2> QED BY <1>1, <2>2, <2>3
<1> QED BY <1>2, <1>3, <1>4, <1>5, <1>6 DEF Request

LEMMA LookedNext == LookedInv /\ [Next]_vars => LookedInv'
<1> SUFFICES ASSUME LookedInv, [Next]_vars PROVE LookedInv'
    OBVIOUS
<1>1. Shapes' /\ Kept /\ Live \subseteq Live'
  BY ShapesNext, RecordsStay DEF LookedInv
<1>2. \A v \in Workers : Looked(req'[v])
  <2>1. CASE Import
    BY <2>1 DEF LookedInv, Import, StartImport, SkipBuilding, NumberBuilding, InsertBuilding,
                FinishImport, ImportDies
  <2>2. CASE UNCHANGED vars
    BY <2>2 DEF LookedInv, vars
  <2> QED BY <2>1, <2>2, LookedRequest DEF Next
<1>3. ASSUME NEW v \in Workers PROVE Looked(req[v])'
  BY <1>1, <1>2, LookedKept DEF Looked, Apart
<1> QED BY <1>1, <1>3 DEF LookedInv

-----------------------------------------------------------------------------
(* The import.  While it runs it knows every building an import ever       *)
(* inserted, so none is inserted under a name that is there.               *)
ImpInv ==
    /\ Shapes
    /\ imp.known \subseteq Live
    /\ imp.pc # "idle" => \A i \in Live : prop[i].source = "import" => i \in imp.known
    /\ imp.pc = "insert" =>
         \A i \in imp.known : prop[i].address # imp.next.address /\ Apart(i, imp.next)
    /\ ImportedOnce

(* A step that inserts no imported building.                               *)
LEMMA ImpStands ==
  ASSUME ImpInv, Shapes', Kept, Live \subseteq Live',
         \A i \in Live' \ Live : prop'[i].source # "import",
         imp'.known = imp.known \/ imp'.known = {},
         imp'.pc # "idle" => imp.pc # "idle" /\ imp'.known = imp.known,
         imp'.pc = "insert" =>
           \/ imp.pc = "insert" /\ imp'.next = imp.next /\ imp'.known = imp.known
           \/ imp'.known = imp.known /\ \A i \in imp.known :
                prop[i].address # imp'.next.address /\ Apart(i, imp'.next)
  PROVE  ImpInv'
<1>1. imp'.known \subseteq Live'
  BY DEF ImpInv
<1>2. imp'.pc # "idle" => \A i \in Live' : prop'[i].source = "import" => i \in imp'.known
  BY DEF ImpInv, Kept
<1>3. ASSUME imp'.pc = "insert", NEW i \in imp'.known
      PROVE  /\ prop'[i].address # imp'.next.address
             /\ ~(Dist(prop'[i].at, imp'.next.at) <= DedupRadius)
  <2>1. imp'.known = imp.known /\ i \in Live /\ prop'[i] = prop[i]
    BY <1>3 DEF ImpInv, Kept
  <2>2. prop[i].address # imp'.next.address /\ Apart(i, imp'.next)
    BY <1>3, <2>1 DEF ImpInv, Apart
  <2> QED BY <2>1, <2>2 DEF Apart
<1>4. ImportedOnce'
  BY DEF ImpInv, ImportedOnce, Kept
<1> QED BY <1>1, <1>2, <1>3, <1>4 DEF ImpInv, Apart, Dist

LEMMA ImpInsert ==
  ASSUME ImpInv, Shapes', NEW n \in Rows, InsertBuilding(n)
  PROVE  ImpInv'
<1>1. /\ Live' = Live \cup {n} /\ n \notin Live /\ Kept
      /\ prop'[n] = Registered(imp.next, imp.seq, "import")
  BY RowsAppear DEF InsertBuilding, ImpInv
<1>2. prop'[n].source = "import" /\ prop'[n].address = imp.next.address
  BY <1>1 DEF Registered
<1>3. imp.pc = "insert" /\ imp'.pc = "loop" /\ imp'.known = imp.known \cup {n}
  BY DEF InsertBuilding, ImpInv, Shapes
<1>4. \A i \in Live : prop'[i].source = "import" => i \in imp.known
  BY <1>1, <1>3 DEF ImpInv, Kept
<1>5. \A i \in imp.known : prop'[i].address # imp.next.address
  BY <1>1, <1>3 DEF ImpInv, Kept
<1>6. ImportedOnce'
  BY <1>1, <1>2, <1>4, <1>5 DEF ImpInv, ImportedOnce, Kept
<1> QED BY <1>1, <1>3, <1>4, <1>6 DEF ImpInv

LEMMA ImpNext == ImpInv /\ [Next]_vars => ImpInv'
<1> SUFFICES ASSUME ImpInv, [Next]_vars PROVE ImpInv'
    OBVIOUS
<1>1. Shapes' /\ Kept /\ Live \subseteq Live'
  BY ShapesNext, RecordsStay DEF ImpInv
<1>2. ASSUME UNCHANGED prop PROVE \A i \in Live' \ Live : prop'[i].source # "import"
  BY <1>2 DEF Live
<1>3. ASSUME NEW w \in Workers, Request(w) PROVE ImpInv'
  <2>1. UNCHANGED imp
    BY <1>3 DEF Request, Identify, QueryWider, SelectSeq, CreateError, CommitCreate
  <2>2. \A i \in Live' \ Live : prop'[i].source # "import"
    <3>1. ASSUME NEW n \in Rows, CommitCreate(w, n)
          PROVE  \A i \in Live' \ Live : prop'[i].source # "import"
      <4>1. Live' = Live \cup {n} /\ prop'[n].source = "tenant"
        BY <3>1, RowsAppear DEF CommitCreate, ImpInv, Registered
      <4> QED BY <4>1
    <3>2. CASE ~\E n \in Rows : CommitCreate(w, n)
      BY <1>2, <1>3, <3>2 DEF Request, Identify, QueryWider, SelectSeq, CreateError
    <3> QED BY <3>1, <3>2
  <2> QED BY <1>1, <2>1, <2>2, ImpStands DEF ImpInv
<1>4. CASE StartImport
  <2>1. imp'.pc = "loop" /\ imp'.known = Live /\ UNCHANGED prop
    BY <1>4 DEF StartImport
  <2>2. Live' = Live
    BY <2>1 DEF Live
  <2>3. ImportedOnce'
    BY <2>1, <2>2 DEF ImpInv, ImportedOnce
  <2> QED BY <1>1, <2>1, <2>2, <2>3 DEF ImpInv
<1>5. CASE FinishImport
  <2>1. imp'.pc = "idle" /\ imp'.known = {} /\ UNCHANGED prop
    BY <1>5 DEF FinishImport, ImpInv, Shapes
  <2> QED BY <1>1, <1>2, <2>1, ImpStands
<1>6. CASE ImportDies
  <2>1. imp'.pc = "idle" /\ imp'.known = {} /\ UNCHANGED prop
    BY <1>6 DEF ImportDies, ImpInv, Shapes
  <2> QED BY <1>1, <1>2, <2>1, ImpStands
<1>7. ASSUME NEW b \in Buildings, SkipBuilding(b) PROVE ImpInv'
  <2>1. imp'.pc = "loop" /\ imp.pc = "loop" /\ imp'.known = imp.known /\ UNCHANGED prop
    BY <1>7 DEF SkipBuilding, ImpInv, Shapes
  <2> QED BY <1>1, <1>2, <2>1, ImpStands
<1>8. ASSUME NEW b \in Buildings, NumberBuilding(b) PROVE ImpInv'
  <2>1. imp'.next = b /\ imp.pc = "loop" /\ imp'.known = imp.known /\ UNCHANGED prop
    BY <1>8 DEF NumberBuilding, ImpInv, Shapes
  <2>2. \A i \in imp.known : prop[i].address # b.address /\ Apart(i, b)
    BY <1>8 DEF NumberBuilding, AlreadyThere, Apart
  <2> QED BY <1>1, <1>2, <2>1, <2>2, ImpStands
<1>9. CASE UNCHANGED vars
  BY <1>1, <1>2, <1>9, ImpStands DEF vars, ImpInv
<1>10. CASE Import
  BY <1>1, <1>4, <1>5, <1>6, <1>7, <1>8, <1>10, ImpInsert DEF Import
<1> QED BY <1>3, <1>9, <1>10 DEF Next

LEMMA ImpInit == Init => ImpInv
BY ShapesInit DEF Init, ImpInv, ImportedOnce, Live, Absent

(* The import can be run again, over any crashes between its commits: no   *)
(* name is imported twice (import_properties).                             *)
THEOREM NoNameTwice == Spec => []ImportedOnce
<1>1. ImpInv => ImportedOnce
  BY DEF ImpInv
<1> QED BY <1>1, ImpInit, ImpNext, PTL DEF Spec

(* Two records for one spot come only from overlap: whoever registers a    *)
(* building saw none within the dedup radius when it looked                *)
(* (identify_or_create, import_properties).                                *)
THEOREM OnlyRacesDuplicate == Spec => DuplicatesOnlyByRace
<1>1. Init => LookedInv
  BY ShapesInit DEF Init, LookedInv, Looked, Idle
<1>2. ASSUME LookedInv, NEW w \in Workers, NEW i \in Rows, CommitCreate(w, i)
      PROVE  CloseTo(i) \cap req[w].saw = {}
  <2>1. prop'[i].at = req[w].sent.at
    BY <1>2, RowsAppear DEF CommitCreate, LookedInv, Registered
  <2>2. \A j \in req[w].saw : Apart(j, req[w].sent)
    BY <1>2 DEF CommitCreate, LookedInv, Looked
  <2> QED BY <2>1, <2>2 DEF CloseTo, Apart
<1>3. ASSUME ImpInv, NEW i \in Rows, InsertBuilding(i)
      PROVE  CloseTo(i) \cap imp.known = {}
  <2>1. prop'[i].at = imp.next.at
    BY <1>3, RowsAppear DEF InsertBuilding, ImpInv, Registered
  <2>2. \A j \in imp.known : Apart(j, imp.next)
    BY <1>3 DEF InsertBuilding, ImpInv
  <2> QED BY <2>1, <2>2 DEF CloseTo, Apart
<1>4. LookedInv /\ ImpInv /\ [Next]_vars
      => [/\ \A w \in Workers, i \in Rows :
               CommitCreate(w, i) => CloseTo(i) \cap req[w].saw = {}
          /\ \A i \in Rows : InsertBuilding(i) => CloseTo(i) \cap imp.known = {}]_vars
  BY <1>2, <1>3
<1>5. Spec => [](LookedInv /\ ImpInv)
  BY <1>1, LookedNext, ImpInit, ImpNext, PTL DEF Spec
<1> QED BY <1>4, <1>5, PTL DEF Spec, DuplicatesOnlyByRace

-----------------------------------------------------------------------------
(* Provenance.  What a run still owes is the building it inserted last;    *)
(* what is missing for good is one such building per run that died.        *)
Unsourced == {i \in Live : prop[i].source = "import"} \ sourced

Owed ==
    \/ imp.pending = {}
    \/ imp.pc # "idle" /\ \E i \in Unsourced : imp.pending = {i}

OwedInv ==
    /\ Shapes
    /\ sourced \subseteq Live
    /\ IsFiniteSet(Unsourced)
    /\ Owed
    /\ lost \in Nat /\ imp.runs \in Nat
    /\ Cardinality(Unsourced) = lost + Cardinality(imp.pending)
    /\ lost <= imp.runs
    /\ imp.pc # "idle" => lost + 1 <= imp.runs

LEMMA OwedSize ==
  ASSUME Owed
  PROVE  /\ Cardinality(imp.pending) \in {0, 1}
         /\ imp.pc = "idle" => imp.pending = {}
         /\ imp.pending \subseteq Unsourced /\ IsFiniteSet(imp.pending)
<1>1. CASE imp.pending = {}
  BY <1>1, FS_EmptySet
<1>2. ASSUME imp.pc # "idle", NEW i \in Unsourced, imp.pending = {i}
      PROVE  /\ Cardinality(imp.pending) = 1 /\ IsFiniteSet(imp.pending)
             /\ imp.pending \subseteq Unsourced
  BY <1>2, FS_Singleton
<1> QED BY <1>1, <1>2 DEF Owed

(* A step that leaves the imported buildings and their sources alone.      *)
LEMMA OwedStands ==
  ASSUME OwedInv, Shapes', sourced' = sourced, sourced \subseteq Live',
         Unsourced' = Unsourced, lost' = lost,
         imp'.pending = imp.pending, imp'.runs \in Nat, imp.runs <= imp'.runs,
         imp'.pc # "idle" => imp.pc # "idle" \/ lost + 1 <= imp'.runs,
         imp'.pc = "idle" => imp.pc = "idle"
  PROVE  OwedInv'
<1>1. Owed'
  BY DEF OwedInv, Owed
<1>2. lost <= imp'.runs /\ (imp'.pc # "idle" => lost + 1 <= imp'.runs)
  BY DEF OwedInv
<1> QED BY <1>1, <1>2 DEF OwedInv

(* FinishImport and InsertBuilding commit what is owed.                    *)
LEMMA OwedSettled ==
  ASSUME OwedInv
  PROVE  /\ IsFiniteSet(Unsourced \ imp.pending)
         /\ Cardinality(Unsourced \ imp.pending) = lost
<1>1. Cardinality(imp.pending) \in Nat /\ imp.pending \subseteq Unsourced
  BY OwedSize DEF OwedInv
<1>2. CASE imp.pending = {}
  <2>1. Unsourced \ imp.pending = Unsourced
    BY <1>2
  <2> QED BY <1>2, <2>1, FS_EmptySet DEF OwedInv
<1>3. CASE imp.pending # {}
  <2>1. PICK i \in Unsourced : imp.pending = {i}
    BY <1>3 DEF OwedInv, Owed
  <2>2. /\ IsFiniteSet(Unsourced \ {i})
        /\ Cardinality(Unsourced \ {i}) = Cardinality(Unsourced) - 1
    BY <2>1, FS_RemoveElement DEF OwedInv
  <2>3. Cardinality(imp.pending) = 1
    BY <2>1, FS_Singleton
  <2> QED BY <2>1, <2>2, <2>3 DEF OwedInv
<1> QED BY <1>2, <1>3

LEMMA OwedRequest ==
  ASSUME OwedInv, Shapes', NEW w \in Workers, Request(w)
  PROVE  OwedInv'
<1>1. UNCHANGED <<imp, sourced, lost>>
  BY DEF Request, Identify, QueryWider, SelectSeq, CreateError, CommitCreate
<1>2. Unsourced' = Unsourced /\ sourced \subseteq Live'
  <2>1. ASSUME NEW n \in Rows, CommitCreate(w, n)
        PROVE  Unsourced' = Unsourced /\ sourced \subseteq Live'
    <3>1. Live' = Live \cup {n} /\ n \notin Live /\ Kept /\ prop'[n].source = "tenant"
      BY <2>1, RowsAppear DEF CommitCreate, OwedInv, Registered
    <3> QED BY <1>1, <3>1 DEF Unsourced, Kept, OwedInv
  <2>2. ASSUME UNCHANGED prop
        PROVE  Unsourced' = Unsourced /\ sourced \subseteq Live'
    BY <1>1, <2>2 DEF Unsourced, Live, OwedInv
  <2> QED BY <2>1, <2>2 DEF Request, Identify, QueryWider, SelectSeq, CreateError
<1> QED BY <1>1, <1>2, OwedStands DEF OwedInv

LEMMA OwedInsert ==
  ASSUME OwedInv, Shapes', NEW n \in Rows, InsertBuilding(n)
  PROVE  OwedInv'
<1>1. /\ Live' = Live \cup {n} /\ n \notin Live /\ Kept
      /\ prop'[n].source = "import"
  BY RowsAppear DEF InsertBuilding, OwedInv, Registered
<1>2. /\ sourced' = sourced \cup imp.pending /\ lost' = lost
      /\ imp.pc # "idle" /\ imp'.pc # "idle"
      /\ imp'.pending = {n} /\ imp'.runs = imp.runs
  BY DEF InsertBuilding, Provenance, OwedInv, Shapes
<1>3. imp.pending \subseteq Live
  BY OwedSize DEF OwedInv, Unsourced
<1>4. /\ Unsourced' = (Unsourced \ imp.pending) \cup {n}
      /\ n \notin Unsourced
      /\ sourced' \subseteq Live'
  BY <1>1, <1>2, <1>3 DEF Unsourced, Kept, OwedInv
<1>5. IsFiniteSet(Unsourced') /\ Cardinality(Unsourced') = lost + 1
  BY <1>4, OwedSettled, FS_AddElement
<1>6. Owed'
  BY <1>2, <1>4 DEF Owed
<1>7. Cardinality(imp'.pending) = 1
  BY <1>2, FS_Singleton
<1> QED BY <1>2, <1>4, <1>5, <1>6, <1>7 DEF OwedInv

LEMMA OwedImport ==
  ASSUME OwedInv, Shapes', Import
  PROVE  OwedInv'
<1>1. ASSUME UNCHANGED <<prop, sourced>>
      PROVE  Unsourced' = Unsourced /\ Live' = Live /\ sourced \subseteq Live'
  BY <1>1 DEF Unsourced, Live, OwedInv
<1>2. CASE StartImport
  <2>1. /\ UNCHANGED <<prop, sourced, lost>> /\ imp.pc = "idle"
        /\ imp'.pending = {} /\ imp'.runs = imp.runs + 1 /\ imp'.pc = "loop"
    BY <1>2 DEF StartImport
  <2>2. imp.pending = {}
    BY <2>1, OwedSize DEF OwedInv
  <2> QED BY <1>1, <2>1, <2>2, OwedStands DEF OwedInv
<1>3. ASSUME NEW b \in Buildings, SkipBuilding(b) \/ NumberBuilding(b) PROVE OwedInv'
  <2>1. /\ UNCHANGED <<prop, sourced, lost>> /\ imp.pc # "idle" /\ imp'.pc # "idle"
        /\ imp'.pending = imp.pending /\ imp'.runs = imp.runs
    BY <1>3 DEF SkipBuilding, NumberBuilding, OwedInv, Shapes
  <2> QED BY <1>1, <2>1, OwedStands DEF OwedInv
<1>4. CASE FinishImport
  <2>1. /\ sourced' = sourced \cup imp.pending /\ UNCHANGED <<prop, lost>>
        /\ imp.pc = "loop" /\ imp'.pending = {} /\ imp'.runs = imp.runs /\ imp'.pc = "idle"
    BY <1>4 DEF FinishImport, Provenance, OwedInv, Shapes
  <2>2. Unsourced' = Unsourced \ imp.pending /\ sourced' \subseteq Live'
    BY <2>1, OwedSize DEF Unsourced, Live, OwedInv
  <2>3. Owed' /\ Cardinality(imp'.pending) = 0
    BY <2>1, FS_EmptySet DEF Owed
  <2> QED BY <2>1, <2>2, <2>3, OwedSettled DEF OwedInv
<1>5. CASE ImportDies
  <2>1. /\ UNCHANGED <<prop, sourced>> /\ lost' = lost + Cardinality(imp.pending)
        /\ imp.pc # "idle" /\ imp'.pending = {} /\ imp'.runs = imp.runs /\ imp'.pc = "idle"
    BY <1>5 DEF ImportDies, OwedInv, Shapes
  <2>2. Cardinality(imp.pending) \in {0, 1}
    BY OwedSize DEF OwedInv
  <2>3. Owed' /\ Cardinality(imp'.pending) = 0
    BY <2>1, FS_EmptySet DEF Owed
  <2>4. lost' \in Nat /\ lost' <= imp'.runs
    BY <2>1, <2>2 DEF OwedInv
  <2> QED BY <1>1, <2>1, <2>2, <2>3, <2>4 DEF OwedInv
<1> QED BY <1>2, <1>3, <1>4, <1>5, OwedInsert DEF Import

LEMMA OwedNext == OwedInv /\ [Next]_vars => OwedInv'
<1> SUFFICES ASSUME OwedInv, [Next]_vars PROVE OwedInv'
    OBVIOUS
<1>1. Shapes'
  BY ShapesNext DEF OwedInv
<1>2. CASE UNCHANGED vars
  <2>1. Unsourced' = Unsourced /\ Live' = Live
    BY <1>2 DEF vars, Unsourced, Live
  <2> QED BY <1>1, <1>2, <2>1, OwedStands DEF vars, OwedInv
<1> QED BY <1>1, <1>2, OwedRequest, OwedImport DEF Next

LEMMA OwedInit == Init => OwedInv
<1> SUFFICES ASSUME Init PROVE OwedInv
    OBVIOUS
<1>1. Unsourced = {} /\ sourced = {} /\ imp.pending = {} /\ imp.pc = "idle"
  BY DEF Init, Unsourced, Live
<1>2. imp.runs = 0 /\ lost = 0
  BY DEF Init
<1> QED BY <1>1, <1>2, FS_EmptySet, ShapesInit DEF OwedInv, Owed

(* Every imported building carries its source, but for one per run that    *)
(* died and the one a running import still holds (import_properties).      *)
THEOREM SourcesAreOwed == Spec => []UnsourcedBounded
<1>1. OwedInv => UnsourcedBounded
  BY DEF OwedInv, UnsourcedBounded, Unsourced
<1> QED BY <1>1, OwedInit, OwedNext, PTL DEF Spec
=============================================================================
