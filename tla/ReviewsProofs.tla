---------------------------- MODULE ReviewsProofs ----------------------------
(***************************************************************************)
(* What holds of the review pipeline for any number of workers, tenants,   *)
(* reviews and properties.                                                 *)
(***************************************************************************)
EXTENDS Reviews, FiniteSetTheorems, FunctionTheorems, TLAPS

LEMMA IdleType == Idle \in Transaction /\ BlankRow \in Row /\ NoColumns \in Columns
  BY DEF Idle, Transaction, BlankRows, BlankRow, Row, NoColumns, Columns, AllOps,
         NoReply, Statuses, Ages

LEMMA MergeRowType ==
    ASSUME NEW db \in Row, NEW loaded \in Row, NEW wanted \in Row
    PROVE  MergeRow(db, loaded, wanted) \in Row
  BY DEF MergeRow, Col, Row

LEMMA MergeColumnsType ==
    ASSUME NEW db \in Columns, NEW loaded \in Columns, NEW wanted \in Columns
    PROVE  MergeColumns(db, loaded, wanted) \in Columns
  BY DEF MergeColumns, Col, Columns

LEMMA SeenType ==
    ASSUME TypeOK, NEW w \in Workers, NEW r \in Reviews
    PROVE  Seen(w, r) \in Row
  <1> DEFINE t == tx[w]
  <1>1. t \in Transaction /\ review[r] \in Row
    BY DEF TypeOK
  <1>2. t.mine[r] \in Row /\ t.want[r] \in Row
    BY <1>1 DEF Transaction
  <1>3. QED
    BY <1>1, <1>2, MergeRowType DEF Seen

LEMMA NewCountType ==
    ASSUME NEW t \in Transaction
    PROVE  NewCount(t) \in Nat
  <1>1. t.count \in Nat
    BY DEF Transaction
  <1>2. QED
    BY <1>1 DEF NewCount

LEMMA AdvanceType ==
    ASSUME TypeOK, NEW w \in Workers, NEW t \in Transaction, Advance(w, t)
    PROVE  tx' \in [Workers -> Transaction]
  BY DEF TypeOK, Advance

-----------------------------------------------------------------------------
(* Types.                                                                  *)

LEMMA TypeInit == Init => TypeOK
  <1> SUFFICES ASSUME Init PROVE TypeOK
    OBVIOUS
  <1>1. review \in [Reviews -> Row]
    BY IdleType DEF Init, BlankRows
  <1>2. user \in [Users -> Account]
    BY DEF Init, Account
  <1>3. prop \in [Properties -> Columns]
    BY IdleType DEF Init
  <1>4. audit \in [Reviews -> SUBSET Decisions]
    BY DEF Init
  <1>5. tx \in [Workers -> Transaction]
    BY IdleType DEF Init
  <1> QED
    BY <1>1, <1>2, <1>3, <1>4, <1>5 DEF TypeOK

(* A request's reads change its own transaction only.                      *)
LEMMA TypeKept ==
    ASSUME TypeOK, NEW w \in Workers, NEW t \in Transaction, Advance(w, t),
           UNCHANGED <<review, user, prop, audit>>
    PROVE  TypeOK'
  BY AdvanceType DEF TypeOK

LEMMA TypeRollback ==
    ASSUME TypeOK, NEW w \in Workers, Rollback(w)
    PROVE  TypeOK'
  BY TypeKept, IdleType DEF Rollback

LEMMA TypeReceive ==
    ASSUME TypeOK, NEW w \in Workers, Receive(w)
    PROVE  TypeOK'
  <1>1. ASSUME NEW u \in Users, NEW op \in AllOps, NEW target \in SUBSET Reviews,
               Authenticate(w, u, op, target)
        PROVE  TypeOK'
    <2> DEFINE t == [Idle EXCEPT !.pc = "authed", !.op = op, !.caller = u,
                                 !.count = user[u].review_count, !.own = target]
    <2>1. user[u].review_count \in Nat
      BY DEF TypeOK, Account
    <2>2. t \in Transaction
      BY <2>1, IdleType DEF Transaction
    <2> QED
      BY <1>1, <2>2, TypeKept DEF Authenticate
  <1>2. CASE StartSubmit(w)
    BY <1>1, <1>2, ConstantsOK DEF StartSubmit, AllOps
  <1>3. CASE StartOnOwnReview(w)
    BY <1>1, <1>3 DEF StartOnOwnReview, AllOps
  <1>4. CASE StartClosure(w)
    BY <1>1, <1>4 DEF StartClosure, AllOps
  <1>5. CASE LoadDecision(w)
    <2> PICK r \in Reviews, d \in Decisions :
          Advance(w, [Idle EXCEPT
              !.pc = "loaded", !.op = d, !.own = {r},
              !.mine[r] = review[r],
              !.want[r] = [review[r] EXCEPT !.status = Outcome(d)]])
      BY <1>5 DEF LoadDecision
    <2> DEFINE t == [Idle EXCEPT
              !.pc = "loaded", !.op = d, !.own = {r},
              !.mine[r] = review[r],
              !.want[r] = [review[r] EXCEPT !.status = Outcome(d)]]
    <2>1. review[r] \in Row
      BY DEF TypeOK
    <2>2. Outcome(d) \in Statuses
      BY DEF Outcome, Decisions, Statuses
    <2>3. [review[r] EXCEPT !.status = Outcome(d)] \in Row
      BY <2>1, <2>2 DEF Row
    <2>4. t \in Transaction
      BY <2>1, <2>3, IdleType DEF Transaction, AllOps
    <2> QED
      BY <1>5, <2>4, TypeKept DEF LoadDecision
  <1>6. CASE LoadReply(w)
    <2> PICK r \in Reviews, text \in ReplyTexts :
          Advance(w, [Idle EXCEPT
              !.pc = "loaded", !.op = "reply", !.own = {r},
              !.mine[r] = review[r],
              !.want[r] = [review[r] EXCEPT !.reply = text]])
      BY <1>6 DEF LoadReply
    <2> DEFINE t == [Idle EXCEPT
              !.pc = "loaded", !.op = "reply", !.own = {r},
              !.mine[r] = review[r],
              !.want[r] = [review[r] EXCEPT !.reply = text]]
    <2>1. review[r] \in Row /\ text \in {"blank", "plain", "risky"}
      BY ConstantsOK DEF TypeOK
    <2>2. [review[r] EXCEPT !.reply = text] \in Row
      BY <2>1 DEF Row
    <2>3. t \in Transaction
      BY <2>1, <2>2, IdleType DEF Transaction, AllOps
    <2> QED
      BY <1>6, <2>3, TypeKept DEF LoadReply
  <1> QED
    BY <1>2, <1>3, <1>4, <1>5, <1>6 DEF Receive

LEMMA EditVerdictType == ASSUME NEW c PROVE EditVerdict(c) \in Statuses
  BY DEF EditVerdict, Statuses

(* Closing an account leaves a live row a live row.                        *)
LEMMA ClosedType ==
    ASSUME NEW op, NEW row \in Row, row.status \in Statuses
    PROVE  /\ Closed(op, row) \in Row
           /\ Closed(op, row).status \in Statuses
           /\ Closed(op, row).status = "approved" => row.status = "approved"
  BY DEF Closed, Row, Statuses

LEMMA TypeLoads ==
    ASSUME TypeOK, NEW w \in Workers,
           LoadSubmit(w) \/ LoadEdit(w) \/ LoadDelete(w) \/ LoadClosure(w)
    PROVE  TypeOK'
  <1> DEFINE t == tx[w]
  <1>0. t \in Transaction
    BY DEF TypeOK
  <1>1. CASE LoadSubmit(w)
    <2> PICK r \in t.own, c \in Contents, status \in {"flagged", "pending"} :
          Advance(w, [t EXCEPT !.pc = "loaded",
                        !.want[r] = [BlankRow EXCEPT !.status = status,
                                                     !.body = c, !.named = TRUE],
                        !.loaded = prop[Home[r]]])
      BY <1>1 DEF LoadSubmit
    <2> DEFINE row == [BlankRow EXCEPT !.status = status, !.body = c, !.named = TRUE]
    <2>1. r \in Reviews
      BY <1>0 DEF Transaction
    <2>2. prop[Home[r]] \in Columns
      BY <2>1, ConstantsOK DEF TypeOK
    <2>3. row \in Row
      BY IdleType DEF Row, Statuses
    <2>4. [t EXCEPT !.pc = "loaded", !.want[r] = row, !.loaded = prop[Home[r]]]
            \in Transaction
      BY <1>0, <2>1, <2>2, <2>3 DEF Transaction
    <2> QED
      BY <1>1, <2>4, TypeKept DEF LoadSubmit
  <1>2. CASE LoadEdit(w)
    <2> PICK r \in t.own, c \in Contents :
          Advance(w, [t EXCEPT !.pc = "loaded",
                        !.mine[r] = review[r],
                        !.want[r] = [review[r] EXCEPT !.body = c,
                                                      !.status = EditVerdict(c)]])
      BY <1>2 DEF LoadEdit
    <2> DEFINE row == [review[r] EXCEPT !.body = c, !.status = EditVerdict(c)]
    <2>1. r \in Reviews
      BY <1>0 DEF Transaction
    <2>2. review[r] \in Row
      BY <2>1 DEF TypeOK
    <2>3. row \in Row
      BY <2>2, EditVerdictType DEF Row
    <2>4. [t EXCEPT !.pc = "loaded", !.mine[r] = review[r], !.want[r] = row]
            \in Transaction
      BY <1>0, <2>1, <2>2, <2>3 DEF Transaction
    <2> QED
      BY <1>2, <2>4, TypeKept DEF LoadEdit
  <1>3. CASE LoadDelete(w)
    <2> PICK r \in t.own :
          Advance(w, [t EXCEPT !.pc = "loaded",
                        !.mine[r] = review[r],
                        !.want[r] = [BlankRow EXCEPT !.status = "deleted"]])
      BY <1>3 DEF LoadDelete
    <2> DEFINE row == [BlankRow EXCEPT !.status = "deleted"]
    <2>1. r \in Reviews
      BY <1>0 DEF Transaction
    <2>2. review[r] \in Row
      BY <2>1 DEF TypeOK
    <2>3. row \in Row
      BY IdleType DEF Row
    <2>4. [t EXCEPT !.pc = "loaded", !.mine[r] = review[r], !.want[r] = row]
            \in Transaction
      BY <1>0, <2>1, <2>2, <2>3 DEF Transaction
    <2> QED
      BY <1>3, <2>4, TypeKept DEF LoadDelete
  <1>4. CASE LoadClosure(w)
    <2> DEFINE own == {r \in Reviews : Author[r] = t.caller /\ Exists(r)}
               mine == [r \in Reviews |-> IF r \in own THEN review[r] ELSE BlankRow]
               want == [r \in Reviews |-> IF r \in own THEN Closed(t.op, review[r])
                                                       ELSE BlankRow]
    <2>1. \A r \in own : Closed(t.op, review[r]) \in Row
      BY ClosedType DEF TypeOK, Exists
    <2>2. mine \in [Reviews -> Row] /\ want \in [Reviews -> Row]
      BY <2>1, IdleType DEF TypeOK
    <2>3. [t EXCEPT !.pc = "loaded", !.own = own, !.mine = mine, !.want = want]
            \in Transaction
      BY <1>0, <2>2 DEF Transaction
    <2> QED
      BY <1>4, <2>3, TypeKept DEF LoadClosure
  <1> QED
    BY <1>1, <1>2, <1>3, <1>4

(* The recomputed aggregates are well formed: a finite number of reviews,  *)
(* and a rent one of them names.                                           *)
LEMMA TypeScore ==
    ASSUME TypeOK, NEW w \in Workers, Score(w)
    PROVE  TypeOK'
  <1> DEFINE t == tx[w]
  <1>0. t \in Transaction
    BY DEF TypeOK
  <1> PICK r \in t.own :
        LET A == Approved(w, Home[r])
            loaded == IF t.op = "submit" THEN t.loaded ELSE prop[Home[r]]
            rents == LatestRents(w, A)
        IN \E rent \in (IF rents = {} THEN {loaded.rent} ELSE rents) :
             Advance(w, [t EXCEPT
               !.pc = "scored",
               !.loaded = loaded,
               !.calc = [total   |-> Cardinality(A),
                         counted |-> {<<a, BodyInSession(w, a)>> : a \in A},
                         rent    |-> rent]])
    BY DEF Score
  <1> DEFINE A == Approved(w, Home[r])
             loaded == IF t.op = "submit" THEN t.loaded ELSE prop[Home[r]]
             rents == LatestRents(w, A)
             counted == {<<a, BodyInSession(w, a)>> : a \in A}
  <1> PICK rent \in (IF rents = {} THEN {loaded.rent} ELSE rents) :
        Advance(w, [t EXCEPT !.pc = "scored", !.loaded = loaded,
                      !.calc = [total |-> Cardinality(A), counted |-> counted,
                                rent |-> rent]])
    OBVIOUS
  <1>1. r \in Reviews /\ A \subseteq Reviews
    BY <1>0 DEF Transaction, Approved
  <1>2. loaded \in Columns
    BY <1>0, <1>1, ConstantsOK DEF Transaction, TypeOK
  <1>3. Cardinality(A) \in Nat
    BY <1>1, FS_Subset, FS_CardinalityType, ConstantsOK
  <1>4. \A a \in Reviews : BodyInSession(w, a) \in Contents \cup {NoContent}
    BY <1>0 DEF BodyInSession, TypeOK, Transaction, Row
  <1>5. counted \in SUBSET (Reviews \X (Contents \cup {NoContent}))
    BY <1>1, <1>4
  <1>6. \A x \in rents : x \in Nat
    BY ConstantsOK DEF LatestRents
  <1>7. rent \in Nat
    BY <1>2, <1>6 DEF Columns
  <1> DEFINE calc == [total |-> Cardinality(A), counted |-> counted, rent |-> rent]
  <1>8. calc \in Columns
    BY <1>3, <1>5, <1>7 DEF Columns
  <1>9. [t EXCEPT !.pc = "scored", !.loaded = loaded, !.calc = calc] \in Transaction
    BY <1>0, <1>2, <1>8 DEF Transaction
  <1> QED
    BY <1>9, TypeKept DEF Score

LEMMA LandedType ==
    ASSUME TypeOK, NEW w \in Workers
    PROVE  Landed(w) \in [Reviews -> Row]
  BY SeenType DEF Landed

LEMMA TypeCommits ==
    ASSUME TypeOK, NEW w \in Workers,
           CommitScored(w) \/ CommitReply(w) \/ CommitClosure(w)
    PROVE  TypeOK'
  <1> DEFINE t == tx[w]
  <1>0. t \in Transaction
    BY DEF TypeOK
  <1>1. review' \in [Reviews -> Row]
    BY LandedType DEF CommitScored, CommitReply, CommitClosure
  <1>2. tx' \in [Workers -> Transaction]
    BY AdvanceType, IdleType DEF CommitScored, CommitReply, CommitClosure
  <1>3. CASE CommitScored(w)
    <2> PICK r \in t.own :
          /\ prop' = [prop EXCEPT ![Home[r]] = MergeColumns(@, t.loaded, t.calc)]
          /\ audit' = [audit EXCEPT ![r] = @ \cup AuditRow(t)]
      BY <1>3 DEF CommitScored
    <2>1. r \in Reviews /\ Home[r] \in Properties
      BY <1>0, ConstantsOK DEF Transaction
    <2>2. prop' \in [Properties -> Columns]
      <3>1. MergeColumns(prop[Home[r]], t.loaded, t.calc) \in Columns
        BY <1>0, <2>1, MergeColumnsType DEF Transaction, TypeOK
      <3> QED
        BY <3>1 DEF TypeOK
    <2>3. audit' \in [Reviews -> SUBSET Decisions]
      <3>1. AuditRow(t) \subseteq Decisions
        BY DEF AuditRow
      <3> QED
        BY <2>1, <3>1 DEF TypeOK
    <2>4. user' \in [Users -> Account]
      <3>1. NewCount(t) \in Nat
        BY <1>0, NewCountType
      <3>2. ASSUME NEW u \in Users
            PROVE  [user[u] EXCEPT !.review_count = NewCount(t)] \in Account
        BY <3>1 DEF TypeOK, Account
      <3> QED
        BY <1>3, <3>2 DEF CommitScored, TypeOK
    <2> QED
      BY <1>1, <1>2, <2>2, <2>3, <2>4 DEF TypeOK
  <1>4. CASE CommitReply(w)
    BY <1>1, <1>2, <1>4 DEF CommitReply, TypeOK
  <1>5. CASE CommitClosure(w)
    <2> DEFINE state == IF t.op = "withdraw" THEN "withdrawn" ELSE "anonymised"
    <2>1. user' = [user EXCEPT ![t.caller].state = state]
      BY <1>5 DEF CommitClosure
    <2>2. ASSUME NEW u \in Users
          PROVE  [user[u] EXCEPT !.state = state] \in Account
      BY DEF TypeOK, Account
    <2>3. user' \in [Users -> Account]
      BY <2>1, <2>2 DEF TypeOK
    <2> QED
      BY <1>1, <1>2, <1>5, <2>3 DEF CommitClosure, TypeOK
  <1> QED
    BY <1>3, <1>4, <1>5

LEMMA TypeNext == TypeOK /\ [Next]_vars => TypeOK'
  <1> SUFFICES ASSUME TypeOK, [Next]_vars PROVE TypeOK'
    OBVIOUS
  <1>1. ASSUME NEW w \in Workers, Receive(w) PROVE TypeOK'
    BY <1>1, TypeReceive
  <1>2. ASSUME NEW w \in Workers, Proceed(w) PROVE TypeOK'
    <2>1. CASE Refuse(w) \/ FlushError(w)
      BY <2>1, TypeRollback DEF Refuse, FlushError
    <2>2. CASE Flush(w)
      <3>1. [tx[w] EXCEPT !.pc = "flushed"] \in Transaction
        BY DEF TypeOK, Transaction
      <3> QED
        BY <2>2, <3>1, TypeKept DEF Flush
    <2> QED
      BY <1>2, <2>1, <2>2, TypeLoads, TypeScore, TypeCommits DEF Proceed
  <1>3. ASSUME NEW w \in Workers, Crash(w) PROVE TypeOK'
    BY <1>3, TypeRollback DEF Crash
  <1>4. ASSUME NEW r \in Reviews, GrowOlder(r) PROVE TypeOK'
    <2> DEFINE age == IF review[r].age = "day" THEN "window" ELSE "old"
    <2>1. [review[r] EXCEPT !.age = age] \in Row
      BY DEF TypeOK, Row, Ages
    <2>2. review' = [review EXCEPT ![r] = [review[r] EXCEPT !.age = age]]
      BY <1>4 DEF GrowOlder, TypeOK
    <2> QED
      BY <1>4, <2>1, <2>2 DEF GrowOlder, TypeOK
  <1>5. CASE UNCHANGED vars
    BY <1>5 DEF vars, TypeOK
  <1> QED
    BY <1>1, <1>2, <1>3, <1>4, <1>5 DEF Next

(* The state of the pipeline keeps its shape in every reachable state.     *)
THEOREM TypeCorrect == Spec => []TypeOK
  BY TypeInit, TypeNext, PTL DEF Spec

-----------------------------------------------------------------------------
(* Moderation.  The three safety invariants are not inductive: an approval *)
(* is recorded only when it commits, so what commits must be bound to what *)
(* was read and to the row locks taken since.  RequestsConsistent says how. *)

Inv == /\ TypeOK
       /\ PublicationAudited
       /\ AuditedRowsSurvive
       /\ ScoreCountsOnlyModerated
       /\ RequestsConsistent

RequestOK(t) == /\ OneRow(t) /\ WantsLegalStatus(t)
                /\ LocksProtect(t) /\ CountsModerated(t)

LEMMA IdleOK == RequestOK(Idle)
  BY DEF RequestOK, Idle, OneRow, WantsLegalStatus, LocksProtect, CountsModerated,
         Writing

LEMMA ConflictSymmetric ==
    ASSUME NEW s \in Transaction, NEW t \in Transaction, Conflict(s, t)
    PROVE  Conflict(t, s)
  BY DEF Conflict

LEMMA InvInit == Init => Inv
  <1> SUFFICES ASSUME Init PROVE Inv
    OBVIOUS
  <1>1. TypeOK
    BY TypeInit
  <1>2. PublicationAudited /\ AuditedRowsSurvive
    BY DEF Init, PublicationAudited, AuditedRowsSurvive, BlankRows, BlankRow
  <1>3. ScoreCountsOnlyModerated
    BY DEF Init, ScoreCountsOnlyModerated, NoColumns
  <1>4. \A w \in Workers : RequestOK(tx[w])
    BY IdleOK DEF Init
  <1>5. LocksExclusive
    BY DEF LocksExclusive, Holding, Init, Idle
  <1> QED
    BY <1>1, <1>2, <1>3, <1>4, <1>5 DEF Inv, RequestsConsistent, RequestOK

(* A step that moves one request and no table keeps the invariant when the *)
(* request is still consistent and its locks, if it has any, are its own.  *)
LEMMA InvAdvance ==
    ASSUME Inv, NEW w \in Workers, NEW t \in Transaction, Advance(w, t),
           UNCHANGED <<review, user, prop, audit>>,
           RequestOK(t),
           t.pc \in {"flushed", "scored"} =>
             \A v \in Workers \ {w} : Holding(v) => ~Conflict(tx[v], t)
    PROVE  Inv'
  <1>1. TypeOK /\ TypeOK'
    BY TypeKept DEF Inv
  <1>2. \A v \in Workers : tx'[v] = IF v = w THEN t ELSE tx[v]
    BY <1>1 DEF Advance, TypeOK
  <1>3. PublicationAudited' /\ AuditedRowsSurvive' /\ ScoreCountsOnlyModerated'
    BY DEF Inv, PublicationAudited, AuditedRowsSurvive, ScoreCountsOnlyModerated,
           Exists
  <1>4. ASSUME NEW v \in Workers PROVE RequestOK(tx[v])'
    <2>1. RequestOK(tx[v])
      BY DEF Inv, RequestsConsistent, RequestOK
    <2>2. RequestOK(tx'[v])
      BY <1>2, <2>1
    <2> QED
      BY <2>2 DEF RequestOK, OneRow, WantsLegalStatus, LocksProtect, CountsModerated,
                  Writing, Exists
  <1>5. LocksExclusive'
    <2> SUFFICES ASSUME NEW u \in Workers, NEW v \in Workers, u # v,
                        Holding(u)', Holding(v)'
                 PROVE  ~Conflict(tx'[u], tx'[v])
      BY DEF LocksExclusive, Conflict, Locks, KeyShares, Deletes
    <2>1. CASE u # w /\ v # w
      BY <1>2, <2>1 DEF Inv, RequestsConsistent, LocksExclusive, Holding
    <2>2. CASE v = w
      BY <1>2, <2>2 DEF Holding
    <2>3. CASE u = w
      <3>1. ~Conflict(tx[v], t)
        BY <1>2, <2>3 DEF Holding
      <3>2. tx[v] \in Transaction
        BY <1>1 DEF TypeOK
      <3> QED
        BY <1>2, <2>3, <3>1, <3>2, ConflictSymmetric
    <2> QED
      BY <2>1, <2>2, <2>3
  <1> QED
    BY <1>1, <1>3, <1>4, <1>5 DEF Inv, RequestsConsistent, RequestOK

LEMMA InvRollback ==
    ASSUME Inv, NEW w \in Workers, Rollback(w)
    PROVE  Inv'
  BY InvAdvance, IdleOK, IdleType DEF Rollback, Idle

(* A request that holds no lock yet has little to be consistent about.     *)
LEMMA InvUnlocked ==
    ASSUME Inv, NEW w \in Workers, NEW t \in Transaction, Advance(w, t),
           UNCHANGED <<review, user, prop, audit>>,
           t.pc \in {"authed", "loaded"}, OneRow(t), WantsLegalStatus(t)
    PROVE  Inv'
  <1>1. RequestOK(t)
    BY DEF RequestOK, LocksProtect, CountsModerated
  <1> QED
    BY <1>1, InvAdvance

LEMMA InvReceive ==
    ASSUME Inv, NEW w \in Workers, Receive(w)
    PROVE  Inv'
  <1>0. TypeOK
    BY DEF Inv
  <1>1. ASSUME NEW u \in Users, NEW op \in AllOps, NEW target \in SUBSET Reviews,
               op \in ScoringOps => \E r \in Reviews : target = {r},
               Authenticate(w, u, op, target)
        PROVE  Inv'
    <2> DEFINE t == [Idle EXCEPT !.pc = "authed", !.op = op, !.caller = u,
                                 !.count = user[u].review_count, !.own = target]
    <2>1. user[u].review_count \in Nat
      BY <1>0 DEF TypeOK, Account
    <2>2. t \in Transaction
      BY <2>1, IdleType DEF Transaction
    <2>3. t.pc = "authed" /\ t.op = op /\ t.own = target
      BY DEF Idle
    <2>4. OneRow(t) /\ WantsLegalStatus(t)
      BY <1>1, <2>3 DEF OneRow, WantsLegalStatus, Writing
    <2> QED
      BY <1>1, <2>2, <2>3, <2>4, InvUnlocked DEF Authenticate
  <1>2. CASE StartSubmit(w)
    <2> PICK r \in Reviews : Authenticate(w, Author[r], "submit", {r})
      BY <1>2 DEF StartSubmit
    <2>1. Author[r] \in Users /\ "submit" \in AllOps
      BY ConstantsOK DEF AllOps
    <2> QED
      BY <1>1, <2>1
  <1>3. CASE StartOnOwnReview(w)
    BY <1>1, <1>3 DEF StartOnOwnReview, AllOps
  <1>4. CASE StartClosure(w)
    BY <1>1, <1>4 DEF StartClosure, AllOps, ScoringOps, Closures, Decisions, OwnReviewOps
  <1>5. CASE LoadDecision(w)
    <2> PICK r \in Reviews, d \in Decisions :
          Advance(w, [Idle EXCEPT
              !.pc = "loaded", !.op = d, !.own = {r},
              !.mine[r] = review[r],
              !.want[r] = [review[r] EXCEPT !.status = Outcome(d)]])
      BY <1>5 DEF LoadDecision
    <2> DEFINE row == [review[r] EXCEPT !.status = Outcome(d)]
               t == [Idle EXCEPT !.pc = "loaded", !.op = d, !.own = {r},
                                 !.mine[r] = review[r], !.want[r] = row]
    <2>1. review[r] \in Row
      BY <1>0 DEF TypeOK
    <2>2. Outcome(d) \in Statuses /\ (Outcome(d) = "approved" <=> d = "approve")
      BY DEF Outcome, Decisions, Statuses
    <2>3. row \in Row /\ row.status = Outcome(d)
      BY <2>1, <2>2 DEF Row
    <2>4. t \in Transaction
      BY <2>1, <2>3, IdleType DEF Transaction, AllOps
    <2>5. t.pc = "loaded" /\ t.op = d /\ t.own = {r} /\ t.want[r] = row
      BY DEF Idle, BlankRows
    <2>6. OneRow(t)
      BY <2>5 DEF OneRow
    <2>7. WantsLegalStatus(t)
      BY <2>2, <2>3, <2>5 DEF WantsLegalStatus, Decisions
    <2> QED
      BY <1>5, <2>4, <2>5, <2>6, <2>7, InvUnlocked DEF LoadDecision
  <1>6. CASE LoadReply(w)
    <2> PICK r \in Reviews, text \in ReplyTexts :
          /\ review[r].status = "approved"
          /\ Advance(w, [Idle EXCEPT
              !.pc = "loaded", !.op = "reply", !.own = {r},
              !.mine[r] = review[r],
              !.want[r] = [review[r] EXCEPT !.reply = text]])
      BY <1>6 DEF LoadReply
    <2> DEFINE row == [review[r] EXCEPT !.reply = text]
               t == [Idle EXCEPT !.pc = "loaded", !.op = "reply", !.own = {r},
                                 !.mine[r] = review[r], !.want[r] = row]
    <2>1. review[r] \in Row /\ text \in {"blank", "plain", "risky"}
      BY <1>0, ConstantsOK DEF TypeOK
    <2>2. row \in Row /\ row.status = "approved"
      BY <2>1 DEF Row
    <2>3. t \in Transaction
      BY <2>1, <2>2, IdleType DEF Transaction, AllOps
    <2>4. /\ t.pc = "loaded" /\ t.op = "reply" /\ t.own = {r}
          /\ t.mine[r] = review[r] /\ t.want[r] = row
      BY DEF Idle, BlankRows
    <2>5. OneRow(t)
      BY <2>4 DEF OneRow
    <2>6. WantsLegalStatus(t)
      BY <2>2, <2>4 DEF WantsLegalStatus, Statuses
    <2> QED
      BY <1>6, <2>3, <2>4, <2>5, <2>6, InvUnlocked DEF LoadReply
  <1> QED
    BY <1>2, <1>3, <1>4, <1>5, <1>6 DEF Receive

LEMMA InvLoads ==
    ASSUME Inv, NEW w \in Workers,
           LoadSubmit(w) \/ LoadEdit(w) \/ LoadDelete(w) \/ LoadClosure(w)
    PROVE  Inv'
  <1> DEFINE t == tx[w]
  <1>0. /\ t \in Transaction
        /\ tx'[w] \in Transaction
        /\ Advance(w, tx'[w])
        /\ UNCHANGED <<review, user, prop, audit>>
    BY TypeLoads DEF Inv, TypeOK, Advance, LoadSubmit, LoadEdit, LoadDelete, LoadClosure
  <1>1. OneRow(t)
    BY DEF Inv, RequestsConsistent
  <1>2. CASE LoadSubmit(w)
    <2> PICK r \in t.own, c \in Contents, status \in {"flagged", "pending"} :
          Advance(w, [t EXCEPT !.pc = "loaded",
                        !.want[r] = [BlankRow EXCEPT !.status = status,
                                                     !.body = c, !.named = TRUE],
                        !.loaded = prop[Home[r]]])
      BY <1>2 DEF LoadSubmit
    <2> tx'[w] = [t EXCEPT !.pc = "loaded",
                    !.want[r] = [BlankRow EXCEPT !.status = status,
                                                 !.body = c, !.named = TRUE],
                    !.loaded = prop[Home[r]]]
      BY DEF Advance, Inv, TypeOK
    <2>0. t.pc = "authed" /\ t.op = "submit"
      BY <1>2 DEF LoadSubmit
    <2>1. t.own = {r} /\ r \in Reviews
      BY <1>1, <2>0 DEF OneRow, ScoringOps
    <2>2. /\ tx'[w].pc = "loaded" /\ tx'[w].op = "submit" /\ tx'[w].own = {r}
          /\ tx'[w].want[r].status = status
      BY <1>0, <2>0, <2>1 DEF Transaction, BlankRow
    <2>3. OneRow(tx'[w]) /\ WantsLegalStatus(tx'[w])
      BY <2>1, <2>2 DEF OneRow, WantsLegalStatus, Statuses
    <2> QED
      BY <1>0, <2>2, <2>3, InvUnlocked
  <1>3. CASE LoadEdit(w)
    <2> PICK r \in t.own, c \in Contents :
          tx'[w] = [t EXCEPT !.pc = "loaded",
                        !.mine[r] = review[r],
                        !.want[r] = [review[r] EXCEPT !.body = c,
                                                      !.status = EditVerdict(c)]]
      BY <1>3 DEF LoadEdit, Advance, Inv, TypeOK
    <2>0. t.pc = "authed" /\ t.op = "edit"
      BY <1>3 DEF LoadEdit
    <2>1. t.own = {r} /\ r \in Reviews
      BY <1>1, <2>0 DEF OneRow, ScoringOps, OwnReviewOps
    <2>2. /\ tx'[w].pc = "loaded" /\ tx'[w].op = "edit" /\ tx'[w].own = {r}
          /\ tx'[w].want[r].status = EditVerdict(c)
      BY <1>0, <2>0, <2>1 DEF Transaction, Inv, TypeOK, Row
    <2>3. OneRow(tx'[w]) /\ WantsLegalStatus(tx'[w])
      BY <2>1, <2>2 DEF OneRow, WantsLegalStatus, Statuses, EditVerdict
    <2> QED
      BY <1>0, <2>2, <2>3, InvUnlocked
  <1>4. CASE LoadDelete(w)
    <2> PICK r \in t.own :
          tx'[w] = [t EXCEPT !.pc = "loaded",
                        !.mine[r] = review[r],
                        !.want[r] = [BlankRow EXCEPT !.status = "deleted"]]
      BY <1>4 DEF LoadDelete, Advance, Inv, TypeOK
    <2>0. t.pc = "authed" /\ t.op = "delete"
      BY <1>4 DEF LoadDelete
    <2>1. t.own = {r} /\ r \in Reviews
      BY <1>1, <2>0 DEF OneRow, ScoringOps, OwnReviewOps
    <2>2. /\ tx'[w].pc = "loaded" /\ tx'[w].op = "delete" /\ tx'[w].own = {r}
          /\ tx'[w].want[r].status = "deleted"
      BY <1>0, <2>0, <2>1 DEF Transaction, BlankRow
    <2>3. OneRow(tx'[w]) /\ WantsLegalStatus(tx'[w])
      BY <2>1, <2>2 DEF OneRow, WantsLegalStatus
    <2> QED
      BY <1>0, <2>2, <2>3, InvUnlocked
  <1>5. CASE LoadClosure(w)
    <2> DEFINE own == {r \in Reviews : Author[r] = t.caller /\ Exists(r)}
    <2>1. /\ tx'[w].pc = "loaded" /\ tx'[w].op = t.op /\ tx'[w].own = own
          /\ \A r \in own : /\ tx'[w].mine[r] = review[r]
                            /\ tx'[w].want[r] = Closed(t.op, review[r])
      BY <1>0, <1>5 DEF LoadClosure, Advance, Transaction, Inv, TypeOK
    <2>2. t.op \in Closures
      BY <1>5 DEF LoadClosure
    <2>3. OneRow(tx'[w])
      BY <2>1, <2>2 DEF OneRow, Closures, ScoringOps, Decisions, OwnReviewOps
    <2>4. WantsLegalStatus(tx'[w])
      <3>1. ASSUME NEW r \in own
            PROVE  /\ Closed(t.op, review[r]).status \in Statuses
                   /\ Closed(t.op, review[r]).status = "approved" =>
                        review[r].status = "approved"
        BY ClosedType DEF Inv, TypeOK, Exists
      <3> QED
        BY <2>1, <2>2, <3>1 DEF WantsLegalStatus, Closures
    <2> QED
      BY <1>0, <2>1, <2>3, <2>4, InvUnlocked
  <1> QED
    BY <1>2, <1>3, <1>4, <1>5

LEMMA InvFlush ==
    ASSUME Inv, NEW w \in Workers, Flush(w)
    PROVE  Inv'
  <1> DEFINE t == tx[w]
             s == [t EXCEPT !.pc = "flushed"]
  <1>1. t \in Transaction /\ s \in Transaction
    BY DEF Inv, TypeOK, Transaction
  <1>2. /\ s.pc = "flushed" /\ s.op = t.op /\ s.own = t.own
        /\ s.mine = t.mine /\ s.want = t.want
    BY <1>1 DEF Transaction
  <1>3. OneRow(t) /\ WantsLegalStatus(t) /\ t.pc = "loaded"
    BY DEF Inv, RequestsConsistent, Flush
  <1>4. OneRow(s) /\ WantsLegalStatus(s) /\ CountsModerated(s)
    BY <1>2, <1>3 DEF OneRow, WantsLegalStatus, CountsModerated, Writing
  <1>5. LocksProtect(s)
    <2> SUFFICES ASSUME NEW r \in t.own
                 PROVE  /\ t.op \in Decisions => Exists(r)
                        /\ t.op = "delete" => audit[r] = {}
      BY <1>2 DEF LocksProtect
    <2>1. Flushable(w)
      BY DEF Flush
    <2>2. CASE t.op \in Decisions
      BY <2>1, <2>2 DEF Flushable, KeyShares, Decisions
    <2>3. CASE t.op = "delete"
      BY <2>1, <2>3 DEF Flushable, Decisions
    <2> QED
      BY <2>2, <2>3
  <1>6. ASSUME NEW v \in Workers \ {w}, Holding(v) PROVE ~Conflict(tx[v], s)
    <2>1. ~Conflict(tx[v], t)
      BY <1>6 DEF Flush, NotBlocked
    <2> QED
      BY <1>2, <2>1 DEF Conflict, Locks, KeyShares, Deletes
  <1> QED
    BY <1>1, <1>4, <1>5, <1>6, InvAdvance DEF Flush, RequestOK

(* What a request that holds its locks sees of a row, and so what it       *)
(* leaves there: "approved" only by a recorded decision or by its own, a   *)
(* live row unless it deletes it.                                          *)
LEMMA SeenStatus ==
    ASSUME Inv, NEW w \in Workers, Holding(w), NEW r \in Reviews
    PROVE  /\ Seen(w, r).status = "approved" =>
                "approve" \in audit[r] \/ (tx[w].op = "approve" /\ r \in tx[w].own)
           /\ Exists(r) /\ ~(tx[w].op = "delete" /\ r \in tx[w].own) =>
                Seen(w, r).status \in Statuses
           /\ r \notin tx[w].own => Seen(w, r) = review[r]
  <1> DEFINE t == tx[w]
  <1>1. PublicationAudited /\ WantsLegalStatus(t) /\ Writing(t)
    BY DEF Inv, RequestsConsistent, Holding, Writing
  <1>2. CASE r \notin t.own
    BY <1>1, <1>2 DEF Seen, PublicationAudited, Exists
  <1>3. CASE r \in t.own /\ t.op = "delete"
    BY <1>1, <1>3 DEF Seen, WantsLegalStatus
  <1>4. CASE r \in t.own /\ t.op # "delete"
    <2>1. Seen(w, r).status = Col(review[r].status, t.mine[r].status, t.want[r].status)
      BY <1>4 DEF Seen, MergeRow
    <2>2. /\ t.want[r].status \in Statuses
          /\ t.want[r].status = "approved" =>
               t.op = "approve" \/ t.mine[r].status = "approved"
      BY <1>1, <1>4 DEF WantsLegalStatus
    <2> QED
      BY <1>1, <1>4, <2>1, <2>2 DEF Col, PublicationAudited, Exists
  <1> QED
    BY <1>2, <1>3, <1>4

LEMMA InvScore ==
    ASSUME Inv, NEW w \in Workers, Score(w)
    PROVE  Inv'
  <1> DEFINE t == tx[w]
             s == tx'[w]
  <1>1. /\ TypeOK /\ t \in Transaction /\ s \in Transaction
        /\ t.pc = "flushed" /\ t.op \in ScoringOps
    BY TypeScore DEF Inv, TypeOK, Score
  <1>2. PICK r \in t.own : \E loaded, total, rent :
          Advance(w, [t EXCEPT
            !.pc = "scored", !.loaded = loaded,
            !.calc = [total   |-> total,
                      counted |-> {<<a, BodyInSession(w, a)>> : a \in Approved(w, Home[r])},
                      rent    |-> rent]])
    BY DEF Score
  <1>2a. PICK loaded, total, rent :
          Advance(w, [t EXCEPT
            !.pc = "scored", !.loaded = loaded,
            !.calc = [total   |-> total,
                      counted |-> {<<a, BodyInSession(w, a)>> : a \in Approved(w, Home[r])},
                      rent    |-> rent]])
    BY <1>2
  <1>3. /\ s.pc = "scored" /\ s.op = t.op /\ s.own = t.own
        /\ s.mine = t.mine /\ s.want = t.want
        /\ s.calc.counted =
             {<<a, BodyInSession(w, a)>> : a \in Approved(w, Home[r])}
        /\ Advance(w, s)
    BY <1>1, <1>2a DEF Advance, TypeOK, Transaction
  <1>4. RequestOK(t)
    BY DEF Inv, RequestsConsistent, RequestOK
  <1>5. OneRow(s) /\ WantsLegalStatus(s) /\ LocksProtect(s)
    BY <1>1, <1>3, <1>4 DEF RequestOK, OneRow, WantsLegalStatus, LocksProtect, Writing
  <1>6. CountsModerated(s)
    <2>1. ASSUME NEW a \in Approved(w, Home[r])
          PROVE  "approve" \in audit[a] \/ (t.op = "approve" /\ a \in t.own)
      BY <1>1, SeenStatus DEF Approved, Holding
    <2> QED
      BY <1>1, <1>3, <2>1 DEF CountsModerated
  <1>7. ASSUME NEW v \in Workers \ {w}, Holding(v) PROVE ~Conflict(tx[v], s)
    <2>1. ~Conflict(tx[v], t)
      BY <1>1, <1>7 DEF Inv, RequestsConsistent, LocksExclusive, Holding
    <2> QED
      BY <1>3, <2>1 DEF Conflict, Locks, KeyShares, Deletes
  <1> QED
    BY <1>1, <1>3, <1>5, <1>6, <1>7, InvAdvance DEF RequestOK, Score

(* The audit rows a request leaves: those of a decision, on its own review.*)
LEMMA CommitAudit ==
    ASSUME Inv, NEW w \in Workers,
           CommitScored(w) \/ CommitReply(w) \/ CommitClosure(w)
    PROVE  \A r \in Reviews :
             audit'[r] = IF r \in tx[w].own THEN audit[r] \cup AuditRow(tx[w]) ELSE audit[r]
  <1> DEFINE t == tx[w]
  <1>1. CASE CommitScored(w)
    <2>1. PICK r \in t.own : audit' = [audit EXCEPT ![r] = @ \cup AuditRow(t)]
      BY <1>1 DEF CommitScored
    <2>2. t.own = {r}
      BY <1>1 DEF CommitScored, Inv, RequestsConsistent, OneRow, CountsModerated
    <2> QED
      BY <2>1, <2>2 DEF Inv, TypeOK
  <1>2. CASE CommitReply(w) \/ CommitClosure(w)
    <2>1. audit' = audit /\ t.op \in Closures \cup {"reply"}
      BY <1>2 DEF CommitReply, CommitClosure
    <2>2. AuditRow(t) = {}
      BY <2>1 DEF AuditRow, Closures, Decisions
    <2> QED
      BY <2>1, <2>2
  <1> QED
    BY <1>1, <1>2

LEMMA InvCommits ==
    ASSUME Inv, NEW w \in Workers,
           CommitScored(w) \/ CommitReply(w) \/ CommitClosure(w)
    PROVE  Inv'
  <1> DEFINE t == tx[w]
  <1>0. TypeOK /\ TypeOK' /\ t \in Transaction
    BY TypeCommits DEF Inv, TypeOK
  <1>1. Holding(w)
    BY DEF CommitScored, CommitReply, CommitClosure, Holding
  <1>2. \A r \in Reviews : review'[r] = Seen(w, r)
    BY DEF CommitScored, CommitReply, CommitClosure, Landed
  <1>3. \A v \in Workers : tx'[v] = IF v = w THEN Idle ELSE tx[v]
    BY <1>0 DEF CommitScored, CommitReply, CommitClosure, Advance, TypeOK
  <1>4. \A r \in Reviews :
          audit'[r] = IF r \in t.own THEN audit[r] \cup AuditRow(t) ELSE audit[r]
    BY CommitAudit
  <1>5. \A r \in Reviews :
          "approve" \in audit[r] \/ (t.op = "approve" /\ r \in t.own) =>
            "approve" \in audit'[r]
    BY <1>4 DEF AuditRow, Decisions
  <1>6. RequestOK(t)
    BY DEF Inv, RequestsConsistent, RequestOK
  <1>7. PublicationAudited'
    BY <1>1, <1>2, <1>5, SeenStatus DEF PublicationAudited
  <1>8. AuditedRowsSurvive'
    <2> SUFFICES ASSUME NEW r \in Reviews, audit'[r] # {}
                 PROVE  review'[r].status \in Statuses
      BY DEF AuditedRowsSurvive, Exists
    <2>1. Exists(r) /\ ~(t.op = "delete" /\ r \in t.own)
      <3>1. CASE audit[r] # {}
        BY <1>1, <1>6, <3>1 DEF Inv, AuditedRowsSurvive, RequestOK, LocksProtect, Holding
      <3>2. CASE audit[r] = {}
        <4>1. r \in t.own /\ t.op \in Decisions
          BY <1>4, <3>2 DEF AuditRow
        <4> QED
          BY <1>1, <1>6, <4>1 DEF RequestOK, LocksProtect, Holding, Decisions
      <3> QED
        BY <3>1, <3>2
    <2> QED
      BY <1>1, <1>2, <2>1, SeenStatus
  <1>9. ScoreCountsOnlyModerated'
    <2> SUFFICES ASSUME NEW p \in Properties, NEW e \in prop'[p].counted
                 PROVE  "approve" \in audit'[e[1]]
      BY DEF ScoreCountsOnlyModerated
    <2>1. e[1] \in Reviews
      BY <1>0 DEF TypeOK, Columns
    <2>2. CASE e \in prop[p].counted
      BY <1>5, <2>1, <2>2 DEF Inv, ScoreCountsOnlyModerated
    <2>3. CASE e \notin prop[p].counted
      <3>1. CommitScored(w)
        BY <2>3 DEF CommitReply, CommitClosure
      <3>2. PICK r \in t.own :
              prop' = [prop EXCEPT ![Home[r]] = MergeColumns(@, t.loaded, t.calc)]
        BY <3>1 DEF CommitScored
      <3>3. e \in t.calc.counted
        BY <1>0, <2>3, <3>2 DEF TypeOK, MergeColumns, Col
      <3> QED
        BY <1>5, <1>6, <2>1, <3>1, <3>3 DEF RequestOK, CountsModerated, CommitScored
    <2> QED
      BY <2>2, <2>3
  <1>10. LocksExclusive'
    <2> SUFFICES ASSUME NEW u \in Workers, NEW v \in Workers, u # v,
                        Holding(u)', Holding(v)'
                 PROVE  ~Conflict(tx'[u], tx'[v])
      BY DEF LocksExclusive, Conflict, Locks, KeyShares, Deletes
    <2>1. u # w /\ v # w
      BY <1>3 DEF Holding, Idle
    <2> QED
      BY <1>3, <2>1 DEF Inv, RequestsConsistent, LocksExclusive, Holding
  (* Another request's locks kept this one off the rows it relies on.      *)
  <1>11. ASSUME NEW v \in Workers PROVE RequestOK(tx[v])'
    <2> DEFINE s == tx[v]
    <2>1. CASE v = w
      BY <1>3, <2>1, IdleOK DEF RequestOK, OneRow, WantsLegalStatus, LocksProtect,
                                CountsModerated, Writing, Exists, Idle
    <2>2. CASE v # w
      <3>1. RequestOK(s) /\ s \in Transaction
        BY <1>0 DEF Inv, RequestsConsistent, RequestOK, TypeOK
      <3>2. tx'[v] = s
        BY <1>3, <2>2
      <3>3. OneRow(tx[v])' /\ WantsLegalStatus(tx[v])'
        BY <3>1, <3>2 DEF RequestOK, OneRow, WantsLegalStatus, Writing
      <3>4. LocksProtect(tx[v])'
        <4> SUFFICES ASSUME s.pc \in {"flushed", "scored"}, NEW r \in s.own
                     PROVE  /\ s.op \in Decisions => review'[r].status \in Statuses
                            /\ s.op = "delete" => audit'[r] = {}
          BY <3>2 DEF LocksProtect, Exists
        <4>1. r \in Reviews
          BY <3>1 DEF Transaction
        <4>2. ~Conflict(t, s)
          BY <1>1, <2>2 DEF Inv, RequestsConsistent, LocksExclusive, Holding
        <4>3. CASE s.op \in Decisions
          <5>1. Exists(r)
            BY <3>1, <4>3 DEF RequestOK, LocksProtect
          <5>2. ~(t.op = "delete" /\ r \in t.own)
            BY <4>2, <4>3 DEF Conflict, Deletes, KeyShares
          <5>3. s.op # "delete"
            BY <4>3 DEF Decisions
          <5> QED
            BY <1>1, <1>2, <4>1, <5>1, <5>2, <5>3, SeenStatus
        <4>4. CASE s.op = "delete"
          <5>1. audit[r] = {}
            BY <3>1, <4>4 DEF RequestOK, LocksProtect
          <5>2. ~(t.op \in Decisions /\ r \in t.own)
            BY <4>2, <4>4 DEF Conflict, Deletes, KeyShares
          <5> QED
            BY <1>4, <4>1, <4>4, <5>1, <5>2 DEF AuditRow, Decisions
        <4> QED
          BY <4>3, <4>4
      <3>5. CountsModerated(tx[v])'
        <4> SUFFICES ASSUME s.pc = "scored", NEW e \in s.calc.counted
                     PROVE  "approve" \in audit'[e[1]] \/ (s.op = "approve" /\ e[1] \in s.own)
          BY <3>1, <3>2 DEF CountsModerated, RequestOK
        <4>1. e[1] \in Reviews
          BY <3>1 DEF Transaction, Columns
        <4> QED
          BY <1>5, <3>1, <4>1 DEF RequestOK, CountsModerated
      <3> QED
        BY <3>3, <3>4, <3>5 DEF RequestOK
    <2> QED
      BY <2>1, <2>2
  <1> QED
    BY <1>0, <1>7, <1>8, <1>9, <1>10, <1>11 DEF Inv, RequestsConsistent, RequestOK

LEMMA InvGrowOlder ==
    ASSUME Inv, NEW r \in Reviews, GrowOlder(r)
    PROVE  Inv'
  <1>1. TypeOK /\ TypeOK'
    BY TypeNext DEF Inv, Next
  <1>2. \A x \in Reviews : review'[x].status = review[x].status
    BY <1>1 DEF GrowOlder, TypeOK, Row
  <1>3. audit' = audit /\ prop' = prop /\ tx' = tx
    BY DEF GrowOlder
  <1>4. PublicationAudited' /\ AuditedRowsSurvive' /\ ScoreCountsOnlyModerated'
    BY <1>2, <1>3 DEF Inv, PublicationAudited, AuditedRowsSurvive,
                      ScoreCountsOnlyModerated, Exists
  <1>5. LocksExclusive'
    BY <1>3 DEF Inv, RequestsConsistent, LocksExclusive, Holding, Conflict, Locks,
                KeyShares, Deletes
  <1>6. ASSUME NEW w \in Workers PROVE RequestOK(tx[w])'
    <2>1. RequestOK(tx[w]) /\ tx[w] \in Transaction
      BY <1>1 DEF Inv, RequestsConsistent, RequestOK, TypeOK
    <2>2. tx[w].own \subseteq Reviews
      BY <2>1 DEF Transaction
    <2> QED
      BY <1>2, <1>3, <2>1, <2>2 DEF RequestOK, OneRow, WantsLegalStatus, LocksProtect,
                                    CountsModerated, Writing, Exists
  <1> QED
    BY <1>1, <1>4, <1>5, <1>6 DEF Inv, RequestsConsistent, RequestOK

LEMMA InvNext == Inv /\ [Next]_vars => Inv'
  <1> SUFFICES ASSUME Inv, [Next]_vars PROVE Inv'
    OBVIOUS
  <1>1. ASSUME NEW w \in Workers, Proceed(w) PROVE Inv'
    <2>1. CASE Refuse(w) \/ FlushError(w)
      BY <2>1, InvRollback DEF Refuse, FlushError
    <2> QED
      BY <1>1, <2>1, InvLoads, InvFlush, InvScore, InvCommits DEF Proceed
  <1>2. ASSUME NEW w \in Workers, Receive(w) \/ Crash(w) PROVE Inv'
    BY <1>2, InvReceive, InvRollback DEF Crash
  <1>3. CASE UNCHANGED vars
    BY <1>3 DEF vars, Inv, TypeOK, PublicationAudited, AuditedRowsSurvive,
                ScoreCountsOnlyModerated, RequestsConsistent, LocksExclusive, OneRow,
                WantsLegalStatus, LocksProtect, CountsModerated, Writing, Exists,
                Holding, Conflict, Locks, KeyShares, Deletes
  <1> QED
    BY <1>1, <1>2, <1>3, InvGrowOlder DEF Next

LEMMA Invariance == Spec => []Inv
  BY InvInit, InvNext, PTL DEF Spec

(* However edits, replies, closures, decisions and crashes interleave, no  *)
(* review is public without an "approve" in its audit trail.               *)
THEOREM ModerationPrecedesPublication == Spec => []PublicationAudited
  BY Invariance, PTL DEF Inv

(* No deletion removes a review from under a recorded decision, also when  *)
(* the two are in flight together.                                         *)
THEOREM DecisionsKeepTheirReview == Spec => []AuditedRowsSurvive
  BY Invariance, PTL DEF Inv

(* The public score counts reviews a moderator approved and no other, at   *)
(* every instant and however stale it is.                                  *)
THEOREM ScoreIsModerated == Spec => []ScoreCountsOnlyModerated
  BY Invariance, PTL DEF Inv

(* Requests keep what they read good, under row locks that never conflict. *)
THEOREM RequestsStayConsistent == Spec => []RequestsConsistent
  BY Invariance, PTL DEF Inv

-----------------------------------------------------------------------------
(* The refinement.  A step that commits nothing is Deliberate or changes   *)
(* nothing the public sees; a commit is Approve or Hide.                   *)

Shown    == {r \in Reviews : review[r].status = "approved"}
OnRecord == {r \in Reviews : "approve" \in audit[r]}
Counted  == {r \in Reviews : \E p \in Properties : \E e \in prop[p].counted : e[1] = r}

LEMMA ViewInit == Init => PublicView!Init
  BY DEF Init, PublicView!Init, BlankRows, BlankRow, NoColumns, Idle, BeingApproved

LEMMA ViewUnseen ==
    ASSUME UNCHANGED <<Shown, OnRecord, Counted>>
    PROVE  PublicView!Deliberate
  <1>1. BeingApproved' \in SUBSET Reviews
    BY DEF BeingApproved
  <1> QED
    BY <1>1 DEF PublicView!Deliberate, Shown, OnRecord, Counted

LEMMA ViewCommits ==
    ASSUME Inv, Inv', NEW w \in Workers,
           CommitScored(w) \/ CommitReply(w) \/ CommitClosure(w)
    PROVE  PublicView!Next
  <1> DEFINE t == tx[w]
  <1>1. Holding(w) /\ t \in Transaction
    BY DEF CommitScored, CommitReply, CommitClosure, Holding, Inv, TypeOK
  <1>2. \A r \in Reviews : review'[r] = Seen(w, r)
    BY DEF CommitScored, CommitReply, CommitClosure, Landed
  <1>3. \A v \in Workers : tx'[v] = IF v = w THEN Idle ELSE tx[v]
    BY DEF CommitScored, CommitReply, CommitClosure, Advance, Inv, TypeOK
  <1>4. \A r \in Reviews :
          audit'[r] = IF r \in t.own THEN audit[r] \cup AuditRow(t) ELSE audit[r]
    BY CommitAudit
  <1>5. Counted' \in SUBSET OnRecord'
    BY DEF Counted, OnRecord, Inv, ScoreCountsOnlyModerated
  <1>6. WantsLegalStatus(t) /\ Writing(t)
    BY <1>1 DEF Inv, RequestsConsistent, Holding, Writing
  <1>7. CASE t.op = "approve"
    <2>1. PICK r \in Reviews : t.own = {r}
      BY <1>1, <1>7 DEF Inv, RequestsConsistent, OneRow, Holding, ScoringOps, Decisions
    <2>2. r \in BeingApproved
      BY <1>7, <2>1 DEF BeingApproved
    <2>3. BeingApproved' \in {BeingApproved, BeingApproved \ {r}}
      <3>1. BeingApproved' = {x \in Reviews : \E v \in Workers :
                                v # w /\ tx[v].op = "approve" /\ x \in tx[v].own}
        BY <1>3 DEF BeingApproved, Idle
      <3>2. BeingApproved = BeingApproved' \cup {r}
        BY <1>7, <2>1, <3>1 DEF BeingApproved
      <3> QED
        BY <3>2
    <2>4. OnRecord' = OnRecord \cup {r}
      BY <1>4, <1>7, <2>1 DEF OnRecord, AuditRow, Decisions
    <2>5. Shown' \in {Shown, Shown \cup {r}}
      <3>1. \A x \in Reviews \ {r} : review'[x] = review[x]
        BY <1>1, <1>2, <2>1, SeenStatus
      <3>2. t.want[r].status = "approved"
        BY <1>6, <1>7, <2>1 DEF WantsLegalStatus
      <3>3. Seen(w, r).status = Col(review[r].status, t.mine[r].status, t.want[r].status)
        BY <1>1, <1>7, <2>1 DEF Seen, MergeRow
      <3>4. r \in Shown => r \in Shown'
        BY <1>2, <3>2, <3>3 DEF Shown, Col
      <3> QED
        BY <2>1, <3>1, <3>4 DEF Shown
    <2>6. PublicView!Approve(r)
      BY <1>5, <2>2, <2>3, <2>4, <2>5
         DEF PublicView!Approve, PublicView!Recount, Shown, OnRecord, Counted
    <2> QED
      BY <2>6 DEF PublicView!Next
  <1>8. CASE t.op # "approve"
    <2>1. BeingApproved' = BeingApproved
      BY <1>3, <1>8 DEF BeingApproved, Idle
    <2>2. OnRecord' = OnRecord
      BY <1>4, <1>8 DEF OnRecord, AuditRow
    <2>3. ASSUME NEW r \in Reviews, review'[r].status = "approved"
          PROVE  review[r].status = "approved"
      <3>1. Seen(w, r).status = "approved"
        BY <1>2, <2>3
      <3>2. CASE r \notin t.own
        BY <1>1, <3>1, <3>2, SeenStatus
      <3>3. CASE r \in t.own /\ t.op = "delete"
        BY <1>1, <1>6, <3>1, <3>3 DEF Seen, WantsLegalStatus
      <3>4. CASE r \in t.own /\ t.op # "delete"
        <4>1. Seen(w, r).status = Col(review[r].status, t.mine[r].status, t.want[r].status)
          BY <1>1, <3>4 DEF Seen, MergeRow
        <4> QED
          BY <1>6, <1>8, <3>1, <3>4, <4>1 DEF Col, WantsLegalStatus
      <3> QED
        BY <3>2, <3>3, <3>4
    <2>4. Shown' \in SUBSET Shown
      BY <2>3 DEF Shown
    <2>5. PublicView!Hide
      BY <1>5, <2>1, <2>2, <2>4
         DEF PublicView!Hide, PublicView!Recount, Shown, OnRecord, Counted
    <2> QED
      BY <2>5 DEF PublicView!Next
  <1> QED
    BY <1>7, <1>8

LEMMA ViewNext ==
    ASSUME Inv, Inv', [Next]_vars
    PROVE  [PublicView!Next]_(PublicView!vars)
  <1>1. CASE UNCHANGED <<review, audit, prop>>
    <2>1. UNCHANGED <<Shown, OnRecord, Counted>>
      BY <1>1 DEF Shown, OnRecord, Counted
    <2> QED
      BY <2>1, ViewUnseen DEF PublicView!Next
  <1>2. ASSUME NEW r \in Reviews, GrowOlder(r)
        PROVE  PublicView!Next
    <2>1. \A x \in Reviews : review'[x].status = review[x].status
      BY <1>2 DEF GrowOlder, Inv, TypeOK, Row
    <2>2. audit' = audit /\ prop' = prop
      BY <1>2 DEF GrowOlder
    <2>3. UNCHANGED <<Shown, OnRecord, Counted>>
      BY <2>1, <2>2 DEF Shown, OnRecord, Counted
    <2> QED
      BY <2>3, ViewUnseen DEF PublicView!Next
  <1>3. ASSUME NEW w \in Workers, Receive(w) \/ Crash(w)
        PROVE  UNCHANGED <<review, audit, prop>>
    BY <1>3 DEF Receive, Crash, Rollback, StartSubmit, StartOnOwnReview, StartClosure,
                LoadDecision, LoadReply, Authenticate
  <1>4. ASSUME NEW w \in Workers, Proceed(w),
               ~(CommitScored(w) \/ CommitReply(w) \/ CommitClosure(w))
        PROVE  UNCHANGED <<review, audit, prop>>
    BY <1>4 DEF Proceed, LoadSubmit, LoadEdit, LoadDelete, Refuse, LoadClosure, Flush,
                FlushError, Score, Rollback
  <1>5. CASE UNCHANGED vars
    BY <1>1, <1>5 DEF vars
  <1> QED
    BY <1>1, <1>2, <1>3, <1>4, <1>5, ViewCommits DEF Next

(* The pipeline implements Publication for any number of requests: what    *)
(* the public sees changes only as that specification allows.              *)
THEOREM PublicationImplemented == Spec => ImplementsPublication
  <1>1. Inv /\ Inv' /\ [Next]_vars => [PublicView!Next]_(PublicView!vars)
    BY ViewNext
  <1> QED
    BY <1>1, ViewInit, Invariance, PTL DEF Spec, ImplementsPublication, PublicView!Spec
-----------------------------------------------------------------------------
(* Requests apart.  What two requests in flight must not share, for each   *)
(* property that interleavings can break: a review both hold (a closure    *)
(* holds its author's reviews once it has loaded them), the property those *)
(* reviews are of, or the tenant who sends them.                           *)

RowsApart ==
    \A v, w \in Workers : v # w => tx[v].own \cap tx[w].own = {}
HomesApart ==
    \A v, w \in Workers :
      v # w => \A a \in tx[v].own, b \in tx[w].own : Home[a] # Home[b]
CallersApart ==
    \A v, w \in Workers :
      v # w => tx[v].caller # tx[w].caller \/ tx[v].caller = NoUser

(* With its rows to itself a request writes what it read: they stay as     *)
(* loaded (but for their age, which grows on its own).                     *)

SameButAge(a, b) ==
    a.status = b.status /\ a.body = b.body /\ a.reply = b.reply /\ a.named = b.named

Synced(t) ==
    Writing(t) =>
      \A r \in t.own : /\ SameButAge(review[r], t.mine[r])
                       /\ t.op # "delete" => t.want[r].age = t.mine[r].age

Gone == [BlankRow EXCEPT !.status = "deleted"]

(* What an operation makes of the row it loaded.                           *)
Intends(op, caller, r, mine, want) ==
    /\ want.status = "pending" => want.body \notin Risky
    /\ op \in OwnReviewOps => mine.reply = NoReply /\ Author[r] = caller
    /\ op = "edit" => want.status \in {"pending", "flagged"}
    /\ op = "delete" => want = Gone
    /\ op # "submit" => mine.status \in Statuses
    /\ op \notin {"submit", "edit", "delete"} => want.body = mine.body
    /\ op \in {"reply", "anonymise"} => want.status = mine.status
IntentsOK(t) ==
    Writing(t) => \A r \in t.own : Intends(t.op, t.caller, r, t.mine[r], t.want[r])

CountAsStored(t) ==
    t.pc # "idle" /\ t.op \in {"submit", "delete"} =>
      t.caller \in Users /\ t.count = user[t.caller].review_count

SubmitsFresh(t) ==
    t.pc # "idle" /\ t.op = "submit" =>
      \A r \in t.own : review[r] = BlankRow /\ t.mine[r] = BlankRow /\ Author[r] = t.caller

Vetted(t) ==
    t.op = "submit" /\ Writing(t) =>
      \A r \in t.own :
        t.want[r].status = "pending" =>
          /\ Cardinality(Recent(Author[r])) < VelocityLimit
          /\ ~IsDuplicateText(Home[r], t.want[r].body)

(* The rows as t will leave them, and the aggregates they call for.        *)
Leaves(t, r) == IF r \in t.own THEN t.want[r] ELSE review[r]
UpcomingReviews(t, p) == {r \in Reviews : Home[r] = p /\ Leaves(t, r).status = "approved"}
Upcoming(t, p) == {<<r, Leaves(t, r).body>> : r \in UpcomingReviews(t, p)}
ScoresAhead(t) ==
    /\ t.op = "submit" /\ Writing(t) => \A r \in t.own : t.loaded = prop[Home[r]]
    /\ t.pc = "scored" =>
         \A r \in t.own :
           /\ t.loaded = prop[Home[r]]
           /\ t.calc.counted = Upcoming(t, Home[r])
           /\ t.calc.total = Cardinality(UpcomingReviews(t, Home[r]))

RowRequest(t) ==
    /\ Synced(t) /\ IntentsOK(t) /\ SubmitsFresh(t)
    /\ t.op \in Ops \cup {"none"}

Live(u) == {r \in Reviews : Author[r] = u /\ Exists(r)}
CountsOK == \A u \in Users : user[u].review_count = Cardinality(Live(u))

(* A row not yet or no longer there carries nothing.                       *)
NoGhosts ==
    \A r \in Reviews : /\ review[r].status = "unused" => review[r] = BlankRow
                       /\ ~Exists(r) => review[r].reply = NoReply

(* A withdrawal at closure recomputes nothing: with it the aggregates are  *)
(* not those of the approved reviews.                                      *)
ScoredReviews(p) == {r \in Reviews : Home[r] = p /\ review[r].status = "approved"}
ScoresOK ==
    "withdraw" \notin Ops =>
      \A p \in Properties : /\ prop[p].counted = Published(p)
                            /\ prop[p].total = Cardinality(ScoredReviews(p))

(* The rows are the base; counts, aggregates and the verdict of the        *)
(* pre-check each rest on them, and not on one another.                    *)
RowInv == RiskyIsFlagged /\ NoGhosts /\ \A w \in Workers : RowRequest(tx[w])
CountInv == CountsOK /\ \A w \in Workers : CountAsStored(tx[w])
ScoreInv == ScoresOK /\ \A w \in Workers : ScoresAhead(tx[w])
VetInv == \A w \in Workers : Vetted(tx[w])

LEMMA IdleRelies ==
    RowRequest(Idle) /\ CountAsStored(Idle) /\ ScoresAhead(Idle) /\ Vetted(Idle)
  BY DEF RowRequest, Synced, IntentsOK, SubmitsFresh, CountAsStored, ScoresAhead, Vetted,
         Writing, Idle

LEMMA ApartInit == Init => RowInv /\ CountInv /\ ScoreInv /\ VetInv
  <1> SUFFICES ASSUME Init PROVE RowInv /\ CountInv /\ ScoreInv /\ VetInv
    OBVIOUS
  <1>1. \A r \in Reviews : review[r] = BlankRow /\ ~Exists(r)
    BY DEF Init, BlankRows, BlankRow, Exists, Statuses
  <1>2. RiskyIsFlagged /\ NoGhosts
    <2>1. BlankRow.status = "unused" /\ BlankRow.reply = NoReply
      BY DEF BlankRow
    <2>2. NoGhosts
      BY <1>1, <2>1 DEF NoGhosts
    <2> QED
      BY <1>1, <2>1, <2>2 DEF RiskyIsFlagged
  <1>3. CountsOK
    <2>1. \A u \in Users : Live(u) = {}
      BY <1>1 DEF Live
    <2> QED
      BY <2>1, FS_EmptySet DEF CountsOK, Init
  <1>4. ScoresOK
    <2>1. \A p \in Properties : ScoredReviews(p) = {} /\ Published(p) = {}
      BY <1>1 DEF ScoredReviews, Published, BlankRow
    <2> QED
      BY <2>1, FS_EmptySet DEF ScoresOK, Init, NoColumns
  <1>5. \A w \in Workers : tx[w] = Idle
    BY DEF Init
  <1> QED
    BY <1>2, <1>3, <1>4, <1>5, IdleRelies DEF RowInv, CountInv, ScoreInv, VetInv

(* A step that only reads: one request moves on, the others stay, and what *)
(* was right of it stays right.                                            *)
Moves(w, t) ==
    /\ Advance(w, t) /\ UNCHANGED <<review, user, prop, audit>>
    /\ RowRequest(t)
    /\ CountAsStored(tx[w]) => CountAsStored(t)
    /\ ScoresAhead(tx[w]) => ScoresAhead(t)
    /\ Vetted(tx[w]) => Vetted(t)

LEMMA RestRelies ==
    ASSUME NEW t, UNCHANGED <<review, user, prop>>
    PROVE  /\ RowRequest(t) => RowRequest(t)'
           /\ CountAsStored(t) => CountAsStored(t)'
           /\ ScoresAhead(t) => ScoresAhead(t)'
           /\ Vetted(t) => Vetted(t)'
  <1>1. RowRequest(t) => RowRequest(t)'
    BY DEF RowRequest, Synced, IntentsOK, SubmitsFresh, Writing, Intends
  <1>2. CountAsStored(t) => CountAsStored(t)'
    BY DEF CountAsStored
  <1>3. \A p, c, u : /\ UNCHANGED <<Recent(u), IsDuplicateText(p, c)>>
    BY DEF Recent, IsDuplicateText, Exists
  <1>4. Vetted(t) => Vetted(t)'
    BY <1>3 DEF Vetted, Writing
  <1>5. \A p : UNCHANGED <<UpcomingReviews(t, p), Upcoming(t, p)>>
    BY DEF UpcomingReviews, Upcoming, Leaves
  <1>6. ScoresAhead(t) => ScoresAhead(t)'
    BY <1>5 DEF ScoresAhead, Writing
  <1> QED
    BY <1>1, <1>2, <1>4, <1>6

LEMMA MoveKeeps ==
    ASSUME TypeOK, RowInv, NEW w \in Workers, NEW t, Moves(w, t)
    PROVE  /\ RowInv'
           /\ CountInv => CountInv'
           /\ ScoreInv => ScoreInv'
           /\ VetInv => VetInv'
  <1>1. RiskyIsFlagged' /\ NoGhosts' /\ (CountsOK => CountsOK') /\ (ScoresOK => ScoresOK')
    BY DEF Moves, RowInv, RiskyIsFlagged, CountsOK, Live, Exists, NoGhosts, ScoresOK,
           ScoredReviews, Published
  <1>2. ASSUME NEW v \in Workers
        PROVE  /\ RowRequest(tx[v])'
               /\ CountInv => CountAsStored(tx[v])'
               /\ ScoreInv => ScoresAhead(tx[v])'
               /\ VetInv => Vetted(tx[v])'
    <2>1. PICK s : s = IF v = w THEN t ELSE tx[v]
      OBVIOUS
    <2>2. /\ tx'[v] = s /\ RowRequest(s)
          /\ CountInv => CountAsStored(s)
          /\ ScoreInv => ScoresAhead(s)
          /\ VetInv => Vetted(s)
      BY <2>1 DEF Moves, Advance, TypeOK, RowInv, CountInv, ScoreInv, VetInv
    <2>3. UNCHANGED <<review, user, prop>>
      BY DEF Moves
    <2> QED
      BY <2>2, <2>3, RestRelies
  <1> QED
    BY <1>1, <1>2 DEF RowInv, CountInv, ScoreInv, VetInv

LEMMA MoveBack ==
    ASSUME TypeOK, NEW w \in Workers, Rollback(w)
    PROVE  \E t : Moves(w, t)
  <1>1. Moves(w, Idle)
    BY IdleRelies DEF Rollback, Moves
  <1> QED
    BY <1>1

LEMMA MoveStart ==
    ASSUME TypeOK, RowInv, NEW w \in Workers,
           StartSubmit(w) \/ StartOnOwnReview(w) \/ StartClosure(w)
    PROVE  \E t : Moves(w, t)
  <1>1. PICK u \in Users, op \in AllOps \cap Ops, own \in SUBSET Reviews :
          /\ Authenticate(w, u, op, own)
          /\ op = "submit" => \A r \in own : review[r].status = "unused" /\ Author[r] = u
    <2>1. CASE StartSubmit(w)
      <3>1. PICK r \in Reviews : /\ review[r].status = "unused" /\ "submit" \in Ops
                                 /\ Authenticate(w, Author[r], "submit", {r})
        BY <2>1 DEF StartSubmit
      <3>2. Author[r] \in Users /\ "submit" \in AllOps /\ {r} \in SUBSET Reviews
        BY ConstantsOK DEF ConstantsOK, AllOps
      <3> QED
        BY <3>1, <3>2
    <2>2. CASE StartOnOwnReview(w)
      BY <2>2 DEF StartOnOwnReview, OwnReviewOps, AllOps
    <2>3. CASE StartClosure(w)
      BY <2>3 DEF StartClosure, Closures, AllOps
    <2> QED
      BY <2>1, <2>2, <2>3
  <1> DEFINE t == [Idle EXCEPT !.pc = "authed", !.op = op, !.caller = u,
                               !.count = user[u].review_count, !.own = own]
  <1>2. /\ t.pc = "authed" /\ t.op = op /\ t.caller = u /\ t.own = own
        /\ t.count = user[u].review_count /\ t.mine = BlankRows
    BY DEF Idle
  <1>3. Advance(w, t) /\ UNCHANGED <<review, user, prop, audit>>
    BY <1>1 DEF Authenticate
  <1> HIDE DEF t
  <1>4. SubmitsFresh(t)
    <2>1. NoGhosts
      BY DEF RowInv
    <2> QED
      BY <1>1, <1>2, <2>1 DEF SubmitsFresh, BlankRows, NoGhosts
  <1>5. RowRequest(t) /\ CountAsStored(t) /\ ScoresAhead(t) /\ Vetted(t)
    BY <1>1, <1>2, <1>4 DEF RowRequest, Synced, IntentsOK, CountAsStored, Vetted,
       ScoresAhead, Writing
  <1>6. Moves(w, t)
    BY <1>3, <1>5 DEF Moves
  <1> QED
    BY <1>6

(* The requests that load their row in the same step that starts them.     *)
LEMMA MoveLoadAlone ==
    ASSUME TypeOK, RowInv, NEW w \in Workers,
           LoadDecision(w) \/ LoadReply(w)
    PROVE  \E t : Moves(w, t)
  <1>1. PICK r \in Reviews, op \in (Decisions \cup {"reply"}) \cap Ops, row \in Row :
          /\ Advance(w, [Idle EXCEPT !.pc = "loaded", !.op = op, !.own = {r},
                                     !.mine[r] = review[r], !.want[r] = row])
          /\ review[r].status \in Statuses
          /\ row.body = review[r].body /\ row.age = review[r].age
          /\ row.status # "pending" /\ (op = "reply" => row.status = review[r].status)
    <2>1. CASE LoadDecision(w)
      <3>1. PICK r \in Reviews, d \in Decisions \cap Ops :
              /\ Exists(r)
              /\ Advance(w, [Idle EXCEPT !.pc = "loaded", !.op = d, !.own = {r},
                                         !.mine[r] = review[r],
                                         !.want[r] = [review[r] EXCEPT !.status = Outcome(d)]])
        BY <2>1 DEF LoadDecision
      <3> DEFINE row == [review[r] EXCEPT !.status = Outcome(d)]
      <3>2. Outcome(d) \in Statuses \ {"pending"}
        BY DEF Outcome, Decisions, Statuses
      <3>3. review[r] \in Row
        BY DEF TypeOK
      <3>4. /\ row \in Row /\ row.status = Outcome(d)
            /\ row.body = review[r].body /\ row.age = review[r].age
        BY <3>2, <3>3 DEF Row
      <3>5. d # "reply" /\ review[r].status \in Statuses
        BY <3>1 DEF Decisions, Exists
      <3> QED
        BY <3>1, <3>2, <3>4, <3>5
    <2>2. CASE LoadReply(w)
      <3>1. PICK r \in Reviews, text \in ReplyTexts :
              /\ review[r].status = "approved"
              /\ Advance(w, [Idle EXCEPT !.pc = "loaded", !.op = "reply", !.own = {r},
                                         !.mine[r] = review[r],
                                         !.want[r] = [review[r] EXCEPT !.reply = text]])
        BY <2>2 DEF LoadReply
      <3> DEFINE row == [review[r] EXCEPT !.reply = text]
      <3>2. review[r] \in Row /\ text \in {"blank", "plain", "risky"}
        BY ConstantsOK DEF TypeOK, ConstantsOK
      <3>3. /\ row \in Row /\ row.status = review[r].status
            /\ row.body = review[r].body /\ row.age = review[r].age
        BY <3>2 DEF Row
      <3>4. "reply" \in Ops
        BY <2>2 DEF LoadReply
      <3> QED
        BY <3>1, <3>3, <3>4 DEF Statuses
    <2> QED
      BY <2>1, <2>2
  <1> DEFINE t == [Idle EXCEPT !.pc = "loaded", !.op = op, !.own = {r},
                               !.mine[r] = review[r], !.want[r] = row]
  <1>2. /\ t.pc = "loaded" /\ t.op = op /\ t.own = {r}
        /\ t.mine[r] = review[r] /\ t.want[r] = row
    BY DEF Idle, BlankRows
  <1> HIDE DEF t
  <1>3. op \notin OwnReviewOps /\ op \notin {"submit", "delete", "edit"} /\ op # "anonymise"
    BY DEF OwnReviewOps, Decisions
  <1>4. Synced(t) /\ IntentsOK(t)
    BY <1>1, <1>2, <1>3 DEF Synced, SameButAge, IntentsOK, Intends
  <1>5. RowRequest(t) /\ CountAsStored(t) /\ ScoresAhead(t) /\ Vetted(t)
    BY <1>2, <1>3, <1>4 DEF RowRequest, CountAsStored, SubmitsFresh, Vetted, ScoresAhead
  <1>6. Advance(w, t) /\ UNCHANGED <<review, user, prop, audit>>
    BY <1>1 DEF LoadDecision, LoadReply, t
  <1>7. Moves(w, t)
    BY <1>5, <1>6 DEF Moves
  <1> QED
    BY <1>7

(* The requests that authenticate first and then load what they write.     *)
LEMMA MoveLoadSubmit ==
    ASSUME Inv, RowInv, NEW w \in Workers, LoadSubmit(w)
    PROVE  \E t : Moves(w, t)
  <1> DEFINE t == tx[w]
  <1>0. TypeOK /\ t \in Transaction /\ RowRequest(t)
    BY DEF Inv, TypeOK, RowInv
  <1>1. t.pc = "authed" /\ t.op = "submit" /\ UNCHANGED <<review, user, prop, audit>>
    BY DEF LoadSubmit
  <1>2. PICK r \in Reviews : t.own = {r}
    BY <1>1 DEF Inv, RequestsConsistent, OneRow, ScoringOps
  <1>3. review[r] = BlankRow /\ t.mine[r] = BlankRow /\ Author[r] = t.caller
    BY <1>0, <1>1, <1>2 DEF RowRequest, SubmitsFresh
  <1>4. PICK c \in Contents, status \in {"flagged", "pending"} :
          /\ Advance(w, [t EXCEPT !.pc = "loaded",
                           !.want[r] = [BlankRow EXCEPT !.status = status,
                                                        !.body = c, !.named = TRUE],
                           !.loaded = prop[Home[r]]])
          /\ status = "pending" => /\ c \notin Risky
                                   /\ ~(Cardinality(Recent(t.caller)) >= VelocityLimit)
                                   /\ ~IsDuplicateText(Home[r], c)
    BY <1>2 DEF LoadSubmit
  <1> DEFINE row == [BlankRow EXCEPT !.status = status, !.body = c, !.named = TRUE]
             s == [t EXCEPT !.pc = "loaded", !.want[r] = row, !.loaded = prop[Home[r]]]
  <1>5. row.status = status /\ row.body = c /\ row.age = BlankRow.age
    BY DEF BlankRow
  <1>6. /\ s.pc = "loaded" /\ s.op = "submit" /\ s.own = {r} /\ s.caller = t.caller
        /\ s.count = t.count /\ s.mine = t.mine /\ s.want[r] = row
        /\ s.loaded = prop[Home[r]]
    BY <1>0, <1>1, <1>2 DEF Transaction
  <1>7. Advance(w, s)
    BY <1>4
  <1> HIDE DEF row
  <1> HIDE DEF s
  <1>8. Synced(s) /\ IntentsOK(s) /\ SubmitsFresh(s)
    BY <1>3, <1>4, <1>5, <1>6 DEF Synced, SameButAge, IntentsOK, Intends, OwnReviewOps,
       SubmitsFresh
  <1>9. Vetted(s)
    <2>1. Cardinality(Recent(t.caller)) \in Nat /\ VelocityLimit \in Nat
      <3>1. IsFiniteSet(Recent(t.caller))
        BY FS_Subset, ConstantsOK DEF Recent, ConstantsOK
      <3> QED
        BY <3>1, FS_CardinalityType, ConstantsOK DEF ConstantsOK
    <2> QED
      BY <1>3, <1>4, <1>5, <1>6, <2>1 DEF Vetted
  <1>10. (CountAsStored(t) => CountAsStored(s)) /\ ScoresAhead(s) /\ s.op \in Ops
    BY <1>0, <1>1, <1>6 DEF RowRequest, CountAsStored, ScoresAhead
  <1>11. RowRequest(s)
    BY <1>8, <1>10 DEF RowRequest
  <1>12. Moves(w, s)
    BY <1>1, <1>7, <1>9, <1>10, <1>11 DEF Moves
  <1> QED
    BY <1>12

LEMMA MoveLoadOwn ==
    ASSUME Inv, RowInv, NEW w \in Workers, LoadEdit(w) \/ LoadDelete(w)
    PROVE  \E t : Moves(w, t)
  <1> DEFINE t == tx[w]
  <1>0. TypeOK /\ t \in Transaction /\ RowRequest(t)
    BY DEF Inv, TypeOK, RowInv
  <1>1. /\ t.pc = "authed" /\ t.op \in OwnReviewOps /\ t.op # "submit"
        /\ UNCHANGED <<review, user, prop, audit>>
    BY DEF LoadEdit, LoadDelete, OwnReviewOps
  <1>2. PICK r \in Reviews : t.own = {r}
    BY <1>1 DEF Inv, RequestsConsistent, OneRow, ScoringOps
  <1>3. review[r] \in Row
    BY <1>0 DEF TypeOK
  <1>4. PICK row \in Row :
          /\ Advance(w, [t EXCEPT !.pc = "loaded", !.mine[r] = review[r], !.want[r] = row])
          /\ Editable(t.caller, r)
          /\ t.op = "delete" => row = Gone
          /\ t.op = "edit" => row.status \in {"pending", "flagged"}
          /\ row.status = "pending" => row.body \notin Risky
          /\ t.op # "delete" => row.age = review[r].age
    <2>1. CASE LoadEdit(w)
      <3>1. PICK c \in Contents :
              /\ Editable(t.caller, r)
              /\ Advance(w, [t EXCEPT !.pc = "loaded", !.mine[r] = review[r],
                               !.want[r] = [review[r] EXCEPT !.body = c,
                                                             !.status = EditVerdict(c)]])
        BY <1>2, <2>1 DEF LoadEdit
      <3> DEFINE row == [review[r] EXCEPT !.body = c, !.status = EditVerdict(c)]
      <3>2. EditVerdict(c) \in {"pending", "flagged"} /\ (EditVerdict(c) = "pending" => c \notin Risky)
        BY DEF EditVerdict
      <3>3. /\ row \in Row /\ row.body = c /\ row.status = EditVerdict(c)
            /\ row.age = review[r].age
        BY <1>3, EditVerdictType DEF Row
      <3>4. t.op # "delete"
        BY <2>1 DEF LoadEdit
      <3> QED
        BY <3>1, <3>2, <3>3, <3>4
    <2>2. CASE LoadDelete(w)
      <3>1. /\ Editable(t.caller, r) /\ t.op = "delete"
            /\ Advance(w, [t EXCEPT !.pc = "loaded", !.mine[r] = review[r], !.want[r] = Gone])
        BY <1>2, <2>2 DEF LoadDelete, Gone
      <3>2. Gone \in Row /\ Gone.status = "deleted"
        BY IdleType DEF Gone, Row, BlankRow
      <3> QED
        BY <3>1, <3>2
    <2> QED
      BY <2>1, <2>2
  <1> DEFINE s == [t EXCEPT !.pc = "loaded", !.mine[r] = review[r], !.want[r] = row]
  <1>5. /\ s.pc = "loaded" /\ s.op = t.op /\ s.own = {r} /\ s.caller = t.caller
        /\ s.count = t.count /\ s.mine[r] = review[r] /\ s.want[r] = row
    BY <1>0, <1>2 DEF Transaction
  <1>6. Advance(w, s)
    BY <1>4
  <1> HIDE DEF s
  <1>7. review[r].reply = NoReply /\ Author[r] = t.caller /\ review[r].status \in Statuses
    BY <1>4 DEF Editable, Exists
  <1>8. Synced(s) /\ IntentsOK(s)
    BY <1>1, <1>4, <1>5, <1>7 DEF Synced, SameButAge, IntentsOK, Intends, OwnReviewOps
  <1>9. /\ SubmitsFresh(s) /\ Vetted(s) /\ ScoresAhead(s)
        /\ CountAsStored(t) => CountAsStored(s)
        /\ s.op \in Ops \cup {"none"}
    BY <1>0, <1>1, <1>5 DEF RowRequest, SubmitsFresh, CountAsStored, Vetted, ScoresAhead
  <1>10. RowRequest(s)
    BY <1>8, <1>9 DEF RowRequest
  <1>11. Moves(w, s)
    BY <1>1, <1>6, <1>9, <1>10 DEF Moves
  <1> QED
    BY <1>11

LEMMA MoveLoadClosure ==
    ASSUME Inv, RowInv, NEW w \in Workers, LoadClosure(w)
    PROVE  \E t : Moves(w, t)
  <1> DEFINE t == tx[w]
             own == {r \in Reviews : Author[r] = t.caller /\ Exists(r)}
             s == [t EXCEPT
                    !.pc = "loaded", !.own = own,
                    !.mine = [r \in Reviews |-> IF r \in own THEN review[r] ELSE BlankRow],
                    !.want = [r \in Reviews |-> IF r \in own THEN Closed(t.op, review[r])
                                                             ELSE BlankRow]]
  <1>0. TypeOK /\ t \in Transaction /\ RowRequest(t)
    BY DEF Inv, TypeOK, RowInv
  <1>1. /\ t.pc = "authed" /\ t.op \in Closures /\ Advance(w, s)
        /\ UNCHANGED <<review, user, prop, audit>>
    BY DEF LoadClosure
  <1>2. /\ s.pc = "loaded" /\ s.op = t.op /\ s.own = own /\ s.caller = t.caller
        /\ \A r \in own : s.mine[r] = review[r] /\ s.want[r] = Closed(t.op, review[r])
    BY <1>0 DEF Transaction
  <1>3. t.op \notin {"submit", "edit", "delete", "reply"} /\ t.op \notin OwnReviewOps
    BY <1>1 DEF Closures, OwnReviewOps
  <1>4. \A r \in own : /\ r \in Reviews /\ review[r].status \in Statuses
                       /\ review[r].status = "pending" => review[r].body \notin Risky
    BY DEF Exists, RowInv, RiskyIsFlagged
  <1> HIDE DEF s, own
  <1>5. ASSUME NEW r \in own
        PROVE  LET row == Closed(t.op, review[r]) IN
                 /\ row.age = review[r].age /\ row.body = review[r].body
                 /\ row.status = "pending" => row.body \notin Risky
                 /\ t.op = "anonymise" => row.status = review[r].status
    <2>1. review[r] \in Row
      BY <1>0, <1>4 DEF TypeOK
    <2> QED
      BY <1>4, <2>1 DEF Closed, Row
  <1>6. Synced(s)
    BY <1>2, <1>5 DEF Synced, SameButAge
  <1>7. IntentsOK(s)
    BY <1>2, <1>3, <1>4, <1>5 DEF IntentsOK, Intends
  <1>8. /\ SubmitsFresh(s) /\ CountAsStored(s) /\ Vetted(s) /\ ScoresAhead(s)
        /\ s.op \in Ops \cup {"none"}
    BY <1>0, <1>2, <1>3 DEF RowRequest, SubmitsFresh, CountAsStored, Vetted, ScoresAhead
  <1>9. RowRequest(s)
    BY <1>6, <1>7, <1>8 DEF RowRequest
  <1>10. Moves(w, s)
    BY <1>1, <1>8, <1>9 DEF Moves
  <1> QED
    BY <1>10

LEMMA MoveFlush ==
    ASSUME TypeOK, RowInv, NEW w \in Workers, Flush(w)
    PROVE  \E t : Moves(w, t)
  <1> DEFINE t == tx[w]
             s == [t EXCEPT !.pc = "flushed"]
  <1>0. t \in Transaction /\ RowRequest(t)
    BY DEF TypeOK, RowInv
  <1>1. /\ t.pc = "loaded" /\ Advance(w, s) /\ UNCHANGED <<review, user, prop, audit>>
    BY DEF Flush
  <1>2. /\ s.pc = "flushed" /\ s.op = t.op /\ s.own = t.own /\ s.caller = t.caller
        /\ s.count = t.count /\ s.mine = t.mine /\ s.want = t.want /\ s.loaded = t.loaded
    BY <1>0 DEF Transaction
  <1> HIDE DEF s
  <1>3. Writing(t) /\ Writing(s)
    BY <1>1, <1>2 DEF Writing
  <1>4. RowRequest(s)
    BY <1>0, <1>1, <1>2, <1>3 DEF RowRequest, Synced, IntentsOK, SubmitsFresh
  <1>5. /\ CountAsStored(t) => CountAsStored(s)
        /\ ScoresAhead(t) => ScoresAhead(s)
        /\ Vetted(t) => Vetted(s)
    BY <1>1, <1>2, <1>3 DEF CountAsStored, ScoresAhead, Vetted
  <1>6. Moves(w, s)
    BY <1>1, <1>4, <1>5 DEF Moves
  <1> QED
    BY <1>6

(* What a commit leaves is what the request wanted of its own rows: its    *)
(* UPDATE of the changed columns meets the row it loaded.                  *)
LEMMA SeenIsWanted ==
    ASSUME RowInv, NEW w \in Workers, Holding(w), NEW r \in Reviews
    PROVE  /\ Seen(w, r).status = Leaves(tx[w], r).status
           /\ Seen(w, r).body = Leaves(tx[w], r).body
           /\ Seen(w, r).reply = Leaves(tx[w], r).reply
           /\ r \notin tx[w].own => Seen(w, r) = review[r]
  <1> DEFINE t == tx[w]
  <1>1. Synced(t) /\ Writing(t)
    BY DEF RowInv, RowRequest, Holding, Writing
  <1>2. CASE r \notin t.own
    BY <1>2 DEF Seen, Leaves
  <1>3. CASE r \in t.own /\ t.op = "delete"
    BY <1>3 DEF Seen, Leaves
  <1>4. CASE r \in t.own /\ t.op # "delete"
    <2>1. Seen(w, r) = MergeRow(review[r], t.mine[r], t.want[r])
      BY <1>4 DEF Seen
    <2>2. SameButAge(review[r], t.mine[r])
      BY <1>1, <1>4 DEF Synced
    <2>3. /\ Seen(w, r).status = t.want[r].status
          /\ Seen(w, r).body = t.want[r].body
          /\ Seen(w, r).reply = t.want[r].reply
      BY <2>1, <2>2 DEF MergeRow, Col, SameButAge
    <2> QED
      BY <1>4, <2>3 DEF Leaves
  <1> QED
    BY <1>2, <1>3, <1>4

LEMMA MoveScore ==
    ASSUME Inv, RowInv, NEW w \in Workers, Score(w)
    PROVE  \E t : Moves(w, t)
  <1> DEFINE t == tx[w]
  <1>0. TypeOK /\ t \in Transaction /\ RowRequest(t)
    BY DEF Inv, TypeOK, RowInv
  <1>1. /\ t.pc = "flushed" /\ t.op \in ScoringOps /\ Holding(w) /\ Writing(t)
        /\ UNCHANGED <<review, user, prop, audit>>
    BY DEF Score, Holding, Writing
  <1>2. PICK r \in Reviews : t.own = {r}
    BY <1>1 DEF Inv, RequestsConsistent, OneRow
  <1> DEFINE A == Approved(w, Home[r])
             loaded == IF t.op = "submit" THEN t.loaded ELSE prop[Home[r]]
             calc(rent) == [total |-> Cardinality(A),
                            counted |-> {<<a, BodyInSession(w, a)>> : a \in A},
                            rent |-> rent]
  <1>3. PICK rent : Advance(w, [t EXCEPT !.pc = "scored", !.loaded = loaded,
                                         !.calc = calc(rent)])
    BY <1>2 DEF Score
  <1> DEFINE s == [t EXCEPT !.pc = "scored", !.loaded = loaded, !.calc = calc(rent)]
  <1>4. /\ s.pc = "scored" /\ s.op = t.op /\ s.own = t.own /\ s.caller = t.caller
        /\ s.count = t.count /\ s.mine = t.mine /\ s.want = t.want
        /\ s.loaded = loaded /\ s.calc = calc(rent)
    BY <1>0 DEF Transaction
  <1>5. ScoresAhead(t) => loaded = prop[Home[r]]
    BY <1>1, <1>2 DEF ScoresAhead
  <1>6. A = UpcomingReviews(t, Home[r])
    BY <1>1, SeenIsWanted DEF Approved, UpcomingReviews
  <1>7. {<<a, BodyInSession(w, a)>> : a \in A} = Upcoming(t, Home[r])
    <2>1. \A a : BodyInSession(w, a) = Leaves(t, a).body
      BY DEF BodyInSession, Leaves
    <2> HIDE DEF A
    <2> QED
      BY <1>6, <2>1 DEF Upcoming
  <1>8. Advance(w, s)
    BY <1>3
  <1>9. s.calc.counted = Upcoming(t, Home[r])
        /\ s.calc.total = Cardinality(UpcomingReviews(t, Home[r]))
    BY <1>4, <1>6, <1>7
  <1> HIDE DEF s
  <1>10. \A p : Upcoming(s, p) = Upcoming(t, p) /\ UpcomingReviews(s, p) = UpcomingReviews(t, p)
    BY <1>4 DEF Upcoming, UpcomingReviews, Leaves
  <1>11. ScoresAhead(t) => ScoresAhead(s)
    BY <1>2, <1>4, <1>5, <1>9, <1>10 DEF ScoresAhead
  <1>12. RowRequest(s)
    BY <1>0, <1>1, <1>4 DEF RowRequest, Synced, IntentsOK, SubmitsFresh, Writing
  <1>13. (CountAsStored(t) => CountAsStored(s)) /\ (Vetted(t) => Vetted(s))
    BY <1>1, <1>4 DEF CountAsStored, Vetted, Writing
  <1>14. Moves(w, s)
    BY <1>1, <1>8, <1>11, <1>12, <1>13 DEF Moves
  <1> QED
    BY <1>14

Commits(w) == CommitScored(w) \/ CommitReply(w) \/ CommitClosure(w)

LEMMA CommitRows ==
    ASSUME Inv, RowInv, NEW w \in Workers, Commits(w)
    PROVE  /\ Holding(w) /\ Writing(tx[w]) /\ tx[w] \in Transaction
           /\ Advance(w, Idle)
           /\ \A r \in Reviews :
                /\ review'[r].status = Leaves(tx[w], r).status
                /\ review'[r].body = Leaves(tx[w], r).body
                /\ review'[r].reply = Leaves(tx[w], r).reply
                /\ r \notin tx[w].own => review'[r] = review[r]
  <1>1. Holding(w) /\ Writing(tx[w]) /\ tx[w] \in Transaction
    BY DEF Commits, CommitScored, CommitReply, CommitClosure, Holding, Writing, Inv, TypeOK
  <1>2. Advance(w, Idle) /\ review' = Landed(w)
    BY DEF Commits, CommitScored, CommitReply, CommitClosure
  <1> QED
    BY <1>1, <1>2, SeenIsWanted DEF Landed

(* The rows themselves.                                                    *)
LEMMA CommitKeepsRows ==
    ASSUME Inv, RowInv, NEW w \in Workers, Commits(w)
    PROVE  RiskyIsFlagged' /\ NoGhosts'
  <1> DEFINE t == tx[w]
  <1>1. /\ Writing(t) /\ t \in Transaction
        /\ \A r \in Reviews : /\ review'[r].status = Leaves(t, r).status
                              /\ review'[r].body = Leaves(t, r).body
                              /\ review'[r].reply = Leaves(t, r).reply
                              /\ r \notin t.own => review'[r] = review[r]
    BY CommitRows
  <1>2. IntentsOK(t) /\ WantsLegalStatus(t) /\ RiskyIsFlagged /\ NoGhosts
    BY DEF Inv, RequestsConsistent, RowInv, RowRequest
  <1>3. ASSUME NEW r \in Reviews, review'[r].status = "pending"
        PROVE  review'[r].body \notin Risky
    <2>1. CASE r \in t.own
      BY <1>1, <1>2, <1>3, <2>1 DEF IntentsOK, Intends, Leaves
    <2>2. CASE r \notin t.own
      BY <1>1, <1>2, <1>3, <2>2 DEF RiskyIsFlagged
    <2> QED
      BY <2>1, <2>2
  <1>4. ASSUME NEW r \in Reviews
        PROVE  /\ review'[r].status = "unused" => review'[r] = BlankRow
               /\ ~Exists(r)' => review'[r].reply = NoReply
    <2>1. CASE r \in t.own /\ t.op = "delete"
      <3>1. t.want[r] = Gone
        BY <1>1, <1>2, <2>1 DEF IntentsOK, Intends
      <3>2. Gone.status = "deleted" /\ Gone.reply = NoReply
        BY DEF Gone, BlankRow
      <3> QED
        BY <1>1, <2>1, <3>1, <3>2 DEF Leaves
    <2>2. CASE r \in t.own /\ t.op # "delete"
      <3>1. review'[r].status \in Statuses
        BY <1>1, <1>2, <2>2 DEF WantsLegalStatus, Leaves
      <3> QED
        BY <3>1 DEF Exists, Statuses
    <2>3. CASE r \notin t.own
      BY <1>1, <1>2, <2>3 DEF NoGhosts, Exists
    <2> QED
      BY <2>1, <2>2, <2>3
  <1> QED
    BY <1>3, <1>4 DEF RiskyIsFlagged, NoGhosts

(* users.review_count: a submission adds its row, a deletion takes its own *)
(* away, nothing else makes a row or unmakes one.                          *)
LEMMA CommitKeepsCounts ==
    ASSUME Inv, RowInv, CountInv, NEW w \in Workers, Commits(w)
    PROVE  CountsOK'
  <1> DEFINE t == tx[w]
  <1>1. /\ Writing(t) /\ t \in Transaction /\ t.pc # "idle"
        /\ \A r \in Reviews : /\ review'[r].status = Leaves(t, r).status
                              /\ r \notin t.own => review'[r] = review[r]
    BY CommitRows DEF Writing
  <1>2. /\ IntentsOK(t) /\ WantsLegalStatus(t) /\ CountAsStored(t) /\ SubmitsFresh(t)
        /\ Synced(t) /\ CountsOK /\ OneRow(t)
    BY DEF Inv, RequestsConsistent, RowInv, RowRequest, CountInv
  <1>3. user \in [Users -> Account] /\ \A u \in Users : user[u].review_count \in Nat
    BY DEF Inv, TypeOK, Account
  <1>4. \A u \in Users : Live(u) \subseteq Reviews /\ IsFiniteSet(Live(u))
    <2>1. \A u \in Users : Live(u) \subseteq Reviews
      BY DEF Live
    <2> QED
      BY <2>1, FS_Subset, ConstantsOK DEF ConstantsOK
  <1>5. CASE t.op \in {"submit", "delete"}
    <2>1. CommitScored(w)
      BY <1>5 DEF Commits, CommitReply, CommitClosure, Closures
    <2>2. PICK r \in Reviews : t.own = {r}
      BY <1>1, <1>2, <1>5 DEF OneRow, ScoringOps, OwnReviewOps
    <2>3. PICK c \in Users : t.caller = c /\ Author[r] = c /\ t.count = Cardinality(Live(c))
      <3>1. t.caller \in Users /\ t.count = user[t.caller].review_count
        BY <1>1, <1>2, <1>5 DEF CountAsStored
      <3>2. Author[r] = t.caller
        BY <1>1, <1>2, <1>5, <2>2 DEF SubmitsFresh, IntentsOK, Intends, OwnReviewOps
      <3> QED
        BY <1>2, <3>1, <3>2 DEF CountsOK
    <2>4. \A x \in Reviews : x # r => Exists(x)' = Exists(x)
      BY <1>1, <2>2 DEF Exists
    <2>5. \A u \in Users : u # c => Live(u)' = Live(u)
      BY <2>3, <2>4 DEF Live
    <2>6. Cardinality(Live(c)') = NewCount(t) /\ NewCount(t) # t.count
      <3>0. t.count \in Nat
        BY <1>1 DEF Transaction
      <3>1. CASE t.op = "submit"
        <4>1. ~Exists(r)
          BY <1>1, <1>2, <2>2, <3>1 DEF SubmitsFresh, Exists, BlankRow, Statuses
        <4>2. Exists(r)'
          BY <1>1, <1>2, <2>2, <3>1 DEF WantsLegalStatus, Leaves, Exists
        <4>3. Live(c)' = Live(c) \cup {r} /\ r \notin Live(c)
          BY <2>3, <2>4, <4>1, <4>2 DEF Live
        <4>4. Cardinality(Live(c) \cup {r}) = Cardinality(Live(c)) + 1
          BY <1>4, <2>3, <4>3, FS_AddElement
        <4> QED
          BY <2>3, <3>0, <3>1, <4>3, <4>4 DEF NewCount
      <3>2. CASE t.op = "delete"
        <4>1. Exists(r)
          BY <1>1, <1>2, <2>2, <3>2 DEF Synced, SameButAge, IntentsOK, Intends, Exists
        <4>2. ~Exists(r)'
          <5>1. review'[r].status = "deleted"
            BY <1>1, <1>2, <2>2, <3>2 DEF WantsLegalStatus, Leaves
          <5> QED
            BY <5>1 DEF Exists, Statuses
        <4>3. Live(c)' = Live(c) \ {r} /\ r \in Live(c)
          BY <2>3, <2>4, <4>1, <4>2 DEF Live
        <4>4. Cardinality(Live(c) \ {r}) = Cardinality(Live(c)) - 1
          BY <1>4, <2>3, <4>3, FS_RemoveElement
        <4>5. Cardinality(Live(c) \ {r}) \in Nat
          BY <1>4, <2>3, FS_RemoveElement, FS_CardinalityType, <4>3
        <4>6. t.count # 0
          BY <2>3, <3>0, <4>4, <4>5
        <4> QED
          BY <2>3, <3>0, <3>2, <4>3, <4>4, <4>6 DEF NewCount
      <3> QED
        BY <1>5, <3>1, <3>2
    <2>7. \A u \in Users : user'[u].review_count =
                             IF u = c THEN NewCount(t) ELSE user[u].review_count
      <3>1. \A u \in Users : LocksUser(t, u) <=> u = c
        BY <2>3, <2>6 DEF LocksUser
      <3>2. \A u \in Users : user'[u] = IF LocksUser(t, u)
                                          THEN [user[u] EXCEPT !.review_count = NewCount(t)]
                                          ELSE user[u]
        BY <2>1 DEF CommitScored
      <3>3. \A u \in Users : user[u] \in Account
        BY <1>3
      <3>4. ASSUME NEW u \in Users
            PROVE  user'[u].review_count =
                     IF u = c THEN NewCount(t) ELSE user[u].review_count
        <4>1. CASE u = c
          <5>1. user'[u] = [user[u] EXCEPT !.review_count = NewCount(t)]
            BY <3>1, <3>2, <4>1
          <5> QED
            BY <3>3, <4>1, <5>1 DEF Account
        <4>2. CASE u # c
          BY <3>1, <3>2, <4>2
        <4> QED
          BY <4>1, <4>2
      <3> QED
        BY <3>4
    <2> QED
      BY <1>2, <2>5, <2>6, <2>7 DEF CountsOK
  <1>6. CASE t.op \notin {"submit", "delete"}
    <2>1. \A r \in Reviews : Exists(r)' = Exists(r)
      <3> SUFFICES ASSUME NEW r \in Reviews PROVE Exists(r)' = Exists(r)
        OBVIOUS
      <3>1. CASE r \in t.own
        <4>1. review[r].status \in Statuses
          BY <1>1, <1>2, <1>6, <3>1 DEF Synced, SameButAge, IntentsOK, Intends
        <4>2. review'[r].status \in Statuses
          BY <1>1, <1>2, <1>6, <3>1 DEF WantsLegalStatus, Leaves
        <4> QED
          BY <4>1, <4>2 DEF Exists
      <3>2. CASE r \notin t.own
        BY <1>1, <3>2 DEF Exists
      <3> QED
        BY <3>1, <3>2
    <2>2. \A u \in Users : Live(u)' = Live(u)
      BY <2>1 DEF Live
    <2>3. \A u \in Users : user'[u].review_count = user[u].review_count
      <3>1. \A u \in Users : ~LocksUser(t, u)
        BY <1>6 DEF LocksUser, NewCount
      <3>2. CASE CommitScored(w)
        BY <3>1, <3>2 DEF CommitScored
      <3>3. CASE CommitReply(w)
        BY <3>3 DEF CommitReply
      <3>4. CASE CommitClosure(w)
        BY <1>3, <3>4 DEF CommitClosure, Account
      <3> QED
        BY <3>2, <3>3, <3>4 DEF Commits
    <2> QED
      BY <1>2, <2>2, <2>3 DEF CountsOK
  <1> QED
    BY <1>5, <1>6

(* The aggregates: a scoring request writes those of the rows it leaves,   *)
(* and no other request, but for a withdrawal, changes what they count.    *)
LEMMA CommitKeepsScores ==
    ASSUME Inv, RowInv, ScoreInv, NEW w \in Workers, Commits(w)
    PROVE  ScoresOK'
  <1> SUFFICES ASSUME "withdraw" \notin Ops, NEW p \in Properties
               PROVE  /\ prop'[p].counted = Published(p)'
                      /\ prop'[p].total = Cardinality(ScoredReviews(p)')
    BY DEF ScoresOK
  <1> DEFINE t == tx[w]
  <1>1. /\ Writing(t) /\ t \in Transaction /\ t.pc # "idle"
        /\ \A r \in Reviews : /\ review'[r].status = Leaves(t, r).status
                              /\ review'[r].body = Leaves(t, r).body
                              /\ r \notin t.own => review'[r] = review[r]
    BY CommitRows DEF Writing
  <1>2. IntentsOK(t) /\ Synced(t) /\ ScoresAhead(t) /\ OneRow(t) /\ t.op \in Ops \cup {"none"}
    BY DEF Inv, RequestsConsistent, RowInv, RowRequest, ScoreInv
  <1>3. /\ prop[p].counted = Published(p)
        /\ prop[p].total = Cardinality(ScoredReviews(p))
    BY DEF ScoreInv, ScoresOK
  <1>4. ASSUME \A r \in Reviews : Home[r] = p => /\ review'[r].status = review[r].status
                                                /\ review'[r].body = review[r].body
        PROVE  Published(p)' = Published(p) /\ ScoredReviews(p)' = ScoredReviews(p)
    <2>1. ScoredReviews(p)' = ScoredReviews(p)
      BY <1>4 DEF ScoredReviews
    <2>2. Published(p) = {<<r, review[r].body>> : r \in ScoredReviews(p)}
          /\ Published(p)' = {<<r, review'[r].body>> : r \in ScoredReviews(p)'}
      BY DEF Published, ScoredReviews
    <2>3. \A r \in ScoredReviews(p) : review'[r].body = review[r].body
      BY <1>4 DEF ScoredReviews
    <2> QED
      BY <2>1, <2>2, <2>3
  <1>5. CASE CommitScored(w)
    <2>1. PICK r \in t.own : prop' = [prop EXCEPT ![Home[r]] = MergeColumns(@, t.loaded, t.calc)]
      BY <1>5 DEF CommitScored
    <2>2. t.own = {r} /\ r \in Reviews /\ t.pc = "scored"
      <3>1. t.op \in ScoringOps /\ t.pc = "scored"
        BY <1>5 DEF CommitScored, Inv, RequestsConsistent, CountsModerated
      <3> QED
        BY <1>1, <1>2, <2>1, <3>1 DEF OneRow
    <2>3. prop \in [Properties -> Columns]
      BY DEF Inv, TypeOK
    <2>4. CASE p = Home[r]
      <3>1. /\ t.loaded = prop[p] /\ t.calc.counted = Upcoming(t, p)
            /\ t.calc.total = Cardinality(UpcomingReviews(t, p))
        BY <1>2, <2>2, <2>4 DEF ScoresAhead
      <3>2. prop'[p] = MergeColumns(prop[p], prop[p], t.calc)
        BY <2>1, <2>3, <2>4, <3>1
      <3>3. prop'[p].counted = t.calc.counted /\ prop'[p].total = t.calc.total
        BY <3>2 DEF MergeColumns, Col
      <3>4. ScoredReviews(p)' = UpcomingReviews(t, p)
        BY <1>1 DEF ScoredReviews, UpcomingReviews
      <3>5. Published(p)' = {<<x, review'[x].body>> : x \in ScoredReviews(p)'}
        BY DEF Published, ScoredReviews
      <3>6. \A x \in UpcomingReviews(t, p) : review'[x].body = Leaves(t, x).body
        BY <1>1 DEF UpcomingReviews
      <3>7. Published(p)' = Upcoming(t, p)
        BY <3>4, <3>5, <3>6 DEF Upcoming
      <3> QED
        BY <3>1, <3>3, <3>4, <3>7
    <2>5. CASE p # Home[r]
      <3>1. prop'[p] = prop[p]
        BY <2>1, <2>3, <2>5
      <3>2. \A x \in Reviews : Home[x] = p => review'[x] = review[x]
        BY <1>1, <2>2, <2>5
      <3> QED
        BY <1>3, <1>4, <3>1, <3>2
    <2> QED
      BY <2>4, <2>5
  <1>6. CASE CommitReply(w) \/ CommitClosure(w)
    <2>1. t.op \in {"reply", "anonymise"} /\ prop' = prop
      BY <1>2, <1>6 DEF CommitReply, CommitClosure, Closures
    <2>2. \A r \in t.own : t.want[r].status = review[r].status /\ t.want[r].body = review[r].body
      BY <1>1, <1>2, <2>1 DEF IntentsOK, Intends, Synced, SameButAge
    <2>3. \A r \in Reviews : /\ review'[r].status = review[r].status
                             /\ review'[r].body = review[r].body
      BY <1>1, <2>2 DEF Leaves
    <2> QED
      BY <1>3, <1>4, <2>1, <2>3
  <1> QED
    BY <1>5, <1>6 DEF Commits

(* Only a submission or a deletion makes or unmakes a row, and only one of *)
(* its caller's; no request touches created_at.                            *)
LEMMA CommitKeepsAges ==
    ASSUME Inv, RowInv, NEW w \in Workers, Commits(w), NEW r \in Reviews,
           Author[r] # tx[w].caller \/ tx[w].op \notin {"submit", "delete"}
    PROVE  Exists(r)' = Exists(r) /\ review'[r].age = review[r].age
  <1> DEFINE t == tx[w]
  <1>1. /\ Writing(t) /\ t.pc # "idle" /\ Advance(w, Idle)
        /\ review'[r].status = Leaves(t, r).status
        /\ r \notin t.own => review'[r] = review[r]
    BY CommitRows DEF Writing
  <1>2. IntentsOK(t) /\ WantsLegalStatus(t) /\ SubmitsFresh(t) /\ Synced(t)
    BY DEF Inv, RequestsConsistent, RowInv, RowRequest
  <1>3. CASE r \in t.own
    <2>1. t.op \notin {"submit", "delete"}
      BY <1>1, <1>2, <1>3 DEF SubmitsFresh, IntentsOK, Intends, OwnReviewOps
    <2>2. review[r].status \in Statuses /\ review'[r].status \in Statuses
      BY <1>1, <1>2, <1>3, <2>1 DEF Synced, SameButAge, IntentsOK, Intends,
         WantsLegalStatus, Leaves
    <2>3. review'[r] = MergeRow(review[r], t.mine[r], t.want[r])
      <3>1. review' = Landed(w) /\ Holding(w)
        BY CommitRows DEF Commits, CommitScored, CommitReply, CommitClosure
      <3> QED
        BY <1>3, <2>1, <3>1 DEF Landed, Seen
    <2>4. t.want[r].age = t.mine[r].age
      BY <1>1, <1>2, <1>3, <2>1 DEF Synced
    <2> QED
      BY <2>2, <2>3, <2>4 DEF MergeRow, Col, Exists
  <1>4. CASE r \notin t.own
    BY <1>1, <1>4 DEF Exists
  <1> QED
    BY <1>3, <1>4

(* A property none of whose reviews the request owns stays as it is.       *)
LEMMA CommitKeepsHome ==
    ASSUME Inv, RowInv, NEW w \in Workers, Commits(w), NEW p \in Properties,
           \A b \in tx[w].own : Home[b] # p
    PROVE  /\ \A r \in Reviews : Home[r] = p => review'[r] = review[r]
           /\ prop'[p] = prop[p]
  <1>1. \A r \in Reviews : Home[r] = p => review'[r] = review[r]
    BY CommitRows
  <1>2. CASE CommitScored(w)
    <2>1. PICK r \in tx[w].own :
            prop' = [prop EXCEPT ![Home[r]] = MergeColumns(@, tx[w].loaded, tx[w].calc)]
      BY <1>2 DEF CommitScored
    <2> QED
      BY <1>1, <2>1 DEF Inv, TypeOK
  <1>3. CASE CommitReply(w) \/ CommitClosure(w)
    BY <1>1, <1>3 DEF CommitReply, CommitClosure
  <1> QED
    BY <1>2, <1>3 DEF Commits

(* The account of another caller keeps its count.                          *)
LEMMA CommitKeepsAccount ==
    ASSUME Inv, RowInv, NEW w \in Workers, Commits(w), NEW u \in Users,
           tx[w].caller # u
    PROVE  user'[u].review_count = user[u].review_count
  <1>1. CASE CommitScored(w)
    BY <1>1 DEF CommitScored, LocksUser
  <1>2. CASE CommitReply(w)
    BY <1>2 DEF CommitReply
  <1>3. CASE CommitClosure(w)
    BY <1>3 DEF CommitClosure, Inv, TypeOK, Account
  <1> QED
    BY <1>1, <1>2, <1>3 DEF Commits

(* What a commit may disturb of another request: its rows only where they  *)
(* share one, its count only where they share a caller, its aggregates and *)
(* its verdict only where they share a property (and, the verdict, a       *)
(* caller).                                                                *)
LEMMA CommitSparesRows ==
    ASSUME Inv, RowInv, NEW w \in Workers, Commits(w),
           NEW s \in Transaction, RowRequest(s), s.own \cap tx[w].own = {}
    PROVE  RowRequest(s)'
  <1>1. \A r \in s.own : r \in Reviews /\ review'[r] = review[r]
    BY CommitRows DEF Transaction
  <1> QED
    BY <1>1 DEF RowRequest, Synced, IntentsOK, Intends, SubmitsFresh, Writing

LEMMA CommitSparesCount ==
    ASSUME Inv, RowInv, NEW w \in Workers, Commits(w),
           NEW s, CountAsStored(s), s.caller # tx[w].caller \/ s.caller = NoUser
    PROVE  CountAsStored(s)'
  <1>1. s.pc # "idle" /\ s.op \in {"submit", "delete"} =>
          s.caller \in Users /\ tx[w].caller # s.caller
    BY ConstantsOK DEF CountAsStored, ConstantsOK
  <1> QED
    BY <1>1, CommitKeepsAccount DEF CountAsStored

(* The homes of s's reviews are none of those the commit touches.          *)
LEMMA CommitSparesHomes ==
    ASSUME Inv, RowInv, NEW w \in Workers, Commits(w), NEW s \in Transaction,
           \A a \in s.own, b \in tx[w].own : Home[a] # Home[b],
           NEW r \in s.own
    PROVE  /\ \A x \in Reviews : Home[x] = Home[r] => review'[x] = review[x]
           /\ prop'[Home[r]] = prop[Home[r]]
  <1>1. PICK p \in Properties : p = Home[r]
    BY ConstantsOK DEF Transaction, ConstantsOK
  <1>2. \A b \in tx[w].own : Home[b] # p
    BY <1>1
  <1> QED
    BY <1>1, <1>2, CommitKeepsHome

LEMMA CommitSparesScores ==
    ASSUME Inv, RowInv, NEW w \in Workers, Commits(w),
           NEW s \in Transaction, ScoresAhead(s),
           \A a \in s.own, b \in tx[w].own : Home[a] # Home[b]
    PROVE  ScoresAhead(s)'
  <1>1. ASSUME NEW r \in s.own
        PROVE  /\ UpcomingReviews(s, Home[r])' = UpcomingReviews(s, Home[r])
               /\ Upcoming(s, Home[r])' = Upcoming(s, Home[r])
    <2>1. \A x \in Reviews : Home[x] = Home[r] => Leaves(s, x)' = Leaves(s, x)
      BY CommitSparesHomes DEF Leaves
    <2>2. UpcomingReviews(s, Home[r])' = UpcomingReviews(s, Home[r])
      BY <2>1 DEF UpcomingReviews
    <2>3. Upcoming(s, Home[r])' =
            {<<x, Leaves(s, x)'.body>> : x \in UpcomingReviews(s, Home[r])'}
      BY DEF Upcoming
    <2>4. \A x \in UpcomingReviews(s, Home[r]) : Leaves(s, x)' = Leaves(s, x)
      BY <2>1 DEF UpcomingReviews
    <2> QED
      BY <2>2, <2>3, <2>4 DEF Upcoming
  <1>2. \A r \in s.own : prop'[Home[r]] = prop[Home[r]]
    BY CommitSparesHomes
  <1> QED
    BY <1>1, <1>2 DEF ScoresAhead, Writing

LEMMA CommitSparesVerdict ==
    ASSUME Inv, RowInv, NEW w \in Workers, Commits(w),
           NEW s \in Transaction, RowRequest(s), Vetted(s),
           \A a \in s.own, b \in tx[w].own : Home[a] # Home[b],
           s.caller # tx[w].caller \/ s.caller = NoUser
    PROVE  Vetted(s)'
  <1> SUFFICES ASSUME s.op = "submit", Writing(s), NEW r \in s.own,
                      s.want[r].status = "pending"
               PROVE  /\ Cardinality(Recent(Author[r])') < VelocityLimit
                      /\ ~IsDuplicateText(Home[r], s.want[r].body)'
    BY DEF Vetted, Writing
  <1>1. /\ Cardinality(Recent(Author[r])) < VelocityLimit
        /\ ~IsDuplicateText(Home[r], s.want[r].body)
    BY DEF Vetted
  <1>2. Author[r] \in Users /\ tx[w].caller # Author[r]
    <2>1. Author[r] = s.caller
      BY DEF RowRequest, SubmitsFresh, Writing
    <2>2. Author[r] \in Users
      BY ConstantsOK DEF Transaction, ConstantsOK
    <2> QED
      BY <2>1, <2>2, ConstantsOK DEF ConstantsOK
  <1>3. Recent(Author[r])' = Recent(Author[r])
    <2>1. \A x \in Reviews : Author[x] = Author[r] =>
            Exists(x)' = Exists(x) /\ review'[x].age = review[x].age
      BY <1>2, CommitKeepsAges
    <2> QED
      BY <2>1 DEF Recent
  <1>4. ~IsDuplicateText(Home[r], s.want[r].body)'
    BY <1>1, CommitSparesHomes DEF IsDuplicateText, Exists
  <1> QED
    BY <1>1, <1>3, <1>4

(* The committing request is idle afterwards; the others are as they were. *)
LEMMA OthersStay ==
    ASSUME Inv, RowInv, NEW w \in Workers, Commits(w), NEW v \in Workers
    PROVE  \/ /\ tx'[v] = Idle
              /\ RowRequest(Idle)' /\ CountAsStored(Idle)'
              /\ ScoresAhead(Idle)' /\ Vetted(Idle)'
           \/ v # w /\ \E s \in Transaction : s = tx[v] /\ tx'[v] = s
  <1>1. Advance(w, Idle) /\ TypeOK
    BY CommitRows DEF Inv
  <1>2. RowRequest(Idle)' /\ CountAsStored(Idle)' /\ ScoresAhead(Idle)' /\ Vetted(Idle)'
    BY DEF RowRequest, Synced, IntentsOK, SubmitsFresh, CountAsStored, ScoresAhead, Vetted,
           Writing, Idle
  <1> QED
    BY <1>1, <1>2 DEF Advance, TypeOK

LEMMA RowCommit ==
    ASSUME RowsApart, Inv, RowInv, NEW w \in Workers, Commits(w)
    PROVE  RowInv'
  <1>1. ASSUME NEW v \in Workers PROVE RowRequest(tx[v])'
    <2>1. CASE tx'[v] = Idle /\ RowRequest(Idle)'
      BY <2>1
    <2>2. CASE v # w /\ \E s \in Transaction : s = tx[v] /\ tx'[v] = s
      <3>1. PICK s \in Transaction : s = tx[v] /\ tx'[v] = s
        BY <2>2
      <3>2. RowRequest(s) /\ s.own \cap tx[w].own = {}
        BY <2>2, <3>1 DEF RowInv, RowsApart
      <3>3. RowRequest(s)'
        BY <3>2, CommitSparesRows
      <3> QED
        BY <3>1, <3>3
    <2> QED
      BY <2>1, <2>2, OthersStay
  <1> QED
    BY <1>1, CommitKeepsRows DEF RowInv

LEMMA CountCommit ==
    ASSUME CallersApart, Inv, RowInv, CountInv, NEW w \in Workers, Commits(w)
    PROVE  CountInv'
  <1>1. ASSUME NEW v \in Workers PROVE CountAsStored(tx[v])'
    <2>1. CASE tx'[v] = Idle /\ CountAsStored(Idle)'
      BY <2>1
    <2>2. CASE v # w /\ \E s \in Transaction : s = tx[v] /\ tx'[v] = s
      <3>1. PICK s \in Transaction : s = tx[v] /\ tx'[v] = s
        BY <2>2
      <3>2. CountAsStored(s) /\ (s.caller # tx[w].caller \/ s.caller = NoUser)
        BY <2>2, <3>1 DEF CountInv, CallersApart
      <3>3. CountAsStored(s)'
        BY <3>2, CommitSparesCount
      <3> QED
        BY <3>1, <3>3
    <2> QED
      BY <2>1, <2>2, OthersStay
  <1> QED
    BY <1>1, CommitKeepsCounts DEF CountInv

LEMMA ScoreCommit ==
    ASSUME HomesApart, Inv, RowInv, ScoreInv, NEW w \in Workers, Commits(w)
    PROVE  ScoreInv'
  <1>1. ASSUME NEW v \in Workers PROVE ScoresAhead(tx[v])'
    <2>1. CASE tx'[v] = Idle /\ ScoresAhead(Idle)'
      BY <2>1
    <2>2. CASE v # w /\ \E s \in Transaction : s = tx[v] /\ tx'[v] = s
      <3>1. PICK s \in Transaction : s = tx[v] /\ tx'[v] = s
        BY <2>2
      <3>2. ScoresAhead(s) /\ \A a \in s.own, b \in tx[w].own : Home[a] # Home[b]
        BY <2>2, <3>1 DEF ScoreInv, HomesApart
      <3>3. ScoresAhead(s)'
        BY <3>2, CommitSparesScores
      <3> QED
        BY <3>1, <3>3
    <2> QED
      BY <2>1, <2>2, OthersStay
  <1> QED
    BY <1>1, CommitKeepsScores DEF ScoreInv

LEMMA VetCommit ==
    ASSUME CallersApart, HomesApart, Inv, RowInv, VetInv, NEW w \in Workers, Commits(w)
    PROVE  VetInv'
  <1>1. ASSUME NEW v \in Workers PROVE Vetted(tx[v])'
    <2>1. CASE tx'[v] = Idle /\ Vetted(Idle)'
      BY <2>1
    <2>2. CASE v # w /\ \E s \in Transaction : s = tx[v] /\ tx'[v] = s
      <3>1. PICK s \in Transaction : s = tx[v] /\ tx'[v] = s
        BY <2>2
      <3>2. /\ RowRequest(s) /\ Vetted(s)
            /\ \A a \in s.own, b \in tx[w].own : Home[a] # Home[b]
            /\ s.caller # tx[w].caller \/ s.caller = NoUser
        BY <2>2, <3>1 DEF RowInv, VetInv, HomesApart, CallersApart
      <3>3. Vetted(s)'
        BY <3>2, CommitSparesVerdict
      <3> QED
        BY <3>1, <3>3
    <2> QED
      BY <2>1, <2>2, OthersStay
  <1> QED
    BY <1>1 DEF VetInv

(* A review grows older between any two steps of the request: it leaves    *)
(* the edit window and the velocity count, nothing else.                   *)
LEMMA AgeKeeps ==
    ASSUME TypeOK, RowInv, NEW g \in Reviews, GrowOlder(g)
    PROVE  /\ RowInv'
           /\ CountInv => CountInv'
           /\ ScoreInv => ScoreInv'
           /\ VetInv => VetInv'
  <1>1. /\ Exists(g) /\ review \in [Reviews -> Row] /\ UNCHANGED <<user, prop, audit, tx>>
        /\ review' = [review EXCEPT ![g].age = IF @ = "day" THEN "window" ELSE "old"]
        /\ review[g].age # "old"
    BY DEF GrowOlder, TypeOK
  <1>2. \A r \in Reviews : /\ SameButAge(review'[r], review[r])
                           /\ r # g => review'[r] = review[r]
                           /\ review'[r].age = "day" => review[r].age = "day"
    BY <1>1 DEF SameButAge, Row
  <1>3. \A r \in Reviews : /\ Exists(r)' = Exists(r)
                           /\ review'[r].status = review[r].status
                           /\ review'[r].body = review[r].body
    BY <1>2 DEF SameButAge, Exists
  <1>4. /\ RiskyIsFlagged' /\ NoGhosts'
        /\ CountsOK => CountsOK'
        /\ ScoresOK => ScoresOK'
    <2>1. RiskyIsFlagged /\ NoGhosts
      BY DEF RowInv
    <2>2. RiskyIsFlagged'
      BY <1>3, <2>1 DEF RiskyIsFlagged
    <2>3. CountsOK => CountsOK'
      <3>1. \A u \in Users : Live(u)' = Live(u)
        BY <1>3 DEF Live
      <3> QED
        BY <1>1, <3>1 DEF CountsOK
    <2>4. NoGhosts'
      <3> SUFFICES ASSUME NEW r \in Reviews
                   PROVE  /\ review'[r].status = "unused" => review'[r] = BlankRow
                          /\ ~Exists(r)' => review'[r].reply = NoReply
        BY DEF NoGhosts
      <3>1. CASE r = g
        <4>1. review'[g].status \in Statuses
          BY <1>1, <1>3 DEF Exists
        <4> QED
          BY <3>1, <4>1 DEF Statuses, Exists
      <3>2. CASE r # g
        BY <1>2, <1>3, <2>1, <3>2 DEF NoGhosts
      <3> QED
        BY <3>1, <3>2
    <2>5. ScoresOK => ScoresOK'
      <3> SUFFICES ASSUME ScoresOK, "withdraw" \notin Ops, NEW p \in Properties
                   PROVE  /\ prop'[p].counted = Published(p)'
                          /\ prop'[p].total = Cardinality(ScoredReviews(p)')
        BY DEF ScoresOK
      <3>1. ScoredReviews(p)' = ScoredReviews(p)
        BY <1>3 DEF ScoredReviews
      <3>2. Published(p) = {<<r, review[r].body>> : r \in ScoredReviews(p)}
            /\ Published(p)' = {<<r, review'[r].body>> : r \in ScoredReviews(p)'}
        BY DEF Published, ScoredReviews
      <3>3. \A r \in ScoredReviews(p) : review'[r].body = review[r].body
        BY <1>3 DEF ScoredReviews
      <3> QED
        BY <1>1, <3>1, <3>2, <3>3 DEF ScoresOK
    <2> QED
      BY <2>2, <2>3, <2>4, <2>5
  <1>5. ASSUME NEW w \in Workers
        PROVE  /\ RowRequest(tx[w])'
               /\ CountAsStored(tx[w]) => CountAsStored(tx[w])'
               /\ ScoresAhead(tx[w]) => ScoresAhead(tx[w])'
               /\ Vetted(tx[w]) => Vetted(tx[w])'
    <2> PICK t \in Transaction : t = tx[w]
      BY DEF TypeOK
    <2>1. RowRequest(t) /\ tx'[w] = t /\ t.own \subseteq Reviews
      BY <1>1 DEF RowInv, Transaction
    <2>2. Synced(t)'
      BY <1>2, <2>1 DEF RowRequest, Synced, SameButAge, Writing
    <2>3. IntentsOK(t)' /\ (CountAsStored(t) => CountAsStored(t)')
      BY <1>1, <2>1 DEF RowRequest, IntentsOK, Intends, CountAsStored, Writing
    <2>4. SubmitsFresh(t)'
      <3> SUFFICES ASSUME t.pc # "idle", t.op = "submit", NEW r \in t.own
                   PROVE  review'[r] = BlankRow /\ t.mine[r] = BlankRow /\ Author[r] = t.caller
        BY DEF SubmitsFresh
      <3>1. review[r] = BlankRow /\ t.mine[r] = BlankRow /\ Author[r] = t.caller
        BY <2>1 DEF RowRequest, SubmitsFresh
      <3>2. r # g
        BY <1>1, <3>1 DEF Exists, BlankRow, Statuses
      <3> QED
        BY <1>2, <2>1, <3>1, <3>2
    <2>5. Vetted(t) => Vetted(t)'
      <3> SUFFICES ASSUME Vetted(t), t.op = "submit", Writing(t), NEW r \in t.own,
                          t.want[r].status = "pending"
                   PROVE  /\ Cardinality(Recent(Author[r])') < VelocityLimit
                          /\ ~IsDuplicateText(Home[r], t.want[r].body)'
        BY DEF Vetted, Writing
      <3>1. Cardinality(Recent(Author[r])) < VelocityLimit
            /\ ~IsDuplicateText(Home[r], t.want[r].body)
        BY DEF Vetted
      <3>2. Recent(Author[r])' \subseteq Recent(Author[r])
        BY <1>2, <1>3 DEF Recent
      <3>3. IsFiniteSet(Recent(Author[r]))
        BY FS_Subset, ConstantsOK DEF Recent, ConstantsOK
      <3>4. /\ Cardinality(Recent(Author[r])') <= Cardinality(Recent(Author[r]))
            /\ Cardinality(Recent(Author[r])') \in Nat /\ Cardinality(Recent(Author[r])) \in Nat
        BY <3>2, <3>3, FS_Subset, FS_CardinalityType
      <3>5. ~IsDuplicateText(Home[r], t.want[r].body)'
        BY <1>3, <3>1 DEF IsDuplicateText
      <3> QED
        BY <3>1, <3>4, <3>5, ConstantsOK DEF ConstantsOK
    <2>6. ScoresAhead(t) => ScoresAhead(t)'
      <3>1. \A r \in Reviews : /\ Leaves(t, r)'.status = Leaves(t, r).status
                               /\ Leaves(t, r)'.body = Leaves(t, r).body
        BY <1>3 DEF Leaves
      <3>2. \A p : UpcomingReviews(t, p)' = UpcomingReviews(t, p)
        BY <3>1 DEF UpcomingReviews
      <3>3. ASSUME NEW p
            PROVE  Upcoming(t, p)' = Upcoming(t, p)
        <4>1. Upcoming(t, p)' = {<<r, Leaves(t, r)'.body>> : r \in UpcomingReviews(t, p)'}
          BY DEF Upcoming
        <4>2. \A r \in UpcomingReviews(t, p) : Leaves(t, r)'.body = Leaves(t, r).body
          BY <3>1 DEF UpcomingReviews
        <4> QED
          BY <3>2, <4>1, <4>2 DEF Upcoming
      <3> QED
        BY <1>1, <3>2, <3>3 DEF ScoresAhead, Writing
    <2> QED
      BY <2>1, <2>2, <2>3, <2>4, <2>5, <2>6 DEF RowRequest
  <1> QED
    BY <1>4, <1>5 DEF RowInv, CountInv, ScoreInv, VetInv

(* Between commits nothing is disturbed, however requests interleave.      *)
LEMMA ReadsKeep ==
    ASSUME Inv, RowInv, [Next]_vars, ~\E w \in Workers : Commits(w)
    PROVE  /\ RowInv'
           /\ CountInv => CountInv'
           /\ ScoreInv => ScoreInv'
           /\ VetInv => VetInv'
  <1>0. TypeOK
    BY DEF Inv
  <1>1. CASE \E w \in Workers : Receive(w) \/ Proceed(w) \/ Crash(w)
    <2>1. PICK w \in Workers : Receive(w) \/ Proceed(w) \/ Crash(w)
      BY <1>1
    <2>2. \E t : Moves(w, t)
      BY <1>0, <2>1, MoveStart, MoveLoadAlone, MoveLoadSubmit, MoveLoadOwn, MoveLoadClosure,
         MoveFlush, MoveScore, MoveBack
         DEF Receive, Proceed, Crash, Refuse, FlushError, Commits
    <2> QED
      BY <1>0, <2>2, MoveKeeps
  <1>2. CASE \E r \in Reviews : GrowOlder(r)
    BY <1>0, <1>2, AgeKeeps
  <1>3. CASE UNCHANGED vars
    <2>1. /\ RiskyIsFlagged' /\ NoGhosts' /\ (CountsOK => CountsOK')
          /\ (ScoresOK => ScoresOK')
      BY <1>3 DEF vars, RowInv, RiskyIsFlagged, CountsOK, Live, Exists, NoGhosts, ScoresOK,
             ScoredReviews, Published
    <2>2. ASSUME NEW v \in Workers
          PROVE  /\ RowRequest(tx[v])'
                 /\ CountAsStored(tx[v]) => CountAsStored(tx[v])'
                 /\ ScoresAhead(tx[v]) => ScoresAhead(tx[v])'
                 /\ Vetted(tx[v]) => Vetted(tx[v])'
      <3>1. PICK s : s = tx[v]
        OBVIOUS
      <3>2. tx'[v] = s /\ UNCHANGED <<review, user, prop>> /\ RowRequest(s)
        BY <1>3, <3>1 DEF vars, RowInv
      <3> QED
        BY <3>1, <3>2, RestRelies
    <2> QED
      BY <2>1, <2>2 DEF RowInv, CountInv, ScoreInv, VetInv
  <1> QED
    BY <1>1, <1>2, <1>3 DEF Next

LEMMA RowInvariance == Spec /\ []RowsApart => [](Inv /\ RowInv)
  <1>1. RowsApart /\ Inv /\ RowInv /\ [Next]_vars => RowInv'
    BY ReadsKeep, RowCommit
  <1> QED
    BY <1>1, ApartInit, Invariance, PTL DEF Spec

LEMMA CountInvariance ==
    Spec /\ []RowsApart /\ []CallersApart => [](Inv /\ RowInv /\ CountInv)
  <1>1. CallersApart /\ Inv /\ RowInv /\ CountInv /\ [Next]_vars => CountInv'
    BY ReadsKeep, CountCommit
  <1> QED
    BY <1>1, ApartInit, RowInvariance, PTL DEF Spec

LEMMA ScoreInvariance == Spec /\ []HomesApart => [](Inv /\ RowInv /\ ScoreInv)
  <1>1. HomesApart /\ Inv /\ RowInv /\ ScoreInv /\ [Next]_vars => ScoreInv'
    BY ReadsKeep, ScoreCommit
  <1>2. HomesApart => RowsApart
    BY DEF HomesApart, RowsApart
  <1> QED
    BY <1>1, <1>2, ApartInit, RowInvariance, PTL DEF Spec

LEMMA VetInvariance ==
    Spec /\ []CallersApart /\ []HomesApart => [](Inv /\ RowInv /\ VetInv)
  <1>1. CallersApart /\ HomesApart /\ Inv /\ RowInv /\ VetInv /\ [Next]_vars => VetInv'
    BY ReadsKeep, VetCommit
  <1>2. HomesApart => RowsApart
    BY DEF HomesApart, RowsApart
  <1> QED
    BY <1>1, <1>2, ApartInit, RowInvariance, PTL DEF Spec

(* A service that serves one request at a time is a special case of each.  *)
LEMMA AloneIsApart ==
    (\A v, w \in Workers : v = w) => RowsApart /\ HomesApart /\ CallersApart
  BY DEF RowsApart, HomesApart, CallersApart

(* While no two requests in flight hold the same review, a review waits as *)
(* merely "pending" only if check_text passes what it says now: whatever   *)
(* is written first, edited over and over, sent back or closed in between. *)
THEOREM RiskWaitsFlagged == Spec /\ []RowsApart => []RiskyIsFlagged
  <1>1. Inv /\ RowInv => RiskyIsFlagged
    BY DEF RowInv
  <1> QED
    BY <1>1, RowInvariance, PTL

(* If besides no tenant has two requests in flight, users.review_count is  *)
(* the number of reviews the tenant has, through submissions, deletions,   *)
(* errors and closures.                                                    *)
THEOREM CountMatchesReviews ==
    Spec /\ []RowsApart /\ []CallersApart => []CountExact
  <1>1. Inv /\ RowInv /\ CountInv => CountExact
    BY DEF CountInv, CountsOK, Live, CountExact
  <1> QED
    BY <1>1, CountInvariance, PTL

(* total_reviews counts reviews; the pairs that stand for the averages are *)
(* as many.                                                                *)
LEMMA PublishedSize ==
    ASSUME NEW p
    PROVE  Cardinality(Published(p)) = Cardinality(ScoredReviews(p))
  <1> DEFINE S == ScoredReviews(p)
             f == [r \in S |-> <<r, review[r].body>>]
  <1>1. Published(p) = {<<r, review[r].body>> : r \in S}
    BY DEF Published, ScoredReviews
  <1>2. f \in Bijection(S, Published(p))
    <2>1. f \in [S -> Published(p)]
      BY <1>1
    <2>2. \A a, b \in S : f[a] = f[b] => a = b
      OBVIOUS
    <2>3. \A e \in Published(p) : \E r \in S : f[r] = e
      BY <1>1
    <2> QED
      BY <2>1, <2>2, <2>3, Fun_IsBij
  <1>3. IsFiniteSet(S)
    BY FS_Subset, ConstantsOK DEF ScoredReviews, ConstantsOK
  <1>4. ExistsBijection(S, Published(p))
    BY <1>2 DEF ExistsBijection
  <1> QED
    BY <1>3, <1>4, FS_Bijection

(* While requests in flight hold reviews of different properties, and as   *)
(* long as no closure withdraws reviews (it recomputes nothing), a         *)
(* property's cached aggregates are those of its approved reviews as they  *)
(* read now.                                                               *)
THEOREM ScoresMatchReviews ==
    "withdraw" \notin Ops => (Spec /\ []HomesApart => []ScoresExact)
  <1> SUFFICES ASSUME "withdraw" \notin Ops PROVE Spec /\ []HomesApart => []ScoresExact
    OBVIOUS
  <1>1. Inv /\ RowInv /\ ScoreInv => ScoresExact
    BY PublishedSize DEF ScoreInv, ScoresOK, ScoresExact
  <1> QED
    BY <1>1, ScoreInvariance, PTL

(* While no two requests in flight hold the same review, a reply stays     *)
(* attached to the words it answers: once it is there, no edit or deletion *)
(* gets past the check.                                                    *)
THEOREM RepliesKeepWords == Spec /\ []RowsApart => ReplyKeepsItsWords
  <1>1. Inv /\ RowInv /\ [Next]_vars =>
          [\A r \in Reviews :
             review[r].reply # NoReply =>
               /\ review'[r].body = review[r].body
               /\ Exists(r)']_vars
    <2> SUFFICES ASSUME Inv, RowInv, Next, NEW r \in Reviews, review[r].reply # NoReply
                 PROVE  review'[r].body = review[r].body /\ Exists(r)'
      OBVIOUS
    <2>0. Exists(r) /\ review[r] \in Row
      BY DEF RowInv, NoGhosts, Inv, TypeOK
    <2>1. CASE UNCHANGED review
      BY <2>0, <2>1 DEF Exists
    <2>2. ASSUME NEW g \in Reviews, GrowOlder(g)
          PROVE  review'[r].body = review[r].body /\ Exists(r)'
      BY <2>0, <2>2 DEF GrowOlder, Exists, Inv, TypeOK, Row
    <2>3. ASSUME NEW w \in Workers, Commits(w)
          PROVE  review'[r].body = review[r].body /\ Exists(r)'
      <3> DEFINE t == tx[w]
      <3>1. /\ Writing(t) /\ t.pc # "idle"
            /\ review'[r].status = Leaves(t, r).status /\ review'[r].body = Leaves(t, r).body
            /\ r \notin t.own => review'[r] = review[r]
        BY <2>3, CommitRows DEF Writing
      <3>2. CASE r \notin t.own
        BY <2>0, <3>1, <3>2 DEF Exists
      <3>3. CASE r \in t.own
        <4>1. /\ IntentsOK(t) /\ Synced(t) /\ SubmitsFresh(t) /\ WantsLegalStatus(t)
          BY DEF Inv, RequestsConsistent, RowInv, RowRequest
        <4>2. t.mine[r].reply = review[r].reply /\ t.mine[r].body = review[r].body
          BY <3>1, <3>3, <4>1 DEF Synced, SameButAge
        <4>3. t.op \notin {"submit", "edit", "delete"}
          BY <3>1, <3>3, <4>1, <4>2 DEF SubmitsFresh, BlankRow, IntentsOK, Intends, OwnReviewOps
        <4>4. t.want[r].body = review[r].body /\ t.want[r].status \in Statuses
          BY <3>1, <3>3, <4>1, <4>2, <4>3 DEF IntentsOK, Intends, WantsLegalStatus
        <4> QED
          BY <3>1, <3>3, <4>4 DEF Leaves, Exists
      <3> QED
        BY <3>2, <3>3
    <2>4. ASSUME NEW w \in Workers, Receive(w) \/ Proceed(w) \/ Crash(w), ~Commits(w)
          PROVE  UNCHANGED review
      BY <2>4 DEF Receive, Proceed, Crash, Commits, StartSubmit, StartOnOwnReview,
         StartClosure, Authenticate, LoadDecision, LoadReply, LoadSubmit, LoadEdit,
         LoadDelete, Refuse, LoadClosure, Flush, FlushError, Score, Rollback
    <2> QED
      BY <2>1, <2>2, <2>3, <2>4 DEF Next
  <1> QED
    BY <1>1, RowInvariance, PTL DEF Spec, ReplyKeepsItsWords

(* While requests in flight come from different tenants and hold reviews   *)
(* of different properties, a submission that commits unflagged shows      *)
(* nothing the pre-check exists to catch, at the instant it commits.       *)
THEOREM UnflaggedIsVetted ==
    Spec /\ []CallersApart /\ []HomesApart => UnflaggedIsUnsuspicious
  <1>1. VetInv /\ [Next]_vars =>
          [\A w \in Workers : tx[w].op = "submit" /\ CommitScored(w) =>
             \A r \in tx[w].own :
               LET text == tx[w].want[r].body
                   others == {x \in Reviews : Exists(x)}
               IN tx[w].want[r].status = "pending" =>
                    /\ Cardinality({x \in others : /\ Author[x] = Author[r]
                                                   /\ review[x].age = "day"}) < VelocityLimit
                    /\ text \in Short \/
                       \A x \in others : Home[x] = Home[r] /\ review[x].body = text =>
                                         review[x].status = "rejected"]_vars
    <2> SUFFICES ASSUME VetInv, NEW w \in Workers,
                        tx[w].op = "submit", CommitScored(w), NEW r \in tx[w].own,
                        tx[w].want[r].status = "pending"
                 PROVE  /\ Cardinality({x \in {y \in Reviews : Exists(y)} :
                                          /\ Author[x] = Author[r]
                                          /\ review[x].age = "day"}) < VelocityLimit
                        /\ tx[w].want[r].body \in Short \/
                           \A x \in {y \in Reviews : Exists(y)} :
                             Home[x] = Home[r] /\ review[x].body = tx[w].want[r].body =>
                               review[x].status = "rejected"
      OBVIOUS
    <2>1. /\ Cardinality(Recent(Author[r])) < VelocityLimit
          /\ ~IsDuplicateText(Home[r], tx[w].want[r].body)
      BY DEF VetInv, Vetted, Writing, CommitScored
    <2>2. {x \in {y \in Reviews : Exists(y)} : /\ Author[x] = Author[r]
                                               /\ review[x].age = "day"} = Recent(Author[r])
      BY DEF Recent
    <2> QED
      BY <2>1, <2>2 DEF IsDuplicateText
  <1> QED
    BY <1>1, VetInvariance, PTL DEF Spec, UnflaggedIsUnsuspicious

(* It takes two requests on one review (the run reviews_edit_race) to undo *)
(* it: while no two in flight hold the same review, an edit leaves its     *)
(* review in the moderation queue.                                         *)
THEOREM EditsReturnToModeration == Spec /\ []RowsApart => EditReturnsToModeration
  <1>1. Inv /\ RowInv /\ [Next]_vars =>
          [\A w \in Workers :
             tx[w].op = "edit" /\ CommitScored(w) =>
               \A r \in tx[w].own : review'[r].status \in {"pending", "flagged"}]_vars
    <2> SUFFICES ASSUME Inv, RowInv, NEW w \in Workers, tx[w].op = "edit",
                        CommitScored(w), NEW r \in tx[w].own
                 PROVE  review'[r].status \in {"pending", "flagged"}
      OBVIOUS
    <2>1. Writing(tx[w]) /\ r \in Reviews /\ review'[r].status = Leaves(tx[w], r).status
      BY CommitRows DEF Commits, Transaction
    <2> QED
      BY <2>1 DEF RowInv, RowRequest, IntentsOK, Intends, Leaves
  <1> QED
    BY <1>1, RowInvariance, PTL DEF Spec, EditReturnsToModeration

(* A request that has its reviews to itself finds them where it loaded     *)
(* them: the flush of an edit, a decision, a reply or a closure cannot     *)
(* fail, and a 500 at this point is a deletion of a review with a decision *)
(* on record (DeletionNeverErrors says when that comes).                   *)
OnlyDeletionsFail == [][\A w \in Workers : FlushError(w) => tx[w].op = "delete"]_vars

THEOREM FlushesSucceed == Spec /\ []RowsApart => OnlyDeletionsFail
  <1>1. Inv /\ RowInv /\ [Next]_vars =>
          [\A w \in Workers : FlushError(w) => tx[w].op = "delete"]_vars
    <2> SUFFICES ASSUME Inv, RowInv, NEW w \in Workers, FlushError(w), tx[w].op # "delete"
                 PROVE  FALSE
      OBVIOUS
    <2>1. tx[w].pc = "loaded" /\ tx[w].op # "submit"
      BY DEF FlushError, Flushable
    <2>2. PICK r \in Locks(tx[w]) \cup KeyShares(tx[w]) : ~Exists(r)
      BY <2>1 DEF FlushError, Flushable
    <2>3. r \in tx[w].own
      BY <2>2 DEF Locks, KeyShares
    <2>4. review[r].status = tx[w].mine[r].status /\ tx[w].mine[r].status \in Statuses
      BY <2>1, <2>3 DEF RowInv, RowRequest, Synced, SameButAge, IntentsOK, Intends, Writing
    <2> QED
      BY <2>2, <2>4 DEF Exists
  <1> QED
    BY <1>1, RowInvariance, PTL DEF Spec, OnlyDeletionsFail
=============================================================================
