------------------------------- MODULE Reviews -------------------------------
(***************************************************************************)
(* The review pipeline: submission, edits, withdrawal, moderation, right   *)
(* of reply, account closure, and the aggregates cached on the property    *)
(* row (app/services/reviews.py, app/api/v1/{reviews,admin,responses,      *)
(* users}.py).                                                             *)
(*                                                                         *)
(* Every request is one database transaction run by one worker, cut at the *)
(* awaits where another request can be served:                             *)
(*                                                                         *)
(*   idle -> authed -> loaded -> flushed -> scored -> idle                 *)
(*                                                                         *)
(* The database is PostgreSQL at READ COMMITTED.  A select sees what is    *)
(* committed at that instant plus the transaction's own writes; an UPDATE  *)
(* or DELETE locks its rows until commit.  The SQLAlchemy session adds two *)
(* rules of its own: an UPDATE names only the columns whose value differs  *)
(* from the one THIS session loaded, and a row already in the session is   *)
(* not refreshed by a later select.                                        *)
(***************************************************************************)
EXTENDS Naturals, FiniteSets

CONSTANTS
    Workers,         \* requests that can be in flight at once
    Users,           \* tenants
    Properties,
    Reviews,         \* review ids, in the order the sequence may hand out
    Author,          \* Author[r], Home[r] and TenancyStart[r] never change
    Home,            \*   once r is submitted (ReviewUpdate has no such field)
    TenancyStart,
    Contents,        \* what an author writes: texts, ratings and rent
    Risky,           \* contents that check_text flags
    Short,           \* contents under 40 characters, never called duplicates
    Rent,            \* Rent[c], 0 when the review names no rent
    ReplyTexts,      \* replies sent: "plain", "risky", or "blank" (whitespace)
    VelocityLimit,   \* VELOCITY_LIMIT_24H
    Ops,             \* what happens in this instance: operations, "time"
    NoContent,       \* the body of a row that does not exist
    NoUser           \* the caller of a request whose user row plays no part

Decisions == {"approve", "reject", "request_edits"}
Closures  == {"anonymise", "withdraw"}
OwnReviewOps == {"edit", "delete"}
AllOps == Decisions \cup Closures \cup OwnReviewOps \cup {"submit", "reply"}

ASSUME ConstantsOK ==
    /\ IsFiniteSet(Reviews)
    /\ Author \in [Reviews -> Users]
    /\ Home \in [Reviews -> Properties]
    /\ TenancyStart \in [Reviews -> Nat]
    /\ Risky \subseteq Contents /\ Short \subseteq Contents
    /\ Rent \in [Contents -> Nat]
    /\ NoContent \notin Contents
    /\ NoUser \notin Users
    /\ ReplyTexts \subseteq {"blank", "plain", "risky"}
    /\ VelocityLimit \in Nat
    /\ Ops \subseteq AllOps \cup {"time"}

VARIABLES
    review,   \* committed review rows
    user,     \* committed user rows (the columns used here)
    prop,     \* committed aggregate columns of each property
    audit,    \* decisions recorded in moderation_actions, per review
    tx        \* the transaction each worker is running

vars == <<review, user, prop, audit, tx>>

-----------------------------------------------------------------------------
(* Rows.                                                                   *)

Statuses == {"pending", "flagged", "approved", "rejected", "needs_edits"}
Ages == {"day", "window", "old"}   \* < 24 h, < EDIT_WINDOW, past it
NoReply == "none"

Row == [status: Statuses \cup {"unused", "deleted"},
        body:   Contents \cup {NoContent},
        reply:  {NoReply, "blank", "plain", "risky"},
        named:  BOOLEAN,           \* shown under the author's display name
        age:    Ages]
Account == [state: {"active", "anonymised", "withdrawn"}, review_count: Nat]
Columns == [total:   Nat,                                 \* total_reviews
            counted: SUBSET (Reviews \X (Contents \cup {NoContent})),
            rent:    Nat]                                 \* latest_rent_kobo

(* counted stands for avg_rating and rating_breakdown: both are functions  *)
(* of which reviews, with which ratings, went into the last recompute.     *)

BlankRow == [status |-> "unused", body |-> NoContent, reply |-> NoReply,
             named |-> FALSE, age |-> "day"]
BlankRows == [r \in Reviews |-> BlankRow]
NoColumns == [total |-> 0, counted |-> {}, rent |-> 0]

Exists(r) == review[r].status \in Statuses

(* The session's UPDATE: a column is written only on a net change.         *)
Col(db, loaded, wanted) == IF wanted # loaded THEN wanted ELSE db

MergeRowWhole(db, loaded, wanted) == wanted
MergeRow(db, loaded, wanted) ==
    [status |-> Col(db.status, loaded.status, wanted.status),
     body   |-> Col(db.body, loaded.body, wanted.body),
     reply  |-> Col(db.reply, loaded.reply, wanted.reply),
     named  |-> Col(db.named, loaded.named, wanted.named),
     age    |-> Col(db.age, loaded.age, wanted.age)]

MergeColumns(db, loaded, wanted) ==
    [total   |-> Col(db.total, loaded.total, wanted.total),
     counted |-> Col(db.counted, loaded.counted, wanted.counted),
     rent    |-> Col(db.rent, loaded.rent, wanted.rent)]

-----------------------------------------------------------------------------
(* Transactions.                                                           *)

Transaction ==
    [pc:     {"idle", "authed", "loaded", "flushed", "scored"},
     op:     AllOps \cup {"none"},
     caller: Users \cup {NoUser},
     count:  Nat,                    \* review_count as this session loaded it
     own:    SUBSET Reviews,         \* rows this request reads to change
     mine:   [Reviews -> Row],       \* those rows as loaded
     want:   [Reviews -> Row],       \* those rows as assigned
     loaded: Columns,                \* the property's aggregates as loaded
     calc:   Columns]                \* and as recomputed

Idle == [pc |-> "idle", op |-> "none", caller |-> NoUser, count |-> 0,
         own |-> {}, mine |-> BlankRows, want |-> BlankRows,
         loaded |-> NoColumns, calc |-> NoColumns]

ScoringOps == Decisions \cup OwnReviewOps \cup {"submit"}

NewCountOnSubmitOnly(t) == IF t.op = "submit" THEN t.count + 1 ELSE t.count
NewCount(t) ==
    IF t.op = "submit" THEN t.count + 1
    ELSE IF t.op = "delete" THEN (IF t.count = 0 THEN 0 ELSE t.count - 1)
    ELSE t.count

(* Rows an UPDATE, INSERT or DELETE of t locks.  An edit always writes     *)
(* edited_at; the others write only where something changed.               *)
Locks(t) == IF t.op = "edit" THEN t.own
            ELSE {r \in t.own : t.want[r] # t.mine[r]}

(* The audit row a decision inserts takes a key-share lock on its review:  *)
(* it keeps the row from being deleted, not from being updated.            *)
NoKeyShares(t) == {}
KeyShares(t) == IF t.op \in Decisions THEN t.own ELSE {}

Deletes(t) == IF t.op = "delete" THEN t.own ELSE {}

Conflict(s, t) ==
    \/ Locks(s) \cap Locks(t) # {}
    \/ Deletes(s) \cap KeyShares(t) # {}
    \/ KeyShares(s) \cap Deletes(t) # {}

LocksUser(t, u) == t.caller = u /\ NewCount(t) # t.count

HoldingSinceLoad(w) == tx[w].pc \in {"loaded", "flushed", "scored"}
Holding(w) == tx[w].pc \in {"flushed", "scored"}

NotBlocked(w) ==
    \A v \in Workers \ {w} :
        Holding(v) => /\ ~Conflict(tx[v], tx[w])
                      /\ ~\E u \in Users : LocksUser(tx[v], u) /\ LocksUser(tx[w], u)

(* What a select of worker w returns for row r.                            *)
Seen(w, r) ==
    IF ~Holding(w) \/ r \notin tx[w].own THEN review[r]
    ELSE IF tx[w].op = "delete" THEN tx[w].want[r]
    ELSE MergeRow(review[r], tx[w].mine[r], tx[w].want[r])

Advance(w, t) == tx' = [tx EXCEPT ![w] = t]
Rollback(w) == Advance(w, Idle) /\ UNCHANGED <<review, user, prop, audit>>

-----------------------------------------------------------------------------
(* Requests of a signed-in tenant.  get_current_user loads the caller's    *)
(* row and answers 401 unless it is active; everything after runs on that  *)
(* copy.                                                                   *)

Authenticate(w, u, op, target) ==
    /\ tx[w].pc = "idle"
    /\ user[u].state = "active"
    /\ Advance(w, [Idle EXCEPT !.pc = "authed", !.op = op, !.caller = u,
                               !.count = user[u].review_count, !.own = target])
    /\ UNCHANGED <<review, user, prop, audit>>

(* The id of the new review comes from a sequence: fresh, whoever asks.    *)
StartSubmit(w) ==
    \E r \in Reviews :
        /\ review[r].status = "unused"
        /\ \A v \in Workers : ~(tx[v].op = "submit" /\ r \in tx[v].own)
        /\ "submit" \in Ops
        /\ Authenticate(w, Author[r], "submit", {r})

StartOnOwnReview(w) ==
    \E u \in Users, r \in Reviews, op \in OwnReviewOps \cap Ops :
        Authenticate(w, u, op, {r})

StartClosure(w) ==
    \E u \in Users, op \in Closures \cap Ops : Authenticate(w, u, op, {})

(* submit_review up to the insert: the velocity count and the duplicate    *)
(* scan are selects, their verdict is carried to the row.                  *)
Recent(u) == {r \in Reviews : /\ Author[r] = u
                              /\ Exists(r)
                              /\ review[r].age = "day"}

IsDuplicateOfPublic(p, c) ==
    \E r \in Reviews : /\ Home[r] = p
                       /\ review[r].status = "approved"
                       /\ review[r].body = c
IsDuplicateText(p, c) ==
    /\ c \notin Short
    /\ \E r \in Reviews : /\ Home[r] = p
                          /\ Exists(r)
                          /\ review[r].status # "rejected"
                          /\ review[r].body = c

LoadSubmit(w) ==
    LET t == tx[w] IN
    /\ t.pc = "authed" /\ t.op = "submit"
    /\ \E r \in t.own, c \in Contents :
         LET flagged == \/ c \in Risky
                        \/ Cardinality(Recent(t.caller)) >= VelocityLimit
                        \/ IsDuplicateText(Home[r], c)
             row == [BlankRow EXCEPT
                       !.status = IF flagged THEN "flagged" ELSE "pending",
                       !.body = c, !.named = TRUE]
         IN Advance(w, [t EXCEPT !.pc = "loaded", !.want[r] = row,
                                 !.loaded = prop[Home[r]]])
    /\ UNCHANGED <<review, user, prop, audit>>

(* _own_editable_review: 404 unless it is the caller's, 409 once the       *)
(* window has closed or a reply is attached.                               *)
EditableBesideBlank(u, r) ==
    /\ Exists(r) /\ Author[r] = u
    /\ review[r].age # "old"
    /\ review[r].reply \in {NoReply, "blank"}
Editable(u, r) ==
    /\ Exists(r) /\ Author[r] = u
    /\ review[r].age # "old"
    /\ review[r].reply = NoReply

EditUnchecked(c) == "pending"
EditVerdict(c) == IF c \in Risky THEN "flagged" ELSE "pending"

LoadEdit(w) ==
    LET t == tx[w] IN
    /\ t.pc = "authed" /\ t.op = "edit"
    /\ \E r \in t.own, c \in Contents :
         /\ Editable(t.caller, r)
         /\ Advance(w, [t EXCEPT
              !.pc = "loaded",
              !.mine[r] = review[r],
              !.want[r] = [review[r] EXCEPT
                 !.body = c, !.status = EditVerdict(c)]])
    /\ UNCHANGED <<review, user, prop, audit>>

LoadDelete(w) ==
    LET t == tx[w] IN
    /\ t.pc = "authed" /\ t.op = "delete"
    /\ \E r \in t.own :
         /\ Editable(t.caller, r)
         /\ Advance(w, [t EXCEPT !.pc = "loaded",
                                 !.mine[r] = review[r],
                                 !.want[r] = [BlankRow EXCEPT !.status = "deleted"]])
    /\ UNCHANGED <<review, user, prop, audit>>

Refuse(w) ==
    /\ tx[w].pc = "authed" /\ tx[w].op \in OwnReviewOps
    /\ \E r \in tx[w].own : ~Editable(tx[w].caller, r)
    /\ Rollback(w)

(* delete_my_account: every review of the caller, withdrawn or detached    *)
(* from the name.                                                          *)
ClosedAsWithdrawn(op, row) ==
    [row EXCEPT !.status = IF op = "withdraw" THEN "withdrawn" ELSE @]
Closed(op, row) == IF op = "withdraw" THEN [row EXCEPT !.status = "rejected"]
                                      ELSE [row EXCEPT !.named = FALSE]

LoadClosure(w) ==
    LET t == tx[w]
        own == {r \in Reviews : Author[r] = t.caller /\ Exists(r)}
    IN
    /\ t.pc = "authed" /\ t.op \in Closures
    /\ Advance(w, [t EXCEPT
         !.pc = "loaded", !.own = own,
         !.mine = [r \in Reviews |-> IF r \in own THEN review[r] ELSE BlankRow],
         !.want = [r \in Reviews |-> IF r \in own THEN Closed(t.op, review[r]) ELSE BlankRow]])
    /\ UNCHANGED <<review, user, prop, audit>>

-----------------------------------------------------------------------------
(* Requests whose caller's own row plays no part.                          *)

OutcomeVerbatim(decision) == decision
Outcome(decision) == CASE decision = "approve" -> "approved"
                       [] decision = "reject" -> "rejected"
                       [] decision = "request_edits" -> "needs_edits"

(* moderate_review has no guard on the status the review has now.          *)
LoadDecision(w) ==
    /\ tx[w].pc = "idle"
    /\ \E r \in Reviews, d \in Decisions \cap Ops :
         /\ Exists(r)
         /\ Advance(w, [Idle EXCEPT
              !.pc = "loaded", !.op = d, !.own = {r},
              !.mine[r] = review[r],
              !.want[r] = [review[r] EXCEPT !.status = Outcome(d)]])
    /\ UNCHANGED <<review, user, prop, audit>>

(* add_owner_response, from a responder the agent check lets through.  The *)
(* verdict of check_text reaches only the answer, never the row.  A reply  *)
(* of blanks strips to the empty string, which is falsy but not None.      *)
LoadReply(w) ==
    /\ tx[w].pc = "idle"
    /\ "reply" \in Ops
    /\ \E r \in Reviews, text \in ReplyTexts :
         /\ review[r].status = "approved"
         /\ review[r].reply \in {NoReply, "blank"}
         /\ Advance(w, [Idle EXCEPT
              !.pc = "loaded", !.op = "reply", !.own = {r},
              !.mine[r] = review[r],
              !.want[r] = [review[r] EXCEPT !.reply = text]])
    /\ UNCHANGED <<review, user, prop, audit>>

-----------------------------------------------------------------------------
(* Writing.                                                                *)

(* The flush succeeds when every row it updates is still there, and when   *)
(* no audit row refers to a review it deletes: moderation_actions.review_id *)
(* is a foreign key without ON DELETE.  Deleting a row already gone is     *)
(* only a warning.                                                         *)
FlushableUnchecked(w) == TRUE
Flushable(w) ==
    LET t == tx[w] IN
    CASE t.op = "submit" -> TRUE
      [] t.op = "delete" -> \A r \in t.own : audit[r] = {}
      [] OTHER -> \A r \in Locks(t) \cup KeyShares(t) : Exists(r)

Flush(w) ==
    /\ tx[w].pc = "loaded"
    /\ NotBlocked(w)
    /\ Flushable(w)
    /\ Advance(w, [tx[w] EXCEPT !.pc = "flushed"])
    /\ UNCHANGED <<review, user, prop, audit>>

(* StaleDataError or IntegrityError: the request ends in a 500.            *)
FlushError(w) ==
    /\ tx[w].pc = "loaded"
    /\ NotBlocked(w)
    /\ ~Flushable(w)
    /\ Rollback(w)

(* recompute_property_scores.  The caller's own review is already in the   *)
(* session, so its ratings are the session's, not the row's.               *)
ApprovedUnflushed(w, p) ==
    {r \in Reviews : Home[r] = p /\ review[r].status = "approved"}
NotRejected(w, p) ==
    {r \in Reviews : Home[r] = p /\ Seen(w, r).status \in Statuses \ {"rejected"}}
Approved(w, p) == {r \in Reviews : Home[r] = p /\ Seen(w, r).status = "approved"}

BodyInSession(w, r) ==
    IF r \in tx[w].own THEN tx[w].want[r].body ELSE review[r].body

LatestRents(w, A) ==
    LET renting == {r \in A : BodyInSession(w, r) \in Contents
                              /\ Rent[BodyInSession(w, r)] > 0}
        latest == {r \in renting :
                     \A s \in renting : TenancyStart[s] <= TenancyStart[r]}
    IN {Rent[BodyInSession(w, r)] : r \in latest}

Score(w) ==
    LET t == tx[w] IN
    /\ t.pc = "flushed" /\ t.op \in ScoringOps
    /\ \E r \in t.own :
         LET A == Approved(w, Home[r])
             loaded == IF t.op = "submit" THEN t.loaded ELSE prop[Home[r]]
             rents == LatestRents(w, A)
         IN \E rent \in (IF rents = {} THEN {loaded.rent} ELSE rents) :
              Advance(w, [t EXCEPT
                !.pc = "scored",
                !.loaded = loaded,
                !.calc = [total   |-> Cardinality(A),
                          counted |-> {<<a, BodyInSession(w, a)>> : a \in A},
                          rent    |-> rent]])
    /\ UNCHANGED <<review, user, prop, audit>>

AuditRowIfNoted(t) == {t.op} \cap {"reject", "request_edits"}
AuditRow(t) == {t.op} \cap Decisions

Landed(w) == [r \in Reviews |-> Seen(w, r)]

CommitScored(w) ==
    LET t == tx[w] IN
    /\ t.pc = "scored"
    /\ review' = Landed(w)
    /\ user' = [u \in Users |->
                  IF LocksUser(t, u) THEN [user[u] EXCEPT !.review_count = NewCount(t)]
                  ELSE user[u]]
    /\ \E r \in t.own :
         /\ prop' = [prop EXCEPT ![Home[r]] = MergeColumns(@, t.loaded, t.calc)]
         /\ audit' = [audit EXCEPT ![r] = @ \cup AuditRow(t)]
    /\ Advance(w, Idle)

CommitReply(w) ==
    /\ tx[w].pc = "flushed" /\ tx[w].op = "reply"
    /\ review' = Landed(w)
    /\ Advance(w, Idle)
    /\ UNCHANGED <<user, prop, audit>>

(* The user row is written in the commit itself, so it waits there for a   *)
(* submission or a deletion that holds it.                                 *)
CommitClosure(w) ==
    LET t == tx[w] IN
    /\ t.pc = "flushed" /\ t.op \in Closures
    /\ \A v \in Workers \ {w} : Holding(v) => ~LocksUser(tx[v], t.caller)
    /\ review' = Landed(w)
    /\ user' = [user EXCEPT ![t.caller].state =
                  IF t.op = "withdraw" THEN "withdrawn" ELSE "anonymised"]
    /\ Advance(w, Idle)
    /\ UNCHANGED <<prop, audit>>

(* The worker dies, its connection drops, or PostgreSQL picks it as a      *)
(* deadlock victim: nothing of the transaction remains.                    *)
Crash(w) == tx[w].pc # "idle" /\ Rollback(w)

(* created_at recedes past 24 hours, then past EDIT_WINDOW.                *)
GrowOlder(r) ==
    /\ "time" \in Ops
    /\ Exists(r) /\ review[r].age # "old"
    /\ review' = [review EXCEPT ![r].age = IF @ = "day" THEN "window" ELSE "old"]
    /\ UNCHANGED <<user, prop, audit, tx>>

-----------------------------------------------------------------------------
Init ==
    /\ review = BlankRows
    /\ user = [u \in Users |-> [state |-> "active", review_count |-> 0]]
    /\ prop = [p \in Properties |-> NoColumns]
    /\ audit = [r \in Reviews |-> {}]
    /\ tx = [w \in Workers |-> Idle]

Receive(w) == \/ StartSubmit(w) \/ StartOnOwnReview(w) \/ StartClosure(w)
              \/ LoadDecision(w) \/ LoadReply(w)

Proceed(w) == \/ LoadSubmit(w) \/ LoadEdit(w) \/ LoadDelete(w) \/ Refuse(w)
              \/ LoadClosure(w) \/ Flush(w) \/ FlushError(w) \/ Score(w)
              \/ CommitScored(w) \/ CommitReply(w) \/ CommitClosure(w)

Next == \/ \E w \in Workers : Receive(w) \/ Proceed(w) \/ Crash(w)
        \/ \E r \in Reviews : GrowOlder(r)

Spec == Init /\ [][Next]_vars
-----------------------------------------------------------------------------
(* Properties.                                                             *)

(* Every variable keeps its shape, in-flight requests included.            *)
TypeOK ==
    /\ review \in [Reviews -> Row]
    /\ user \in [Users -> Account]
    /\ prop \in [Properties -> Columns]
    /\ audit \in [Reviews -> SUBSET Decisions]
    /\ tx \in [Workers -> Transaction]

(* Nothing reaches the public without a recorded decision: whatever edits, *)
(* replies, closures and crashes interleave with moderate_review, an       *)
(* approved row has an "approve" in its audit trail.                       *)
PublicationAudited ==
    \A r \in Reviews : review[r].status = "approved" => "approve" \in audit[r]

(* The decision trail outlives the decision (admin.py): a review someone   *)
(* decided on is never removed from under its audit rows, also when the    *)
(* deletion and the decision are in flight together.                       *)
AuditedRowsSurvive ==
    \A r \in Reviews : audit[r] # {} => Exists(r)

(* Un-moderated content never moves the public score: each review a        *)
(* property's cached aggregates count was approved by a moderator, even    *)
(* when the aggregates themselves are stale.                               *)
ScoreCountsOnlyModerated ==
    \A p \in Properties : \A e \in prop[p].counted : "approve" \in audit[e[1]]

(* What a request in flight may rely on until it commits.  Its rows carry   *)
(* a status its operation can write, and "approved" only by a decision or  *)
(* because it was there.                                                   *)
Writing(t) == t.pc \in {"loaded", "flushed", "scored"}

OneRow(t) ==
    t.pc # "idle" /\ t.op \in ScoringOps => \E r \in Reviews : t.own = {r}

WantsLegalStatus(t) ==
    Writing(t) =>
      \A r \in t.own :
        /\ t.op # "delete" => t.want[r].status \in Statuses
        /\ t.op = "delete" => t.want[r].status = "deleted"
        /\ t.want[r].status = "approved" =>
             t.op = "approve" \/ t.mine[r].status = "approved"
        /\ t.op = "approve" => t.want[r].status = "approved"

(* Its locks keep the row it decides on, and keep decisions away from the  *)
(* row it deletes.                                                         *)
LocksProtect(t) ==
    t.pc \in {"flushed", "scored"} =>
      \A r \in t.own : /\ t.op \in Decisions => Exists(r)
                       /\ t.op = "delete" => audit[r] = {}

(* The aggregates it will write count moderated reviews, its own included. *)
CountsModerated(t) ==
    t.pc = "scored" =>
      /\ t.op \in ScoringOps
      /\ \A e \in t.calc.counted :
           "approve" \in audit[e[1]] \/ (t.op = "approve" /\ e[1] \in t.own)

(* No two requests hold conflicting row locks.                             *)
LocksExclusive ==
    \A v, w \in Workers :
      v # w /\ Holding(v) /\ Holding(w) => ~Conflict(tx[v], tx[w])

(* What makes the three invariants above inductive: a request's reads stay *)
(* good enough, under its row locks, for what it will commit.              *)
RequestsConsistent ==
    /\ LocksExclusive
    /\ \A w \in Workers : /\ OneRow(tx[w])
                          /\ WantsLegalStatus(tx[w])
                          /\ LocksProtect(tx[w])
                          /\ CountsModerated(tx[w])

Quiet == \A w \in Workers : tx[w].pc = "idle"

Published(p) ==
    {<<r, review[r].body>> :
       r \in {x \in Reviews : Home[x] = p /\ review[x].status = "approved"}}

(* Once no request is in flight, a property's aggregates are those of its  *)
(* approved reviews as they read now: "only approved reviews count"        *)
(* (recompute_property_scores).                                            *)
ScoresExact ==
    Quiet => \A p \in Properties :
               /\ prop[p].counted = Published(p)
               /\ prop[p].total = Cardinality(Published(p))

(* users.review_count is the number of reviews the tenant has.             *)
CountExact ==
    Quiet => \A u \in Users :
               user[u].review_count =
                 Cardinality({r \in Reviews : Author[r] = u /\ Exists(r)})

(* A review that waits as merely "pending" holds nothing check_text flags: *)
(* the queue lists legal risk first by its status alone.                   *)
RiskyIsFlagged ==
    \A r \in Reviews : review[r].status = "pending" => review[r].body \notin Risky

(* A reply stays attached to the words it answers (_own_editable_review).  *)
ReplyKeepsItsWords ==
    [][\A r \in Reviews :
         review[r].reply # NoReply =>
           /\ review'[r].body = review[r].body
           /\ Exists(r)']_vars

(* A submission that commits unflagged is not one the pre-check exists to  *)
(* catch: at that instant the property shows no other review with the same *)
(* text and its author is under the velocity limit (submit_review).        *)
UnflaggedIsUnsuspicious ==
    [][\A w \in Workers : tx[w].op = "submit" /\ CommitScored(w) =>
         \A r \in tx[w].own :
           LET text == tx[w].want[r].body
               others == {x \in Reviews : Exists(x)}
           IN tx[w].want[r].status = "pending" =>
                /\ Cardinality({x \in others : /\ Author[x] = Author[r]
                                               /\ review[x].age = "day"}) < VelocityLimit
                /\ text \in Short \/
                   \A x \in others : Home[x] = Home[r] /\ review[x].body = text =>
                                     review[x].status = "rejected"]_vars

(* "An edit returns the review to moderation": when an edit commits, its   *)
(* review waits in the queue (edit_my_review).                             *)
EditReturnsToModeration ==
    [][\A w \in Workers :
         tx[w].op = "edit" /\ CommitScored(w) =>
           \A r \in tx[w].own : review'[r].status \in {"pending", "flagged"}]_vars

(* Withdrawing is possible inside the window: a deletion that passed the   *)
(* checks of _own_editable_review does not end in a database error.        *)
DeletionNeverErrors ==
    [][\A w \in Workers : ~(tx[w].op = "delete" /\ FlushError(w))]_vars

(* Every request ends: no schedule of row locks leaves one waiting for     *)
(* ever, given that PostgreSQL serves lock waiters in turn.                *)
RequestsEnd == \A w \in Workers : tx[w].pc # "idle" ~> tx[w].pc = "idle"

FairSpec == Spec /\ \A w \in Workers : SF_vars(Proceed(w))

(* The pipeline implements Publication: every commit, whatever it ran      *)
(* beside, is one of its steps or leaves the public view alone.  A review  *)
(* that was taken off the page comes back only by a new approval, not by a *)
(* request that still holds the approved row it loaded.                    *)
BeingApproved == {r \in Reviews : \E w \in Workers : tx[w].op = "approve" /\ r \in tx[w].own}

PublicView ==
    INSTANCE Publication WITH
        deciding <- BeingApproved,
        shown    <- {r \in Reviews : review[r].status = "approved"},
        approved <- {r \in Reviews : "approve" \in audit[r]},
        counted  <- {r \in Reviews : \E p \in Properties : \E e \in prop[p].counted : e[1] = r}

ImplementsPublication == PublicView!Spec
=============================================================================
