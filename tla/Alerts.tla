-------------------------------- MODULE Alerts --------------------------------
(***************************************************************************)
(* Area watches, browser subscriptions, and the push notification an       *)
(* approval sends (app/api/v1/{alerts,pushapi}.py, app/services/push.py).  *)
(*                                                                         *)
(* A notification runs in the request of the moderator, after the decision *)
(* committed: it selects the subscriptions once, sends to each from a      *)
(* thread, and writes the outcomes in one commit at the end.  Other        *)
(* requests change the same rows between the sends.                        *)
(***************************************************************************)
EXTENDS Naturals, FiniteSets

CONSTANTS
    Workers,      \* requests in flight at once
    Users, Areas, Reviews,
    Endpoints,    \* push service URLs, one per browser
    Rows,         \* ids of push_subscriptions, never reused
    Kinds,        \* what a watch can ask for
    Author, Home, \* who wrote a review, and its property's area
    MaxFailures,  \* MAX_FAILURES
    Ops,          \* what clients do in this instance
    Watchers,     \* the users who watch areas in this instance
    NoUser, NoReview, NoRow, NoEndpoint

ASSUME ConstantsOK ==
    /\ MaxFailures \in Nat \ {0}
    /\ Author \in [Reviews -> Users] /\ Home \in [Reviews -> Areas]
    /\ "review" \in Kinds
    /\ NoUser \notin Users /\ NoReview \notin Reviews /\ NoRow \notin Rows
    /\ NoEndpoint \notin Endpoints

VARIABLES
    active,    \* users.is_active
    watch,     \* area_watches: the kinds asked for, or NoWatch
    sub,       \* push_subscriptions, per id
    req,       \* the request each worker runs
    evidence   \* history: failed sends to a row, or MaxFailures once its
               \*   push service answered 404 or 410

vars == <<active, watch, sub, req, evidence>>

NoWatch == {"none"}
Watch == (SUBSET Kinds) \cup {NoWatch}

Sub == [state: {"unused", "live", "deleted"}, endpoint: Endpoints \cup {NoEndpoint},
        user: Users \cup {NoUser}, fails: Nat]
Unused == [state |-> "unused", endpoint |-> NoEndpoint, user |-> NoUser, fails |-> 0]

Request ==
    [pc:     {"idle", "commit", "select", "sending"},
     op:     {"none", "watch", "subscribe", "unsubscribe", "notify"},
     me:     Users \cup {NoUser},
     endpoint: Endpoints \cup {NoEndpoint},
     row:    Rows \cup {NoRow},         \* the subscription found
     owner:  Users \cup {NoUser},       \* its owner then
     area:   Areas \cup {"none"},
     loaded: Watch \cup {{"stale"}},    \* the watch found
     kinds:  SUBSET Kinds,
     review: Reviews \cup {NoReview},
     todo:   SUBSET Rows,               \* selected and not sent to yet
     was:    [Rows -> Nat],             \* failure_count as loaded
     fails:  [Rows -> Nat],             \* failure_count in the session
     dead:   SUBSET Rows]

Idle == [pc |-> "idle", op |-> "none", me |-> NoUser, endpoint |-> NoEndpoint,
         row |-> NoRow, owner |-> NoUser, area |-> "none", loaded |-> NoWatch,
         kinds |-> {}, review |-> NoReview, todo |-> {}, was |-> [i \in Rows |-> 0],
         fails |-> [i \in Rows |-> 0], dead |-> {}]

Become(w, r) == req' = [req EXCEPT ![w] = r]
Begin(w, op, u) == op \in Ops /\ req[w].pc = "idle" /\ active[u]
At(w, pc, op) == req[w].pc = pc /\ req[w].op = op

Live(i) == sub[i].state = "live"
On(e) == {i \in Rows : Live(i) /\ sub[i].endpoint = e}
Found(S) == IF S = {} THEN {NoRow} ELSE S

-----------------------------------------------------------------------------
(* watch_area: one row per user and area, updated when it is there.        *)
WatchArea(w, u, a, kinds) ==
    /\ Begin(w, "watch", u) /\ u \in Watchers
    /\ Become(w, [Idle EXCEPT !.pc = "commit", !.op = "watch", !.me = u, !.area = a,
                              !.kinds = kinds, !.loaded = watch[u][a]])
    /\ UNCHANGED <<active, watch, sub, evidence>>

(* uq_watch_user_area refuses a second insert; an UPDATE that changes      *)
(* something needs the row it loaded.                                      *)
Storable(r) ==
    IF r.loaded = NoWatch THEN watch[r.me][r.area] = NoWatch
    ELSE r.loaded # {"stale"}

CommitWatch(w) ==
    LET r == req[w] IN
    /\ At(w, "commit", "watch") /\ Storable(r)
    /\ watch' = [watch EXCEPT ![r.me][r.area] =
                   IF r.loaded = NoWatch \/ r.kinds # r.loaded THEN r.kinds ELSE @]
    /\ Become(w, Idle)
    /\ UNCHANGED <<active, sub, evidence>>

WatchError(w) ==
    /\ At(w, "commit", "watch") /\ ~Storable(req[w])
    /\ Become(w, Idle)
    /\ UNCHANGED <<active, watch, sub, evidence>>

(* A deleted watch leaves stale the requests that loaded it.               *)
Orphaned(u, areas) ==
    [v \in Workers |->
       IF At(v, "commit", "watch") /\ req[v].me = u /\ req[v].area \in areas
          /\ req[v].loaded # NoWatch
       THEN [req[v] EXCEPT !.loaded = {"stale"}] ELSE req[v]]

(* unwatch_area is a single DELETE.                                        *)
Unwatch(u, a) ==
    /\ "watch" \in Ops /\ active[u] /\ watch[u][a] # NoWatch
    /\ watch' = [watch EXCEPT ![u][a] = NoWatch]
    /\ req' = Orphaned(u, {a})
    /\ UNCHANGED <<active, sub, evidence>>

(* delete_my_account drops the watches and keeps the subscriptions.        *)
CloseAccount(u) ==
    /\ "close" \in Ops /\ active[u] /\ u \in Watchers
    /\ active' = [active EXCEPT ![u] = FALSE]
    /\ watch' = [watch EXCEPT ![u] = [a \in Areas |-> NoWatch]]
    /\ req' = Orphaned(u, Areas)
    /\ UNCHANGED <<sub, evidence>>

-----------------------------------------------------------------------------
(* subscribe: an endpoint moves to the caller, or is inserted.             *)
Subscribe(w, u, e) ==
    /\ Begin(w, "subscribe", u)
    /\ \E i \in Found(On(e)) :
         Become(w, [Idle EXCEPT
           !.pc = "commit", !.op = "subscribe", !.me = u, !.endpoint = e, !.row = i,
           !.owner = IF i = NoRow THEN NoUser ELSE sub[i].user,
           !.was = [j \in Rows |-> IF j = i THEN sub[j].fails ELSE 0]])
    /\ UNCHANGED <<active, watch, sub, evidence>>

(* The session writes the owner and the count only where they change.      *)
NewOwner(r) == r.owner # r.me
Resets(r) == r.was[r.row] # 0

InsertSub(w, i) ==
    LET r == req[w] IN
    /\ At(w, "commit", "subscribe") /\ r.row = NoRow
    /\ On(r.endpoint) = {} /\ sub[i].state = "unused"
    /\ sub' = [sub EXCEPT ![i] = [state |-> "live", endpoint |-> r.endpoint,
                                  user |-> r.me, fails |-> 0]]
    /\ Become(w, Idle)
    /\ UNCHANGED <<active, watch, evidence>>

UpdateSub(w) ==
    LET r == req[w] IN
    /\ At(w, "commit", "subscribe") /\ r.row # NoRow
    /\ NewOwner(r) \/ Resets(r) => Live(r.row)
    /\ sub' = [sub EXCEPT ![r.row].user = IF NewOwner(r) THEN r.me ELSE @,
                          ![r.row].fails = IF Resets(r) THEN 0 ELSE @]
    /\ Become(w, Idle)
    /\ UNCHANGED <<active, watch, evidence>>

(* The endpoint was inserted, or the row deleted, since the select.        *)
SubscribeError(w) ==
    LET r == req[w] IN
    /\ At(w, "commit", "subscribe")
    /\ IF r.row = NoRow THEN On(r.endpoint) # {}
       ELSE ~Live(r.row) /\ (NewOwner(r) \/ Resets(r))
    /\ Become(w, Idle)
    /\ UNCHANGED <<active, watch, sub, evidence>>

(* unsubscribe: the caller's row is selected, then deleted by its id.      *)
Unsubscribe(w, u, e) ==
    /\ Begin(w, "unsubscribe", u)
    /\ \E i \in On(e) :
         /\ sub[i].user = u
         /\ Become(w, [Idle EXCEPT !.pc = "commit", !.op = "unsubscribe",
                                   !.me = u, !.row = i])
    /\ UNCHANGED <<active, watch, sub, evidence>>

Removed(S) == [i \in Rows |-> IF i \in S /\ Live(i)
                              THEN [sub[i] EXCEPT !.state = "deleted"] ELSE sub[i]]

CommitUnsubscribe(w) ==
    /\ At(w, "commit", "unsubscribe")
    /\ sub' = Removed({req[w].row})
    /\ Become(w, Idle)
    /\ UNCHANGED <<active, watch, evidence>>

-----------------------------------------------------------------------------
(* moderate_review, from the commit of an approval.                        *)
Approve(w, r) ==
    /\ "approve" \in Ops /\ req[w].pc = "idle"
    /\ Become(w, [Idle EXCEPT !.pc = "select", !.op = "notify", !.review = r])
    /\ UNCHANGED <<active, watch, sub, evidence>>

(* notify_area for kind "review", excluding the review's author.           *)
Watching(a) == {u \in Users : "review" \in watch[u][a]}
Audience(r) == {i \in Rows : Live(i) /\ sub[i].user \in Watching(Home[r]) \ {Author[r]}}

SelectAudience(w) ==
    LET S == Audience(req[w].review) IN
    /\ At(w, "select", "notify")
    /\ Become(w, IF S = {} THEN Idle
                 ELSE [req[w] EXCEPT
                   !.pc = "sending", !.todo = S,
                   !.was = [i \in Rows |-> IF i \in S THEN sub[i].fails ELSE 0],
                   !.fails = [i \in Rows |-> IF i \in S THEN sub[i].fails ELSE 0]])
    /\ UNCHANGED <<active, watch, sub, evidence>>

TooManyEarly(n) == n + 1 >= MaxFailures
TooManyLate(n) == n > MaxFailures
TooMany(n) == n >= MaxFailures

SendAnswered(w, i, answer) ==
    LET r == req[w]
        n == CASE answer = "ok" -> 0 [] answer = "gone" -> r.fails[i]
               [] answer = "error" -> r.fails[i] + 1
    IN
    /\ At(w, "sending", "notify") /\ i \in r.todo
    /\ Become(w, [r EXCEPT
         !.todo = @ \ {i}, !.fails[i] = n,
         !.dead = IF answer = "gone" \/ (answer = "error" /\ TooMany(n))
                  THEN @ \cup {i} ELSE @])
    /\ evidence' = [evidence EXCEPT ![i] =
                      CASE answer = "ok" -> @ [] answer = "gone" -> MaxFailures
                        [] answer = "error" -> IF @ < MaxFailures THEN @ + 1 ELSE @]
    /\ UNCHANGED <<active, watch, sub>>

(* Anything but a WebPushException ends the notification: nobody else is   *)
(* told and no count is stored; notify_area_safe returns 0.                *)
SendRaises(w) ==
    /\ At(w, "sending", "notify") /\ req[w].todo # {}
    /\ Become(w, Idle)
    /\ UNCHANGED <<active, watch, sub, evidence>>

(* session.commit: UPDATE of each changed count, DELETE of the dead.       *)
Counted(r) == {i \in Rows : r.fails[i] # r.was[i]} \ r.dead

CommitNotify(w) ==
    LET r == req[w] IN
    /\ At(w, "sending", "notify") /\ r.todo = {}
    /\ \A i \in Counted(r) : Live(i)
    /\ sub' = [i \in Rows |-> IF i \in Counted(r) THEN [sub[i] EXCEPT !.fails = r.fails[i]]
                              ELSE Removed(r.dead)[i]]
    /\ Become(w, Idle)
    /\ UNCHANGED <<active, watch, evidence>>

(* A counted row is gone: StaleDataError.  The rollback expires the        *)
(* session, so moderate_review fails where it next reads the review.       *)
CommitNotifyError(w) ==
    /\ At(w, "sending", "notify") /\ req[w].todo = {}
    /\ \E i \in Counted(req[w]) : ~Live(i)
    /\ Become(w, Idle)
    /\ UNCHANGED <<active, watch, sub, evidence>>

-----------------------------------------------------------------------------
Init ==
    /\ active = [u \in Users |-> TRUE]
    /\ watch = [u \in Users |-> [a \in Areas |-> NoWatch]]
    /\ sub = [i \in Rows |-> Unused]
    /\ req = [w \in Workers |-> Idle]
    /\ evidence = [i \in Rows |-> 0]

Receive(w) ==
    \/ \E u \in Users : \/ \E a \in Areas, kinds \in SUBSET Kinds : WatchArea(w, u, a, kinds)
                        \/ \E e \in Endpoints : Subscribe(w, u, e) \/ Unsubscribe(w, u, e)
    \/ \E r \in Reviews : Approve(w, r)

Proceed(w) ==
    \/ CommitWatch(w) \/ WatchError(w)
    \/ \E i \in Rows : InsertSub(w, i)
    \/ UpdateSub(w) \/ SubscribeError(w) \/ CommitUnsubscribe(w)
    \/ SelectAudience(w)
    \/ \E i \in Rows, answer \in {"ok", "gone", "error"} : SendAnswered(w, i, answer)
    \/ SendRaises(w) \/ CommitNotify(w) \/ CommitNotifyError(w)

Next ==
    \/ \E w \in Workers : Receive(w) \/ Proceed(w)
    \/ \E u \in Users : CloseAccount(u) \/ \E a \in Areas : Unwatch(u, a)

Spec == Init /\ [][Next]_vars
-----------------------------------------------------------------------------
(* Properties.                                                             *)

(* Every row and request keeps its shape.                                  *)
TypeOK ==
    /\ active \in [Users -> BOOLEAN]
    /\ watch \in [Users -> [Areas -> Watch]]
    /\ sub \in [Rows -> Sub]
    /\ req \in [Workers -> Request]
    /\ evidence \in [Rows -> 0..MaxFailures]

(* "Counting lets us drop dead rows instead of retrying them on every      *)
(* alert" (PushSubscription.failure_count): however notifications,         *)
(* subscriptions and removals interleave, no stored row has reached        *)
(* MAX_FAILURES.                                                           *)
NoDeadRowStays == \A i \in Rows : Live(i) => sub[i].fails < MaxFailures

(* "Only dropped after repeated failure rather than on the first blip": a  *)
(* row leaves by an unsubscription, or because its push service said it    *)
(* was gone or failed it MAX_FAILURES times, also when two notifications   *)
(* count its failures from the same stale value.                           *)
DroppedForCause ==
    [][\A i \in Rows :
         Live(i) /\ sub'[i].state # "live" =>
           \/ \E w \in Workers : CommitUnsubscribe(w) /\ req[w].row = i
           \/ evidence[i] = MaxFailures]_vars

(* "A push that fails must never fail the request that triggered it"       *)
(* (push.py): no notification leaves the moderator's request in error.     *)
DecisionAnswered == [][\A w \in Workers : ~CommitNotifyError(w)]_vars
=============================================================================
