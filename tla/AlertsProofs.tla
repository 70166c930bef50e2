----------------------------- MODULE AlertsProofs -----------------------------
(***************************************************************************)
(* Theorems about Alerts, for any number of workers, users, areas, reviews *)
(* and subscriptions.                                                      *)
(***************************************************************************)
EXTENDS Alerts, TLAPS

USE DEF At, Become, Begin

(* What a notification in flight holds: for every row it will keep a count *)
(* below the limit and no higher than its failures, and for every row it   *)
(* will drop a cause.                                                      *)
Honest(r) ==
    /\ r.pc = "select" => r.op = "notify" /\ r.todo = {} /\ r.dead = {}
    /\ r.todo \cap r.dead = {}
    /\ r.op = "notify" =>
         \A i \in Rows : /\ r.fails[i] <= evidence[i]
                         /\ i \in r.dead => evidence[i] = MaxFailures
                         /\ i \notin r.dead => r.fails[i] < MaxFailures

(* A stored count is evidence too, whichever notification wrote it last.   *)
CountsEarned == \A i \in Rows : sub[i].fails <= evidence[i]

Inv == /\ TypeOK /\ NoDeadRowStays /\ CountsEarned
       /\ \A w \in Workers : Honest(req[w])

-----------------------------------------------------------------------------
LEMMA NoneIsWatch == NoWatch \in Watch
BY DEF Watch

LEMMA IdleOK == Idle \in Request /\ Honest(Idle)
BY ConstantsOK, NoneIsWatch DEF Idle, Request, Honest

LEMMA InvInit == Init => Inv
<1> SUFFICES ASSUME Init PROVE Inv
    OBVIOUS
<1>1. /\ active \in [Users -> BOOLEAN]
      /\ watch \in [Users -> [Areas -> Watch]]
      /\ evidence \in [Rows -> 0..MaxFailures]
  BY ConstantsOK, NoneIsWatch DEF Init
<1>2. Unused \in Sub /\ Unused.state # "live" /\ Unused.fails = 0
  BY DEF Unused, Sub
<1>3. sub \in [Rows -> Sub] /\ NoDeadRowStays /\ CountsEarned
  BY <1>2 DEF Init, NoDeadRowStays, CountsEarned, Live
<1>4. req \in [Workers -> Request] /\ \A w \in Workers : Honest(req[w])
  BY IdleOK DEF Init
<1> QED BY <1>1, <1>3, <1>4 DEF Inv, TypeOK

(* A step of one request that leaves the subscriptions alone.              *)
LEMMA Moves ==
  ASSUME Inv, NEW w \in Workers, NEW r \in Request, Honest(r),
         req' = [req EXCEPT ![w] = r], UNCHANGED <<sub, evidence>>,
         active' \in [Users -> BOOLEAN], watch' \in [Users -> [Areas -> Watch]]
  PROVE  Inv'
<1>1. TypeOK'
  BY DEF Inv, TypeOK
<1>2. NoDeadRowStays' /\ CountsEarned'
  BY DEF Inv, NoDeadRowStays, CountsEarned, Live
<1>3. ASSUME NEW v \in Workers PROVE Honest(req[v])'
  <2>1. Honest(req'[v])
    BY DEF Inv, TypeOK
  <2> QED BY <2>1 DEF Honest
<1> QED BY <1>1, <1>2, <1>3 DEF Inv

(* A step that ends a request, having written subscriptions whose counts   *)
(* are earned and below the limit.                                         *)
LEMMA Writes ==
  ASSUME Inv, NEW w \in Workers, req' = [req EXCEPT ![w] = Idle],
         UNCHANGED <<active, watch, evidence>>,
         sub' \in [Rows -> Sub],
         \A i \in Rows : /\ sub'[i].fails <= evidence[i]
                         /\ sub'[i].state = "live" => sub'[i].fails < MaxFailures
  PROVE  Inv'
<1>1. TypeOK'
  BY IdleOK DEF Inv, TypeOK
<1>2. NoDeadRowStays' /\ CountsEarned'
  BY DEF NoDeadRowStays, CountsEarned, Live
<1>3. ASSUME NEW v \in Workers PROVE Honest(req[v])'
  <2>1. Honest(req'[v])
    BY IdleOK DEF Inv, TypeOK
  <2> QED BY <2>1 DEF Honest
<1> QED BY <1>1, <1>2, <1>3 DEF Inv

-----------------------------------------------------------------------------
(* Watches and accounts.                                                   *)
LEMMA InvWatches ==
  ASSUME Inv, NEW w \in Workers, NEW u \in Users, NEW a \in Areas,
         NEW kinds \in SUBSET Kinds, WatchArea(w, u, a, kinds)
  PROVE  Inv'
<1> USE DEF Inv, TypeOK
<1> DEFINE r == [Idle EXCEPT !.pc = "commit", !.op = "watch", !.me = u, !.area = a,
                             !.kinds = kinds, !.loaded = watch[u][a]]
<1>1. watch[u][a] \in Watch
  OBVIOUS
<1>2. r \in Request /\ Honest(r)
  BY <1>1 DEF Idle, Request, Honest
<1>3. req' = [req EXCEPT ![w] = r] /\ UNCHANGED <<active, watch, sub, evidence>>
  BY DEF WatchArea
<1> HIDE DEF r
<1> QED BY <1>2, <1>3, Moves

LEMMA InvWatchesStored ==
  ASSUME Inv, NEW w \in Workers, CommitWatch(w) \/ WatchError(w)
  PROVE  Inv'
<1> USE DEF Inv, TypeOK
<1>1. CASE CommitWatch(w)
  <2>1. req[w].kinds \in Watch
    BY DEF Request, Watch
  <2>2. watch' \in [Users -> [Areas -> Watch]]
    BY <1>1, <2>1 DEF CommitWatch
  <2>3. req' = [req EXCEPT ![w] = Idle] /\ UNCHANGED <<active, sub, evidence>>
    BY <1>1 DEF CommitWatch
  <2> QED BY <2>2, <2>3, IdleOK, Moves
<1>2. CASE WatchError(w)
  BY <1>2, IdleOK, Moves DEF WatchError
<1> QED BY <1>1, <1>2

LEMMA Reloaded ==
  ASSUME NEW r \in Request, NEW x \in Watch \cup {{"stale"}}
  PROVE  [r EXCEPT !.loaded = x] \in Request
BY DEF Request

(* A request whose watch is deleted under it only learns that it is stale. *)
LEMMA InvOrphans ==
  ASSUME Inv, NEW u \in Users, NEW areas \in SUBSET Areas, req' = Orphaned(u, areas),
         active' \in [Users -> BOOLEAN], watch' \in [Users -> [Areas -> Watch]],
         UNCHANGED <<sub, evidence>>
  PROVE  Inv'
<1> USE DEF Inv, TypeOK
<1>1. ASSUME NEW v \in Workers
      PROVE  /\ req'[v] \in Request
             /\ Honest(req'[v])
  <2>1. CASE req'[v] = req[v]
    BY <2>1
  <2>2. CASE req'[v] = [req[v] EXCEPT !.loaded = {"stale"}]
    <3>1. req'[v] \in Request
      <4>1. {"stale"} \in Watch \cup {{"stale"}}
        OBVIOUS
      <4>2. req[v] \in Request
        OBVIOUS
      <4>3. [req[v] EXCEPT !.loaded = {"stale"}] \in Request
        BY <4>1, <4>2, Reloaded, Zenon
      <4> QED BY <2>2, <4>3
    <3>2. /\ req'[v].pc = req[v].pc /\ req'[v].op = req[v].op
          /\ req'[v].todo = req[v].todo /\ req'[v].dead = req[v].dead
          /\ req'[v].fails = req[v].fails
      BY <2>2 DEF Request
    <3> QED BY <3>1, <3>2 DEF Honest
  <2> QED BY <2>1, <2>2 DEF Orphaned
<1>2. req' \in [Workers -> Request]
  BY <1>1 DEF Orphaned
<1>3. NoDeadRowStays' /\ CountsEarned'
  BY DEF NoDeadRowStays, CountsEarned, Live
<1>4. \A v \in Workers : Honest(req[v])'
  BY <1>1 DEF Honest
<1> QED BY <1>2, <1>3, <1>4

LEMMA InvLeaves ==
  ASSUME Inv, NEW u \in Users,
         CloseAccount(u) \/ \E a \in Areas : Unwatch(u, a)
  PROVE  Inv'
<1> USE DEF Inv, TypeOK
<1>1. CASE CloseAccount(u)
  <2>1. active' \in [Users -> BOOLEAN] /\ watch' \in [Users -> [Areas -> Watch]]
    BY <1>1, NoneIsWatch DEF CloseAccount
  <2> QED BY <1>1, <2>1, InvOrphans DEF CloseAccount
<1>2. ASSUME NEW a \in Areas, Unwatch(u, a) PROVE Inv'
  <2>1. watch' \in [Users -> [Areas -> Watch]]
    BY <1>2, NoneIsWatch DEF Unwatch
  <2>2. {a} \in SUBSET Areas
    OBVIOUS
  <2> QED BY <1>2, <2>1, <2>2, InvOrphans DEF Unwatch
<1> QED BY <1>1, <1>2

-----------------------------------------------------------------------------
(* Subscriptions.                                                          *)
LEMMA InvAsks ==
  ASSUME Inv, NEW w \in Workers, NEW u \in Users, NEW e \in Endpoints,
         Subscribe(w, u, e) \/ Unsubscribe(w, u, e)
  PROVE  Inv'
<1> USE DEF Inv, TypeOK
<1>1. CASE Subscribe(w, u, e)
  <2>1. PICK i \in Found(On(e)) :
          Become(w, [Idle EXCEPT
            !.pc = "commit", !.op = "subscribe", !.me = u, !.endpoint = e, !.row = i,
            !.owner = IF i = NoRow THEN NoUser ELSE sub[i].user,
            !.was = [j \in Rows |-> IF j = i THEN sub[j].fails ELSE 0]])
    BY <1>1 DEF Subscribe
  <2> DEFINE r == [Idle EXCEPT
                     !.pc = "commit", !.op = "subscribe", !.me = u, !.endpoint = e, !.row = i,
                     !.owner = IF i = NoRow THEN NoUser ELSE sub[i].user,
                     !.was = [j \in Rows |-> IF j = i THEN sub[j].fails ELSE 0]]
  <2>2. i \in Rows \cup {NoRow}
    BY <2>1 DEF Found, On
  <2>3. /\ (IF i = NoRow THEN NoUser ELSE sub[i].user) \in Users \cup {NoUser}
        /\ [j \in Rows |-> IF j = i THEN sub[j].fails ELSE 0] \in [Rows -> Nat]
    BY <2>2 DEF Sub
  <2>4. r \in Request /\ Honest(r)
    BY <2>2, <2>3, NoneIsWatch DEF Idle, Request, Honest
  <2>5. req' = [req EXCEPT ![w] = r] /\ UNCHANGED <<active, watch, sub, evidence>>
    BY <1>1, <2>1 DEF Subscribe
  <2> HIDE DEF r
  <2> QED BY <2>4, <2>5, Moves
<1>2. CASE Unsubscribe(w, u, e)
  <2>1. PICK i \in On(e) :
          Become(w, [Idle EXCEPT !.pc = "commit", !.op = "unsubscribe", !.me = u, !.row = i])
    BY <1>2 DEF Unsubscribe
  <2> DEFINE r == [Idle EXCEPT !.pc = "commit", !.op = "unsubscribe", !.me = u, !.row = i]
  <2>2. r \in Request /\ Honest(r)
    BY NoneIsWatch DEF Idle, Request, Honest, On
  <2>3. req' = [req EXCEPT ![w] = r] /\ UNCHANGED <<active, watch, sub, evidence>>
    BY <1>2, <2>1 DEF Unsubscribe
  <2> HIDE DEF r
  <2> QED BY <2>2, <2>3, Moves
<1> QED BY <1>1, <1>2

LEMMA InvSubscribes ==
  ASSUME Inv, NEW w \in Workers,
         \/ (\E i \in Rows : InsertSub(w, i)) \/ UpdateSub(w) \/ SubscribeError(w) \/ CommitUnsubscribe(w)
  PROVE  Inv'
<1> USE DEF Inv, TypeOK
<1>0. \A j \in Rows : /\ sub[j] \in Sub /\ sub[j].fails \in Nat
                      /\ sub[j].fails <= evidence[j] /\ evidence[j] \in Nat
                      /\ sub[j].state = "live" => sub[j].fails < MaxFailures
  BY DEF Sub, NoDeadRowStays, CountsEarned, Live
<1>1. ASSUME NEW i \in Rows, InsertSub(w, i) PROVE Inv'
  <2>1. sub' = [sub EXCEPT ![i] = [state |-> "live", endpoint |-> req[w].endpoint,
                                   user |-> req[w].me, fails |-> 0]]
    BY <1>1 DEF InsertSub
  <2>2. [state |-> "live", endpoint |-> req[w].endpoint, user |-> req[w].me, fails |-> 0] \in Sub
    BY DEF Sub, Request
  <2>3. sub' \in [Rows -> Sub]
    BY <2>1, <2>2
  <2>4. \A j \in Rows : /\ sub'[j].fails <= evidence[j]
                        /\ sub'[j].state = "live" => sub'[j].fails < MaxFailures
    BY <1>0, <2>1, ConstantsOK
  <2> QED BY <1>1, <2>3, <2>4, Writes DEF InsertSub
<1>2. CASE UpdateSub(w)
  <2> DEFINE j == req[w].row
  <2>1. req[w].row \in Rows
    BY <1>2 DEF UpdateSub, Request
  <2> DEFINE me == IF NewOwner(req[w]) THEN req[w].me ELSE sub[j].user
             fails == IF Resets(req[w]) THEN 0 ELSE sub[j].fails
  <2>2. /\ me \in Users \cup {NoUser}
        /\ fails \in Nat /\ fails \in {0, sub[j].fails}
    BY <2>1 DEF Sub, Request
  <2>3. sub' = [sub EXCEPT ![j] = [@ EXCEPT !.user = me, !.fails = fails]]
    BY <1>2, <2>1 DEF UpdateSub, Sub
  <2>4. [sub[j] EXCEPT !.user = me, !.fails = fails] \in Sub
    <3>1. sub[j] \in Sub
      BY <2>1
    <3> HIDE DEF me, fails, j
    <3> QED BY <2>2, <3>1 DEF Sub
  <2>5. /\ sub' \in [Rows -> Sub]
        /\ \A k \in Rows : /\ sub'[k].state = sub[k].state
                           /\ sub'[k].fails \in {0, sub[k].fails}
    <3> HIDE DEF me, fails
    <3> QED BY <1>0, <2>1, <2>2, <2>3, <2>4 DEF Sub
  <2>6. \A k \in Rows : /\ sub'[k].fails <= evidence[k]
                        /\ sub'[k].state = "live" => sub'[k].fails < MaxFailures
    BY <1>0, <2>5, ConstantsOK
  <2> QED BY <1>2, <2>5, <2>6, Writes DEF UpdateSub
<1>3. CASE SubscribeError(w)
  BY <1>3, IdleOK, Moves DEF SubscribeError
<1>4. CASE CommitUnsubscribe(w)
  <2>1. /\ sub' \in [Rows -> Sub]
        /\ \A k \in Rows : /\ sub'[k].fails = sub[k].fails
                           /\ sub'[k].state = "live" => sub[k].state = "live"
    <3>1. sub' = Removed({req[w].row})
      BY <1>4 DEF CommitUnsubscribe
    <3>2. \A k \in Rows : /\ sub[k] \in Sub
                          /\ sub'[k] \in {sub[k], [sub[k] EXCEPT !.state = "deleted"]}
      BY <3>1 DEF Removed
    <3> QED BY <3>1, <3>2 DEF Removed, Sub
  <2>2. \A k \in Rows : /\ sub'[k].fails <= evidence[k]
                        /\ sub'[k].state = "live" => sub'[k].fails < MaxFailures
    BY <1>0, <2>1
  <2> QED BY <1>4, <2>1, <2>2, Writes DEF CommitUnsubscribe
<1> QED BY <1>1, <1>2, <1>3, <1>4

-----------------------------------------------------------------------------
(* Notifications.                                                          *)
LEMMA InvSelects ==
  ASSUME Inv, NEW w \in Workers,
         (\E v \in Reviews : Approve(w, v)) \/ SelectAudience(w)
  PROVE  Inv'
<1> USE DEF Inv, TypeOK
<1>1. ASSUME NEW v \in Reviews, Approve(w, v) PROVE Inv'
  <2> DEFINE r == [Idle EXCEPT !.pc = "select", !.op = "notify", !.review = v]
  <2>0. /\ Idle \in Request /\ Idle.todo = {} /\ Idle.dead = {}
        /\ \A i \in Rows : Idle.fails[i] = 0
    BY IdleOK DEF Idle
  <2>1. /\ r \in Request /\ r.pc = "select" /\ r.op = "notify"
        /\ r.todo = {} /\ r.dead = {} /\ r.fails = Idle.fails
    BY <2>0 DEF Request
  <2>2. Honest(r)
    <3> HIDE DEF r
    <3> QED BY <2>0, <2>1, ConstantsOK DEF Honest
  <2>3. req' = [req EXCEPT ![w] = r] /\ UNCHANGED <<active, watch, sub, evidence>>
    BY <1>1 DEF Approve
  <2> HIDE DEF r
  <2> QED BY <2>1, <2>2, <2>3, Moves
<1>2. CASE SelectAudience(w)
  <2> DEFINE S == Audience(req[w].review)
             counts == [i \in Rows |-> IF i \in S THEN sub[i].fails ELSE 0]
             r == [req[w] EXCEPT !.pc = "sending", !.todo = S, !.was = counts, !.fails = counts]
  <2>1. S \in SUBSET Rows /\ \A i \in S : sub[i].fails < MaxFailures
    BY DEF Audience, NoDeadRowStays
  <2>2. counts \in [Rows -> Nat]
    BY DEF Sub
  <2>3. \A i \in Rows : counts[i] <= evidence[i] /\ counts[i] < MaxFailures
    BY <2>1, ConstantsOK DEF CountsEarned
  <2>4. req[w] \in Request /\ req[w].dead = {} /\ req[w].op = "notify"
    BY <1>2 DEF SelectAudience, Honest
  <2>5. /\ r \in Request
        /\ r.pc = "sending" /\ r.op = "notify" /\ r.todo = S /\ r.dead = {} /\ r.fails = counts
    <3> HIDE DEF S, counts
    <3> QED BY <2>1, <2>2, <2>4 DEF Request
  <2>6. Honest(r)
    <3> HIDE DEF S, counts, r
    <3> QED BY <2>3, <2>5 DEF Honest
  <2>7. /\ req' = [req EXCEPT ![w] = r] \/ req' = [req EXCEPT ![w] = Idle]
        /\ UNCHANGED <<active, watch, sub, evidence>>
    BY <1>2 DEF SelectAudience
  <2> HIDE DEF r
  <2> QED BY <2>5, <2>6, <2>7, IdleOK, Moves
<1> QED BY <1>1, <1>2

LEMMA InvSends ==
  ASSUME Inv, NEW w \in Workers, NEW i \in Rows, NEW answer \in {"ok", "gone", "error"},
         SendAnswered(w, i, answer)
  PROVE  Inv'
<1> USE DEF Inv, TypeOK
<1> DEFINE r == req[w]
           n == CASE answer = "ok" -> 0 [] answer = "gone" -> r.fails[i]
                  [] answer = "error" -> r.fails[i] + 1
           dead == IF answer = "gone" \/ (answer = "error" /\ TooMany(n))
                   THEN r.dead \cup {i} ELSE r.dead
           s == [r EXCEPT !.todo = @ \ {i}, !.fails[i] = n,
                          !.dead = IF answer = "gone" \/ (answer = "error" /\ TooMany(n))
                                   THEN @ \cup {i} ELSE @]
<1>1. /\ r \in Request /\ r.op = "notify" /\ i \in r.todo /\ i \notin r.dead
      /\ r.pc = "sending"
      /\ r.fails \in [Rows -> Nat] /\ r.dead \in SUBSET Rows /\ r.todo \in SUBSET Rows
  BY DEF SendAnswered, Honest, Request
<1>2. /\ r.fails[i] \in Nat /\ r.fails[i] <= evidence[i] /\ r.fails[i] < MaxFailures
      /\ n \in Nat
  BY <1>1 DEF Honest
<1>3. /\ evidence' \in [Rows -> 0..MaxFailures]
      /\ \A j \in Rows : evidence[j] <= evidence'[j]
  BY ConstantsOK DEF SendAnswered
<1>4. /\ n <= evidence'[i]
      /\ i \in dead => evidence'[i] = MaxFailures
      /\ i \notin dead => n < MaxFailures
  <2>1. evidence'[i] = CASE answer = "ok" -> evidence[i] [] answer = "gone" -> MaxFailures
                         [] answer = "error" -> IF evidence[i] < MaxFailures THEN evidence[i] + 1
                                                ELSE evidence[i]
    BY DEF SendAnswered
  <2>2. evidence[i] \in 0..MaxFailures /\ MaxFailures \in Nat \ {0}
    BY ConstantsOK
  <2>3. CASE answer = "ok"
    BY <1>1, <2>1, <2>2, <2>3
  <2>4. CASE answer = "gone"
    BY <1>1, <1>2, <2>1, <2>2, <2>4
  <2>5. CASE answer = "error"
    <3>1. n = r.fails[i] + 1
      BY <2>5
    <3>2. evidence'[i] = IF evidence[i] < MaxFailures THEN evidence[i] + 1 ELSE evidence[i]
      BY <2>1, <2>5
    <3>3. i \in dead <=> n >= MaxFailures
      BY <1>1, <2>5 DEF TooMany
    <3> DEFINE a == r.fails[i]
               b == evidence[i]
               c == evidence'[i]
    <3>4. /\ a \in Nat /\ a <= b /\ a < MaxFailures /\ b \in 0..MaxFailures /\ n = a + 1
          /\ c = IF b < MaxFailures THEN b + 1 ELSE b
      BY <1>2, <2>2, <3>1, <3>2
    <3>5. n <= c /\ (n >= MaxFailures => c = MaxFailures) /\ (~(n >= MaxFailures) => n < MaxFailures)
      <4> HIDE DEF n, a, b, c
      <4> QED BY <2>2, <3>4
    <3> HIDE DEF n, dead
    <3> QED BY <3>3, <3>5
  <2> QED BY <2>3, <2>4, <2>5
<1>5. /\ s \in Request /\ s.pc = "sending" /\ s.op = "notify"
      /\ s.todo = r.todo \ {i} /\ s.dead = dead
      /\ s.fails = [r.fails EXCEPT ![i] = n]
  <2>1. [r.fails EXCEPT ![i] = n] \in [Rows -> Nat] /\ dead \in SUBSET Rows
    BY <1>1, <1>2
  <2> HIDE DEF n
  <2> QED BY <1>1, <2>1 DEF Request
<1>6. req' = [req EXCEPT ![w] = s] /\ UNCHANGED <<active, watch, sub>>
  BY DEF SendAnswered
<1>7. TypeOK'
  <2> HIDE DEF s
  <2> QED BY <1>3, <1>5, <1>6
<1>8. NoDeadRowStays' /\ CountsEarned'
  <2>1. NoDeadRowStays'
    BY <1>6 DEF NoDeadRowStays, Live
  <2>2. \A j \in Rows : sub[j].fails \in Nat /\ evidence[j] \in Nat /\ evidence'[j] \in Nat
    BY <1>3, ConstantsOK DEF Sub
  <2>3. CountsEarned'
    BY <1>3, <1>6, <2>2 DEF CountsEarned
  <2> QED BY <2>1, <2>3
<1>9. ASSUME NEW v \in Workers PROVE Honest(req[v])'
  <2>0. \A j \in Rows : evidence[j] \in 0..MaxFailures /\ evidence'[j] \in 0..MaxFailures
    BY <1>3
  <2>1. CASE v = w
    <3>1. req'[v] = s
      BY <1>6, <2>1
    <3>2. \A j \in Rows : s.fails[j] = IF j = i THEN n ELSE r.fails[j]
      BY <1>1, <1>5
    <3>3. \A j \in Rows : j # i => (j \in dead <=> j \in r.dead)
      OBVIOUS
    <3>4. ASSUME NEW j \in Rows
          PROVE  /\ s.fails[j] <= evidence'[j]
                 /\ j \in s.dead => evidence'[j] = MaxFailures
                 /\ j \notin s.dead => s.fails[j] < MaxFailures
      <4>1. CASE j = i
        <5> HIDE DEF s, n, dead
        <5> QED BY <1>4, <1>5, <3>2, <4>1
      <4>2. CASE j # i
        <5>1. /\ r.fails[j] <= evidence[j] /\ r.fails[j] \in Nat
              /\ j \in r.dead => evidence[j] = MaxFailures
              /\ j \notin r.dead => r.fails[j] < MaxFailures
          BY <1>1 DEF Honest
        <5>2. evidence[j] <= evidence'[j]
          BY <1>3
        <5>3. /\ s.fails[j] = r.fails[j] /\ (j \in s.dead <=> j \in r.dead)
          BY <1>5, <3>2, <3>3, <4>2
        <5> HIDE DEF s, r
        <5> QED BY <2>0, <5>1, <5>2, <5>3, ConstantsOK
      <4> QED BY <4>1, <4>2
    <3>5. s.todo \cap s.dead = {}
      <4>1. r.todo \cap r.dead = {}
        BY DEF Honest
      <4> QED BY <1>5, <4>1
    <3> HIDE DEF s
    <3> QED BY <1>5, <3>1, <3>4, <3>5 DEF Honest
  <2>2. CASE v # w
    <3>1. req'[v] = req[v]
      BY <1>6, <2>2
    <3>2. req[v] \in Request /\ Honest(req[v])
      OBVIOUS
    <3>3. \A j \in Rows : req[v].fails[j] \in Nat
      BY <3>2 DEF Request
    <3> HIDE DEF Inv, TypeOK
    <3> QED BY <1>3, <2>0, <3>1, <3>2, <3>3, ConstantsOK DEF Honest
  <2> QED BY <2>1, <2>2
<1> HIDE DEF TypeOK
<1> QED BY <1>7, <1>8, <1>9

LEMMA Committed ==
  ASSUME Inv, NEW w \in Workers, CommitNotify(w), NEW i \in Rows
  PROVE  /\ sub'[i] \in Sub
         /\ sub'[i].fails <= evidence[i]
         /\ sub'[i].state = "live" => Live(i) /\ sub'[i].fails < MaxFailures
         /\ Live(i) /\ sub'[i].state # "live" => evidence[i] = MaxFailures
<1> DEFINE r == req[w]
<1>1. r \in Request /\ Honest(r) /\ r.op = "notify" /\ r.fails[i] \in Nat
      /\ sub[i] \in Sub
  BY DEF Inv, TypeOK, CommitNotify, Request
<1>2. CASE i \in Counted(r)
  <2>1. sub'[i] = [sub[i] EXCEPT !.fails = r.fails[i]] /\ Live(i) /\ i \notin r.dead
    BY <1>2 DEF CommitNotify, Counted
  <2> QED BY <1>1, <2>1 DEF Honest, Sub, Live
<1>3. CASE i \notin Counted(r)
  <2>1. sub'[i] = IF i \in r.dead /\ Live(i) THEN [sub[i] EXCEPT !.state = "deleted"]
                  ELSE sub[i]
    BY <1>3 DEF CommitNotify, Removed
  <2>2. sub[i].fails <= evidence[i] /\ (Live(i) => sub[i].fails < MaxFailures)
    BY DEF Inv, NoDeadRowStays, CountsEarned
  <2> QED BY <1>1, <2>1, <2>2 DEF Honest, Sub, Live
<1> QED BY <1>2, <1>3

LEMMA InvNotified ==
  ASSUME Inv, NEW w \in Workers,
         SendRaises(w) \/ CommitNotify(w) \/ CommitNotifyError(w)
  PROVE  Inv'
<1>1. CASE SendRaises(w) \/ CommitNotifyError(w)
  BY <1>1, IdleOK, Moves DEF SendRaises, CommitNotifyError, Inv, TypeOK
<1>2. CASE CommitNotify(w)
  <2>1. sub' \in [Rows -> Sub]
    BY <1>2, Committed DEF CommitNotify
  <2> QED BY <1>2, <2>1, Committed, Writes DEF CommitNotify
<1> QED BY <1>1, <1>2

-----------------------------------------------------------------------------
LEMMA InvNext == Inv /\ [Next]_vars => Inv'
<1> SUFFICES ASSUME Inv, [Next]_vars PROVE Inv'
    OBVIOUS
<1>1. ASSUME NEW w \in Workers, Receive(w) PROVE Inv'
  BY <1>1, InvWatches, InvAsks, InvSelects DEF Receive
<1>2. ASSUME NEW w \in Workers, Proceed(w) PROVE Inv'
  <2>1. CASE CommitWatch(w) \/ WatchError(w)
    BY <2>1, InvWatchesStored
  <2> QED BY <1>2, <2>1, InvSubscribes, InvSelects, InvSends, InvNotified DEF Proceed
<1>3. ASSUME NEW u \in Users, CloseAccount(u) \/ \E a \in Areas : Unwatch(u, a) PROVE Inv'
  BY <1>3, InvLeaves
<1>4. CASE UNCHANGED vars
  BY <1>4 DEF vars, Inv, TypeOK, NoDeadRowStays, CountsEarned, Honest, Live
<1> QED BY <1>1, <1>2, <1>3, <1>4 DEF Next

LEMMA Invariance == Spec => []Inv
BY InvInit, InvNext, PTL DEF Spec

-----------------------------------------------------------------------------
(* Every row and every request in flight keeps its shape.                  *)
THEOREM TypeCorrect == Spec => []TypeOK
<1>1. Inv => TypeOK
  BY DEF Inv
<1> QED BY <1>1, Invariance, PTL

(* No stored subscription has reached MAX_FAILURES (notify_area), however  *)
(* many notifications count its failures at once.                          *)
THEOREM DeadRowsGo == Spec => []NoDeadRowStays
<1>1. Inv => NoDeadRowStays
  BY DEF Inv
<1> QED BY <1>1, Invariance, PTL

(* A subscription leaves by an unsubscription, or because its push service *)
(* said it was gone or failed it MAX_FAILURES times (notify_area).         *)
THEOREM DropsHaveCause == Spec => DroppedForCause
<1> DEFINE Drop == \A i \in Rows :
      Live(i) /\ sub'[i].state # "live" =>
        \/ \E w \in Workers : CommitUnsubscribe(w) /\ req[w].row = i
        \/ evidence[i] = MaxFailures
<1>1. Inv /\ [Next]_vars => [Drop]_vars
  <2> SUFFICES ASSUME Inv, Next, NEW i \in Rows, Live(i), sub'[i].state # "live"
               PROVE  \/ \E w \in Workers : CommitUnsubscribe(w) /\ req[w].row = i
                      \/ evidence[i] = MaxFailures
    OBVIOUS
  <2>0. sub' # sub /\ sub \in [Rows -> Sub]
    BY DEF Live, Inv, TypeOK
  <2>1. PICK w \in Workers : Receive(w) \/ Proceed(w)
    BY <2>0 DEF Next, CloseAccount, Unwatch
  <2>2. ~Receive(w)
    BY <2>0 DEF Receive, WatchArea, Subscribe, Unsubscribe, Approve
  <2>3. \/ \E j \in Rows : InsertSub(w, j)
        \/ UpdateSub(w) \/ CommitUnsubscribe(w) \/ CommitNotify(w)
    BY <2>0, <2>1, <2>2
       DEF Proceed, CommitWatch, WatchError, SubscribeError, SelectAudience, SendAnswered,
           SendRaises, CommitNotifyError
  <2>4. ASSUME NEW j \in Rows, InsertSub(w, j) PROVE FALSE
    BY <2>0, <2>4 DEF InsertSub, Live
  <2>5. CASE UpdateSub(w)
    BY <2>0, <2>5 DEF UpdateSub, Live, Sub
  <2>6. CASE CommitUnsubscribe(w)
    BY <2>6 DEF CommitUnsubscribe, Removed, Live
  <2>7. CASE CommitNotify(w)
    BY <2>7, Committed
  <2> QED BY <2>3, <2>4, <2>5, <2>6, <2>7
<1>2. Spec => [][Drop]_vars
  BY <1>1, Invariance, PTL DEF Spec
<1> QED BY <1>2 DEF DroppedForCause

-----------------------------------------------------------------------------
(* When a notification cannot fail the moderator's request.  What it will  *)
(* have counted are rows it counted or has yet to send to; what another    *)
(* request is about to remove is the row of an unsubscription, or the rows *)
(* a notification found dead.                                              *)
Awaited(r) == r.todo \cup Counted(r)
Removes(r) == IF r.op = "unsubscribe" THEN {r.row} ELSE r.dead
RemovalsApart ==
    \A v, w \in Workers :
      v # w /\ At(w, "sending", "notify") => Removes(req[v]) \cap Awaited(req[w]) = {}

Answerable(r) == r.pc = "sending" => r.op = "notify" /\ \A i \in Awaited(r) : Live(i)
AllAnswerable == \A w \in Workers : Answerable(req[w])

(* The removals of a step are those of the request that commits.           *)
LEMMA RemovedByOne ==
  ASSUME Inv, NEW w \in Workers, Receive(w) \/ Proceed(w)
  PROVE  \A i \in Rows : Live(i) /\ sub'[i].state # "live" => i \in Removes(req[w])
<1> SUFFICES ASSUME NEW i \in Rows, Live(i), sub'[i].state # "live"
             PROVE  i \in Removes(req[w])
    OBVIOUS
<1>0. sub' # sub /\ sub \in [Rows -> Sub]
  BY DEF Live, Inv, TypeOK
<1>1. \/ \E j \in Rows : InsertSub(w, j)
      \/ UpdateSub(w) \/ CommitUnsubscribe(w) \/ CommitNotify(w)
  BY <1>0 DEF Receive, WatchArea, Subscribe, Unsubscribe, Approve,
     Proceed, CommitWatch, WatchError, SubscribeError, SelectAudience, SendAnswered,
     SendRaises, CommitNotifyError
<1>2. ASSUME NEW j \in Rows, InsertSub(w, j) PROVE FALSE
  BY <1>0, <1>2 DEF InsertSub, Live
<1>3. CASE UpdateSub(w)
  BY <1>0, <1>3 DEF UpdateSub, Live, Sub
<1>4. CASE CommitUnsubscribe(w)
  BY <1>4 DEF CommitUnsubscribe, Removed, Live, Removes
<1>5. CASE CommitNotify(w)
  <2>1. sub' = [j \in Rows |-> IF j \in Counted(req[w])
                               THEN [sub[j] EXCEPT !.fails = req[w].fails[j]]
                               ELSE Removed(req[w].dead)[j]]
    BY <1>5 DEF CommitNotify
  <2>2. [sub[i] EXCEPT !.fails = req[w].fails[i]].state = sub[i].state
    BY <1>0 DEF Sub
  <2>3. i \in req[w].dead
    BY <2>1, <2>2 DEF Removed, Live
  <2> QED BY <1>5, <2>3 DEF CommitNotify, Removes
<1> QED BY <1>1, <1>2, <1>3, <1>4, <1>5

(* The request that moves.                                                 *)
LEMMA MoverAnswerable ==
  ASSUME Inv, NEW w \in Workers, Answerable(req[w]), Receive(w) \/ Proceed(w)
  PROVE  Answerable(req[w])'
<1> USE DEF Inv, TypeOK
<1>1. CASE SelectAudience(w)
  <2> DEFINE S == Audience(req[w].review)
             r == [req[w] EXCEPT
                     !.pc = "sending", !.todo = S,
                     !.was = [i \in Rows |-> IF i \in S THEN sub[i].fails ELSE 0],
                     !.fails = [i \in Rows |-> IF i \in S THEN sub[i].fails ELSE 0]]
  <2>1. req'[w] = (IF S = {} THEN Idle ELSE r) /\ UNCHANGED sub
    BY <1>1 DEF SelectAudience
  <2>2. r.todo = S /\ r.was = r.fails /\ r.op = "notify"
    BY <1>1 DEF SelectAudience, Request
  <2>3. Awaited(r) = S
    BY <2>2 DEF Awaited, Counted
  <2>4. \A i \in S : Live(i)
    BY DEF Audience
  <2> HIDE DEF r, S
  <2> QED BY <2>1, <2>2, <2>3, <2>4 DEF Answerable, Live, Idle
<1>2. ASSUME NEW i \in Rows, NEW answer, SendAnswered(w, i, answer)
      PROVE  Answerable(req[w])'
  <2> DEFINE r == req[w]
             t == req'[w]
  <2>1. /\ r.pc = "sending" /\ i \in r.todo /\ t.op = "notify" /\ UNCHANGED sub
        /\ t.todo = r.todo \ {i} /\ t.was = r.was /\ r.dead \subseteq t.dead
        /\ \A j \in Rows : j # i => t.fails[j] = r.fails[j]
    BY <1>2 DEF SendAnswered, Request
  <2>2. Awaited(t) \subseteq Awaited(r)
    BY <2>1 DEF Awaited, Counted
  <2> QED BY <2>1, <2>2 DEF Answerable, Live
<1>3. ASSUME ~SelectAudience(w),
             ~\E i \in Rows, answer \in {"ok", "gone", "error"} : SendAnswered(w, i, answer)
      PROVE  Answerable(req[w])'
  <2>1. CASE Receive(w)
    <3>1. req'[w].pc \in {"commit", "select"}
      <4>1. ASSUME NEW u \in Users, NEW a \in Areas, NEW kinds, WatchArea(w, u, a, kinds)
            PROVE  req'[w].pc = "commit"
        BY <4>1 DEF WatchArea, Idle
      <4>2. ASSUME NEW u \in Users, NEW e \in Endpoints, Subscribe(w, u, e)
            PROVE  req'[w].pc = "commit"
        BY <4>2 DEF Subscribe, Idle
      <4>3. ASSUME NEW u \in Users, NEW e \in Endpoints, Unsubscribe(w, u, e)
            PROVE  req'[w].pc = "commit"
        BY <4>3 DEF Unsubscribe, Idle
      <4>4. ASSUME NEW r \in Reviews, Approve(w, r)
            PROVE  req'[w].pc = "select"
        BY <4>4 DEF Approve, Idle
      <4> QED BY <2>1, <4>1, <4>2, <4>3, <4>4 DEF Receive
    <3> QED BY <3>1 DEF Answerable
  <2>2. CASE Proceed(w)
    <3>1. req'[w] = Idle
      BY <1>3, <2>2 DEF Proceed, CommitWatch, WatchError, InsertSub, UpdateSub,
         SubscribeError, CommitUnsubscribe, SendRaises, CommitNotify, CommitNotifyError
    <3> QED BY <3>1 DEF Answerable, Idle
  <2> QED BY <2>1, <2>2
<1> QED BY <1>1, <1>2, <1>3

LEMMA AnswerableNext == Inv /\ AllAnswerable /\ RemovalsApart /\ [Next]_vars => AllAnswerable'
<1> SUFFICES ASSUME Inv, AllAnswerable, RemovalsApart, [Next]_vars PROVE AllAnswerable'
    OBVIOUS
<1>1. ASSUME NEW w \in Workers, Receive(w) \/ Proceed(w), NEW v \in Workers
      PROVE  Answerable(req[v])'
  <2>1. CASE v = w
    BY <1>1, <2>1, MoverAnswerable DEF AllAnswerable
  <2>2. CASE v # w
    <3>1. req'[v] = req[v]
      BY <1>1, <2>2 DEF Receive, WatchArea, Subscribe, Unsubscribe, Approve, Proceed,
         CommitWatch, WatchError, InsertSub, UpdateSub, SubscribeError, CommitUnsubscribe,
         SelectAudience, SendAnswered, SendRaises, CommitNotify, CommitNotifyError,
         Inv, TypeOK
    <3>2. CASE req[v].pc = "sending"
      <4>1. At(v, "sending", "notify")
        BY <3>2 DEF AllAnswerable, Answerable
      <4>2. \A i \in Awaited(req[v]) : Live(i) /\ i \in Rows /\ i \notin Removes(req[w])
        BY <2>2, <3>2, <4>1
           DEF AllAnswerable, Answerable, RemovalsApart, Awaited, Counted, Inv, TypeOK, Request
      <4>3. \A i \in Awaited(req[v]) : sub'[i].state = "live"
        BY <1>1, <4>2, RemovedByOne
      <4> QED BY <3>1, <4>1, <4>3 DEF Answerable, Live
    <3>3. CASE req[v].pc # "sending"
      BY <3>1, <3>3 DEF Answerable
    <3> QED BY <3>2, <3>3
  <2> QED BY <2>1, <2>2
<1>2. ASSUME NEW u \in Users, CloseAccount(u) \/ \E a \in Areas : Unwatch(u, a)
      PROVE  AllAnswerable'
  <2>1. ASSUME NEW v \in Workers
        PROVE  req'[v].pc # "sending" \/ req'[v] = req[v]
    <3>1. PICK a : req' = Orphaned(u, a)
      BY <1>2 DEF CloseAccount, Unwatch
    <3>2. [req[v] EXCEPT !.loaded = {"stale"}].pc = req[v].pc
      BY DEF Inv, TypeOK, Request
    <3> QED BY <3>1, <3>2 DEF Orphaned
  <2>2. sub' = sub
    BY <1>2 DEF CloseAccount, Unwatch
  <2> QED BY <2>1, <2>2 DEF AllAnswerable, Answerable, Live
<1>3. CASE UNCHANGED vars
  BY <1>3 DEF vars, AllAnswerable, Answerable, Live
<1> QED BY <1>1, <1>2, <1>3 DEF Next, AllAnswerable

(* A notification fails the moderator's request only over a row somebody   *)
(* else was about to remove: as long as no unsubscription and no other     *)
(* notification in flight removes a row that one counts, the commit of its *)
(* outcomes goes through (notify_area, moderate_review).                   *)
THEOREM DecisionsAreAnswered == Spec /\ []RemovalsApart => DecisionAnswered
<1> DEFINE Answers == \A w \in Workers : ~CommitNotifyError(w)
<1>1. Init => AllAnswerable
  BY DEF Init, AllAnswerable, Answerable, Idle
<1>2. Inv /\ AllAnswerable => [Answers]_vars
  BY DEF AllAnswerable, Answerable, Awaited, CommitNotifyError
<1> HIDE DEF Answers
<1>3. Spec /\ []RemovalsApart => [][Answers]_vars
  BY <1>1, <1>2, AnswerableNext, Invariance, PTL DEF Spec
<1> QED BY <1>3 DEF Answers, DecisionAnswered
=============================================================================
