--------------------------- MODULE OtpStoreProofs ---------------------------
(***************************************************************************)
(* Theorems about OtpStore, for any number of requests in flight, any      *)
(* numbers and any quotas.                                                 *)
(***************************************************************************)
EXTENDS OtpStore, FiniteSetTheorems, TLAPS

USE DEF At, Become, Go, Finish

-----------------------------------------------------------------------------
(* Types of the operators.                                                 *)

LEMMA KeyType == \A s \in Scopes, p \in Phones : Key(s, p) \in Keys
BY DEF Key, Keys, Scopes

LEMMA StartType ==
    ASSUME NEW pc \in {"idle", "incr", "clear", "try"}, NEW p \in Phones
    PROVE  Start(pc, p) \in Request /\ Start(pc, p).pc = pc /\ Start(pc, p).phone = p
BY DEF Start, Request, Scopes, Commands

LEMMA DoneType == Done \in Request /\ Done.pc = "idle"
<1>1. (CHOOSE p \in Phones : TRUE) \in Phones
  BY ConstantsOK DEF ConstantsOK
<1> QED BY <1>1, StartType DEF Done

LEMMA CountedType ==
    ASSUME NEW r \in Request, r.pc = "incr", NEW n \in Nat
    PROVE  Counted(r, n) \in Request /\ Counted(r, n).pc \in {"idle", "incr", "set"}
<1>1. [r EXCEPT !.pc = "set"] \in Request
  BY DEF Request, Commands
<1>2. [r EXCEPT !.pc = "incr", !.scope = NextScope(@)] \in Request
  BY DEF Request, Commands, NextScope, Scopes
<1>3. [r EXCEPT !.pc = "set"].pc = "set"
      /\ [r EXCEPT !.pc = "incr", !.scope = NextScope(@)].pc = "incr"
  BY DEF Request, Commands
<1> QED BY <1>1, <1>2, <1>3, DoneType DEF Counted

LEMMA TriedType ==
    ASSUME NEW r \in Request, NEW n \in Nat
    PROVE  Tried(r, n) \in Request /\ Tried(r, n).pc \in {"idle", "clear"}
<1>1. [r EXCEPT !.pc = "clear"] \in Request /\ [r EXCEPT !.pc = "clear"].pc = "clear"
  BY DEF Request, Commands
<1> QED BY <1>1, DoneType DEF Tried

LEMMA WindowType ==
    /\ CodeWindow \in Nat \ {0}
    /\ \A s \in Scopes : Window(s) \in Nat \ {0}
BY ConstantsOK DEF ConstantsOK, CodeWindow, Window

LEMMA CounterTypes ==
    /\ Absent \in Counter /\ Absent.n = 0 /\ Absent.ttl = 0
    /\ \A c \in Counter :
         /\ Incr(c) \in Counter /\ Incr(c).n = c.n + 1 /\ Incr(c).ttl = c.ttl
         /\ \A s \in Scopes : /\ CountOn(s, c) \in Counter /\ CountOn(s, c).ttl = c.ttl
                              /\ \/ CountOn(s, c).n = c.n + 1
                                 \/ CountOn(s, c).n = c.n /\ ~(c.n < Limit(s) + Slack)
         /\ \A d \in Nat \ {0} : /\ Expire(c, d) \in Counter /\ Expire(c, d).n = c.n
                                 /\ c.n > 0 => Expire(c, d).ttl = d
         /\ c.ttl > 1 => Aged(c) \in Counter /\ Aged(c).n = c.n /\ Aged(c).ttl = c.ttl - 1
<1>1. Absent \in Counter /\ Absent.n = 0 /\ Absent.ttl = 0
  BY DEF Absent, Counter
<1>2. ASSUME NEW c \in Counter
      PROVE  /\ Incr(c) \in Counter /\ Incr(c).n = c.n + 1 /\ Incr(c).ttl = c.ttl
             /\ \A s \in Scopes : /\ CountOn(s, c) \in Counter /\ CountOn(s, c).ttl = c.ttl
                                  /\ \/ CountOn(s, c).n = c.n + 1
                                     \/ CountOn(s, c).n = c.n /\ ~(c.n < Limit(s) + Slack)
             /\ \A d \in Nat \ {0} : /\ Expire(c, d) \in Counter /\ Expire(c, d).n = c.n
                                     /\ c.n > 0 => Expire(c, d).ttl = d
             /\ c.ttl > 1 => /\ Aged(c) \in Counter /\ Aged(c).n = c.n
                             /\ Aged(c).ttl = c.ttl - 1
  <2>1. PICK n \in Nat, t \in Nat : c = [n |-> n, ttl |-> t]
    BY DEF Counter
  <2>2. Incr(c) = [n |-> n + 1, ttl |-> t]
    BY <2>1 DEF Incr
  <2>3. Incr(c) \in Counter /\ Incr(c).n = c.n + 1 /\ Incr(c).ttl = c.ttl
    BY <2>1, <2>2 DEF Counter
  <2>4. ASSUME NEW s \in Scopes
        PROVE  /\ CountOn(s, c) \in Counter /\ CountOn(s, c).ttl = c.ttl
               /\ \/ CountOn(s, c).n = c.n + 1
                  \/ CountOn(s, c).n = c.n /\ ~(c.n < Limit(s) + Slack)
    BY <2>3 DEF CountOn
  <2>5. ASSUME NEW d \in Nat \ {0}
        PROVE  /\ Expire(c, d) \in Counter /\ Expire(c, d).n = c.n
               /\ c.n > 0 => Expire(c, d).ttl = d
    <3> DEFINE e == [c EXCEPT !.ttl = d]
    <3>1. e \in Counter /\ e.n = c.n /\ e.ttl = d
      BY DEF Counter
    <3>2. Expire(c, d) = IF c.n > 0 THEN e ELSE c
      BY DEF Expire
    <3> HIDE DEF e
    <3> QED BY <3>1, <3>2
  <2>6. c.ttl > 1 => Aged(c) \in Counter /\ Aged(c).n = c.n /\ Aged(c).ttl = c.ttl - 1
    <3>1. Aged(c) = [n |-> n, ttl |-> t - 1]
      BY <2>1 DEF Aged
    <3> QED BY <2>1, <3>1 DEF Counter
  <2> QED BY <2>3, <2>4, <2>5, <2>6
<1> QED BY <1>1, <1>2

LEMMA ExpirySet ==
    \A c \in Counter, d \in Nat \ {0} : Expire(c, d).n > 0 => Expire(c, d).ttl > 0
<1> SUFFICES ASSUME NEW c \in Counter, NEW d \in Nat \ {0}, Expire(c, d).n > 0
             PROVE  Expire(c, d).ttl > 0
    OBVIOUS
<1>1. c.n > 0 /\ Expire(c, d).ttl = d
  BY CounterTypes
<1> QED BY <1>1

-----------------------------------------------------------------------------
(* Every step writes at most one request.                                  *)
Wrote(w, r) == req' = [req EXCEPT ![w] = r]

LEMMA TypeInit == Init => TypeOK
<1> SUFFICES ASSUME Init PROVE TypeOK
    OBVIOUS
<1>1. req \in [Workers -> Request]
  BY DoneType DEF Init
<1>2. quota \in [Keys -> Counter] /\ attempts \in [Phones -> Counter]
  BY CounterTypes DEF Init
<1> QED BY <1>1, <1>2 DEF Init, TypeOK

LEMMA TypeReceive ==
    ASSUME TypeOK, NEW w \in Workers, Receive(w)
    PROVE  TypeOK'
<1>1. PICK p \in Phones : Ask(w, p) \/ PresentRight(w, p) \/ PresentWrong(w, p)
  BY DEF Receive
<1>2. PICK r \in Request : Wrote(w, r)
  BY <1>1, StartType DEF Ask, PresentRight, PresentWrong, Wrote
<1>3. req' \in [Workers -> Request]
  BY <1>2 DEF TypeOK, Wrote
<1>4. guesses' \in [Phones -> Nat]
  BY <1>1 DEF Ask, PresentRight, PresentWrong, TypeOK
<1>5. UNCHANGED <<code, attempts, cooldown, quota, sent>>
  BY <1>1 DEF Ask, PresentRight, PresentWrong
<1> QED BY <1>3, <1>4, <1>5 DEF TypeOK

LEMMA TypeProceed ==
    ASSUME TypeOK, NEW w \in Workers, Proceed(w)
    PROVE  TypeOK'
<1> DEFINE p == req[w].phone  s == req[w].scope
<1>0. /\ req[w] \in Request /\ req \in [Workers -> Request]
      /\ p \in Phones /\ s \in Scopes /\ Key(s, p) \in Keys
      /\ quota \in [Keys -> Counter] /\ attempts \in [Phones -> Counter]
  BY KeyType DEF TypeOK, Request, Commands
<1>1. ASSUME NEW pc \in {"expire", "reset", "cool", "send", "try_ttl", "clear_attempts"}
      PROVE  [req[w] EXCEPT !.pc = pc] \in Request
  BY <1>0 DEF Request, Commands
<1>2. CASE IncrQuota(w)
  <2>1. quota[Key(s, p)].n + 1 \in Nat
    BY <1>0 DEF Counter
  <2>2. PICK r \in Request : Wrote(w, r)
    BY <1>0, <1>1, <1>2, <2>1, CountedType DEF IncrQuota, Wrote
  <2>3. quota' \in [Keys -> Counter]
    BY <1>0, <1>2, CounterTypes DEF IncrQuota
  <2> QED BY <1>0, <1>2, <2>2, <2>3 DEF IncrQuota, TypeOK, Wrote
<1>3. CASE ExpireQuota(w)
  <2>1. [req[w] EXCEPT !.pc = "incr"] \in Request
        /\ [req[w] EXCEPT !.pc = "incr"].pc = "incr"
    BY <1>0 DEF Request, Commands
  <2>2. Counted([req[w] EXCEPT !.pc = "incr"], 1) \in Request
    BY <2>1, CountedType
  <2>3. quota' \in [Keys -> Counter]
    BY <1>0, <1>3, CounterTypes, WindowType DEF ExpireQuota
  <2> QED BY <1>0, <1>3, <2>2, <2>3 DEF ExpireQuota, TypeOK
<1>4. CASE SetCode(w)
  BY <1>0, <1>1, <1>4 DEF SetCode, TypeOK
<1>5. CASE ResetAttempts(w)
  BY <1>0, <1>1, <1>5, CounterTypes DEF ResetAttempts, TypeOK
<1>6. CASE StartCooldown(w)
  BY <1>0, <1>1, <1>6 DEF StartCooldown, TypeOK
<1>7. CASE Send(w)
  BY <1>0, <1>7, DoneType DEF Send, TypeOK
<1>8. CASE IncrAttempts(w)
  <2>1. attempts[p].n + 1 \in Nat
    BY <1>0 DEF Counter
  <2>2. PICK r \in Request : Wrote(w, r)
    BY <1>0, <1>1, <1>8, <2>1, TriedType DEF IncrAttempts, Wrote
  <2>3. attempts' \in [Phones -> Counter]
    BY <1>0, <1>8, CounterTypes DEF IncrAttempts
  <2> QED BY <1>0, <1>8, <2>2, <2>3 DEF IncrAttempts, TypeOK, Wrote
<1>9. CASE ExpireAttempts(w)
  <2>1. Tried(req[w], 1) \in Request
    BY <1>0, TriedType
  <2>2. attempts' \in [Phones -> Counter]
    BY <1>0, <1>9, CounterTypes, WindowType DEF ExpireAttempts
  <2> QED BY <1>0, <1>9, <2>1, <2>2 DEF ExpireAttempts, TypeOK
<1>10. CASE ClearCode(w)
  BY <1>0, <1>1, <1>10 DEF ClearCode, TypeOK
<1>11. CASE ClearAttempts(w)
  BY <1>0, <1>11, CounterTypes, DoneType DEF ClearAttempts, TypeOK
<1> QED BY <1>2, <1>3, <1>4, <1>5, <1>6, <1>7, <1>8, <1>9, <1>10, <1>11 DEF Proceed

LEMMA TypeNext == TypeOK /\ [Next]_vars => TypeOK'
<1> SUFFICES ASSUME TypeOK, [Next]_vars PROVE TypeOK'
    OBVIOUS
<1>1. CASE UNCHANGED vars
  BY <1>1 DEF vars, TypeOK
<1>2. ASSUME NEW w \in Workers, Receive(w) \/ Proceed(w)
      PROVE  TypeOK'
  BY <1>2, TypeReceive, TypeProceed
<1>3. ASSUME NEW w \in Workers, Crash(w)
      PROVE  TypeOK'
  BY <1>3, DoneType DEF Crash, TypeOK
<1>4. ASSUME NEW p \in Phones, CodeExpires(p)
      PROVE  TypeOK'
  BY <1>4 DEF CodeExpires, TypeOK
<1>5. ASSUME NEW p \in Phones, AttemptsExpire(p)
      PROVE  TypeOK'
  BY <1>5, CounterTypes DEF AttemptsExpire, TypeOK
<1>6. ASSUME NEW p \in Phones, CooldownExpires(p)
      PROVE  TypeOK'
  BY <1>6 DEF CooldownExpires, TypeOK
<1>7. ASSUME NEW k \in Keys, QuotaAges(k) \/ QuotaExpires(k)
      PROVE  TypeOK'
  BY <1>7, CounterTypes DEF QuotaAges, QuotaExpires, TypeOK
<1> QED BY <1>1, <1>2, <1>3, <1>4, <1>5, <1>6, <1>7 DEF Next, TimePasses

(* Type correctness: every Redis key and every request in flight keeps its *)
(* shape, whatever commands interleave.                                    *)
THEOREM TypeCorrect == Spec => []TypeOK
BY TypeInit, TypeNext, PTL DEF Spec

-----------------------------------------------------------------------------
(* CountersWillExpire, one conjunct at a time.  A step keeps the request   *)
(* that is about to set an expiry, unless it is that request's own.        *)

WillSet(v, k) == At(v, "expire") /\ k = Key(req[v].scope, req[v].phone)
QuotaWillExpire(k) == quota[k].n > 0 => quota[k].ttl > 0 \/ \E v \in Workers : WillSet(v, k)

WillTry(v, p) == At(v, "try_ttl") /\ p = req[v].phone
TriesWillExpire(p) == attempts[p].n > 0 => attempts[p].ttl > 0 \/ \E v \in Workers : WillTry(v, p)

LEMMA Parts ==
    CountersWillExpire <=> /\ \A k \in Keys : QuotaWillExpire(k)
                           /\ \A p \in Phones : TriesWillExpire(p)
BY DEF CountersWillExpire, QuotaWillExpire, TriesWillExpire, WillSet, WillTry

LEMMA OthersKeepGoing ==
    ASSUME TypeOK, NEW w \in Workers, NEW r, Wrote(w, r),
           NEW v \in Workers, v # w
    PROVE  req'[v] = req[v]
BY DEF TypeOK, Wrote

(* A step that leaves the key alone, or deletes it.                        *)
LEMMA QuotaKept ==
    ASSUME TypeOK, NEW k \in Keys, QuotaWillExpire(k),
           NEW w \in Workers, ~WillSet(w, k), NEW r, Wrote(w, r),
           quota'[k] = quota[k] \/ quota'[k] = Absent
    PROVE  QuotaWillExpire(k)'
<1> SUFFICES ASSUME quota'[k].n > 0, ~(quota'[k].ttl > 0)
             PROVE  \E v \in Workers : WillSet(v, k)'
    BY DEF QuotaWillExpire
<1>1. quota'[k] = quota[k]
  BY CounterTypes
<1>2. PICK v \in Workers : WillSet(v, k)
  BY <1>1 DEF QuotaWillExpire
<1>3. v # w
  BY <1>2
<1>4. WillSet(v, k)'
  BY <1>2, <1>3, OthersKeepGoing DEF WillSet
<1> QED BY <1>4

LEMMA TriesKept ==
    ASSUME TypeOK, NEW p \in Phones, TriesWillExpire(p),
           NEW w \in Workers, ~WillTry(w, p), NEW r, Wrote(w, r),
           attempts'[p] = attempts[p] \/ attempts'[p] = Absent
    PROVE  TriesWillExpire(p)'
<1> SUFFICES ASSUME attempts'[p].n > 0, ~(attempts'[p].ttl > 0)
             PROVE  \E v \in Workers : WillTry(v, p)'
    BY DEF TriesWillExpire
<1>1. attempts'[p] = attempts[p]
  BY CounterTypes
<1>2. PICK v \in Workers : WillTry(v, p)
  BY <1>1 DEF TriesWillExpire
<1>3. v # w
  BY <1>2
<1>4. WillTry(v, p)'
  BY <1>2, <1>3, OthersKeepGoing DEF WillTry
<1> QED BY <1>4

LEMMA QuotaAfterIncr ==
    ASSUME TypeOK, NEW w \in Workers, IncrQuota(w), NEW k \in Keys, QuotaWillExpire(k)
    PROVE  QuotaWillExpire(k)'
<1> DEFINE kw == Key(req[w].scope, req[w].phone)
<1>0. /\ req[w] \in Request /\ req[w].pc = "incr" /\ kw \in Keys
      /\ quota \in [Keys -> Counter] /\ req \in [Workers -> Request]
      /\ quota' = [quota EXCEPT ![kw] = CountOn(req[w].scope, @)]
      /\ req[w].scope \in Scopes
  BY KeyType DEF IncrQuota, TypeOK, Request
<1>1. PICK r : Wrote(w, r)
  BY DEF IncrQuota, Wrote
<1>2. ~WillSet(w, k)
  BY <1>0 DEF WillSet
<1>3. CASE k # kw
  BY <1>0, <1>1, <1>2, <1>3, QuotaKept
<1>4. CASE k = kw /\ quota[k].n = 0
  <2>1. NeedsExpire(quota[kw].n + 1)
    BY <1>4 DEF NeedsExpire
  <2>2. req'[w] = [req[w] EXCEPT !.pc = "expire"]
    BY <1>0, <2>1 DEF IncrQuota
  <2>3. req'[w].pc = "expire" /\ req'[w].phone = req[w].phone /\ req'[w].scope = req[w].scope
    BY <1>0, <2>2 DEF Request, Commands
  <2>4. WillSet(w, k)'
    BY <1>4, <2>3 DEF WillSet
  <2> QED BY <2>4 DEF QuotaWillExpire
<1>5. CASE k = kw /\ quota[k].n # 0
  <2>1. quota[k] \in Counter /\ quota[k].n > 0 /\ quota'[k].ttl = quota[k].ttl
    <3>1. quota[k] \in Counter /\ quota'[k] = CountOn(req[w].scope, quota[k])
      BY <1>0, <1>5
    <3>2. quota[k].n \in Nat
      BY <3>1 DEF Counter
    <3> QED BY <1>0, <1>5, <3>1, <3>2, CounterTypes
  <2>2. quota[k].ttl > 0 \/ \E v \in Workers : WillSet(v, k)
    BY <2>1 DEF QuotaWillExpire
  <2>3. ASSUME NEW v \in Workers, WillSet(v, k)
        PROVE  WillSet(v, k)'
    BY <1>1, <1>2, <2>3, OthersKeepGoing DEF WillSet
  <2> QED BY <2>1, <2>2, <2>3 DEF QuotaWillExpire
<1> QED BY <1>3, <1>4, <1>5

LEMMA QuotaAfterExpire ==
    ASSUME TypeOK, NEW w \in Workers, ExpireQuota(w), NEW k \in Keys, QuotaWillExpire(k)
    PROVE  QuotaWillExpire(k)'
<1> DEFINE kw == Key(req[w].scope, req[w].phone)
<1>0. /\ req[w] \in Request /\ kw \in Keys /\ quota \in [Keys -> Counter]
      /\ quota' = [quota EXCEPT ![kw] = Expire(@, Window(req[w].scope))]
      /\ req[w].scope \in Scopes
  BY KeyType DEF ExpireQuota, TypeOK, Request
<1>1. PICK r : Wrote(w, r)
  BY DEF ExpireQuota, Wrote
<1>2. CASE k # kw
  BY <1>0, <1>1, <1>2, QuotaKept DEF WillSet
<1>3. CASE k = kw
  <2> DEFINE d == Window(req[w].scope)
  <2>1. quota[k] \in Counter /\ quota'[k] = Expire(quota[k], d) /\ d \in Nat \ {0}
    BY <1>0, <1>3, WindowType
  <2> HIDE DEF d
  <2>2. quota'[k].n > 0 => quota'[k].ttl > 0
    BY <2>1, ExpirySet
  <2> QED BY <2>2 DEF QuotaWillExpire
<1> QED BY <1>2, <1>3

LEMMA TriesAfterIncr ==
    ASSUME TypeOK, NEW w \in Workers, IncrAttempts(w), NEW p \in Phones, TriesWillExpire(p)
    PROVE  TriesWillExpire(p)'
<1> DEFINE pw == req[w].phone
<1>0. /\ req[w] \in Request /\ req[w].pc = "try" /\ pw \in Phones
      /\ attempts \in [Phones -> Counter] /\ req \in [Workers -> Request]
      /\ attempts' = [attempts EXCEPT ![pw] = Incr(@)]
  BY DEF IncrAttempts, TypeOK, Request
<1>1. PICK r : Wrote(w, r)
  BY DEF IncrAttempts, Wrote
<1>2. ~WillTry(w, p)
  BY <1>0 DEF WillTry
<1>3. CASE p # pw
  BY <1>0, <1>1, <1>2, <1>3, TriesKept
<1>4. CASE p = pw /\ attempts[p].n = 0
  <2>1. NeedsExpire(attempts[pw].n + 1)
    BY <1>4 DEF NeedsExpire
  <2>2. req'[w] = [req[w] EXCEPT !.pc = "try_ttl"]
    BY <1>0, <2>1 DEF IncrAttempts
  <2>3. req'[w].pc = "try_ttl" /\ req'[w].phone = req[w].phone
    BY <1>0, <2>2 DEF Request, Commands
  <2>4. WillTry(w, p)'
    BY <1>4, <2>3 DEF WillTry
  <2> QED BY <2>4 DEF TriesWillExpire
<1>5. CASE p = pw /\ attempts[p].n # 0
  <2>0. attempts[p] \in Counter /\ attempts'[p] = Incr(attempts[p])
    BY <1>0, <1>5
  <2>1. attempts[p].n > 0 /\ attempts'[p].ttl = attempts[p].ttl
    <3>1. attempts'[p].ttl = attempts[p].ttl
      BY <2>0, CounterTypes
    <3>2. attempts[p].n \in Nat
      BY <2>0 DEF Counter
    <3> QED BY <1>5, <3>1, <3>2
  <2>2. attempts[p].ttl > 0 \/ \E v \in Workers : WillTry(v, p)
    BY <2>1 DEF TriesWillExpire
  <2>3. ASSUME NEW v \in Workers, WillTry(v, p)
        PROVE  WillTry(v, p)'
    BY <1>1, <1>2, <2>3, OthersKeepGoing DEF WillTry
  <2> QED BY <2>1, <2>2, <2>3 DEF TriesWillExpire
<1> QED BY <1>3, <1>4, <1>5

LEMMA TriesAfterExpire ==
    ASSUME TypeOK, NEW w \in Workers, ExpireAttempts(w), NEW p \in Phones, TriesWillExpire(p)
    PROVE  TriesWillExpire(p)'
<1> DEFINE pw == req[w].phone
<1>0. /\ req[w] \in Request /\ pw \in Phones /\ attempts \in [Phones -> Counter]
      /\ attempts' = [attempts EXCEPT ![pw] = Expire(@, CodeWindow)]
  BY DEF ExpireAttempts, TypeOK, Request
<1>1. PICK r : Wrote(w, r)
  BY DEF ExpireAttempts, Wrote
<1>2. CASE p # pw
  BY <1>0, <1>1, <1>2, TriesKept DEF WillTry
<1>3. CASE p = pw
  <2>1. attempts[p] \in Counter /\ attempts'[p] = Expire(attempts[p], CodeWindow)
    BY <1>0, <1>3
  <2>2. attempts'[p].n > 0 => attempts'[p].ttl > 0
    BY <2>1, ExpirySet, WindowType
  <2> QED BY <2>2 DEF TriesWillExpire
<1> QED BY <1>2, <1>3

(* The steps of a request that set no expiry.                              *)
LEMMA RequestStepKeeps ==
    ASSUME TypeOK, NEW w \in Workers, Receive(w) \/ Proceed(w)
    PROVE  /\ \A k \in Keys : QuotaWillExpire(k) => QuotaWillExpire(k)'
           /\ \A p \in Phones : TriesWillExpire(p) => TriesWillExpire(p)'
<1>0. attempts \in [Phones -> Counter] /\ req[w] \in Request /\ req[w].phone \in Phones
  BY DEF TypeOK, Request, Commands
<1>1. PICK r : Wrote(w, r)
  BY DEF Receive, Proceed, Ask, PresentRight, PresentWrong, IncrQuota, ExpireQuota,
     SetCode, ResetAttempts, StartCooldown, Send, IncrAttempts, ExpireAttempts,
     ClearCode, ClearAttempts, Wrote
<1>2. ASSUME NEW k \in Keys, QuotaWillExpire(k)
      PROVE  QuotaWillExpire(k)'
  <2>1. CASE IncrQuota(w) \/ ExpireQuota(w)
    BY <1>2, <2>1, QuotaAfterIncr, QuotaAfterExpire
  <2>2. CASE ~IncrQuota(w) /\ ~ExpireQuota(w)
    <3>1. UNCHANGED quota /\ ~At(w, "expire")
      BY <2>2 DEF Receive, Proceed, Ask, PresentRight, PresentWrong, SetCode,
         ResetAttempts, StartCooldown, Send, IncrAttempts, ExpireAttempts,
         ClearCode, ClearAttempts
    <3> QED BY <1>1, <1>2, <3>1, QuotaKept DEF WillSet
  <2> QED BY <2>1, <2>2
<1>3. ASSUME NEW p \in Phones, TriesWillExpire(p)
      PROVE  TriesWillExpire(p)'
  <2>1. CASE IncrAttempts(w) \/ ExpireAttempts(w)
    BY <1>3, <2>1, TriesAfterIncr, TriesAfterExpire
  <2>2. CASE ~IncrAttempts(w) /\ ~ExpireAttempts(w)
    <3>1. ~At(w, "try_ttl")
      BY <2>2 DEF Receive, Proceed, Ask, PresentRight, PresentWrong, IncrQuota,
         ExpireQuota, SetCode, ResetAttempts, StartCooldown, Send, ClearCode,
         ClearAttempts
    <3>2. attempts' = attempts \/ attempts' = [attempts EXCEPT ![req[w].phone] = Absent]
      BY <2>2 DEF Receive, Proceed, Ask, PresentRight, PresentWrong, IncrQuota,
         ExpireQuota, SetCode, ResetAttempts, StartCooldown, Send, ClearCode,
         ClearAttempts
    <3>3. attempts'[p] = attempts[p] \/ attempts'[p] = Absent
      BY <1>0, <3>2
    <3> QED BY <1>1, <1>3, <3>1, <3>3, TriesKept DEF WillTry
  <2> QED BY <2>1, <2>2
<1> QED BY <1>2, <1>3

(* An expired key is gone: it needs nobody.                                *)
LEMMA ExpiryKeeps ==
    ASSUME TypeOK, TimePasses
    PROVE  /\ \A k \in Keys : QuotaWillExpire(k) => QuotaWillExpire(k)'
           /\ \A p \in Phones : TriesWillExpire(p) => TriesWillExpire(p)'
<1>0. attempts \in [Phones -> Counter] /\ quota \in [Keys -> Counter] /\ UNCHANGED req
  BY DEF TypeOK, TimePasses, CodeExpires, AttemptsExpire, CooldownExpires, QuotaAges,
     QuotaExpires
<1>1. ASSUME NEW k \in Keys
      PROVE  \/ quota'[k] = quota[k] \/ quota'[k] = Absent
             \/ quota[k].ttl > 1 /\ quota'[k] = Aged(quota[k])
  BY <1>0 DEF TimePasses, CodeExpires, AttemptsExpire, CooldownExpires, QuotaAges,
     QuotaExpires
<1>2. ASSUME NEW p \in Phones
      PROVE  attempts'[p] = attempts[p] \/ attempts'[p] = Absent
  BY <1>0 DEF TimePasses, CodeExpires, AttemptsExpire, CooldownExpires, QuotaAges,
     QuotaExpires
<1>3. ASSUME NEW k \in Keys, QuotaWillExpire(k)
      PROVE  QuotaWillExpire(k)'
  <2>1. CASE quota'[k] = quota[k] \/ quota'[k] = Absent
    BY <1>0, <1>3, <2>1, CounterTypes DEF QuotaWillExpire, WillSet
  <2>2. CASE quota[k].ttl > 1 /\ quota'[k] = Aged(quota[k])
    <3>1. quota[k] \in Counter /\ quota[k].ttl \in Nat
      BY <1>0 DEF Counter
    <3>2. quota'[k].ttl > 0
      BY <2>2, <3>1, CounterTypes
    <3> QED BY <3>2 DEF QuotaWillExpire
  <2> QED BY <1>1, <2>1, <2>2
<1>4. ASSUME NEW p \in Phones, TriesWillExpire(p)
      PROVE  TriesWillExpire(p)'
  BY <1>0, <1>2, <1>4, CounterTypes DEF TriesWillExpire, WillTry
<1> QED BY <1>3, <1>4

(* As long as no request dies between an INCR and its EXPIRE, no counter   *)
(* is left to live for ever: a key without an expiry always has a request  *)
(* that is about to set it, however many requests create, count on,        *)
(* delete and recreate the key, and wherever else they die.                *)
THEOREM CountersExpire ==
    DiesAt \cap {"expire", "try_ttl"} = {} => (Spec => []CountersWillExpire)
<1> SUFFICES ASSUME DiesAt \cap {"expire", "try_ttl"} = {} PROVE Spec => []CountersWillExpire
    OBVIOUS
<1>1. Init => CountersWillExpire
  BY CounterTypes DEF Init, CountersWillExpire
<1>2. TypeOK /\ CountersWillExpire /\ [Next]_vars => CountersWillExpire'
  <2> SUFFICES ASSUME TypeOK, CountersWillExpire, [Next]_vars
               PROVE  CountersWillExpire'
      OBVIOUS
  <2>1. CASE UNCHANGED vars
    BY <2>1 DEF vars, CountersWillExpire
  <2>2. CASE Next
    <3>1. ASSUME NEW w \in Workers, Crash(w)
          PROVE  /\ \A k \in Keys : QuotaWillExpire(k) => QuotaWillExpire(k)'
                 /\ \A p \in Phones : TriesWillExpire(p) => TriesWillExpire(p)'
      <4>1. Wrote(w, Done) /\ UNCHANGED <<quota, attempts>>
        BY <3>1 DEF Crash, Wrote
      <4>2. ~At(w, "expire") /\ ~At(w, "try_ttl")
        BY <3>1 DEF Crash
      <4> QED BY <4>1, <4>2, QuotaKept, TriesKept DEF WillSet, WillTry
    <3>2. /\ \A k \in Keys : QuotaWillExpire(k) => QuotaWillExpire(k)'
          /\ \A p \in Phones : TriesWillExpire(p) => TriesWillExpire(p)'
      BY <2>2, <3>1, RequestStepKeeps, ExpiryKeeps DEF Next
    <3>3. /\ \A k \in Keys : QuotaWillExpire(k)'
          /\ \A p \in Phones : TriesWillExpire(p)'
      BY <3>2, Parts
    <3> QED BY <3>3 DEF CountersWillExpire, QuotaWillExpire, TriesWillExpire, WillSet, WillTry
  <2> QED BY <2>1, <2>2
<1>3. Spec => []TypeOK
  BY TypeCorrect
<1> QED BY <1>1, <1>2, <1>3, PTL DEF Spec
-----------------------------------------------------------------------------
(* Counting the requests in flight that have something in common.  A step  *)
(* of one request changes such a set by that request at most.              *)

LEMMA Workforce == IsFiniteSet(Workers) /\ Cardinality(Workers) \in Nat
BY ConstantsOK, FS_CardinalityType DEF ConstantsOK

LEMMA Sizes ==
    ASSUME NEW S, S \subseteq Workers
    PROVE  /\ IsFiniteSet(S)
           /\ Cardinality(S) \in Nat
           /\ Cardinality(S) <= Cardinality(Workers)
BY Workforce, FS_Subset, FS_CardinalityType

LEMMA Joins ==
    ASSUME NEW S, NEW T, S \subseteq Workers, NEW w \in Workers,
           T = S \cup {w}, w \notin S
    PROVE  Cardinality(T) = Cardinality(S) + 1
BY Sizes, FS_AddElement

LEMMA Leaves ==
    ASSUME NEW S, NEW T, S \subseteq Workers, NEW w \in Workers,
           T = S \ {w}, w \in S
    PROVE  Cardinality(T) = Cardinality(S) - 1
BY Sizes, FS_RemoveElement

(* The two ends of a change by one request: joined, left or neither.       *)
LEMMA OneMoves ==
    ASSUME NEW S, NEW T, S \subseteq Workers, T \subseteq Workers,
           NEW w \in Workers, S \ {w} = T \ {w}
    PROVE  /\ Cardinality(S) \in Nat /\ Cardinality(T) \in Nat
           /\ w \in S /\ w \in T => Cardinality(T) = Cardinality(S)
           /\ w \notin S /\ w \notin T => Cardinality(T) = Cardinality(S)
           /\ w \notin S /\ w \in T => Cardinality(T) = Cardinality(S) + 1
           /\ w \in S /\ w \notin T => Cardinality(T) = Cardinality(S) - 1
<1>1. CASE w \in S /\ w \in T
  <2>1. S = T
    BY <1>1
  <2> QED BY <1>1, <2>1, Sizes
<1>2. CASE w \notin S /\ w \notin T
  <2>1. S = T
    BY <1>2
  <2> QED BY <1>2, <2>1, Sizes
<1>3. CASE w \notin S /\ w \in T
  <2>1. T = S \cup {w}
    BY <1>3
  <2> QED BY <1>3, <2>1, Sizes, Joins
<1>4. CASE w \in S /\ w \notin T
  <2>1. T = S \ {w}
    BY <1>4
  <2> QED BY <1>4, <2>1, Sizes, Leaves
<1> QED BY <1>1, <1>2, <1>3, <1>4

-----------------------------------------------------------------------------
(* SmsWithinQuota.  A request is charged from the INCR of the Metered key  *)
(* to its message; what has been sent and what is charged for stay within  *)
(* what the key admitted, or were in flight when an earlier key expired.   *)

After(scope) == CASE scope = "hour" -> {"day", "ip"}
                  [] scope = "day" -> {"ip"}
                  [] scope = "ip" -> {}
Charged(r) == \/ r.pc \in {"set", "reset", "cool", "send"}
              \/ r.pc \in {"incr", "expire"} /\ r.scope \in After(Metered)
              \/ r.pc = "expire" /\ r.scope = Metered
ChargedRequests == {w \in Workers : Charged(req[w])}
Admitted(n) == IF n > Limit(Metered) THEN Limit(Metered) ELSE n
SentOrCharged ==
    \A k \in Keys : k[1] = Metered =>
        sent + Cardinality(ChargedRequests) <= Admitted(quota[k].n) + Cardinality(Workers)

(* The quota that messages are held against has one key.                   *)
OneMeteredKey == Metered = "ip" \/ Cardinality(Phones) = 1

LEMMA LimitType == \A s \in Scopes : Limit(s) \in Nat \ {0}
<1>1. PerHour * IpFactor \in Nat \ {0}
  <2>1. \A a, b \in Nat \ {0} : a * b \in Nat \ {0}
    OBVIOUS
  <2> QED BY <2>1, ConstantsOK DEF ConstantsOK
<1> QED BY <1>1, ConstantsOK DEF ConstantsOK, Limit, Scopes

LEMMA AdmittedType ==
    ASSUME NEW n \in Nat
    PROVE  /\ Admitted(n) \in Nat /\ Admitted(n) <= Limit(Metered)
           /\ Admitted(n) <= Admitted(n + 1)
           /\ n + 1 <= Limit(Metered) => Admitted(n + 1) = Admitted(n) + 1
BY LimitType, ConstantsOK DEF Admitted, ConstantsOK

LEMMA MeteredKey ==
    ASSUME OneMeteredKey, NEW k \in Keys, k[1] = Metered, NEW p \in Phones
    PROVE  k = Key(Metered, p)
<1>1. CASE Metered = "ip"
  BY <1>1 DEF Keys, Key
<1>2. CASE Metered # "ip"
  <2>1. PICK q \in Phones : k = <<Metered, q>>
    BY <1>2 DEF Keys
  <2>2. PICK q0 : Phones = {q0}
    BY <1>2, FS_Singleton, ConstantsOK DEF OneMeteredKey, ConstantsOK
  <2> QED BY <1>2, <2>1, <2>2 DEF Key
<1> QED BY <1>1, <1>2

LEMMA KeyScope == \A s \in Scopes : \A p : Key(s, p)[1] = s
BY DEF Key, Scopes

(* A step that charges nobody new leaves at most those charged before.     *)
LEMMA ChargedStep ==
    ASSUME TypeOK, NEW w \in Workers, NEW r \in Request, Wrote(w, r)
    PROVE  /\ Cardinality(ChargedRequests) \in Nat
           /\ Cardinality(ChargedRequests') \in Nat
           /\ Charged(r) /\ Charged(req[w]) =>
                 Cardinality(ChargedRequests') = Cardinality(ChargedRequests)
           /\ ~Charged(r) /\ ~Charged(req[w]) =>
                 Cardinality(ChargedRequests') = Cardinality(ChargedRequests)
           /\ Charged(r) /\ ~Charged(req[w]) =>
                 Cardinality(ChargedRequests') = Cardinality(ChargedRequests) + 1
           /\ ~Charged(r) /\ Charged(req[w]) =>
                 Cardinality(ChargedRequests') = Cardinality(ChargedRequests) - 1
<1>1. req'[w] = r /\ \A v \in Workers \ {w} : req'[v] = req[v]
  BY DEF TypeOK, Wrote
<1>2. ChargedRequests \ {w} = ChargedRequests' \ {w}
  BY <1>1 DEF ChargedRequests
<1>3. (w \in ChargedRequests <=> Charged(req[w])) /\ (w \in ChargedRequests' <=> Charged(r))
  BY <1>1 DEF ChargedRequests
<1>4. ChargedRequests \subseteq Workers /\ ChargedRequests' \subseteq Workers
  BY DEF ChargedRequests
<1> HIDE DEF ChargedRequests
<1> QED BY <1>2, <1>3, <1>4, OneMoves

(* A step that neither counts a request nor sends a message.               *)
LEMMA NothingCharged ==
    ASSUME TypeOK, SentOrCharged, NEW w \in Workers, NEW r \in Request, Wrote(w, r),
           Charged(r) => Charged(req[w]), UNCHANGED sent,
           \A k \in Keys : k[1] = Metered => quota'[k].n = quota[k].n
    PROVE  SentOrCharged'
<1> SUFFICES ASSUME NEW k \in Keys, k[1] = Metered
             PROVE  sent' + Cardinality(ChargedRequests')
                      <= Admitted(quota'[k].n) + Cardinality(Workers)
    BY DEF SentOrCharged
<1>1. Cardinality(ChargedRequests') <= Cardinality(ChargedRequests)
      /\ Cardinality(ChargedRequests') \in Nat /\ Cardinality(ChargedRequests) \in Nat
  BY ChargedStep
<1>2. quota[k].n \in Nat /\ sent \in Nat
  BY DEF TypeOK, Counter
<1>3. sent + Cardinality(ChargedRequests) <= Admitted(quota[k].n) + Cardinality(Workers)
  BY DEF SentOrCharged
<1> QED BY <1>1, <1>2, <1>3, Workforce, AdmittedType
(* Once past its INCR, a request of the metered quota or of a later one is *)
(* charged as before.                                                      *)
LEMMA CountedCharged ==
    ASSUME NEW r \in Request, r.pc = "incr", NEW n \in Nat, r.scope # Metered
    PROVE  Charged(Counted(r, n)) => Charged(r)
<1>0. Metered \in Scopes /\ r.scope \in Scopes
  BY ConstantsOK DEF ConstantsOK, Request
<1>1. CASE OverQuota(r.scope, n)
  BY <1>1, DoneType DEF Counted, Charged
<1>2. CASE ~OverQuota(r.scope, n) /\ r.scope = "ip"
  BY <1>0, <1>2 DEF Charged, After, Scopes
<1>3. CASE ~OverQuota(r.scope, n) /\ r.scope # "ip"
  <2>1. Counted(r, n) = [r EXCEPT !.pc = "incr", !.scope = NextScope(@)]
    BY <1>3 DEF Counted
  <2>2. Counted(r, n).pc = "incr" /\ Counted(r, n).scope = NextScope(r.scope)
    BY <2>1 DEF Request, Commands
  <2> QED BY <1>0, <1>3, <2>2 DEF Charged, After, Scopes, NextScope
<1> QED BY <1>1, <1>2, <1>3

(* Another quota's INCR or EXPIRE does not touch the metered key.          *)
LEMMA OtherScope ==
    ASSUME NEW s \in Scopes, s # Metered, NEW p, NEW k \in Keys, k[1] = Metered
    PROVE  k # Key(s, p)
BY KeyScope

LEMMA SmsAfterIncr ==
    ASSUME OneMeteredKey, TypeOK, SentOrCharged, NEW w \in Workers, IncrQuota(w)
    PROVE  SentOrCharged'
<1> DEFINE s == req[w].scope  kw == Key(s, req[w].phone)
<1>0. /\ req[w] \in Request /\ req[w].pc = "incr" /\ req[w].phone \in Phones
      /\ s \in Scopes /\ kw \in Keys /\ quota \in [Keys -> Counter] /\ sent \in Nat
      /\ quota' = [quota EXCEPT ![kw] = CountOn(s, @)] /\ UNCHANGED sent
  BY KeyType DEF IncrQuota, TypeOK, Request, Commands
<1> DEFINE n == quota[kw].n
           e == [req[w] EXCEPT !.pc = "expire"]
           r == IF NeedsExpire(n + 1) THEN e ELSE Counted(req[w], n + 1)
<1>1. n \in Nat /\ \/ quota'[kw].n = n + 1
                   \/ quota'[kw].n = n /\ ~(n < Limit(s) + Slack)
  BY <1>0, CounterTypes DEF Counter
<1>2. e \in Request /\ e.pc = "expire" /\ e.scope = s
  BY <1>0 DEF Request, Commands
<1>3. r \in Request /\ Wrote(w, r)
  BY <1>0, <1>1, <1>2, CountedType DEF IncrQuota, Wrote
<1> HIDE DEF e
<1>4. CASE s # Metered
  <2>1. \A k \in Keys : k[1] = Metered => quota'[k].n = quota[k].n
    BY <1>0, <1>4, OtherScope
  <2>2. Charged(e) => Charged(req[w])
    BY <1>0, <1>2, <1>4 DEF Charged
  <2>3. Charged(r) => Charged(req[w])
    BY <1>0, <1>1, <1>4, <2>2, CountedCharged
  <2> HIDE DEF r
  <2> QED BY <1>0, <1>3, <2>1, <2>3, NothingCharged
<1>5. CASE s = Metered
  <2>1. ~Charged(req[w])
    BY <1>0, <1>5 DEF Charged, After, Scopes
  <2>2. n + 1 > Limit(Metered) => ~Charged(r)
    <3> SUFFICES ASSUME n + 1 > Limit(Metered) PROVE ~Charged(r)
        OBVIOUS
    <3>1. ~NeedsExpire(n + 1)
      BY <1>0, <1>1, <1>5, LimitType DEF NeedsExpire
    <3>2. r = Done
      BY <1>5, <3>1 DEF Counted, OverQuota
    <3> QED BY <3>2, DoneType DEF Charged
  <2>3. SUFFICES ASSUME NEW k \in Keys, k[1] = Metered
                 PROVE  sent' + Cardinality(ChargedRequests')
                          <= Admitted(quota'[k].n) + Cardinality(Workers)
    BY DEF SentOrCharged
  <2>4. k = kw
    BY <1>0, <1>5, <2>3, MeteredKey
  <2>5. /\ Cardinality(ChargedRequests) \in Nat /\ Cardinality(ChargedRequests') \in Nat
        /\ Charged(r) => Cardinality(ChargedRequests') = Cardinality(ChargedRequests) + 1
        /\ ~Charged(r) => Cardinality(ChargedRequests') = Cardinality(ChargedRequests)
    <3> HIDE DEF r
    <3> QED BY <1>3, <2>1, ChargedStep
  <2>6. sent + Cardinality(ChargedRequests) <= Admitted(n) + Cardinality(Workers)
    BY <2>3, <2>4 DEF SentOrCharged
  <2>7. Admitted(quota'[kw].n) = Admitted(n + 1)
    <3>1. Limit(Metered) \in Nat /\ Slack \in Nat \ {0}
      BY LimitType, ConstantsOK DEF ConstantsOK
    <3> HIDE DEF n, kw
    <3> QED BY <1>1, <1>5, <3>1 DEF Admitted
  <2> HIDE DEF r, n
  <2> QED BY <1>0, <1>1, <2>2, <2>4, <2>5, <2>6, <2>7, Workforce, AdmittedType,
             LimitType, ConstantsOK DEF ConstantsOK
<1> QED BY <1>4, <1>5

LEMMA SmsAfterExpire ==
    ASSUME TypeOK, SentOrCharged, NEW w \in Workers, ExpireQuota(w)
    PROVE  SentOrCharged'
<1> DEFINE s == req[w].scope  kw == Key(s, req[w].phone)
           i == [req[w] EXCEPT !.pc = "incr"]
<1>0. /\ req[w] \in Request /\ req[w].pc = "expire" /\ s \in Scopes /\ kw \in Keys
      /\ quota \in [Keys -> Counter]
      /\ quota' = [quota EXCEPT ![kw] = Expire(@, Window(s))] /\ UNCHANGED sent
  BY KeyType DEF ExpireQuota, TypeOK, Request, Commands
<1>1. i \in Request /\ i.pc = "incr" /\ i.scope = s
  BY <1>0 DEF Request, Commands
<1>2. Counted(i, 1) \in Request
  BY <1>1, CountedType
<1>3. \A k \in Keys : quota'[k].n = quota[k].n
  BY <1>0, CounterTypes, WindowType
<1>4. Wrote(w, Counted(i, 1))
  BY DEF ExpireQuota, Wrote
<1>5. Charged(Counted(i, 1)) => Charged(req[w])
  <2> HIDE DEF i
  <2>1. CASE s = Metered
    BY <1>0, <2>1 DEF Charged
  <2>2. CASE s # Metered
    <3>1. Charged(i) => Charged(req[w])
      BY <1>0, <1>1, <2>2 DEF Charged
    <3> QED BY <1>1, <2>2, <3>1, CountedCharged
  <2> QED BY <2>1, <2>2
<1> HIDE DEF i
<1> QED BY <1>0, <1>2, <1>3, <1>4, <1>5, NothingCharged

LEMMA SmsAfterSend ==
    ASSUME TypeOK, SentOrCharged, NEW w \in Workers, Send(w)
    PROVE  SentOrCharged'
<1> SUFFICES ASSUME NEW k \in Keys, k[1] = Metered
             PROVE  sent' + Cardinality(ChargedRequests')
                      <= Admitted(quota'[k].n) + Cardinality(Workers)
    BY DEF SentOrCharged
<1>1. Wrote(w, Done) /\ UNCHANGED quota /\ sent' = sent + 1 /\ req[w].pc = "send"
  BY DEF Send, Wrote
<1>2. Charged(req[w]) /\ ~Charged(Done)
  BY <1>1, DoneType DEF Charged
<1>3. /\ Cardinality(ChargedRequests) \in Nat /\ Cardinality(ChargedRequests') \in Nat
      /\ Cardinality(ChargedRequests') = Cardinality(ChargedRequests) - 1
  BY <1>1, <1>2, ChargedStep, DoneType
<1>4. quota[k].n \in Nat /\ sent \in Nat
  BY DEF TypeOK, Counter
<1>5. sent + Cardinality(ChargedRequests) <= Admitted(quota[k].n) + Cardinality(Workers)
  BY DEF SentOrCharged
<1> QED BY <1>1, <1>3, <1>4, <1>5, Workforce, AdmittedType
LEMMA SmsAfterRequest ==
    ASSUME OneMeteredKey, TypeOK, SentOrCharged,
           NEW w \in Workers, Receive(w) \/ Proceed(w) \/ Crash(w)
    PROVE  SentOrCharged'
<1>0. req[w] \in Request /\ req[w].phone \in Phones /\ attempts \in [Phones -> Counter]
  BY DEF TypeOK, Request, Commands
<1>1. CASE IncrQuota(w) \/ ExpireQuota(w) \/ Send(w)
  BY <1>1, SmsAfterIncr, SmsAfterExpire, SmsAfterSend
<1>2. CASE Receive(w)
  <2>1. PICK p \in Phones : Ask(w, p) \/ PresentRight(w, p) \/ PresentWrong(w, p)
    BY <1>2 DEF Receive
  <2>2. PICK r \in {Start("incr", p), Start("clear", p), Start("try", p)} : Wrote(w, r)
    BY <2>1 DEF Ask, PresentRight, PresentWrong, Wrote
  <2>3. r \in Request /\ r.scope = "hour" /\ r.pc \in {"incr", "clear", "try"}
    BY <2>2, StartType DEF Start
  <2>4. ~Charged(r)
    BY <2>3, ConstantsOK DEF Charged, After, ConstantsOK, Scopes
  <2>5. UNCHANGED <<quota, sent>>
    BY <2>1 DEF Ask, PresentRight, PresentWrong
  <2> QED BY <2>2, <2>3, <2>4, <2>5, NothingCharged
<1>3. CASE SetCode(w) \/ ResetAttempts(w) \/ StartCooldown(w)
  <2>1. PICK pc \in {"reset", "cool", "send"} : Wrote(w, [req[w] EXCEPT !.pc = pc])
    BY <1>3 DEF SetCode, ResetAttempts, StartCooldown, Wrote
  <2>2. [req[w] EXCEPT !.pc = pc] \in Request
    BY <1>0 DEF Request, Commands
  <2>3. Charged(req[w])
    BY <1>3 DEF SetCode, ResetAttempts, StartCooldown, Charged
  <2>4. UNCHANGED <<quota, sent>>
    BY <1>3 DEF SetCode, ResetAttempts, StartCooldown
  <2> QED BY <2>1, <2>2, <2>3, <2>4, NothingCharged
<1>4. CASE IncrAttempts(w) \/ ExpireAttempts(w) \/ ClearCode(w) \/ ClearAttempts(w) \/ Crash(w)
  <2> DEFINE e(pc) == [req[w] EXCEPT !.pc = pc]
             n == attempts[req[w].phone].n + 1
             r == IF IncrAttempts(w)
                    THEN IF NeedsExpire(n) THEN e("try_ttl") ELSE Tried(req[w], n)
                    ELSE IF ExpireAttempts(w) THEN Tried(req[w], 1)
                    ELSE IF ClearCode(w) THEN e("clear_attempts") ELSE Done
  <2>1. Wrote(w, r)
    BY <1>4 DEF IncrAttempts, ExpireAttempts, ClearCode, ClearAttempts, Crash, Wrote
  <2>2. \A pc \in {"try_ttl", "clear_attempts"} : e(pc) \in Request /\ e(pc).pc = pc
    BY <1>0 DEF Request, Commands
  <2>3. n \in Nat
    BY <1>0 DEF Counter
  <2> HIDE DEF e, n
  <2>4. r \in Request /\ r.pc \in {"try_ttl", "clear_attempts", "clear", "idle"}
    BY <1>0, <2>2, <2>3, TriedType, DoneType
  <2>5. ~Charged(r)
    <3> HIDE DEF r
    <3> QED BY <2>4 DEF Charged
  <2>6. UNCHANGED <<quota, sent>>
    BY <1>4 DEF IncrAttempts, ExpireAttempts, ClearCode, ClearAttempts, Crash
  <2> HIDE DEF r
  <2> QED BY <2>1, <2>4, <2>5, <2>6, NothingCharged
<1> QED BY <1>1, <1>2, <1>3, <1>4 DEF Proceed

(* The metered key expires: what was charged for is all still in flight.   *)
LEMMA SmsAfterTime ==
    ASSUME OneMeteredKey, TypeOK, SentOrCharged, TimePasses
    PROVE  SentOrCharged'
<1>0. UNCHANGED req /\ quota \in [Keys -> Counter]
  BY DEF TimePasses, CodeExpires, AttemptsExpire, CooldownExpires, QuotaAges,
     QuotaExpires, TypeOK
<1>1. UNCHANGED ChargedRequests
  BY <1>0 DEF ChargedRequests
<1>2. CASE UNCHANGED <<quota, sent>>
  BY <1>1, <1>2 DEF SentOrCharged
<1>3. ASSUME NEW k \in Keys, QuotaExpires(k)
      PROVE  SentOrCharged'
  <2>1. CASE k[1] # Metered
    <3>1. UNCHANGED sent /\ \A j \in Keys : j[1] = Metered => quota'[j] = quota[j]
      BY <1>0, <1>3, <2>1 DEF QuotaExpires
    <3> QED BY <1>1, <3>1 DEF SentOrCharged
  <2>2. CASE k[1] = Metered
    <3> SUFFICES ASSUME NEW j \in Keys, j[1] = Metered
                 PROVE  sent' + Cardinality(ChargedRequests')
                          <= Admitted(quota'[j].n) + Cardinality(Workers)
        BY DEF SentOrCharged
    <3>1. PICK p : p \in Phones
      BY ConstantsOK DEF ConstantsOK
    <3>2. j = k
      BY <2>2, <3>1, MeteredKey
    <3>3. sent' = 0 /\ quota'[j].n = 0
      BY <1>0, <1>3, <2>2, <3>2, CounterTypes DEF QuotaExpires
    <3>4. ChargedRequests \subseteq Workers
      BY DEF ChargedRequests
    <3> HIDE DEF ChargedRequests
    <3> QED BY <1>1, <3>3, <3>4, Sizes, Workforce, AdmittedType
  <2> QED BY <2>1, <2>2
<1>4. ASSUME NEW k \in Keys, QuotaAges(k)
      PROVE  SentOrCharged'
  <2>1. UNCHANGED sent /\ \A j \in Keys : quota'[j].n = quota[j].n
    BY <1>0, <1>4, CounterTypes DEF QuotaAges
  <2> QED BY <1>1, <2>1 DEF SentOrCharged
<1> QED BY <1>2, <1>3, <1>4 DEF TimePasses, CodeExpires, AttemptsExpire, CooldownExpires

LEMMA SmsInductive ==
    ASSUME OneMeteredKey
    PROVE  /\ Init => SentOrCharged
           /\ TypeOK /\ SentOrCharged /\ [Next]_vars => SentOrCharged'
<1>1. Init => SentOrCharged
  <2> SUFFICES ASSUME Init, NEW k \in Keys
               PROVE  sent + Cardinality(ChargedRequests)
                        <= Admitted(quota[k].n) + Cardinality(Workers)
      BY DEF SentOrCharged
  <2>1. ChargedRequests = {}
    BY DoneType DEF Init, ChargedRequests, Charged
  <2>2. sent = 0 /\ quota[k].n = 0
    BY CounterTypes DEF Init
  <2> QED BY <2>1, <2>2, FS_EmptySet, Workforce, AdmittedType
<1>2. TypeOK /\ SentOrCharged /\ UNCHANGED vars => SentOrCharged'
  BY DEF vars, SentOrCharged, ChargedRequests
<1>3. TypeOK /\ SentOrCharged /\ Next => SentOrCharged'
  BY SmsAfterRequest, SmsAfterTime DEF Next
<1> QED BY <1>1, <1>2, <1>3

(* No unmetered SMS bill (check_request_quota): in the life of a quota key *)
(* no more messages go out than its limit, but for requests in flight when *)
(* the key before it expired; whatever the limits, however many requests   *)
(* interleave their commands, and wherever they die.                       *)
THEOREM SmsBounded == Spec => []SmsWithinQuota
<1>1. CASE OneMeteredKey
  <2>1. TypeOK /\ SentOrCharged => SmsWithinQuota
    <3> SUFFICES ASSUME TypeOK, SentOrCharged
                 PROVE  sent <= Limit(Metered) + Cardinality(Workers)
        BY DEF SmsWithinQuota
    <3>1. PICK p : p \in Phones
      BY ConstantsOK DEF ConstantsOK
    <3> DEFINE k == Key(Metered, p)
    <3>2. k \in Keys /\ k[1] = Metered
      BY <3>1, KeyType, KeyScope, ConstantsOK DEF ConstantsOK
    <3>3. quota[k].n \in Nat /\ sent \in Nat
      BY <3>2 DEF TypeOK, Counter
    <3> HIDE DEF k
    <3>4. sent + Cardinality(ChargedRequests) <= Admitted(quota[k].n) + Cardinality(Workers)
      BY <3>2 DEF SentOrCharged
    <3>5. Cardinality(ChargedRequests) \in Nat
      BY Sizes DEF ChargedRequests
    <3> QED BY <3>3, <3>4, <3>5, Workforce, AdmittedType, LimitType, ConstantsOK DEF ConstantsOK
  <2>2. Spec => []TypeOK
    BY TypeCorrect
  <2> QED BY <1>1, <2>1, <2>2, SmsInductive, PTL DEF Spec
<1>2. CASE ~OneMeteredKey
  <2>1. SmsWithinQuota
    BY <1>2 DEF OneMeteredKey, SmsWithinQuota
  <2> QED BY <2>1, PTL
<1> QED BY <1>1, <1>2
-----------------------------------------------------------------------------
(* GuessesBounded.  A wrong code is counted by the INCR that follows it    *)
(* unless its request dies in between; once otp_max_attempts are counted   *)
(* their requests clear the code.  What lets more through is a deletion of *)
(* the count by a request already past the code it is about: each request  *)
(* in flight can do that once, and then it is not guessing itself.         *)

Of(p, pcs) == {w \in Workers : req[w].phone = p /\ req[w].pc \in pcs}
Uncounted == {"try", "reset", "clear"} \cup (IF MaxAttempts = 1 THEN {"try_ttl"} ELSE {})
Burning == {"clear", "try"} \cup (IF MaxAttempts = 1 THEN {"try_ttl"} ELSE {})
Resetting == {"reset", "clear_attempts"}

More == MaxAttempts - 1
Tallied(p) == IF attempts[p].n < More THEN attempts[p].n ELSE More
Spared(p) == More * (Cardinality(Workers) - Cardinality(Of(p, Resetting)) - 1)
Allowed(p) == Cardinality(Of(p, Burning)) + Tallied(p) + Spared(p)
CodeGuesses(p) ==
    /\ guesses[p] <= Cardinality(Workers) * MaxAttempts
    /\ code[p] => guesses[p] = 0 \/ guesses[p] <= Allowed(p)
GuessesInv == \A p \in Phones : CodeGuesses(p)

LEMMA Products ==
    /\ \A m \in Nat, a, b \in Int : a <= b => m * a <= m * b
    /\ \A m \in Nat, a \in Int : m * a \in Int /\ m * (a + 1) = m * a + m
    /\ \A m, a \in Nat : m * a \in Nat
OBVIOUS

LEMMA OfStep ==
    ASSUME TypeOK, NEW w \in Workers, NEW r \in Request, Wrote(w, r), NEW p, NEW pcs
    PROVE  /\ Of(p, pcs) \subseteq Workers /\ Of(p, pcs)' \subseteq Workers
           /\ Of(p, pcs) \ {w} = Of(p, pcs)' \ {w}
           /\ w \in Of(p, pcs) <=> req[w].phone = p /\ req[w].pc \in pcs
           /\ w \in Of(p, pcs)' <=> r.phone = p /\ r.pc \in pcs
<1>1. req'[w] = r /\ \A v \in Workers \ {w} : req'[v] = req[v]
  BY DEF TypeOK, Wrote
<1> QED BY <1>1 DEF Of

LEMMA GuessTypes ==
    ASSUME TypeOK, NEW p \in Phones
    PROVE  /\ MaxAttempts \in Nat /\ More \in Nat /\ MaxAttempts = More + 1
           /\ attempts[p].n \in Nat /\ guesses[p] \in Nat
           /\ Tallied(p) \in Nat /\ Tallied(p) <= More
           /\ Cardinality(Of(p, Burning)) \in Nat
           /\ Cardinality(Of(p, Resetting)) \in Nat
           /\ Spared(p) \in Int
<1>1. MaxAttempts \in Nat /\ More \in Nat /\ MaxAttempts = More + 1
  BY ConstantsOK DEF ConstantsOK, More
<1>2. attempts[p].n \in Nat /\ guesses[p] \in Nat
  BY DEF TypeOK, Counter
<1>3. Of(p, Burning) \subseteq Workers /\ Of(p, Resetting) \subseteq Workers
  BY DEF Of
<1>4. Cardinality(Of(p, Burning)) \in Nat /\ Cardinality(Of(p, Resetting)) \in Nat
  BY <1>3, Sizes
<1>5. Tallied(p) \in Nat /\ Tallied(p) <= More
  BY <1>1, <1>2 DEF Tallied
<1>6. Spared(p) \in Int
  BY <1>1, <1>4, Workforce, Products DEF Spared
<1> QED BY <1>1, <1>2, <1>4, <1>5, <1>6

(* Fewer resetting, more spared.                                           *)
LEMMA SparedStep ==
    ASSUME TypeOK, TypeOK', NEW p \in Phones
    PROVE  /\ Cardinality(Of(p, Resetting)') <= Cardinality(Of(p, Resetting))
                 => Spared(p) <= Spared(p)'
           /\ Cardinality(Of(p, Resetting)') = Cardinality(Of(p, Resetting)) - 1
                 => Spared(p)' = Spared(p) + More
<1> DEFINE W == Cardinality(Workers)
           a == Cardinality(Of(p, Resetting))
           b == Cardinality(Of(p, Resetting)')
<1>1. W \in Nat /\ a \in Nat /\ b \in Nat /\ More \in Nat
  <2>1. Of(p, Resetting)' \subseteq Workers
    BY DEF Of
  <2>2. b \in Nat
    BY <2>1, Sizes
  <2> QED BY <2>2, GuessTypes, Workforce
<1>2. Spared(p) = More * (W - a - 1) /\ Spared(p)' = More * (W - b - 1)
  BY DEF Spared, More
<1> HIDE DEF W, a, b
<1>3. b <= a => More * (W - a - 1) <= More * (W - b - 1)
  <2>1. b <= a => W - a - 1 <= W - b - 1
    BY <1>1
  <2> QED BY <1>1, <2>1, Products
<1>4. b = a - 1 => More * (W - b - 1) = More * (W - a - 1) + More
  <2>1. b = a - 1 => W - b - 1 = (W - a - 1) + 1
    BY <1>1
  <2> QED BY <1>1, <2>1, Products
<1> QED BY <1>2, <1>3, <1>4 DEF a, b

(* A step that leaves number p's count alone, takes no request from those  *)
(* that will count or burn, and adds none to those that will reset.        *)
LEMMA GuessesKept ==
    ASSUME TypeOK, TypeOK', NEW p \in Phones, CodeGuesses(p),
           NEW w \in Workers, NEW r \in Request, Wrote(w, r),
           guesses'[p] = guesses[p], code'[p] => code[p],
           attempts'[p].n = attempts[p].n,
           req[w].phone = p /\ req[w].pc \in Burning => r.phone = p /\ r.pc \in Burning,
           r.phone = p /\ r.pc \in Resetting => req[w].phone = p /\ req[w].pc \in Resetting
    PROVE  CodeGuesses(p)'
<1>1. Cardinality(Of(p, Burning)) <= Cardinality(Of(p, Burning)')
  BY OfStep, OneMoves
<1>2. Cardinality(Of(p, Resetting)') <= Cardinality(Of(p, Resetting))
  BY OfStep, OneMoves
<1>3. Spared(p) <= Spared(p)'
  BY <1>2, SparedStep
<1>4. Tallied(p)' = Tallied(p)
  BY DEF Tallied, More
<1>5. /\ Cardinality(Of(p, Burning)) \in Nat /\ Cardinality(Of(p, Burning)') \in Nat
      /\ Tallied(p) \in Nat /\ Spared(p) \in Int /\ Spared(p)' \in Int
  <2>1. Spared(p)' \in Int
    BY GuessTypes, OneMoves, OfStep, Workforce, Products DEF Spared, More
  <2> QED BY <2>1, GuessTypes, OneMoves, OfStep
<1>6. Allowed(p)' = Cardinality(Of(p, Burning)') + Tallied(p)' + Spared(p)'
  BY DEF Allowed, Burning
<1>7. guesses[p] \in Nat
  BY GuessTypes
<1>8. Allowed(p) <= Allowed(p)' /\ Allowed(p) \in Int /\ Allowed(p)' \in Int
  BY <1>1, <1>3, <1>4, <1>5, <1>6 DEF Allowed
<1> QED BY <1>7, <1>8 DEF CodeGuesses
(* Deleting the count leaves the code max_attempts - 1 more guesses, the   *)
(* share of the request that did it.                                       *)
LEMMA GuessesAfterReset ==
    ASSUME TypeOK, TypeOK', NEW p \in Phones, CodeGuesses(p),
           NEW w \in Workers, ResetAttempts(w) \/ ClearAttempts(w), req[w].phone = p
    PROVE  CodeGuesses(p)'
<1>0. req[w] \in Request /\ attempts \in [Phones -> Counter]
  BY DEF TypeOK
<1>1. PICK r \in Request : Wrote(w, r) /\ r.pc \in {"cool", "idle"}
  BY <1>0, DoneType DEF ResetAttempts, ClearAttempts, Wrote, Request, Commands
<1>2. req[w].pc \in Resetting
  BY DEF ResetAttempts, ClearAttempts, Resetting
<1>3. r.pc \notin Resetting /\ r.pc \notin Burning /\ req[w].pc \notin Burning
  BY <1>1, <1>2 DEF Resetting, Burning
<1>4. Cardinality(Of(p, Resetting)') = Cardinality(Of(p, Resetting)) - 1
  BY <1>1, <1>2, <1>3, OfStep, OneMoves
<1>5. Cardinality(Of(p, Burning)') = Cardinality(Of(p, Burning))
  BY <1>1, <1>3, OfStep, OneMoves
<1>6. Spared(p)' = Spared(p) + More
  BY <1>4, SparedStep
<1>7. attempts'[p].n = 0 /\ UNCHANGED <<guesses, code>>
  BY <1>0, CounterTypes DEF ResetAttempts, ClearAttempts
<1>8. Tallied(p)' = 0
  BY <1>7, GuessTypes DEF Tallied, More
<1>9. Allowed(p)' = Cardinality(Of(p, Burning)') + Tallied(p)' + Spared(p)'
  BY DEF Allowed, Burning
<1>10. Allowed(p) <= Allowed(p)' /\ Allowed(p) \in Int /\ Allowed(p)' \in Int
  BY <1>5, <1>6, <1>8, <1>9, GuessTypes DEF Allowed
<1>11. guesses[p] \in Nat
  BY GuessTypes
<1> QED BY <1>7, <1>10, <1>11 DEF CodeGuesses

(* A wrong code comes from a request that is not resetting: what is        *)
(* allowed by then is within max_attempts for every request.               *)
LEMMA GuessesAfterWrong ==
    ASSUME TypeOK, TypeOK', NEW p \in Phones, CodeGuesses(p),
           NEW w \in Workers, PresentWrong(w, p)
    PROVE  CodeGuesses(p)'
<1> DEFINE r == Start("try", p)  W == Cardinality(Workers)
           b == Cardinality(Of(p, Burning))    b1 == Cardinality(Of(p, Burning)')
           c == Cardinality(Of(p, Resetting))  c1 == Cardinality(Of(p, Resetting)')
<1>0. guesses \in [Phones -> Nat]
  BY DEF TypeOK
<1>1. r \in Request /\ r.pc = "try" /\ r.phone = p /\ Wrote(w, r)
  BY StartType DEF PresentWrong, Wrote
<1>2. /\ r.pc \in Burning /\ r.pc \notin Resetting
      /\ req[w].pc \notin Burning /\ req[w].pc \notin Resetting
  BY <1>1 DEF PresentWrong, Burning, Resetting
<1>3. b1 = b + 1 /\ c1 = c
  BY <1>1, <1>2, OfStep, OneMoves
<1>4. guesses'[p] = guesses[p] + 1 /\ code[p] /\ code'[p] /\ attempts'[p] = attempts[p]
  BY <1>0 DEF PresentWrong
<1>5. Tallied(p)' = Tallied(p)
  BY <1>4 DEF Tallied, More
<1>6. Spared(p)' = Spared(p)
  <2>1. Spared(p)' = More * (W - c1 - 1) /\ Spared(p) = More * (W - c - 1)
    BY DEF Spared, More
  <2> QED BY <1>3, <2>1
<1>7. Allowed(p)' = b1 + Tallied(p) + Spared(p)
  <2>1. Allowed(p)' = b1 + Tallied(p)' + Spared(p)'
    BY DEF Allowed, Burning
  <2> QED BY <1>5, <1>6, <2>1
<1>8. b1 + c <= W /\ b1 >= 1 /\ c + 1 <= W
  <2> DEFINE B == Of(p, Burning)'  C == Of(p, Resetting)'
  <2>1. B \subseteq Workers /\ C \subseteq Workers /\ IsFiniteSet(B) /\ IsFiniteSet(C)
    <3>1. B \subseteq Workers /\ C \subseteq Workers
      BY DEF Of
    <3> QED BY <3>1, Sizes
  <2>2. B \cap C = {}
    BY DEF Of, Burning, Resetting
  <2>3. Cardinality(B \cup C) = b1 + c1 /\ b1 \in Nat /\ c1 \in Nat
    <3>1. b1 = Cardinality(B) /\ c1 = Cardinality(C)
      OBVIOUS
    <3> HIDE DEF B, C, b1, c1
    <3>2. Cardinality(B) \in Nat /\ Cardinality(C) \in Nat
      BY <2>1, FS_CardinalityType
    <3>3. Cardinality(B \cup C) = Cardinality(B) + Cardinality(C) - Cardinality(B \cap C)
      BY <2>1, FS_Union
    <3>4. Cardinality(B \cap C) = 0
      BY <2>2, FS_EmptySet
    <3> QED BY <3>1, <3>2, <3>3, <3>4
  <2>4. Cardinality(B \cup C) <= W
    <3>1. B \cup C \subseteq Workers
      BY <2>1
    <3> HIDE DEF B, C
    <3> QED BY <3>1, Sizes
  <2>5. b \in Nat
    BY GuessTypes
  <2> QED BY <1>3, <2>3, <2>4, <2>5, Workforce
<1>9. Spared(p) = More * (W - c - 1) /\ Spared(p) >= 0
      /\ Spared(p) + More + (W - c) <= W * MaxAttempts
  <2>1. W \in Nat /\ c \in Nat /\ More \in Nat /\ MaxAttempts = More + 1
    BY GuessTypes, Workforce
  <2>2. Spared(p) = More * (W - c - 1)
    BY DEF Spared
  <2> HIDE DEF W, c
  <2>3. W - c - 1 \in Nat
    BY <1>8, <2>1
  <2>4. More * (W - c - 1) \in Nat
    BY <2>1, <2>3, Products
  <2>5. More * ((W - c - 1) + 1) = More * (W - c - 1) + More
    BY <2>1, <2>3, Products
  <2>6. (W - c - 1) + 1 = W - c /\ W - c <= W
    BY <2>1
  <2>7. More * (W - c) = More * (W - c - 1) + More
    BY <2>5, <2>6
  <2>8. More * (W - c) <= More * W /\ More * W \in Int /\ More * (W - c) \in Int
    BY <2>1, <2>6, Products
  <2>9. W * MaxAttempts = More * W + W
    BY <2>1
  <2>10. More * (W - c - 1) + More <= More * W
    BY <2>7, <2>8
  <2> QED BY <2>1, <2>2, <2>4, <2>6, <2>8, <2>9, <2>10
<1> HIDE DEF r, W, b, b1, c, c1
<1>10. guesses[p] + 1 <= b1 + Tallied(p) + Spared(p)
  <2>0. /\ guesses[p] \in Nat /\ Tallied(p) \in Nat /\ Spared(p) \in Int
        /\ b \in Nat /\ b1 \in Int
    BY <1>3, GuessTypes DEF b
  <2>1. CASE guesses[p] = 0
    BY <1>8, <1>9, <2>0, <2>1
  <2>2. CASE guesses[p] <= Allowed(p)
    BY <1>3, <2>0, <2>2 DEF Allowed, b
  <2> QED BY <1>4, <2>1, <2>2 DEF CodeGuesses
<1>11. guesses[p] + 1 <= W * MaxAttempts
  <2>0. /\ guesses[p] \in Nat /\ Tallied(p) \in Nat /\ Spared(p) \in Int
        /\ b \in Nat /\ b1 \in Int /\ Tallied(p) <= More /\ More \in Nat
        /\ W \in Nat /\ c \in Nat /\ W * MaxAttempts \in Int
    <3>1. \A x, y \in Nat : x * y \in Int
      OBVIOUS
    <3> QED BY <1>3, <3>1, GuessTypes, Workforce DEF b, W, c
  <2>1. b1 <= W - c
    BY <1>3, <1>8, <2>0
  <2> QED BY <1>9, <1>10, <2>0, <2>1
<1> QED BY <1>4, <1>7, <1>10, <1>11 DEF CodeGuesses, W

(* Counting a guess: it is tallied, or its request goes on to burn.        *)
LEMMA GuessesAfterTry ==
    ASSUME TypeOK, TypeOK', NEW p \in Phones, CodeGuesses(p),
           NEW w \in Workers, IncrAttempts(w), req[w].phone = p
    PROVE  CodeGuesses(p)'
<1> DEFINE n == attempts[p].n + 1
           e == [req[w] EXCEPT !.pc = "try_ttl"]
           r == IF NeedsExpire(n) THEN e ELSE Tried(req[w], n)
<1>0. /\ req[w] \in Request /\ req[w].pc = "try" /\ attempts \in [Phones -> Counter]
      /\ attempts[p].n \in Nat /\ n \in Nat
  BY DEF TypeOK, IncrAttempts, Counter
<1>1. e \in Request /\ e.pc = "try_ttl" /\ e.phone = p
  BY <1>0 DEF Request, Commands
<1>2. Wrote(w, r) /\ r \in Request /\ r.pc \in {"try_ttl", "clear", "idle"}
  BY <1>0, <1>1, TriedType DEF IncrAttempts, Wrote
<1>3. n >= MaxAttempts => r.phone = p /\ r.pc \in Burning
  <2> SUFFICES ASSUME n >= MaxAttempts PROVE r.phone = p /\ r.pc \in Burning
      OBVIOUS
  <2>1. CASE NeedsExpire(n)
    <3>1. MaxAttempts = 1
      BY <1>0, <2>1, GuessTypes DEF NeedsExpire
    <3> QED BY <1>1, <2>1, <3>1 DEF Burning
  <2>2. CASE ~NeedsExpire(n)
    <3>1. r = [req[w] EXCEPT !.pc = "clear"]
      BY <2>2 DEF Tried, Burns
    <3>2. r.pc = "clear" /\ r.phone = p
      BY <1>0, <3>1 DEF Request, Commands
    <3> QED BY <3>2 DEF Burning
  <2> QED BY <2>1, <2>2
<1>4. UNCHANGED <<guesses, code>> /\ attempts'[p].n = n
  BY <1>0, CounterTypes DEF IncrAttempts
<1> HIDE DEF e
<1> HIDE DEF r
<1>5. /\ r.pc \notin Resetting /\ req[w].pc \notin Resetting /\ req[w].pc \in Burning
  BY <1>0, <1>2 DEF Resetting, Burning
<1>6. /\ Cardinality(Of(p, Resetting)') = Cardinality(Of(p, Resetting))
      /\ Cardinality(Of(p, Burning)') \in Nat
      /\ r.phone = p /\ r.pc \in Burning =>
           Cardinality(Of(p, Burning)') = Cardinality(Of(p, Burning))
      /\ Cardinality(Of(p, Burning)') >= Cardinality(Of(p, Burning)) - 1
  BY <1>2, <1>5, OfStep, OneMoves
<1>7. Spared(p)' = Spared(p)
  BY <1>6 DEF Spared, More
<1>8. /\ n >= MaxAttempts => Tallied(p)' = More /\ Tallied(p) <= More
      /\ ~(n >= MaxAttempts) => Tallied(p)' = Tallied(p) + 1
  BY <1>0, <1>4, GuessTypes DEF Tallied, More
<1>9. Allowed(p)' = Cardinality(Of(p, Burning)') + Tallied(p)' + Spared(p)'
  BY DEF Allowed, Burning
<1>10. Allowed(p) <= Allowed(p)' /\ Allowed(p) \in Int /\ Allowed(p)' \in Int
  <2> HIDE DEF n
  <2>1. CASE n >= MaxAttempts
    BY <1>3, <1>6, <1>7, <1>8, <1>9, <2>1, GuessTypes DEF Allowed
  <2>2. CASE ~(n >= MaxAttempts)
    BY <1>6, <1>7, <1>8, <1>9, <2>2, GuessTypes DEF Allowed
  <2> QED BY <2>1, <2>2
<1>11. guesses[p] \in Nat
  BY GuessTypes
<1> QED BY <1>4, <1>10, <1>11 DEF CodeGuesses

(* A code nobody has guessed at.                                           *)
LEMMA NoGuesses ==
    ASSUME NEW p \in Phones, guesses'[p] = 0
    PROVE  CodeGuesses(p)'
<1>1. \A x, y \in Nat : 0 <= x * y
  OBVIOUS
<1>2. 0 <= Cardinality(Workers) * MaxAttempts
  BY <1>1, Workforce, ConstantsOK DEF ConstantsOK
<1> QED BY <1>2 DEF CodeGuesses

LEMMA GuessesAfterRequest ==
    ASSUME DiesAt \cap Uncounted = {}, TypeOK, TypeOK', NEW p \in Phones, CodeGuesses(p),
           NEW w \in Workers, Receive(w) \/ Proceed(w) \/ Crash(w)
    PROVE  CodeGuesses(p)'
<1> DEFINE q == req[w].phone
<1>0. /\ req[w] \in Request /\ q \in Phones /\ attempts \in [Phones -> Counter]
      /\ guesses \in [Phones -> Nat] /\ code \in [Phones -> BOOLEAN]
  BY DEF TypeOK, Request, Commands
<1>1. ASSUME NEW pc \in Commands
      PROVE  /\ [req[w] EXCEPT !.pc = pc] \in Request
             /\ [req[w] EXCEPT !.pc = pc].pc = pc /\ [req[w] EXCEPT !.pc = pc].phone = q
  BY <1>0 DEF Request, Commands
<1>2. CASE Receive(w)
  <2>1. PICK x \in Phones : Ask(w, x) \/ PresentRight(w, x) \/ PresentWrong(w, x)
    BY <1>2 DEF Receive
  <2>2. CASE PresentWrong(w, p)
    BY <2>2, GuessesAfterWrong
  <2>3. CASE ~PresentWrong(w, p)
    <3>1. PICK r \in {Start("incr", x), Start("clear", x), Start("try", x)} : Wrote(w, r)
      BY <2>1 DEF Ask, PresentRight, PresentWrong, Wrote
    <3>2. r \in Request /\ r.pc \notin Resetting
      BY <3>1, StartType DEF Resetting
    <3>3. req[w].pc \notin Burning
      BY <2>1 DEF Ask, PresentRight, PresentWrong, Burning
    <3>4. guesses'[p] = guesses[p] /\ UNCHANGED <<code, attempts>>
      BY <1>0, <2>1, <2>3 DEF Ask, PresentRight, PresentWrong
    <3> QED BY <3>1, <3>2, <3>3, <3>4, GuessesKept
  <2> QED BY <2>2, <2>3
<1>3. CASE IncrQuota(w) \/ ExpireQuota(w) \/ StartCooldown(w) \/ Send(w)
  <2>1. PICK r \in Request : Wrote(w, r) /\ r.pc \notin Resetting
    <3>1. CASE IncrQuota(w)
      <4> DEFINE n == quota[Key(req[w].scope, q)].n + 1
      <4>1. n \in Nat
        BY <1>0, KeyType DEF TypeOK, Counter, Request
      <4>2. Counted(req[w], n) \in Request /\ Counted(req[w], n).pc \in {"idle", "incr", "set"}
        BY <1>0, <3>1, <4>1, CountedType DEF IncrQuota
      <4>3. Wrote(w, [req[w] EXCEPT !.pc = "expire"]) \/ Wrote(w, Counted(req[w], n))
        BY <3>1 DEF IncrQuota, Wrote
      <4> HIDE DEF n
      <4> QED BY <1>1, <4>2, <4>3 DEF Commands, Resetting
    <3>2. CASE ExpireQuota(w)
      <4> DEFINE i == [req[w] EXCEPT !.pc = "incr"]
      <4>1. i \in Request /\ i.pc = "incr"
        BY <1>1 DEF Commands
      <4>2. Wrote(w, Counted(i, 1))
        BY <3>2 DEF ExpireQuota, Wrote
      <4> HIDE DEF i
      <4> QED BY <4>1, <4>2, CountedType DEF Resetting
    <3>3. CASE StartCooldown(w) \/ Send(w)
      <4>1. Wrote(w, [req[w] EXCEPT !.pc = "send"]) \/ Wrote(w, Done)
        BY <3>3 DEF StartCooldown, Send, Wrote
      <4> QED BY <1>1, <4>1, DoneType DEF Commands, Resetting
    <3> QED BY <1>3, <3>1, <3>2, <3>3
  <2>2. req[w].pc \notin Burning /\ UNCHANGED <<code, attempts, guesses>>
    BY <1>3 DEF IncrQuota, ExpireQuota, StartCooldown, Send, Burning
  <2> QED BY <2>1, <2>2, GuessesKept
<1>4. CASE SetCode(w)
  <2>1. CASE q = p
    <3>1. guesses'[p] = 0
      BY <1>0, <1>4, <2>1 DEF SetCode
    <3> QED BY <3>1, NoGuesses
  <2>2. CASE q # p
    <3>1. /\ Wrote(w, [req[w] EXCEPT !.pc = "reset"]) /\ UNCHANGED attempts
          /\ guesses'[p] = guesses[p] /\ code'[p] = code[p] /\ req[w].pc \notin Burning
      BY <1>0, <1>4, <2>2 DEF SetCode, Wrote, Burning
    <3>2. [req[w] EXCEPT !.pc = "reset"] \in Request /\ [req[w] EXCEPT !.pc = "reset"].phone = q
      BY <1>1 DEF Commands
    <3> QED BY <2>2, <3>1, <3>2, GuessesKept
  <2> QED BY <2>1, <2>2
<1>5. CASE ResetAttempts(w) \/ ClearAttempts(w)
  <2>1. CASE q = p
    BY <1>5, <2>1, GuessesAfterReset
  <2>2. CASE q # p
    <3>1. PICK r \in Request : Wrote(w, r) /\ r.pc \notin Resetting
      <4>1. Wrote(w, [req[w] EXCEPT !.pc = "cool"]) \/ Wrote(w, Done)
        BY <1>5 DEF ResetAttempts, ClearAttempts, Wrote
      <4> QED BY <1>1, <4>1, DoneType DEF Commands, Resetting
    <3>2. attempts'[p] = attempts[p] /\ UNCHANGED <<guesses, code>> /\ req[w].pc \notin Burning
      BY <1>0, <1>5, <2>2 DEF ResetAttempts, ClearAttempts, Burning
    <3> QED BY <3>1, <3>2, GuessesKept
  <2> QED BY <2>1, <2>2
<1>6. CASE IncrAttempts(w)
  <2>1. CASE q = p
    BY <1>6, <2>1, GuessesAfterTry
  <2>2. CASE q # p
    <3>1. PICK r \in Request : Wrote(w, r) /\ r.pc \notin Resetting
      <4> DEFINE n == attempts[q].n + 1
      <4>1. n \in Nat
        BY <1>0 DEF Counter
      <4>2. Wrote(w, [req[w] EXCEPT !.pc = "try_ttl"]) \/ Wrote(w, Tried(req[w], n))
        BY <1>6 DEF IncrAttempts, Wrote
      <4> HIDE DEF n
      <4> QED BY <1>0, <1>1, <4>1, <4>2, TriedType DEF Commands, Resetting
    <3>2. attempts'[p] = attempts[p] /\ UNCHANGED <<guesses, code>>
      BY <1>0, <1>6, <2>2 DEF IncrAttempts
    <3> QED BY <2>2, <3>1, <3>2, GuessesKept
  <2> QED BY <2>1, <2>2
<1>7. CASE ExpireAttempts(w)
  <2> DEFINE r == Tried(req[w], 1)
  <2>1. Wrote(w, r) /\ r \in Request /\ r.pc \notin Resetting
    BY <1>0, <1>7, TriedType DEF ExpireAttempts, Wrote, Resetting
  <2>2. attempts'[p].n = attempts[p].n /\ UNCHANGED <<guesses, code>>
    BY <1>0, <1>7, CounterTypes, WindowType DEF ExpireAttempts
  <2>3. req[w].pc \in Burning => r.phone = q /\ r.pc \in Burning
    <3> SUFFICES ASSUME req[w].pc \in Burning PROVE r.phone = q /\ r.pc \in Burning
        OBVIOUS
    <3>1. MaxAttempts = 1
      BY <1>7 DEF ExpireAttempts, Burning
    <3>2. r = [req[w] EXCEPT !.pc = "clear"]
      BY <3>1 DEF Tried, Burns
    <3> QED BY <1>1, <3>2 DEF Commands, Burning
  <2> HIDE DEF r
  <2> QED BY <2>1, <2>2, <2>3, GuessesKept
<1>8. CASE ClearCode(w)
  <2>1. CASE q = p
    <3>1. guesses'[p] = 0 /\ ~code'[p]
      BY <1>0, <1>8, <2>1 DEF ClearCode
    <3> QED BY <3>1, NoGuesses
  <2>2. CASE q # p
    <3>1. /\ Wrote(w, [req[w] EXCEPT !.pc = "clear_attempts"])
          /\ code'[p] = code[p] /\ guesses'[p] = guesses[p] /\ UNCHANGED attempts
      BY <1>0, <1>8, <2>2 DEF ClearCode, Wrote
    <3>2. /\ [req[w] EXCEPT !.pc = "clear_attempts"] \in Request
          /\ [req[w] EXCEPT !.pc = "clear_attempts"].phone = q
      BY <1>1 DEF Commands
    <3> QED BY <2>2, <3>1, <3>2, GuessesKept
  <2> QED BY <2>1, <2>2
<1>9. CASE Crash(w)
  <2>1. Wrote(w, Done) /\ UNCHANGED <<guesses, attempts, code>> /\ req[w].pc \notin Burning
    BY <1>9 DEF Crash, Wrote, Burning, Uncounted
  <2> QED BY <2>1, DoneType, GuessesKept DEF Resetting
<1> QED BY <1>2, <1>3, <1>4, <1>5, <1>6, <1>7, <1>8, <1>9 DEF Proceed

(* A count outlives its code, as long as save_otp does not die before it   *)
(* deletes the old one.                                                    *)
LEMMA GuessesAfterTime ==
    ASSUME DiesAt \cap Uncounted = {}, TypeOK, NEW p \in Phones, CodeGuesses(p), TimePasses
    PROVE  CodeGuesses(p)'
<1>0. /\ UNCHANGED req /\ code \in [Phones -> BOOLEAN]
      /\ guesses \in [Phones -> Nat] /\ attempts \in [Phones -> Counter]
  BY DEF TypeOK, TimePasses, CodeExpires, AttemptsExpire, CooldownExpires, QuotaAges,
     QuotaExpires
<1>1. \/ ~code'[p] /\ guesses'[p] \in {0, guesses[p]}
      \/ UNCHANGED <<code[p], attempts[p], guesses[p]>>
  BY <1>0 DEF TimePasses, CodeExpires, AttemptsExpire, CooldownExpires, QuotaAges,
     QuotaExpires, Uncounted
<1>2. CASE ~code'[p] /\ guesses'[p] \in {0, guesses[p]}
  BY <1>2, NoGuesses DEF CodeGuesses
<1>3. CASE UNCHANGED <<code[p], attempts[p], guesses[p]>>
  <2>1. Allowed(p)' = Allowed(p)
    BY <1>0, <1>3 DEF Allowed, Burning, Tallied, Spared, More, Of, Resetting
  <2> QED BY <1>0, <1>3, <2>1 DEF CodeGuesses
<1> QED BY <1>1, <1>2, <1>3

(* As long as no request dies between comparing a code and having counted  *)
(* or cleared it, nor a save_otp between its code and its reset, the wrong *)
(* codes compared with one code stay within otp_max_attempts for every     *)
(* request that can be in flight: for any number of them, however their    *)
(* commands and the expiries interleave.                                   *)
THEOREM GuessesWithinAttempts ==
    DiesAt \cap Uncounted = {} => (Spec => []GuessesBounded)
<1> SUFFICES ASSUME DiesAt \cap Uncounted = {} PROVE Spec => []GuessesBounded
    OBVIOUS
<1>1. Init => GuessesInv
  <2>1. \A x, y \in Nat : 0 <= x * y
    OBVIOUS
  <2>2. 0 <= Cardinality(Workers) * MaxAttempts
    BY <2>1, Workforce, ConstantsOK DEF ConstantsOK
  <2> QED BY <2>2 DEF Init, GuessesInv, CodeGuesses
<1>2. TypeOK /\ TypeOK' /\ GuessesInv /\ [Next]_vars => GuessesInv'
  <2> SUFFICES ASSUME TypeOK, TypeOK', GuessesInv, [Next]_vars, NEW p \in Phones
               PROVE  CodeGuesses(p)'
      BY DEF GuessesInv
  <2>1. CodeGuesses(p)
    BY DEF GuessesInv
  <2>2. CASE UNCHANGED vars
    BY <2>1, <2>2 DEF vars, CodeGuesses, Allowed, Tallied, Spared, More, Of, Burning, Resetting
  <2>3. CASE Next
    BY <2>1, <2>3, GuessesAfterRequest, GuessesAfterTime DEF Next
  <2> QED BY <2>2, <2>3
<1>3. GuessesInv => GuessesBounded
  BY DEF GuessesInv, CodeGuesses, GuessesBounded
<1>4. Spec => []TypeOK
  BY TypeCorrect
<1> QED BY <1>1, <1>2, <1>3, <1>4, PTL DEF Spec
-----------------------------------------------------------------------------
(* The window of a quota does not slide.  A request about to set an expiry *)
(* is the only one for its key, and the key has none yet.                  *)

PendingExpiry(k) ==
    /\ quota[k].n = 0 => quota[k].ttl = 0
    /\ \A v \in Workers : WillSet(v, k) =>
         quota[k].n > 0 /\ quota[k].ttl = 0 /\ \A u \in Workers : WillSet(u, k) => u = v
WindowKept(k) == quota[k].ttl > 0 => quota'[k].ttl <= quota[k].ttl

(* A step of one request that sets out to expire nothing, on a key it only *)
(* counts on or leaves alone.                                              *)
LEMMA PendingKept ==
    ASSUME TypeOK, NEW k \in Keys, PendingExpiry(k),
           NEW w \in Workers, NEW r \in Request, Wrote(w, r),
           ~(r.pc = "expire" /\ k = Key(r.scope, r.phone)),
           quota'[k].ttl = quota[k].ttl, quota'[k].n \in Nat,
           quota'[k].n >= quota[k].n
    PROVE  PendingExpiry(k)' /\ WindowKept(k)
<1>0. quota[k].n \in Nat /\ quota[k].ttl \in Nat /\ req \in [Workers -> Request]
  BY DEF TypeOK, Counter
<1>1. ~WillSet(w, k)'
  BY <1>0 DEF WillSet, Wrote
<1>2. \A v \in Workers : WillSet(v, k)' => WillSet(v, k)
  BY <1>1, OthersKeepGoing DEF WillSet
<1>3. WindowKept(k)
  BY <1>0 DEF WindowKept
<1>4. quota'[k].n = 0 => quota'[k].ttl = 0
  BY <1>0 DEF PendingExpiry
<1>5. ASSUME NEW v \in Workers, WillSet(v, k)'
      PROVE  quota'[k].n > 0 /\ quota'[k].ttl = 0
             /\ \A u \in Workers : WillSet(u, k)' => u = v
  BY <1>0, <1>2, <1>5 DEF PendingExpiry
<1> QED BY <1>3, <1>4, <1>5 DEF PendingExpiry

LEMMA PendingAfterIncr ==
    ASSUME TypeOK, NEW w \in Workers, IncrQuota(w), NEW k \in Keys, PendingExpiry(k)
    PROVE  PendingExpiry(k)' /\ WindowKept(k)
<1> DEFINE s == req[w].scope  kw == Key(s, req[w].phone)
           n == quota[kw].n
           e == [req[w] EXCEPT !.pc = "expire"]
           r == IF NeedsExpire(n + 1) THEN e ELSE Counted(req[w], n + 1)
<1>0. /\ req[w] \in Request /\ req[w].pc = "incr" /\ s \in Scopes /\ kw \in Keys
      /\ quota \in [Keys -> Counter] /\ quota[kw] \in Counter /\ req \in [Workers -> Request]
      /\ quota' = [quota EXCEPT ![kw] = CountOn(s, @)]
  BY KeyType DEF IncrQuota, TypeOK, Request
<1>1. n \in Nat
  BY <1>0 DEF Counter
<1>2. e \in Request /\ e.pc = "expire" /\ e.scope = s /\ e.phone = req[w].phone
  BY <1>0 DEF Request, Commands
<1>3. Counted(req[w], n + 1) \in Request /\ Counted(req[w], n + 1).pc # "expire"
  BY <1>0, <1>1, CountedType
<1>4. Wrote(w, r) /\ r \in Request
  BY <1>2, <1>3 DEF IncrQuota, Wrote
<1>5. r.pc = "expire" => r = e /\ n = 0
  BY <1>1, <1>3 DEF NeedsExpire
<1> HIDE DEF e, r, n
<1>6. CASE k # kw
  <2>1. quota'[k] = quota[k] /\ quota[k] \in Counter
    BY <1>0, <1>6
  <2>2. quota[k].n \in Nat /\ quota[k].ttl \in Nat
    BY <2>1 DEF Counter
  <2> QED BY <1>2, <1>4, <1>5, <1>6, <2>1, <2>2, PendingKept
<1>7. CASE k = kw
  <2>1. /\ quota'[k] = CountOn(s, quota[k]) /\ quota[k] \in Counter
        /\ quota[k].n = n /\ n \in Nat /\ quota[k].ttl \in Nat
    BY <1>0, <1>7 DEF n, Counter
  <2>2. /\ quota'[k].ttl = quota[k].ttl
        /\ quota'[k].n = n + 1 \/ (quota'[k].n = n /\ ~(n < Limit(s) + Slack))
    BY <1>0, <2>1, CounterTypes
  <2>3. CASE r.pc = "expire"
    <3>1. n = 0 /\ \A v \in Workers : ~WillSet(v, k)
      BY <1>5, <2>1, <2>3 DEF PendingExpiry
    <3>2. Limit(s) \in Nat \ {0} /\ Slack \in Nat
      BY <1>0, LimitType, ConstantsOK DEF ConstantsOK
    <3>3. quota'[k].n = 1 /\ quota'[k].ttl = 0
      BY <2>1, <2>2, <3>1, <3>2 DEF PendingExpiry
    <3>4. \A v \in Workers : WillSet(v, k)' => v = w
      BY <1>4, <3>1, OthersKeepGoing DEF WillSet
    <3>5. PendingExpiry(k)'
      BY <3>3, <3>4 DEF PendingExpiry
    <3> QED BY <2>1, <2>2, <3>5 DEF WindowKept
  <2>4. CASE r.pc # "expire"
    BY <1>4, <2>1, <2>2, <2>4, PendingKept
  <2> QED BY <2>3, <2>4
<1> QED BY <1>6, <1>7

LEMMA PendingAfterExpire ==
    ASSUME TypeOK, NEW w \in Workers, ExpireQuota(w), NEW k \in Keys, PendingExpiry(k)
    PROVE  PendingExpiry(k)' /\ WindowKept(k)
<1> DEFINE s == req[w].scope  kw == Key(s, req[w].phone)
           i == [req[w] EXCEPT !.pc = "incr"]
           r == Counted(i, 1)
<1>0. /\ req[w] \in Request /\ req[w].pc = "expire" /\ s \in Scopes /\ kw \in Keys
      /\ quota \in [Keys -> Counter] /\ quota[k] \in Counter
      /\ quota' = [quota EXCEPT ![kw] = Expire(@, Window(s))]
  BY KeyType DEF ExpireQuota, TypeOK, Request, Commands
<1>1. i \in Request /\ i.pc = "incr"
  BY <1>0 DEF Request, Commands
<1>2. Wrote(w, r) /\ r \in Request /\ r.pc # "expire"
  BY <1>1, CountedType DEF ExpireQuota, Wrote
<1>3. quota[k].n \in Nat /\ quota[k].ttl \in Nat
  BY <1>0 DEF Counter
<1> HIDE DEF r
<1>4. CASE k # kw
  BY <1>0, <1>2, <1>3, <1>4, PendingKept
<1>5. CASE k = kw
  <2>1. WillSet(w, k)
    BY <1>0, <1>5 DEF WillSet
  <2>2. quota[k].n > 0 /\ quota[k].ttl = 0 /\ \A v \in Workers : WillSet(v, k) => v = w
    BY <2>1 DEF PendingExpiry
  <2>3. ~WillSet(w, k)'
    BY <1>2 DEF WillSet, Wrote, TypeOK
  <2>4. \A v \in Workers : ~WillSet(v, k)'
    BY <1>2, <2>2, <2>3, OthersKeepGoing DEF WillSet
  <2>5. quota'[k].n = quota[k].n
    <3>1. quota'[k] = Expire(quota[k], Window(s)) /\ Window(s) \in Nat \ {0}
      BY <1>0, <1>5, WindowType
    <3> QED BY <1>0, <3>1, CounterTypes
  <2> QED BY <1>3, <2>2, <2>4, <2>5 DEF PendingExpiry, WindowKept
<1> QED BY <1>4, <1>5

LEMMA PendingAfterRequest ==
    ASSUME TypeOK, NEW w \in Workers, Receive(w) \/ Proceed(w) \/ Crash(w),
           NEW k \in Keys, PendingExpiry(k)
    PROVE  PendingExpiry(k)' /\ WindowKept(k)
<1>1. CASE IncrQuota(w) \/ ExpireQuota(w)
  BY <1>1, PendingAfterIncr, PendingAfterExpire
<1>2. CASE ~IncrQuota(w) /\ ~ExpireQuota(w)
  <2>0. /\ req[w] \in Request /\ req[w].phone \in Phones /\ UNCHANGED quota
        /\ quota[k].n \in Nat /\ quota[k].ttl \in Nat /\ attempts \in [Phones -> Counter]
    <3>1. UNCHANGED quota
      BY <1>2 DEF Receive, Proceed, Crash, Ask, PresentRight, PresentWrong, SetCode,
         ResetAttempts, StartCooldown, Send, IncrAttempts, ExpireAttempts,
         ClearCode, ClearAttempts
    <3> QED BY <3>1 DEF TypeOK, Counter, Request
  <2> DEFINE n == attempts[req[w].phone].n + 1
  <2>1. n \in Nat
    BY <2>0 DEF Counter
  <2>2. \A pc \in Commands : /\ [req[w] EXCEPT !.pc = pc] \in Request
                             /\ [req[w] EXCEPT !.pc = pc].pc = pc
    BY <2>0 DEF Request, Commands
  <2>3. \/ \E p \in Phones : \E pc \in {"incr", "clear", "try"} : Wrote(w, Start(pc, p))
        \/ \E pc \in Commands \ {"expire"} : Wrote(w, [req[w] EXCEPT !.pc = pc])
        \/ Wrote(w, Done) \/ Wrote(w, Tried(req[w], n)) \/ Wrote(w, Tried(req[w], 1))
    BY <1>2 DEF Receive, Proceed, Crash, Ask, PresentRight, PresentWrong, SetCode,
       ResetAttempts, StartCooldown, Send, IncrAttempts, ExpireAttempts,
       ClearCode, ClearAttempts, Wrote, Commands
  <2>4. PICK r \in Request : Wrote(w, r) /\ r.pc # "expire"
    <3> HIDE DEF n
    <3>1. CASE \E p \in Phones : \E pc \in {"incr", "clear", "try"} : Wrote(w, Start(pc, p))
      BY <3>1, StartType
    <3>2. CASE \E pc \in Commands \ {"expire"} : Wrote(w, [req[w] EXCEPT !.pc = pc])
      <4>1. PICK pc \in Commands \ {"expire"} : Wrote(w, [req[w] EXCEPT !.pc = pc])
        BY <3>2
      <4> QED BY <2>2, <4>1
    <3>3. CASE Wrote(w, Done) \/ Wrote(w, Tried(req[w], n)) \/ Wrote(w, Tried(req[w], 1))
      <4>1. /\ Done \in Request /\ Done.pc # "expire"
            /\ Tried(req[w], n) \in Request /\ Tried(req[w], n).pc # "expire"
            /\ Tried(req[w], 1) \in Request /\ Tried(req[w], 1).pc # "expire"
        BY <2>0, <2>1, DoneType, TriedType
      <4> QED BY <3>3, <4>1
    <3> QED BY <2>3, <3>1, <3>2, <3>3
  <2> QED BY <2>0, <2>4, PendingKept
<1> QED BY <1>1, <1>2

LEMMA PendingAfterTime ==
    ASSUME TypeOK, TimePasses, NEW k \in Keys, PendingExpiry(k)
    PROVE  PendingExpiry(k)' /\ WindowKept(k)
<1>0. UNCHANGED req /\ quota \in [Keys -> Counter] /\ quota[k] \in Counter
  BY DEF TypeOK, TimePasses, CodeExpires, AttemptsExpire, CooldownExpires, QuotaAges,
     QuotaExpires
<1>1. quota[k].n \in Nat /\ quota[k].ttl \in Nat
  BY <1>0 DEF Counter
<1>2. \/ quota'[k] = quota[k]
      \/ quota[k].ttl > 0 /\ quota'[k] = Absent
      \/ quota[k].ttl > 1 /\ quota'[k] = Aged(quota[k])
  BY <1>0 DEF TimePasses, CodeExpires, AttemptsExpire, CooldownExpires, QuotaAges,
     QuotaExpires
<1>3. CASE quota'[k] = quota[k]
  BY <1>0, <1>1, <1>3 DEF PendingExpiry, WindowKept, WillSet
<1>4. CASE quota[k].ttl > 0 /\ quota'[k] \in {Absent, Aged(quota[k])} /\ quota'[k].n \in Nat
           /\ quota'[k].ttl <= quota[k].ttl /\ (quota'[k].n = 0 => quota'[k].ttl = 0)
  <2>1. \A v \in Workers : ~WillSet(v, k)'
    BY <1>0, <1>1, <1>4 DEF PendingExpiry, WillSet
  <2> QED BY <1>4, <2>1 DEF PendingExpiry, WindowKept
<1>5. CASE quota[k].ttl > 0 /\ quota'[k] = Absent
  BY <1>1, <1>4, <1>5, CounterTypes
<1>6. CASE quota[k].ttl > 1 /\ quota'[k] = Aged(quota[k])
  <2>1. quota'[k].n = quota[k].n /\ quota'[k].ttl = quota[k].ttl - 1
    BY <1>0, <1>6, CounterTypes
  <2>2. quota[k].n # 0
    BY <1>1, <1>6 DEF PendingExpiry
  <2> QED BY <1>1, <1>4, <1>6, <2>1, <2>2
<1> QED BY <1>2, <1>3, <1>5, <1>6

(* The window of a quota never slides (_RedisStore.incr): once a key has   *)
(* an expiry, no step of any request puts it off, however many count on    *)
(* the key, are refused or die; only time shortens what is left of it.     *)
THEOREM WindowsNeverSlide == Spec => [][\A k \in Keys : WindowKept(k)]_vars
<1> DEFINE Inv == \A k \in Keys : PendingExpiry(k)
<1>1. Init => Inv
  BY CounterTypes, DoneType DEF Init, PendingExpiry, WillSet
<1>2. TypeOK /\ Inv /\ [Next]_vars => Inv' /\ [\A k \in Keys : WindowKept(k)]_vars
  <2> SUFFICES ASSUME TypeOK, Inv, [Next]_vars
               PROVE  Inv' /\ [\A k \in Keys : WindowKept(k)]_vars
      OBVIOUS
  <2>1. CASE UNCHANGED vars
    BY <2>1 DEF vars, PendingExpiry, WillSet
  <2>2. CASE Next
    BY <2>2, PendingAfterRequest, PendingAfterTime DEF Next
  <2> QED BY <2>1, <2>2
<1>3. Spec => []TypeOK
  BY TypeCorrect
<1> QED BY <1>1, <1>2, <1>3, PTL DEF Spec
=============================================================================
