------------------------------ MODULE OtpStore ------------------------------
(***************************************************************************)
(* One-time codes: the Redis keys of app/services/otp_store.py and the     *)
(* requests that read and write them (app/services/auth.py,                *)
(* app/api/v1/auth.py, the phone change of app/api/v1/users.py).           *)
(*                                                                         *)
(* A Redis command is atomic, a handler issues several; the handlers of    *)
(* different processes interleave between any two commands:                *)
(*                                                                         *)
(*   asking:      incr [-> expire] (hour, day, ip) -> set -> reset -> cool *)
(*                -> send                                                  *)
(*   presenting:  right code: clear -> clear_attempts                      *)
(*                wrong code: try [-> try_ttl] [-> clear -> clear_attempts] *)
(*                                                                         *)
(* What an accepted code is then used for is the Claims module's part.     *)
(***************************************************************************)
EXTENDS Naturals, FiniteSets

CONSTANTS
    Workers,       \* requests that can be in flight at once
    Phones,        \* numbers, as their hashes; all on one network
    PerHour,       \* otp_requests_per_hour
    PerDay,        \* otp_requests_per_day
    IpFactor,      \* quota of a network over PerHour: 5 in the code
    MaxAttempts,   \* otp_max_attempts
    HourWindow,    \* what EXPIRE gives the quotas of an hour (number, network)
    DayWindow,     \* ... and of a day, in ticks of the key's own clock
    Slack,         \* bound of the model: a quota is not counted further past its limit
    Metered,       \* the quota whose messages sent counts
    DiesAt         \* the commands before which a request can die

Scopes == {"hour", "day", "ip"}
Commands == {"incr", "expire", "set", "reset", "cool", "send", "try",
             "try_ttl", "clear", "clear_attempts"}

ASSUME ConstantsOK ==
    /\ IsFiniteSet(Workers) /\ IsFiniteSet(Phones) /\ Phones # {}
    /\ PerHour \in Nat \ {0} /\ PerDay \in Nat \ {0} /\ IpFactor \in Nat \ {0}
    /\ MaxAttempts \in Nat \ {0}
    /\ HourWindow \in Nat \ {0} /\ DayWindow \in Nat \ {0}
    /\ Slack \in Nat \ {0}
    /\ Metered \in Scopes
    /\ DiesAt \subseteq Commands

VARIABLES
    code,       \* otp:<phone> exists: a code is live
    attempts,   \* otp:attempts:<phone>
    cooldown,   \* otp:cooldown:<phone> exists
    quota,      \* otp:quota:<window>:<scope>:<ident>
    guesses,    \* wrong codes compared with the number's live code
    sent,       \* codes sent since the Metered key last expired
    req         \* the request each worker is running

vars == <<code, attempts, cooldown, quota, guesses, sent, req>>

-----------------------------------------------------------------------------
(* Keys with a counter.  INCR creates the key without an expiry; until the *)
(* EXPIRE that follows, it lives for ever.                                 *)

Network == "network"
Keys == ({"hour", "day"} \X Phones) \cup {<<"ip", Network>>}
Key(scope, p) == IF scope = "ip" THEN <<"ip", Network>> ELSE <<scope, p>>
Limit(scope) == CASE scope = "hour" -> PerHour
                  [] scope = "day" -> PerDay
                  [] scope = "ip" -> PerHour * IpFactor

Window(scope) == IF scope = "day" THEN DayWindow ELSE HourWindow
CodeWindow == 1     \* OTP_TTL_SECONDS, which the model does not divide

Counter == [n: Nat, ttl: Nat]     \* ttl: ticks left, 0 when no expiry is set
Absent == [n |-> 0, ttl |-> 0]
Incr(c) == [c EXCEPT !.n = @ + 1]
Expire(c, ttl) == IF c.n > 0 THEN [c EXCEPT !.ttl = ttl] ELSE c
Aged(c) == [c EXCEPT !.ttl = @ - 1]

(* A quota is only ever compared with its limit, and with 1: past the      *)
(* limit a higher count makes no difference, and the model stops counting. *)
CountOn(scope, c) == IF c.n < Limit(scope) + Slack THEN Incr(c) ELSE c

(* _RedisStore.incr sets the expiry only when it created the key, so the   *)
(* window does not slide.                                                  *)
NeedsExpireAtZero(n) == n = 0
NeedsExpireAlways(n) == TRUE
NeedsExpire(n) == n = 1

Request ==
    [pc:    Commands \cup {"idle"},
     phone: Phones,
     scope: Scopes]        \* the quota being counted

Start(pc, p) == [pc |-> pc, phone |-> p, scope |-> "hour"]
At(w, pc) == req[w].pc = pc
Become(w, r) == req' = [req EXCEPT ![w] = r]
Go(w, pc) == Become(w, [req[w] EXCEPT !.pc = pc])

(* A finished request keeps nothing: its number is any fixed one.          *)
Done == Start("idle", CHOOSE p \in Phones : TRUE)
Finish(w) == Become(w, Done)

-----------------------------------------------------------------------------
(* Asking for a code: request_otp, and start_phone_change for a number     *)
(* nobody has.  A request the cooldown refuses changes nothing.            *)

Ask(w, p) ==
    /\ At(w, "idle")
    /\ ~cooldown[p]
    /\ Become(w, Start("incr", p))
    /\ UNCHANGED <<code, attempts, cooldown, quota, guesses, sent>>

NextScope(scope) == IF scope = "hour" THEN "day" ELSE "ip"

(* check_request_quota once a counter has been read: 429, the next quota,  *)
(* or on to save_otp.                                                      *)
OverQuotaLate(scope, n) == n > Limit(scope) + 1
OverQuota(scope, n) == n > Limit(scope)
Counted(r, n) ==
    IF OverQuota(r.scope, n) THEN Done
    ELSE IF r.scope = "ip" THEN [r EXCEPT !.pc = "set"]
    ELSE [r EXCEPT !.pc = "incr", !.scope = NextScope(@)]

IncrQuota(w) ==
    LET k == Key(req[w].scope, req[w].phone)
        n == quota[k].n + 1
    IN /\ At(w, "incr")
       /\ quota' = [quota EXCEPT ![k] = CountOn(req[w].scope, @)]
       /\ IF NeedsExpire(n) THEN Go(w, "expire") ELSE Become(w, Counted(req[w], n))
       /\ UNCHANGED <<code, attempts, cooldown, guesses, sent>>

ExpireQuota(w) ==
    LET k == Key(req[w].scope, req[w].phone) IN
    /\ At(w, "expire")
    /\ quota' = [quota EXCEPT ![k] = Expire(@, Window(req[w].scope))]
    /\ Become(w, Counted([req[w] EXCEPT !.pc = "incr"], 1))
    /\ UNCHANGED <<code, attempts, cooldown, guesses, sent>>

(* save_otp: three commands.                                               *)
SetCode(w) ==
    LET p == req[w].phone IN
    /\ At(w, "set")
    /\ code' = [code EXCEPT ![p] = TRUE]
    /\ guesses' = [guesses EXCEPT ![p] = 0]
    /\ Go(w, "reset")
    /\ UNCHANGED <<attempts, cooldown, quota, sent>>

ResetAttempts(w) ==
    /\ At(w, "reset")
    /\ attempts' = [attempts EXCEPT ![req[w].phone] = Absent]
    /\ Go(w, "cool")
    /\ UNCHANGED <<code, cooldown, quota, guesses, sent>>

StartCooldown(w) ==
    /\ At(w, "cool")
    /\ cooldown' = [cooldown EXCEPT ![req[w].phone] = TRUE]
    /\ Go(w, "send")
    /\ UNCHANGED <<code, attempts, quota, guesses, sent>>

(* Whether the gateway takes the message or fails (502), the code stays.   *)
Send(w) ==
    /\ At(w, "send")
    /\ sent' = sent + 1
    /\ Finish(w)
    /\ UNCHANGED <<code, attempts, cooldown, quota, guesses>>

-----------------------------------------------------------------------------
(* Presenting a code: verify_otp and confirm_phone_change.  With no live   *)
(* code the request fails and changes nothing; otherwise it compares with  *)
(* the hash it loaded.                                                     *)

PresentRight(w, p) ==
    /\ At(w, "idle") /\ code[p]
    /\ Become(w, Start("clear", p))
    /\ UNCHANGED <<code, attempts, cooldown, quota, guesses, sent>>

PresentWrong(w, p) ==
    /\ At(w, "idle") /\ code[p]
    /\ Become(w, Start("try", p))
    /\ guesses' = [guesses EXCEPT ![p] = @ + 1]
    /\ UNCHANGED <<code, attempts, cooldown, quota, sent>>

(* register_failed_attempt.                                                *)
BurnsPast(n) == n > MaxAttempts
Burns(n) == n >= MaxAttempts
Tried(r, n) == IF Burns(n) THEN [r EXCEPT !.pc = "clear"] ELSE Done

IncrAttempts(w) ==
    LET p == req[w].phone
        n == attempts[p].n + 1
    IN /\ At(w, "try")
       /\ attempts' = [attempts EXCEPT ![p] = Incr(@)]
       /\ IF NeedsExpire(n) THEN Go(w, "try_ttl") ELSE Become(w, Tried(req[w], n))
       /\ UNCHANGED <<code, cooldown, quota, guesses, sent>>

ExpireAttempts(w) ==
    /\ At(w, "try_ttl")
    /\ attempts' = [attempts EXCEPT ![req[w].phone] = Expire(@, CodeWindow)]
    /\ Become(w, Tried(req[w], 1))
    /\ UNCHANGED <<code, cooldown, quota, guesses, sent>>

(* clear_otp: two commands, on whatever the keys hold by then.             *)
ClearCode(w) ==
    /\ At(w, "clear")
    /\ code' = [code EXCEPT ![req[w].phone] = FALSE]
    /\ guesses' = [guesses EXCEPT ![req[w].phone] = 0]
    /\ Go(w, "clear_attempts")
    /\ UNCHANGED <<attempts, cooldown, quota, sent>>

ClearAttempts(w) ==
    /\ At(w, "clear_attempts")
    /\ attempts' = [attempts EXCEPT ![req[w].phone] = Absent]
    /\ Finish(w)
    /\ UNCHANGED <<code, cooldown, quota, guesses, sent>>

-----------------------------------------------------------------------------
(* Time, and failures.                                                     *)

CodeExpires(p) ==
    /\ code[p]
    /\ code' = [code EXCEPT ![p] = FALSE]
    /\ guesses' = [guesses EXCEPT ![p] = 0]
    /\ UNCHANGED <<attempts, cooldown, quota, sent, req>>

(* A counter of attempts has the five minutes of a code and is created     *)
(* after the code it counts for (or deleted by its save_otp, unless that   *)
(* died first): it outlives the code.                                      *)
AttemptsExpire(p) ==
    /\ attempts[p].ttl > 0
    /\ code[p] => "reset" \in DiesAt
    /\ attempts' = [attempts EXCEPT ![p] = Absent]
    /\ UNCHANGED <<code, cooldown, quota, guesses, sent, req>>

CooldownExpires(p) ==
    /\ cooldown[p]
    /\ cooldown' = [cooldown EXCEPT ![p] = FALSE]
    /\ UNCHANGED <<code, attempts, quota, guesses, sent, req>>

(* The window of a quota runs down from its EXPIRE, whoever counts on the  *)
(* key meanwhile, and the key goes when nothing is left of it.             *)
QuotaAges(k) ==
    /\ quota[k].ttl > 1
    /\ quota' = [quota EXCEPT ![k] = Aged(@)]
    /\ UNCHANGED <<code, attempts, cooldown, guesses, sent, req>>

QuotaExpires(k) ==
    /\ quota[k].ttl = 1
    /\ quota' = [quota EXCEPT ![k] = Absent]
    /\ sent' = IF k[1] = Metered THEN 0 ELSE sent
    /\ UNCHANGED <<code, attempts, cooldown, guesses, req>>

(* The process dies or loses its connection to Redis: the commands already *)
(* issued stay.                                                            *)
Crash(w) ==
    /\ req[w].pc \in DiesAt
    /\ Finish(w)
    /\ UNCHANGED <<code, attempts, cooldown, quota, guesses, sent>>

-----------------------------------------------------------------------------
Init ==
    /\ code = [p \in Phones |-> FALSE]
    /\ attempts = [p \in Phones |-> Absent]
    /\ cooldown = [p \in Phones |-> FALSE]
    /\ quota = [k \in Keys |-> Absent]
    /\ guesses = [p \in Phones |-> 0]
    /\ sent = 0
    /\ req = [w \in Workers |-> Done]

Receive(w) ==
    \E p \in Phones : Ask(w, p) \/ PresentRight(w, p) \/ PresentWrong(w, p)

Proceed(w) == \/ IncrQuota(w) \/ ExpireQuota(w) \/ SetCode(w)
              \/ ResetAttempts(w) \/ StartCooldown(w) \/ Send(w)
              \/ IncrAttempts(w) \/ ExpireAttempts(w)
              \/ ClearCode(w) \/ ClearAttempts(w)

TimePasses == \/ \E p \in Phones : CodeExpires(p) \/ AttemptsExpire(p) \/ CooldownExpires(p)
              \/ \E k \in Keys : QuotaAges(k) \/ QuotaExpires(k)

Next == \/ \E w \in Workers : Receive(w) \/ Proceed(w) \/ Crash(w)
        \/ TimePasses

Spec == Init /\ [][Next]_vars

(* A request in flight goes on, and for Redis time passes.                 *)
FairSpec == Spec /\ \A w \in Workers : WF_vars(Proceed(w))
                 /\ \A k \in Keys : WF_vars(QuotaAges(k) \/ QuotaExpires(k))
-----------------------------------------------------------------------------
(* Properties.                                                             *)

(* Every key and request keeps its shape.                                  *)
TypeOK ==
    /\ code \in [Phones -> BOOLEAN]
    /\ attempts \in [Phones -> Counter]
    /\ cooldown \in [Phones -> BOOLEAN]
    /\ quota \in [Keys -> Counter]
    /\ guesses \in [Phones -> Nat]
    /\ sent \in Nat
    /\ req \in [Workers -> Request]

(* "Capping attempts is what makes the length adequate"                    *)
(* (register_failed_attempt): however verifications, requests and expiries *)
(* interleave, the wrong codes compared with one code stay within          *)
(* otp_max_attempts for every request that can be in flight.  One process  *)
(* gives otp_max_attempts; with more, a verification or a save_otp still   *)
(* in flight may delete the count a newer code has begun.                  *)
GuessesBounded ==
    \A p \in Phones : guesses[p] <= Cardinality(Workers) * MaxAttempts

(* "Without this, /auth/otp/request is an unmetered SMS bill"              *)
(* (check_request_quota): in the life of a quota key no more messages go   *)
(* out than its limit, but for requests that were in flight when the       *)
(* previous key expired.                                                   *)
SmsWithinQuota ==
    Metered = "ip" \/ Cardinality(Phones) = 1 =>
        sent <= Limit(Metered) + Cardinality(Workers)

(* No counter is left to live for ever: whatever deletes, recreates or     *)
(* counts on, and whatever dies elsewhere, a key without an expiry has a   *)
(* request about to set it, as long as none dies just before that          *)
(* (_RedisStore.incr).                                                     *)
CountersWillExpire ==
    /\ \A k \in Keys : quota[k].n > 0 =>
         quota[k].ttl > 0 \/ \E w \in Workers : /\ At(w, "expire")
                                                /\ k = Key(req[w].scope, req[w].phone)
    /\ \A p \in Phones : attempts[p].n > 0 =>
         attempts[p].ttl > 0 \/ \E w \in Workers : /\ At(w, "try_ttl")
                                                   /\ p = req[w].phone

(* "Try again later", "Try again tomorrow" (check_request_quota): a number *)
(* or a network that has used up a quota gets it back, even one that never *)
(* stops asking: each refused request counts on the key, none extends its  *)
(* window (the `if n == 1` of _RedisStore.incr).                           *)
ThrottleLifts ==
    \A s \in Scopes, p \in Phones :
        quota[Key(s, p)].n > Limit(s) ~> quota[Key(s, p)].n <= Limit(s)
=============================================================================
