------------------------------- MODULE Claims -------------------------------
(***************************************************************************)
(* Accounts and the profiles they speak for: first login, change of        *)
(* number, account closure, claims on agent profiles and their decisions   *)
(* (app/services/auth.py, app/api/v1/{users,agents,admin}.py), and who may *)
(* reply for an agent (app/api/v1/responses.py).                           *)
(*                                                                         *)
(* Each request is one transaction of selects and a commit.  PostgreSQL    *)
(* runs at READ COMMITTED: every select sees what is committed then.       *)
(* SQLAlchemy writes only the columns whose value differs from the one     *)
(* this session loaded.                                                    *)
(*                                                                         *)
(* That a code was right is decided in the OtpStore module; here a login   *)
(* or a change of number starts with the code accepted.                    *)
(***************************************************************************)
EXTENDS Naturals, FiniteSets

CONSTANTS
    Workers,      \* requests that can be in flight at once
    Deciders,     \* those of them that may be an admin's decision
    Phones,       \* numbers, as their hashes
    Accounts,     \* ids of users rows
    Agents,       \* ids of agents rows
    Ops,          \* "login", "confirm", "close", "claim", "approve", "reject"
    NoPhone,      \* no number: NULL, or the random "deleted:..." of a closure
    NoAccount, NoAgent

Decisions == {"approve", "reject"}
AllOps == Decisions \cup {"login", "confirm", "close", "claim"}

ASSUME ConstantsOK ==
    /\ Deciders \subseteq Workers
    /\ NoPhone \notin Phones /\ NoAccount \notin Accounts /\ NoAgent \notin Agents
    /\ Ops \subseteq AllOps

VARIABLES
    account,   \* users.is_active, "unborn" before the row exists
    number,    \* users.phone_hash
    claim,     \* agent_claims.status, per agent and claimant
    claimed,   \* agents.profile_claimed
    bound,     \* agents.phone_hash
    grants,    \* claimants whose claim on the agent an admin approved
    held,      \* numbers an account has proved with a code
    req        \* the request each worker is running

users == <<account, number, held>>
profiles == <<claim, claimed, bound, grants>>
vars == <<users, profiles, req>>

States == {"unborn", "active", "closed"}
ClaimStates == {"none", "pending", "approved", "rejected"}

Request ==
    [pc:     {"idle", "select", "commit"},
     op:     AllOps \cup {"none"},
     me:     Accounts \cup {NoAccount},  \* the caller, or the claimant decided on
     phone:  Phones \cup {NoPhone},      \* the number proved, or to bind
     mine:   Phones \cup {NoPhone},      \* the number column as loaded
     found:  Accounts \cup {NoAccount},  \* the account a login found
     agent:  Agents \cup {NoAgent},
     status: ClaimStates]                \* the claim as loaded

Idle == [pc |-> "idle", op |-> "none", me |-> NoAccount, phone |-> NoPhone,
         mine |-> NoPhone, found |-> NoAccount, agent |-> NoAgent,
         status |-> "none"]

At(w, pc, ops) == req[w].pc = pc /\ req[w].op \in ops
Become(w, r) == req' = [req EXCEPT ![w] = r]
Begin(w, op) == op \in Ops /\ req[w].pc = "idle"
Drop(w) == Become(w, Idle) /\ UNCHANGED <<users, profiles>>

(* The session's UPDATE writes a column only on a net change.              *)
ColAlways(db, loaded, wanted) == wanted
Col(db, loaded, wanted) == IF wanted # loaded THEN wanted ELSE db

Holders(p) == {a \in Accounts : number[a] = p}

-----------------------------------------------------------------------------
(* verify_otp, once the code is accepted: select the user, insert or touch *)
(* it.  phone_hash is unique, so a second insert for one number fails.     *)

Login(w, p) ==
    /\ Begin(w, "login")
    /\ \E a \in (IF Holders(p) = {} THEN {NoAccount} ELSE Holders(p)) :
         Become(w, [Idle EXCEPT !.pc = "commit", !.op = "login", !.phone = p,
                                !.found = a])
    /\ UNCHANGED <<users, profiles>>

CommitLogin(w) ==
    LET p == req[w].phone IN
    /\ At(w, "commit", {"login"})
    /\ IF req[w].found = NoAccount
       THEN \E a \in Accounts :
              /\ account[a] = "unborn" /\ Holders(p) = {}
              /\ account' = [account EXCEPT ![a] = "active"]
              /\ number' = [number EXCEPT ![a] = p]
              /\ held' = [held EXCEPT ![a] = @ \cup {p}]
       ELSE UNCHANGED users
    /\ Become(w, Idle)
    /\ UNCHANGED profiles

LoginError(w) ==
    /\ At(w, "commit", {"login"})
    /\ req[w].found = NoAccount /\ Holders(req[w].phone) # {}
    /\ Drop(w)

(* confirm_phone_change: the caller's row is the one get_current_user      *)
(* loaded; the number is looked up once more before the update.            *)
Confirm(w, a, p) ==
    /\ Begin(w, "confirm")
    /\ account[a] = "active"
    /\ Become(w, [Idle EXCEPT !.pc = "select", !.op = "confirm", !.me = a,
                              !.phone = p, !.mine = number[a]])
    /\ UNCHANGED <<users, profiles>>

NumberFree(w) == Holders(req[w].phone) \subseteq {req[w].me}

SelectNumber(w) ==
    /\ At(w, "select", {"confirm"})
    /\ Become(w, IF NumberFree(w) THEN [req[w] EXCEPT !.pc = "commit"] ELSE Idle)
    /\ UNCHANGED <<users, profiles>>

CommitConfirm(w) ==
    LET r == req[w] IN
    /\ At(w, "commit", {"confirm"})
    /\ NumberFree(w)
    /\ number' = [number EXCEPT ![r.me] = Col(@, r.mine, r.phone)]
    /\ held' = [held EXCEPT ![r.me] = @ \cup {r.phone}]
    /\ Become(w, Idle)
    /\ UNCHANGED <<account, profiles>>

(* The unique violation the second lookup was meant to rule out: a 500.    *)
ConfirmError(w) ==
    /\ At(w, "commit", {"confirm"})
    /\ ~NumberFree(w)
    /\ Drop(w)

(* delete_my_account: the row stays, the number goes.  Claims and profiles *)
(* are not looked at.                                                      *)
Close(w, a) ==
    /\ Begin(w, "close")
    /\ account[a] = "active"
    /\ Become(w, [Idle EXCEPT !.pc = "commit", !.op = "close", !.me = a])
    /\ UNCHANGED <<users, profiles>>

CommitClose(w) ==
    /\ At(w, "commit", {"close"})
    /\ account' = [account EXCEPT ![req[w].me] = "closed"]
    /\ number' = [number EXCEPT ![req[w].me] = NoPhone]
    /\ Become(w, Idle)
    /\ UNCHANGED <<held, profiles>>

-----------------------------------------------------------------------------
(* claim_profile: 409 on a claimed profile, then 409 on a declined claim;  *)
(* otherwise one row per claimant, (re)submitted.                          *)

Claim(w, a, g) ==
    /\ Begin(w, "claim")
    /\ account[a] = "active"
    /\ ~claimed[g]
    /\ Become(w, [Idle EXCEPT !.pc = "select", !.op = "claim", !.me = a,
                              !.agent = g])
    /\ UNCHANGED <<users, profiles>>

Declined(status) == status = "rejected"

SelectClaim(w) ==
    LET status == claim[req[w].agent][req[w].me] IN
    /\ At(w, "select", {"claim"})
    /\ Become(w, IF Declined(status) THEN Idle
                 ELSE [req[w] EXCEPT !.pc = "commit", !.status = status])
    /\ UNCHANGED <<users, profiles>>

(* INSERT for a new claim, which uq_claim_agent_user may refuse; UPDATE    *)
(* of an existing one.                                                     *)
Insertable(w) == req[w].status = "none" => claim[req[w].agent][req[w].me] = "none"

CommitClaim(w) ==
    LET r == req[w] IN
    /\ At(w, "commit", {"claim"})
    /\ Insertable(w)
    /\ claim' = [claim EXCEPT ![r.agent][r.me] = Col(@, r.status, "pending")]
    /\ Become(w, Idle)
    /\ UNCHANGED <<users, claimed, bound, grants>>

ClaimError(w) ==
    /\ At(w, "commit", {"claim"})
    /\ ~Insertable(w)
    /\ Drop(w)

-----------------------------------------------------------------------------
(* decide_claim: the claim and its agent in one select, then, to approve,  *)
(* the claimant, whose number is bound to the profile.                     *)

FreeOrNot(g) == TRUE
StillFree(g) == ~claimed[g]

Decide(w, a, g, action) ==
    /\ w \in Deciders
    /\ Begin(w, action)
    /\ claim[g][a] = "pending"
    /\ action = "approve" => StillFree(g)
    /\ Become(w, [Idle EXCEPT !.pc = IF action = "approve" THEN "select" ELSE "commit",
                              !.op = action, !.me = a, !.agent = g,
                              !.status = "pending", !.mine = bound[g]])
    /\ UNCHANGED <<users, profiles>>

NumberOfAnother(w) == LET others == Accounts \ {req[w].me}
                      IN CHOOSE p \in {number[a] : a \in others} : TRUE
NumberOfClaimant(w) == number[req[w].me]

SelectClaimant(w) ==
    /\ At(w, "select", {"approve"})
    /\ Become(w, [req[w] EXCEPT !.pc = "commit", !.phone = NumberOfClaimant(w)])
    /\ UNCHANGED <<users, profiles>>

Decided(action) == IF action = "approve" THEN "approved" ELSE "rejected"

CommitDecision(w) ==
    LET r == req[w] IN
    /\ At(w, "commit", Decisions)
    /\ claim' = [claim EXCEPT ![r.agent][r.me] = Col(@, r.status, Decided(r.op))]
    /\ IF r.op = "approve"
       THEN /\ claimed' = [claimed EXCEPT ![r.agent] = TRUE]
            /\ bound' = [bound EXCEPT ![r.agent] = Col(@, r.mine, r.phone)]
            /\ grants' = [grants EXCEPT ![r.agent] = @ \cup {r.me}]
       ELSE UNCHANGED <<claimed, bound, grants>>
    /\ Become(w, Idle)
    /\ UNCHANGED users

(* The check of add_owner_response, apart from the admin's own right.      *)
MayReply(a, g) ==
    /\ account[a] = "active"
    /\ claimed[g] /\ bound[g] # NoPhone /\ bound[g] = number[a]

-----------------------------------------------------------------------------
Init ==
    /\ account = [a \in Accounts |-> "unborn"]
    /\ number = [a \in Accounts |-> NoPhone]
    /\ claim = [g \in Agents |-> [a \in Accounts |-> "none"]]
    /\ claimed = [g \in Agents |-> FALSE]
    /\ bound = [g \in Agents |-> NoPhone]
    /\ grants = [g \in Agents |-> {}]
    /\ held = [a \in Accounts |-> {}]
    /\ req = [w \in Workers |-> Idle]

Receive(w) ==
    \/ \E p \in Phones : Login(w, p)
    \/ \E a \in Accounts, p \in Phones : Confirm(w, a, p)
    \/ \E a \in Accounts : Close(w, a)
    \/ \E a \in Accounts, g \in Agents : \/ Claim(w, a, g)
                                         \/ \E d \in Decisions : Decide(w, a, g, d)

Proceed(w) ==
    \/ CommitLogin(w) \/ LoginError(w)
    \/ SelectNumber(w) \/ CommitConfirm(w) \/ ConfirmError(w)
    \/ CommitClose(w)
    \/ SelectClaim(w) \/ CommitClaim(w) \/ ClaimError(w)
    \/ SelectClaimant(w) \/ CommitDecision(w)

(* A request that dies before its commit leaves nothing.                   *)
Crash(w) == req[w].pc # "idle" /\ Drop(w)

Next == \E w \in Workers : Receive(w) \/ Proceed(w) \/ Crash(w)

Spec == Init /\ [][Next]_vars
-----------------------------------------------------------------------------
(* Properties.                                                             *)

(* Every row and request keeps its shape.                                  *)
TypeOK ==
    /\ account \in [Accounts -> States]
    /\ number \in [Accounts -> Phones \cup {NoPhone}]
    /\ claim \in [Agents -> [Accounts -> ClaimStates]]
    /\ claimed \in [Agents -> BOOLEAN]
    /\ bound \in [Agents -> Phones \cup {NoPhone}]
    /\ grants \in [Agents -> SUBSET Accounts]
    /\ held \in [Accounts -> SUBSET Phones]
    /\ req \in [Workers -> Request]

(* "Otherwise 'no' is only ever a suggestion" (test_api_agent_claim.py): a *)
(* claim that was declined, and never approved, does not return to the     *)
(* queue, although a resubmission that loaded it before the decision       *)
(* commits after it.                                                       *)
DeclinedStaysDeclined ==
    [][\A g \in Agents, a \in Accounts :
         claim[g][a] = "rejected" /\ a \notin grants[g]
           => claim'[g][a] # "pending"]_vars

(* With one decision at a time, a profile is granted once, to one          *)
(* claimant, however many claims, resubmissions and closures are in flight *)
(* (decide_claim).                                                         *)
GrantedOnce == \A g \in Agents : Cardinality(grants[g]) <= 1

(* The number a profile is bound to was proved with a code by the claimant *)
(* the admin approved, never by somebody else (decide_claim).              *)
BindingWasProved ==
    \A g \in Agents : bound[g] # NoPhone =>
        \E a \in grants[g] : bound[g] \in held[a]

(* "claim already decided" (decide_claim): once taken, a decision stands.  *)
DecisionIsFinal ==
    [][\A g \in Agents, a \in Accounts :
         claim[g][a] \in {"approved", "rejected"} => claim'[g][a] = claim[g][a]]_vars

(* "Only a claimed agent profile linked to this review can reply"          *)
(* (add_owner_response): whoever may reply for an agent is someone an      *)
(* admin approved for it.                                                  *)
RepliesAreGranted ==
    \A g \in Agents, a \in Accounts : MayReply(a, g) => a \in grants[g]

Pairs == Agents \X Accounts

(* Whatever is in flight, the profiles change as Profiles says: nobody     *)
(* speaks for one without having asked, it answers on a number one of its  *)
(* speakers proved, and a decision takes a claim out of the queue, a       *)
(* refusal for good (claim_profile, decide_claim).                         *)
ProfilesView ==
    INSTANCE Profiles WITH
        proved   <- held,
        queue    <- {x \in Pairs : claim[x[1]][x[2]] = "pending"},
        declined <- {x \in Pairs : claim[x[1]][x[2]] = "rejected" /\ x[2] \notin grants[x[1]]},
        speakers <- grants,
        voice    <- bound

ImplementsProfiles == ProfilesView!Spec
=============================================================================
