---------------------------- MODULE ClaimsProofs ----------------------------
(***************************************************************************)
(* Theorems about Claims, for any number of workers, accounts, numbers and *)
(* agents, and any interleaving of their requests.                         *)
(***************************************************************************)
EXTENDS Claims, FiniteSetTheorems, TLAPS

(* What an account has as its number it proved with a code, and an         *)
(* approval about to commit binds such a number (or none).                 *)
NumbersProved == \A a \in Accounts : number[a] \in held[a] \cup {NoPhone}

BindsProved(r) ==
    r.pc = "commit" /\ r.op = "approve" => r.phone \in held[r.me] \cup {NoPhone}

(* A confirmation still shows the number its code was right for.           *)
Targets(r) ==
    /\ r.op \in {"confirm", "close", "claim"} \cup Decisions => r.me \in Accounts
    /\ r.op \in {"login", "confirm"} => r.phone \in Phones
    /\ r.op \in {"claim"} \cup Decisions => r.agent \in Agents

(* A claim reads "approved" only if it was once granted, in the table and  *)
(* in the session of a resubmission; a decision starts from "pending", and *)
(* the row it loaded is still there.                                       *)
ApprovedWereGranted ==
    \A g \in Agents, a \in Accounts : claim[g][a] = "approved" => a \in grants[g]

LoadedSound(r) ==
    /\ r.op = "claim" /\ r.pc = "commit" =>
         /\ r.status # "rejected"
         /\ r.status = "approved" => r.me \in grants[r.agent]
    /\ r.op \in Decisions => r.status = "pending" /\ claim[r.agent][r.me] # "none"

Inv == /\ TypeOK
       /\ NumbersProved
       /\ BindingWasProved
       /\ ApprovedWereGranted
       /\ \A w \in Workers : /\ Targets(req[w])
                             /\ BindsProved(req[w])
                             /\ LoadedSound(req[w])

-----------------------------------------------------------------------------
(* The idle request satisfies everything asked of a request.               *)
LEMMA IdleSound ==
    Idle \in Request /\ Targets(Idle) /\ BindsProved(Idle) /\ LoadedSound(Idle)
BY DEF Idle, Request, Targets, BindsProved, LoadedSound, AllOps, Decisions, ClaimStates

LEMMA InvInit == Init => Inv
<1> SUFFICES ASSUME Init PROVE Inv
    OBVIOUS
<1>1. TypeOK
  BY IdleSound DEF Init, TypeOK, States, ClaimStates
<1>2. NumbersProved /\ BindingWasProved /\ ApprovedWereGranted
  BY DEF Init, NumbersProved, BindingWasProved, ApprovedWereGranted
<1>3. \A w \in Workers : Targets(req[w]) /\ BindsProved(req[w]) /\ LoadedSound(req[w])
  <2> SUFFICES ASSUME NEW w \in Workers
               PROVE Targets(req[w]) /\ BindsProved(req[w]) /\ LoadedSound(req[w])
      OBVIOUS
  <2>1. req[w] = Idle
    BY DEF Init
  <2> QED BY <2>1, IdleSound
<1> QED BY <1>1, <1>2, <1>3 DEF Inv

(* A step that changes only one worker's request, to a sound one.          *)
LEMMA InvAdvance ==
    ASSUME Inv, NEW w \in Workers, NEW r \in Request,
           Become(w, r), UNCHANGED <<users, profiles>>,
           Targets(r), BindsProved(r), LoadedSound(r)
    PROVE  Inv'
<1> USE DEF users, profiles, Become
<1>1. req \in [Workers -> Request]
  BY DEF Inv, TypeOK
<1>2. TypeOK'
  BY <1>1 DEF Inv, TypeOK
<1>3. (NumbersProved /\ BindingWasProved /\ ApprovedWereGranted)'
  BY DEF Inv, NumbersProved, BindingWasProved, ApprovedWereGranted
<1>4. ASSUME NEW v \in Workers
      PROVE  (Targets(req[v]) /\ BindsProved(req[v]) /\ LoadedSound(req[v]))'
  <2>1. CASE v = w
    <3>1. req'[v] = r
      BY <1>1, <2>1
    <3> QED BY <3>1 DEF Targets, BindsProved, LoadedSound
  <2>2. CASE v # w
    <3>1. req'[v] = req[v]
      BY <1>1, <2>2
    <3> QED BY <3>1 DEF Inv, Targets, BindsProved, LoadedSound
  <2> QED BY <2>1, <2>2
<1> QED BY <1>2, <1>3, <1>4 DEF Inv

(* A request that is dropped changes nothing.                              *)
LEMMA InvDrop ==
    ASSUME Inv, NEW w \in Workers, Drop(w)
    PROVE  Inv'
BY IdleSound, InvAdvance DEF Drop

(* What the other requests rely on survives a commit: numbers proved,      *)
(* grants and claims only accumulate.                                      *)
LEMMA InvCommit ==
    ASSUME Inv, NEW w \in Workers, Become(w, Idle), TypeOK',
           (NumbersProved /\ BindingWasProved /\ ApprovedWereGranted)',
           \A a \in Accounts : held[a] \subseteq held'[a],
           \A g \in Agents : grants[g] \subseteq grants'[g],
           \A g \in Agents, a \in Accounts : claim[g][a] # "none" => claim'[g][a] # "none"
    PROVE  Inv'
<1>1. req \in [Workers -> Request]
  BY DEF Inv, TypeOK
<1>2. ASSUME NEW v \in Workers
      PROVE  (Targets(req[v]) /\ BindsProved(req[v]) /\ LoadedSound(req[v]))'
  <2>1. CASE v = w
    <3>1. req'[v] = Idle
      BY <1>1, <2>1 DEF Become
    <3> QED BY <3>1 DEF Idle, Targets, BindsProved, LoadedSound, Decisions
  <2>2. CASE v # w
    <3>1. req'[v] = req[v]
      BY <1>1, <2>2 DEF Become
    <3>2. Targets(req[v]) /\ BindsProved(req[v]) /\ LoadedSound(req[v])
      BY DEF Inv
    <3>3. BindsProved(req[v])'
      BY <3>1, <3>2 DEF BindsProved, Targets, Decisions
    <3>4. LoadedSound(req[v])'
      BY <3>1, <3>2 DEF LoadedSound, Targets
    <3> QED BY <3>1, <3>2, <3>3, <3>4 DEF Targets
  <2> QED BY <2>1, <2>2
<1> QED BY <1>2 DEF Inv

-----------------------------------------------------------------------------
(* Requests begin.                                                         *)
LEMMA InvReceive ==
    ASSUME Inv, NEW w \in Workers, Receive(w)
    PROVE  Inv'
<1> USE DEF Request, AllOps, Decisions, ClaimStates, Idle, Begin
<1>0. /\ number \in [Accounts -> Phones \cup {NoPhone}]
      /\ bound \in [Agents -> Phones \cup {NoPhone}]
  BY DEF Inv, TypeOK
<1>1. ASSUME NEW p \in Phones, Login(w, p)
      PROVE  Inv'
  <2>1. PICK a \in Accounts \cup {NoAccount} :
          Become(w, [Idle EXCEPT !.pc = "commit", !.op = "login", !.phone = p,
                                 !.found = a])
    BY <1>1 DEF Login, Holders
  <2> DEFINE r == [Idle EXCEPT !.pc = "commit", !.op = "login", !.phone = p,
                               !.found = a]
  <2>2. r \in Request /\ Targets(r) /\ BindsProved(r) /\ LoadedSound(r)
    BY DEF Targets, BindsProved, LoadedSound
  <2>3. Become(w, r) /\ UNCHANGED <<users, profiles>>
    BY <2>1, <1>1 DEF Login
  <2> HIDE DEF r
  <2> QED BY <2>2, <2>3, InvAdvance
<1>2. ASSUME NEW a \in Accounts, NEW p \in Phones, Confirm(w, a, p)
      PROVE  Inv'
  <2> DEFINE r == [Idle EXCEPT !.pc = "select", !.op = "confirm", !.me = a,
                               !.phone = p, !.mine = number[a]]
  <2>1. r \in Request /\ Targets(r) /\ BindsProved(r) /\ LoadedSound(r)
    BY <1>0 DEF Targets, BindsProved, LoadedSound
  <2>2. Become(w, r) /\ UNCHANGED <<users, profiles>>
    BY <1>2 DEF Confirm
  <2> HIDE DEF r
  <2> QED BY <2>1, <2>2, InvAdvance
<1>3. ASSUME NEW a \in Accounts, Close(w, a)
      PROVE  Inv'
  <2> DEFINE r == [Idle EXCEPT !.pc = "commit", !.op = "close", !.me = a]
  <2>1. r \in Request /\ Targets(r) /\ BindsProved(r) /\ LoadedSound(r)
    BY DEF Targets, BindsProved, LoadedSound
  <2>2. Become(w, r) /\ UNCHANGED <<users, profiles>>
    BY <1>3 DEF Close
  <2> HIDE DEF r
  <2> QED BY <2>1, <2>2, InvAdvance
<1>4. ASSUME NEW a \in Accounts, NEW g \in Agents, Claim(w, a, g)
      PROVE  Inv'
  <2> DEFINE r == [Idle EXCEPT !.pc = "select", !.op = "claim", !.me = a,
                               !.agent = g]
  <2>1. r \in Request /\ Targets(r) /\ BindsProved(r) /\ LoadedSound(r)
    BY DEF Targets, BindsProved, LoadedSound
  <2>2. Become(w, r) /\ UNCHANGED <<users, profiles>>
    BY <1>4 DEF Claim
  <2> HIDE DEF r
  <2> QED BY <2>1, <2>2, InvAdvance
<1>5. ASSUME NEW a \in Accounts, NEW g \in Agents, NEW d \in Decisions,
             Decide(w, a, g, d)
      PROVE  Inv'
  <2> DEFINE r == [Idle EXCEPT
                     !.pc = IF d = "approve" THEN "select" ELSE "commit",
                     !.op = d, !.me = a, !.agent = g,
                     !.status = "pending", !.mine = bound[g]]
  <2>1. r \in Request /\ Targets(r) /\ BindsProved(r) /\ LoadedSound(r)
    BY <1>0, <1>5 DEF Decide, Targets, BindsProved, LoadedSound
  <2>2. Become(w, r) /\ UNCHANGED <<users, profiles>>
    BY <1>5 DEF Decide
  <2> HIDE DEF r
  <2> QED BY <2>1, <2>2, InvAdvance
<1> QED BY <1>1, <1>2, <1>3, <1>4, <1>5 DEF Receive

(* Selects in the middle of a request.                                     *)
LEMMA InvSelects ==
    ASSUME Inv, NEW w \in Workers,
           SelectNumber(w) \/ SelectClaim(w) \/ SelectClaimant(w)
    PROVE  Inv'
<1> USE DEF Request, AllOps, Decisions, ClaimStates, At
<1>0. /\ req[w] \in Request /\ Targets(req[w]) /\ LoadedSound(req[w])
      /\ number \in [Accounts -> Phones \cup {NoPhone}]
      /\ claim \in [Agents -> [Accounts -> ClaimStates]]
  BY DEF Inv, TypeOK
<1>1. CASE SelectNumber(w)
  <2> DEFINE r == [req[w] EXCEPT !.pc = "commit"]
  <2>1. r \in Request /\ Targets(r) /\ BindsProved(r) /\ LoadedSound(r)
    BY <1>0, <1>1 DEF SelectNumber, Targets, BindsProved, LoadedSound
  <2>2. Become(w, r) \/ Become(w, Idle)
    BY <1>1 DEF SelectNumber
  <2>3. UNCHANGED <<users, profiles>>
    BY <1>1 DEF SelectNumber
  <2> HIDE DEF r
  <2> QED BY <2>1, <2>2, <2>3, InvAdvance, IdleSound
<1>2. CASE SelectClaim(w)
  <2> DEFINE status == claim[req[w].agent][req[w].me]
             r == [req[w] EXCEPT !.pc = "commit", !.status = status]
  <2>1. req[w].agent \in Agents /\ req[w].me \in Accounts
    BY <1>0, <1>2 DEF SelectClaim, Targets
  <2>0. status \in ClaimStates
    BY <1>0, <2>1
  <2>2. r \in Request /\ Targets(r) /\ BindsProved(r)
    <3> HIDE DEF status
    <3>1. r \in Request
      BY <1>0, <2>0
    <3> QED BY <1>0, <1>2, <3>1 DEF SelectClaim, Targets, BindsProved
  <2>3. status # "rejected" => LoadedSound(r)
    BY <1>0, <1>2, <2>1 DEF Inv, SelectClaim, LoadedSound, ApprovedWereGranted
  <2>4. Become(w, Idle) \/ (status # "rejected" /\ Become(w, r))
    BY <1>2 DEF SelectClaim, Declined
  <2>5. UNCHANGED <<users, profiles>>
    BY <1>2 DEF SelectClaim
  <2> HIDE DEF r, status
  <2> QED BY <2>2, <2>3, <2>4, <2>5, InvAdvance, IdleSound
<1>3. CASE SelectClaimant(w)
  <2> DEFINE r == [req[w] EXCEPT !.pc = "commit", !.phone = NumberOfClaimant(w)]
  <2>1. req[w].me \in Accounts
    BY <1>0, <1>3 DEF SelectClaimant, Targets
  <2>2. r \in Request /\ Targets(r) /\ LoadedSound(r)
    BY <1>0, <1>3, <2>1 DEF SelectClaimant, Targets, LoadedSound, NumberOfClaimant
  <2>3. BindsProved(r)
    BY <1>0, <2>1 DEF Inv, NumbersProved, BindsProved, NumberOfClaimant
  <2>4. Become(w, r) /\ UNCHANGED <<users, profiles>>
    BY <1>3 DEF SelectClaimant
  <2> HIDE DEF r
  <2> QED BY <2>2, <2>3, <2>4, InvAdvance
<1> QED BY <1>1, <1>2, <1>3

-----------------------------------------------------------------------------
(* Commits that write the users table.                                     *)
LEMMA InvUserCommits ==
    ASSUME Inv, NEW w \in Workers,
           CommitLogin(w) \/ CommitConfirm(w) \/ CommitClose(w)
    PROVE  Inv'
<1> USE DEF users, profiles, At
<1>0. TypeOK /\ NumbersProved /\ BindingWasProved /\ ApprovedWereGranted
             /\ Targets(req[w]) /\ req[w] \in Request
  BY DEF Inv, TypeOK
<1>idle. Become(w, Idle) => req' \in [Workers -> Request]
  BY <1>0, IdleSound DEF TypeOK, Become
<1>b. ASSUME UNCHANGED profiles, \A a \in Accounts : held[a] \subseteq held'[a]
      PROVE  (BindingWasProved /\ ApprovedWereGranted)'
  BY <1>0, <1>b DEF BindingWasProved, ApprovedWereGranted, TypeOK
<1>1. CASE CommitLogin(w)
  <2>1. CASE req[w].found = NoAccount
    <3>1. PICK a \in Accounts :
            /\ account' = [account EXCEPT ![a] = "active"]
            /\ number' = [number EXCEPT ![a] = req[w].phone]
            /\ held' = [held EXCEPT ![a] = @ \cup {req[w].phone}]
      BY <1>1, <2>1 DEF CommitLogin
    <3>2. req[w].phone \in Phones
      BY <1>0, <1>1 DEF CommitLogin, Targets
    <3>3. TypeOK'
      BY <1>0, <1>1, <1>idle, <3>1, <3>2 DEF CommitLogin, TypeOK, States
    <3>4. NumbersProved'
      BY <1>0, <3>1 DEF NumbersProved, TypeOK
    <3>5. \A b \in Accounts : held[b] \subseteq held'[b]
      BY <1>0, <3>1 DEF TypeOK
    <3>6. Become(w, Idle) /\ UNCHANGED profiles
      BY <1>1 DEF CommitLogin
    <3> QED BY <1>b, <3>3, <3>4, <3>5, <3>6, InvCommit
  <2>2. CASE req[w].found # NoAccount
    <3>1. Become(w, Idle) /\ UNCHANGED <<users, profiles>>
      BY <1>1, <2>2 DEF CommitLogin
    <3> QED BY <3>1, InvAdvance, IdleSound
  <2> QED BY <2>1, <2>2
<1>2. CASE CommitConfirm(w)
  <2> DEFINE me == req[w].me  p == req[w].phone
  <2>1. me \in Accounts /\ p \in Phones
    BY <1>0, <1>2 DEF CommitConfirm, Targets
  <2>2. PICK n \in {number[me], p} : number' = [number EXCEPT ![me] = n]
    BY <1>0, <1>2 DEF CommitConfirm, Col, TypeOK
  <2>3. held' = [held EXCEPT ![me] = @ \cup {p}]
    BY <1>2 DEF CommitConfirm
  <2>4. Become(w, Idle) /\ UNCHANGED <<account, profiles>>
    BY <1>2 DEF CommitConfirm
  <2>5. TypeOK'
    BY <1>0, <1>idle, <2>1, <2>2, <2>3, <2>4 DEF TypeOK
  <2>6. NumbersProved'
    BY <1>0, <2>1, <2>2, <2>3 DEF NumbersProved, TypeOK
  <2>7. \A b \in Accounts : held[b] \subseteq held'[b]
    BY <1>0, <2>3 DEF TypeOK
  <2> QED BY <1>b, <2>4, <2>5, <2>6, <2>7, InvCommit
<1>3. CASE CommitClose(w)
  <2>1. TypeOK'
    BY <1>0, <1>3, <1>idle DEF CommitClose, TypeOK, States
  <2>2. NumbersProved'
    BY <1>0, <1>3 DEF CommitClose, NumbersProved, TypeOK
  <2>3. Become(w, Idle) /\ UNCHANGED profiles /\ UNCHANGED held
    BY <1>3 DEF CommitClose
  <2>4. (BindingWasProved /\ ApprovedWereGranted)'
    BY <1>b, <2>3
  <2> QED BY <2>1, <2>2, <2>3, <2>4, InvCommit
<1> QED BY <1>1, <1>2, <1>3

(* Commits that write claims and profiles.                                 *)
LEMMA InvProfileCommits ==
    ASSUME Inv, NEW w \in Workers, CommitClaim(w) \/ CommitDecision(w)
    PROVE  Inv'
<1> DEFINE g == req[w].agent  a == req[w].me
<1> USE DEF users, profiles, At, Decisions
<1>0. TypeOK /\ NumbersProved /\ BindingWasProved /\ ApprovedWereGranted
  BY DEF Inv
<1>r. req[w] \in Request /\ Targets(req[w]) /\ BindsProved(req[w]) /\ LoadedSound(req[w])
  BY DEF Inv, TypeOK
<1>idle. Become(w, Idle) => req' \in [Workers -> Request]
  BY <1>0, IdleSound DEF TypeOK, Become
<1>t. g \in Agents /\ a \in Accounts
  BY <1>r DEF Targets, CommitClaim, CommitDecision
<1>c. ASSUME NEW s \in ClaimStates, claim' = [claim EXCEPT ![g][a] = s]
      PROVE  claim' \in [Agents -> [Accounts -> ClaimStates]]
  <2>1. claim[g] \in [Accounts -> ClaimStates]
    BY <1>0, <1>t DEF TypeOK
  <2>2. [claim[g] EXCEPT ![a] = s] \in [Accounts -> ClaimStates]
    BY <2>1
  <2> QED BY <1>0, <1>c, <2>2 DEF TypeOK
<1>s. claim[g][a] \in ClaimStates
  BY <1>0, <1>t DEF TypeOK
<1>n. ASSUME NEW s, s \in {claim[g][a], "pending", "approved", "rejected"},
             claim' = [claim EXCEPT ![g][a] = s]
      PROVE  \A h \in Agents, b \in Accounts : claim[h][b] # "none" => claim'[h][b] # "none"
  BY <1>0, <1>t, <1>n DEF TypeOK
<1>1. CASE CommitClaim(w)
  <2>1. PICK s \in {claim[g][a], "pending"} : claim' = [claim EXCEPT ![g][a] = s]
    BY <1>0, <1>1, <1>t DEF CommitClaim, Col, TypeOK
  <2>2. Become(w, Idle) /\ UNCHANGED <<users, claimed, bound, grants>>
    BY <1>1 DEF CommitClaim
  <2>3. TypeOK'
    <3>1. s \in ClaimStates
      BY <1>s, <2>1 DEF ClaimStates
    <3> QED BY <1>0, <1>c, <1>idle, <2>1, <2>2, <3>1 DEF TypeOK
  <2>4. (NumbersProved /\ BindingWasProved)'
    BY <1>0, <2>2 DEF NumbersProved, BindingWasProved
  <2>5. ApprovedWereGranted'
    BY <1>0, <1>t, <2>1, <2>2 DEF ApprovedWereGranted, TypeOK
  <2> QED BY <1>n, <2>1, <2>2, <2>3, <2>4, <2>5, InvCommit
<1>2. CASE CommitDecision(w) /\ req[w].op = "reject"
  <2>1. PICK s \in {claim[g][a], "rejected"} : claim' = [claim EXCEPT ![g][a] = s]
    BY <1>0, <1>2, <1>t DEF CommitDecision, Decided, Col, TypeOK
  <2>2. Become(w, Idle) /\ UNCHANGED <<users, claimed, bound, grants>>
    BY <1>2 DEF CommitDecision
  <2>3. TypeOK'
    <3>1. s \in ClaimStates
      BY <1>s, <2>1 DEF ClaimStates
    <3> QED BY <1>0, <1>c, <1>idle, <2>1, <2>2, <3>1 DEF TypeOK
  <2>4. (NumbersProved /\ BindingWasProved)'
    BY <1>0, <2>2 DEF NumbersProved, BindingWasProved
  <2>5. ApprovedWereGranted'
    BY <1>0, <1>t, <2>1, <2>2 DEF ApprovedWereGranted, TypeOK
  <2> QED BY <1>n, <2>1, <2>2, <2>3, <2>4, <2>5, InvCommit
<1>3. CASE CommitDecision(w) /\ req[w].op = "approve"
  <2> DEFINE p == req[w].phone
  <2>1. PICK s \in {claim[g][a], "approved"} : claim' = [claim EXCEPT ![g][a] = s]
    BY <1>0, <1>3, <1>t DEF CommitDecision, Decided, Col, TypeOK
  <2>2. PICK n \in {bound[g], p} : bound' = [bound EXCEPT ![g] = n]
    BY <1>0, <1>3, <1>t DEF CommitDecision, Col, TypeOK
  <2>3. /\ claimed' = [claimed EXCEPT ![g] = TRUE]
        /\ grants' = [grants EXCEPT ![g] = @ \cup {a}]
        /\ Become(w, Idle) /\ UNCHANGED users
    BY <1>3 DEF CommitDecision
  <2>4. p \in Phones \cup {NoPhone}
    BY <1>r DEF Request
  <2>5. TypeOK'
    <3>1. s \in ClaimStates
      BY <1>s, <2>1 DEF ClaimStates
    <3>2. n \in Phones \cup {NoPhone}
      BY <1>0, <1>t, <2>2, <2>4 DEF TypeOK
    <3> QED BY <1>0, <1>c, <1>idle, <1>t, <2>1, <2>2, <2>3, <3>1, <3>2 DEF TypeOK
  <2>6. p \in held[a] \cup {NoPhone}
    BY <1>r, <1>3 DEF CommitDecision, BindsProved
  <2>7. BindingWasProved'
    <3> SUFFICES ASSUME NEW h \in Agents, bound'[h] # NoPhone
                 PROVE \E b \in grants'[h] : bound'[h] \in held'[b]
        BY DEF BindingWasProved
    <3>1. CASE h = g /\ n = p
      BY <1>0, <1>t, <2>2, <2>3, <2>6, <3>1 DEF TypeOK
    <3>2. CASE h # g \/ n = bound[g]
      <4>1. bound'[h] = bound[h]
        BY <1>0, <1>t, <2>2, <3>2 DEF TypeOK
      <4>2. PICK b \in grants[h] : bound[h] \in held[b]
        BY <1>0, <4>1 DEF BindingWasProved
      <4>3. b \in grants'[h] /\ held' = held
        BY <1>0, <1>t, <2>3, <4>2 DEF TypeOK
      <4> QED BY <4>1, <4>2, <4>3
    <3> QED BY <2>2, <3>1, <3>2
  <2>8. ApprovedWereGranted'
    BY <1>0, <1>t, <2>1, <2>3 DEF ApprovedWereGranted, TypeOK
  <2>9. NumbersProved'
    BY <1>0, <2>3 DEF NumbersProved
  <2>10. \A h \in Agents : grants[h] \subseteq grants'[h]
    BY <1>0, <1>t, <2>3 DEF TypeOK
  <2> QED BY <1>n, <2>1, <2>3, <2>5, <2>7, <2>8, <2>9, <2>10, InvCommit
<1>4. CommitDecision(w) => req[w].op \in Decisions
  BY DEF CommitDecision
<1> QED BY <1>1, <1>2, <1>3, <1>4

LEMMA InvNext == Inv /\ [Next]_vars => Inv'
<1> SUFFICES ASSUME Inv, [Next]_vars PROVE Inv'
    OBVIOUS
<1>1. CASE UNCHANGED vars
  BY <1>1 DEF vars, users, profiles, Inv, TypeOK, NumbersProved, BindingWasProved,
     ApprovedWereGranted, Targets, BindsProved, LoadedSound
<1>2. ASSUME NEW w \in Workers, Receive(w) \/ Proceed(w) \/ Crash(w)
      PROVE  Inv'
  <2>1. CASE Receive(w)
    BY <2>1, InvReceive
  <2>2. CASE LoginError(w) \/ ConfirmError(w) \/ ClaimError(w) \/ Crash(w)
    BY <2>2, InvDrop DEF LoginError, ConfirmError, ClaimError, Crash
  <2>3. CASE SelectNumber(w) \/ SelectClaim(w) \/ SelectClaimant(w)
    BY <2>3, InvSelects
  <2>4. CASE CommitLogin(w) \/ CommitConfirm(w) \/ CommitClose(w)
    BY <2>4, InvUserCommits
  <2>5. CASE CommitClaim(w) \/ CommitDecision(w)
    BY <2>5, InvProfileCommits
  <2> QED BY <1>2, <2>1, <2>2, <2>3, <2>4, <2>5 DEF Proceed
<1> QED BY <1>1, <1>2 DEF Next

LEMMA Invariance == Spec => []Inv
<1>1. Init => Inv
  BY InvInit
<1>2. Inv /\ [Next]_vars => Inv'
  BY InvNext
<1> QED BY <1>1, <1>2, PTL DEF Spec
-----------------------------------------------------------------------------
(* Type correctness: every row and every request in flight keeps its shape *)
(* through every handler of Claims.                                        *)
THEOREM TypeCorrect == Spec => []TypeOK
BY Invariance, PTL DEF Inv

(* A profile is only ever bound to a number that a claimant an admin       *)
(* approved had proved with a code, also when the claimant changes number  *)
(* or closes the account while the decision is in flight (decide_claim).   *)
THEOREM BindingsAreProved == Spec => []BindingWasProved
BY Invariance, PTL DEF Inv

(* A claim declined and never approved stays out of the queue, however     *)
(* many resubmissions were loaded before the decision (claim_profile).     *)
THEOREM DeclinedAreFinal == Spec => DeclinedStaysDeclined
<1> DEFINE Quiet == \A g \in Agents, a \in Accounts :
                      claim[g][a] = "rejected" /\ a \notin grants[g]
                        => claim'[g][a] # "pending"
<1>1. Inv /\ [Next]_vars => [Quiet]_vars
  <2> SUFFICES ASSUME Inv, Next, NEW g \in Agents, NEW a \in Accounts,
                      claim[g][a] = "rejected", a \notin grants[g]
               PROVE  claim'[g][a] # "pending"
      BY DEF vars
  <2> USE DEF At
  <2>0. /\ claim \in [Agents -> [Accounts -> ClaimStates]]
        /\ \A w \in Workers : Targets(req[w]) /\ LoadedSound(req[w])
    BY DEF Inv, TypeOK
  <2>1. ASSUME NEW w \in Workers, CommitClaim(w)
        PROVE  claim'[g][a] # "pending"
    <3> DEFINE h == req[w].agent  b == req[w].me
    <3>1. h \in Agents /\ b \in Accounts
      BY <2>0, <2>1 DEF CommitClaim, Targets
    <3>2. CASE h = g /\ b = a
      <4>1. req[w].status = "pending" \/ req[w].status \notin {"none", "approved"}
        BY <2>0, <2>1, <3>2 DEF CommitClaim, LoadedSound, Insertable
      <4>2. req[w].status \in ClaimStates \ {"rejected"}
        BY <2>0, <2>1 DEF Inv, TypeOK, Request, CommitClaim, LoadedSound
      <4>3. req[w].status = "pending"
        BY <4>1, <4>2 DEF ClaimStates
      <4>4. claim'[g][a] = claim[g][a]
        BY <2>0, <2>1, <3>2, <4>3 DEF CommitClaim, Col
      <4> QED BY <4>4
    <3>3. CASE ~(h = g /\ b = a)
      <4>1. claim'[g][a] = claim[g][a]
        BY <2>0, <2>1, <3>1, <3>3 DEF CommitClaim
      <4> QED BY <4>1
    <3> QED BY <3>2, <3>3
  <2>2. ASSUME NEW w \in Workers, CommitDecision(w)
        PROVE  claim'[g][a] # "pending"
    <3> DEFINE h == req[w].agent  b == req[w].me
               s == Col(claim[h][b], req[w].status, Decided(req[w].op))
    <3>1. h \in Agents /\ b \in Accounts /\ req[w].status = "pending"
      BY <2>0, <2>2 DEF CommitDecision, Targets, LoadedSound
    <3>2. s # "pending"
      BY <3>1 DEF Col, Decided
    <3>3. claim' = [claim EXCEPT ![h][b] = s]
      BY <2>2 DEF CommitDecision
    <3> HIDE DEF s
    <3> QED BY <2>0, <3>1, <3>2, <3>3
  <2>3. CASE claim' = claim
    BY <2>3
  <2>4. \/ claim' = claim
        \/ \E w \in Workers : CommitClaim(w) \/ CommitDecision(w)
    BY DEF Next, Receive, Proceed, Crash, Drop, Login, CommitLogin, LoginError,
       Confirm, SelectNumber, CommitConfirm, ConfirmError, Close, CommitClose,
       Claim, SelectClaim, ClaimError, Decide, SelectClaimant, profiles
  <2> QED BY <2>1, <2>2, <2>3, <2>4
<1> QED BY <1>1, Invariance, PTL DEF Spec, DeclinedStaysDeclined
-----------------------------------------------------------------------------
(* Approvals apart: those in flight together are for different profiles.   *)
ApprovalsApart ==
    \A v, w \in Workers :
      v # w /\ req[v].op = "approve" /\ req[w].op = "approve" => req[v].agent # req[w].agent

(* A profile without grants, or claimed with exactly one.                  *)
GrantsFollow ==
    \A g \in Agents : \/ grants[g] = {}
                      \/ claimed[g] /\ \E a \in Accounts : grants[g] = {a}

(* An approval in flight is for a profile still free.                      *)
ApprovesFree(w) == req[w].op = "approve" => ~claimed[req[w].agent]

GrantInv == GrantsFollow /\ \A w \in Workers : ApprovesFree(w)

LEMMA GrantInvInit == Init => GrantInv
<1> SUFFICES ASSUME Init PROVE GrantInv
    OBVIOUS
<1>1. ASSUME NEW g \in Agents
      PROVE  grants[g] = {}
  BY DEF Init
<1>2. GrantsFollow
  BY <1>1 DEF GrantsFollow
<1>3. ASSUME NEW w \in Workers
      PROVE  ApprovesFree(w)
  <2>1. req[w].op = "none"
    BY DEF Init, Idle
  <2> QED BY <2>1 DEF ApprovesFree
<1> QED BY <1>2, <1>3 DEF GrantInv

(* Steps that leave the profiles alone keep the invariant when the request *)
(* they write is not a new approval.                                       *)
LEMMA GrantInvAdvance ==
    ASSUME Inv, GrantInv, NEW w \in Workers, NEW r, Become(w, r),
           claimed' = claimed, grants' = grants,
           r.op = "approve" => ~claimed[r.agent]
    PROVE  GrantInv'
<1>1. req \in [Workers -> Request]
  BY DEF Inv, TypeOK
<1>2. GrantsFollow'
  BY DEF GrantInv, GrantsFollow
<1>3. ASSUME NEW v \in Workers
      PROVE  ApprovesFree(v)'
  BY <1>1 DEF Become, GrantInv, ApprovesFree
<1> QED BY <1>2, <1>3 DEF GrantInv

LEMMA GrantInvNext ==
    ASSUME ApprovalsApart, Inv, GrantInv, [Next]_vars
    PROVE  GrantInv'
<1> USE DEF At, profiles
<1>0. req \in [Workers -> Request] /\ grants \in [Agents -> SUBSET Accounts]
      /\ claimed \in [Agents -> BOOLEAN]
  BY DEF Inv, TypeOK
<1>1. CASE UNCHANGED vars
  BY <1>1 DEF vars, GrantInv, GrantsFollow, ApprovesFree
<1>2. ASSUME NEW w \in Workers, Receive(w)
      PROVE  GrantInv'
  <2>1. claimed' = claimed /\ grants' = grants
    BY <1>2 DEF Receive, Login, Confirm, Close, Claim, Decide
  <2> DEFINE r == req'[w]
  <2>2. Become(w, r)
    BY <1>0, <1>2 DEF Receive, Login, Confirm, Close, Claim, Decide, Become
  <2>3. CASE \E b \in Accounts, g \in Agents, d \in Decisions : Decide(w, b, g, d)
    <3>1. r.op = "approve" => ~claimed[r.agent]
      BY <1>0, <2>3 DEF Decide, Become, Idle, StillFree
    <3> QED BY <2>1, <2>2, <3>1, GrantInvAdvance
  <2>4. CASE ~\E b \in Accounts, g \in Agents, d \in Decisions : Decide(w, b, g, d)
    <3> SUFFICES r.op # "approve"
        BY <2>1, <2>2, GrantInvAdvance
    <3>1. CASE \E p \in Phones : Login(w, p)
      BY <1>0, <3>1 DEF Login, Become, Idle
    <3>2. CASE \E b \in Accounts, p \in Phones : Confirm(w, b, p)
      BY <1>0, <3>2 DEF Confirm, Become, Idle
    <3>3. CASE \E b \in Accounts : Close(w, b)
      BY <1>0, <3>3 DEF Close, Become, Idle
    <3>4. CASE \E b \in Accounts, g \in Agents : Claim(w, b, g)
      BY <1>0, <3>4 DEF Claim, Become, Idle
    <3> QED BY <1>2, <2>4, <3>1, <3>2, <3>3, <3>4 DEF Receive
  <2> QED BY <2>3, <2>4
<1>3. ASSUME NEW w \in Workers, Crash(w) \/ (Proceed(w) /\ ~CommitDecision(w))
      PROVE  GrantInv'
  <2>1. claimed' = claimed /\ grants' = grants
    BY <1>3 DEF Proceed, Crash, Drop, CommitLogin, LoginError, SelectNumber,
       CommitConfirm, ConfirmError, CommitClose, SelectClaim, CommitClaim,
       ClaimError, SelectClaimant
  <2> DEFINE r == req'[w]
  <2>2. Become(w, r)
    BY <1>0, <1>3 DEF Proceed, Crash, Drop, CommitLogin, LoginError,
       SelectNumber, CommitConfirm, ConfirmError, CommitClose, SelectClaim,
       CommitClaim, ClaimError, SelectClaimant, Become
  <2>3. r = Idle \/ SelectNumber(w) \/ SelectClaim(w) \/ SelectClaimant(w)
    BY <1>0, <1>3 DEF Proceed, Crash, Drop, CommitLogin, LoginError,
       CommitConfirm, ConfirmError, CommitClose, CommitClaim, ClaimError, Become
  <2>4. req[w] \in Request
    BY <1>0
  <2>5. CASE SelectNumber(w) \/ SelectClaim(w)
    <3>0. Idle.op = "none"
      BY DEF Idle
    <3>1. r.op # "approve"
      BY <1>0, <2>4, <2>5, <3>0 DEF SelectNumber, SelectClaim, Become, Request
    <3> QED BY <2>1, <2>2, <3>1, GrantInvAdvance
  <2>6. CASE SelectClaimant(w)
    <3>1. r.op = "approve" /\ req[w].op = "approve" /\ r.agent = req[w].agent
      BY <1>0, <2>4, <2>6 DEF SelectClaimant, Become, Request
    <3>2. ~claimed[r.agent]
      BY <3>1 DEF GrantInv, ApprovesFree
    <3> HIDE DEF r
    <3> QED BY <2>1, <2>2, <3>2, GrantInvAdvance
  <2>7. CASE r = Idle
    <3>1. r.op # "approve"
      BY <2>7 DEF Idle
    <3> QED BY <2>1, <2>2, <3>1, GrantInvAdvance
  <2> QED BY <2>3, <2>5, <2>6, <2>7
<1>4. ASSUME NEW w \in Workers, CommitDecision(w)
      PROVE  GrantInv'
  <2> DEFINE g == req[w].agent  a == req[w].me
  <2>1. g \in Agents /\ a \in Accounts
    BY <1>4 DEF CommitDecision, Inv, Targets
  <2>2. Become(w, Idle) /\ Idle.op = "none"
    BY <1>4 DEF CommitDecision, Idle
  <2>3. CASE req[w].op # "approve"
    <3>1. claimed' = claimed /\ grants' = grants
      BY <1>4, <2>3 DEF CommitDecision
    <3> QED BY <2>2, <3>1, GrantInvAdvance
  <2>4. CASE req[w].op = "approve"
    <3>1. /\ claimed' = [claimed EXCEPT ![g] = TRUE]
          /\ grants' = [grants EXCEPT ![g] = @ \cup {a}]
      BY <1>4, <2>4 DEF CommitDecision
    <3>2. grants[g] = {}
      BY <2>1, <2>4 DEF GrantInv, ApprovesFree, GrantsFollow
    <3>3. GrantsFollow'
      BY <1>0, <2>1, <3>1, <3>2 DEF GrantInv, GrantsFollow
    <3>4. ASSUME NEW v \in Workers
          PROVE  ApprovesFree(v)'
      <4>1. CASE v = w
        BY <1>0, <2>2, <4>1 DEF Become, ApprovesFree
      <4>2. CASE v # w
        <5>1. req'[v] = req[v]
          BY <1>0, <2>2, <4>2 DEF Become
        <5>2. req[v].op = "approve" => req[v].agent # g /\ ~claimed[req[v].agent]
          BY <2>4, <4>2 DEF ApprovalsApart, GrantInv, ApprovesFree
        <5> QED BY <1>0, <2>1, <3>1, <5>1, <5>2 DEF ApprovesFree
      <4> QED BY <4>1, <4>2
    <3> QED BY <3>3, <3>4 DEF GrantInv
  <2> QED BY <2>3, <2>4
<1> QED BY <1>1, <1>2, <1>3, <1>4 DEF Next

(* While no two approvals for one profile are in flight together, it is    *)
(* granted to at most one claimant, for any number of decisions,           *)
(* claimants, resubmissions, closures and changes of number in flight      *)
(* (decide_claim).                                                         *)
THEOREM OneGrant == Spec /\ []ApprovalsApart => []GrantedOnce
<1>1. ApprovalsApart /\ Inv /\ GrantInv /\ [Next]_vars => GrantInv'
  BY GrantInvNext
<1>2. GrantInv => GrantedOnce
  <2> SUFFICES ASSUME GrantInv, NEW g \in Agents
               PROVE  Cardinality(grants[g]) <= 1
      BY DEF GrantedOnce
  <2>1. CASE grants[g] = {}
    BY <2>1, FS_EmptySet
  <2>2. ASSUME NEW a \in Accounts, grants[g] = {a}
        PROVE  Cardinality(grants[g]) <= 1
    <3>1. Cardinality({a}) = 1
      BY FS_Singleton
    <3> QED BY <2>2, <3>1
  <2> QED BY <2>1, <2>2 DEF GrantInv, GrantsFollow
<1> QED BY <1>1, <1>2, GrantInvInit, Invariance, PTL DEF Spec
-----------------------------------------------------------------------------
(* The refinement.  A commit of a login or a confirmation is Prove, of a   *)
(* claim Submit, of a decision Approve or Decline; no other step changes   *)
(* what Profiles sees.                                                     *)
Queued  == {x \in Pairs : claim[x[1]][x[2]] = "pending"}
Refused == {x \in Pairs : claim[x[1]][x[2]] = "rejected" /\ x[2] \notin grants[x[1]]}

LEMMA ViewInit == Init => ProfilesView!Init
BY DEF Init, ProfilesView!Init, Pairs

LEMMA ViewUnseen ==
    ASSUME UNCHANGED <<held, claim, grants, bound>>
    PROVE  UNCHANGED ProfilesView!vars
<1>1. Queued' = Queued /\ Refused' = Refused
  BY DEF Queued, Refused
<1> QED BY <1>1 DEF ProfilesView!vars, Queued, Refused

LEMMA ViewProve ==
    ASSUME Inv, NEW w \in Workers, CommitLogin(w) \/ CommitConfirm(w)
    PROVE  ProfilesView!Next \/ UNCHANGED ProfilesView!vars
<1>1. Targets(req[w]) /\ UNCHANGED profiles
  BY DEF Inv, CommitLogin, CommitConfirm
<1>2. Queued' = Queued /\ Refused' = Refused
  BY <1>1 DEF Queued, Refused, profiles
<1>3. CASE held' = held
  BY <1>1, <1>3, ViewUnseen DEF profiles
<1>4. CASE held' # held
  <2>1. PICK a \in Accounts, p \in Phones : held' = [held EXCEPT ![a] = @ \cup {p}]
    <3>1. CASE CommitLogin(w)
      BY <1>1, <1>4, <3>1 DEF CommitLogin, Targets, At, users
    <3>2. CASE CommitConfirm(w)
      BY <1>1, <3>2 DEF CommitConfirm, Targets, At
    <3> QED BY <3>1, <3>2
  <2>2. ProfilesView!Prove(a, p)
    BY <1>1, <1>2, <2>1 DEF ProfilesView!Prove, profiles, Queued, Refused
  <2> QED BY <2>2 DEF ProfilesView!Next
<1> QED BY <1>3, <1>4

(* A write to one claim, as Profiles sees it.                              *)
LEMMA ViewWrite ==
    ASSUME TypeOK, NEW g \in Agents, NEW a \in Accounts, NEW s \in ClaimStates,
           claim' = [claim EXCEPT ![g][a] = s],
           grants' = [grants EXCEPT ![g] = grants'[g]],
           grants'[g] \in {grants[g], grants[g] \cup {a}}
    PROVE  /\ Queued' = IF s = "pending" THEN Queued \cup {<<g, a>>}
                        ELSE Queued \ {<<g, a>>}
           /\ Refused' = IF s = "rejected" /\ a \notin grants'[g]
                         THEN Refused \cup {<<g, a>>} ELSE Refused \ {<<g, a>>}
<1>1. claim'[g][a] = s
  BY DEF TypeOK
<1>2. \A h \in Agents, b \in Accounts : <<h, b>> # <<g, a>> =>
        /\ claim'[h][b] = claim[h][b]
        /\ b \in grants'[h] <=> b \in grants[h]
  BY DEF TypeOK
<1>3. <<g, a>> \in Pairs /\ <<g, a>>[1] = g /\ <<g, a>>[2] = a
  BY DEF Pairs
<1>4. \A x \in Pairs : x[1] \in Agents /\ x[2] \in Accounts /\ x = <<x[1], x[2]>>
  BY DEF Pairs
<1>5. \A x \in Pairs : x # <<g, a>> => /\ x \in Queued' <=> x \in Queued
                                       /\ x \in Refused' <=> x \in Refused
  BY <1>2, <1>4 DEF Queued, Refused
<1>6. /\ <<g, a>> \in Queued' <=> s = "pending"
      /\ <<g, a>> \in Refused' <=> s = "rejected" /\ a \notin grants'[g]
  BY <1>1, <1>3 DEF Queued, Refused
<1>7. Queued \subseteq Pairs /\ Refused \subseteq Pairs
      /\ Queued' \subseteq Pairs /\ Refused' \subseteq Pairs
  BY DEF Queued, Refused
<1> QED BY <1>3, <1>5, <1>6, <1>7

LEMMA ViewSubmit ==
    ASSUME Inv, NEW w \in Workers, CommitClaim(w)
    PROVE  ProfilesView!Next \/ UNCHANGED ProfilesView!vars
<1> DEFINE r == req[w]
<1>0. /\ TypeOK /\ r \in Request /\ r.pc = "commit" /\ r.op = "claim"
      /\ Targets(r) /\ LoadedSound(r)
  BY DEF CommitClaim, At, Inv, TypeOK
<1>1. PICK g \in Agents, a \in Accounts : g = r.agent /\ a = r.me
  BY <1>0 DEF Targets
<1>2. /\ UNCHANGED <<users, claimed, bound, grants>>
      /\ claim' = [claim EXCEPT ![g][a] = Col(@, r.status, "pending")]
      /\ r.status = "none" => claim[g][a] = "none"
  BY <1>1 DEF CommitClaim, Insertable
<1>3. CASE r.status = "pending"
  <2>1. claim' = claim
    BY <1>0, <1>1, <1>2, <1>3 DEF Col, TypeOK
  <2> QED BY <1>2, <2>1, ViewUnseen DEF users
<1>4. CASE r.status # "pending"
  <2>1. claim' = [claim EXCEPT ![g][a] = "pending"]
    BY <1>1, <1>2, <1>4 DEF Col
  <2>2. claim[g][a] = "none" \/ a \in grants[g]
    BY <1>0, <1>1, <1>2, <1>4 DEF LoadedSound, Request, ClaimStates
  <2>3. <<g, a>> \notin Refused
    BY <2>2 DEF Refused
  <2>4. Queued' = Queued \cup {<<g, a>>} /\ Refused' = Refused \ {<<g, a>>}
    <3>1. grants' = [grants EXCEPT ![g] = grants'[g]]
      BY <1>0, <1>2 DEF TypeOK
    <3> QED BY <1>0, <1>1, <1>2, <2>1, <3>1, ViewWrite DEF ClaimStates
  <2>5. ProfilesView!Submit(g, a)
    BY <1>2, <2>3, <2>4 DEF ProfilesView!Submit, Queued, Refused, users
  <2> QED BY <2>5 DEF ProfilesView!Next
<1> QED BY <1>3, <1>4

LEMMA ViewDecide ==
    ASSUME Inv, NEW w \in Workers, CommitDecision(w)
    PROVE  ProfilesView!Next
<1> DEFINE r == req[w]
<1>0. /\ TypeOK /\ r \in Request /\ r.pc = "commit" /\ r.op \in Decisions
      /\ Targets(r) /\ LoadedSound(r) /\ BindsProved(r)
  BY DEF CommitDecision, At, Inv, TypeOK
<1>1. PICK g \in Agents, a \in Accounts : g = r.agent /\ a = r.me
  BY <1>0 DEF Targets
<1>2. r.status = "pending" /\ claim[g][a] # "none"
  BY <1>0, <1>1 DEF LoadedSound
<1>3. claim' = [claim EXCEPT ![g][a] = Decided(r.op)] /\ UNCHANGED users
  BY <1>1, <1>2 DEF CommitDecision, Col, Decided
<1>4. ProfilesView!Asked(g, a)
  <2>1. claim[g][a] \in {"pending", "rejected"} \/ a \in grants[g]
    BY <1>0, <1>1, <1>2 DEF TypeOK, ClaimStates, Inv, ApprovedWereGranted
  <2>2. <<g, a>> \in Pairs /\ <<g, a>>[1] = g /\ <<g, a>>[2] = a
    BY <1>1 DEF Pairs
  <2> QED BY <2>1, <2>2 DEF ProfilesView!Asked
<1>5. CASE r.op = "approve"
  <2>1. /\ grants' = [grants EXCEPT ![g] = @ \cup {a}]
        /\ bound' = [bound EXCEPT ![g] = Col(@, r.mine, r.phone)]
    BY <1>1, <1>5 DEF CommitDecision
  <2>2. Queued' = Queued \ {<<g, a>>} /\ Refused' = Refused \ {<<g, a>>}
    <3>1. grants' = [grants EXCEPT ![g] = grants'[g]] /\ grants'[g] = grants[g] \cup {a}
      BY <1>0, <2>1 DEF TypeOK
    <3> QED BY <1>0, <1>3, <1>5, <3>1, ViewWrite DEF Decided, ClaimStates
  <2>3. r.phone \in held[a] \cup {NoPhone}
    BY <1>0, <1>1, <1>5 DEF BindsProved
  <2>4. PICK p \in held[a] \cup {NoPhone, bound[g]} : bound' = [bound EXCEPT ![g] = p]
    BY <2>1, <2>3 DEF Col
  <2>5. ProfilesView!Approve(g, a)
    BY <1>3, <1>4, <2>1, <2>2, <2>4
       DEF ProfilesView!Approve, Queued, Refused, users
  <2> QED BY <2>5 DEF ProfilesView!Next
<1>6. CASE r.op = "reject"
  <2>1. UNCHANGED <<claimed, bound, grants>>
    BY <1>6 DEF CommitDecision
  <2>2. /\ Queued' = Queued \ {<<g, a>>}
        /\ Refused' = IF a \notin grants[g] THEN Refused \cup {<<g, a>>}
                      ELSE Refused \ {<<g, a>>}
    <3>1. grants' = [grants EXCEPT ![g] = grants'[g]]
      BY <1>0, <2>1 DEF TypeOK
    <3> QED BY <1>0, <1>3, <1>6, <2>1, <3>1, ViewWrite DEF Decided, ClaimStates
  <2>3. a \in grants[g] => <<g, a>> \notin Refused
    BY DEF Refused
  <2>4. ProfilesView!Decline(g, a)
    BY <1>3, <1>4, <2>1, <2>2, <2>3 DEF ProfilesView!Decline, Queued, Refused, users
  <2> QED BY <2>4 DEF ProfilesView!Next
<1> QED BY <1>0, <1>1, <1>5, <1>6 DEF Decisions

LEMMA ViewNext ==
    ASSUME Inv, [Next]_vars
    PROVE  [ProfilesView!Next]_(ProfilesView!vars)
<1>1. CASE UNCHANGED <<held, claim, grants, bound>>
  BY <1>1, ViewUnseen
<1>2. ASSUME NEW w \in Workers, Receive(w) \/ Crash(w)
      PROVE  UNCHANGED <<held, claim, grants, bound>>
  BY <1>2 DEF Receive, Crash, Drop, Login, Confirm, Close, Claim, Decide, users, profiles
<1>3. ASSUME NEW w \in Workers, Proceed(w),
             ~(CommitLogin(w) \/ CommitConfirm(w) \/ CommitClaim(w) \/ CommitDecision(w))
      PROVE  UNCHANGED <<held, claim, grants, bound>>
  BY <1>3 DEF Proceed, Drop, LoginError, SelectNumber, ConfirmError, CommitClose,
              SelectClaim, ClaimError, SelectClaimant, users, profiles
<1>4. CASE UNCHANGED vars
  BY <1>1, <1>4 DEF vars, users, profiles
<1> QED BY <1>1, <1>2, <1>3, <1>4, ViewProve, ViewSubmit, ViewDecide DEF Next

(* Claims implements Profiles, for any number of requests and deciders in  *)
(* flight: a profile gets a speaker, a number or a decision only as that   *)
(* specification allows (claim_profile, decide_claim).                     *)
THEOREM ProfilesImplemented == Spec => ImplementsProfiles
<1>1. Inv /\ [Next]_vars => [ProfilesView!Next]_(ProfilesView!vars)
  BY ViewNext
<1> QED BY <1>1, ViewInit, Invariance, PTL DEF Spec, ImplementsProfiles, ProfilesView!Spec
-----------------------------------------------------------------------------
(* Claims apart: no two requests in flight, claims or decisions, concern   *)
(* the same claim.                                                         *)
OnAClaim(r) == r.op \in {"claim"} \cup Decisions
About(r) == <<r.agent, r.me>>
ClaimsApart ==
    \A v, w \in Workers :
      v # w /\ OnAClaim(req[v]) /\ OnAClaim(req[w]) => About(req[v]) # About(req[w])

(* The claim a request works on is not decided yet: a claim passed the     *)
(* check that the profile is free, a decision that it is pending.          *)
StillOpen(r) ==
    /\ r.op = "claim" => /\ claim[r.agent][r.me] # "approved"
                         /\ r.pc = "commit" => claim[r.agent][r.me] # "rejected"
    /\ r.op \in Decisions => claim[r.agent][r.me] = "pending"

FinalInv ==
    /\ \A g \in Agents, a \in Accounts : claim[g][a] = "approved" => claimed[g]
    /\ \A w \in Workers : StillOpen(req[w])

LEMMA FinalInit == Init => FinalInv
<1> SUFFICES ASSUME Init PROVE FinalInv
    OBVIOUS
<1>1. \A g \in Agents, a \in Accounts : claim[g][a] # "approved"
  BY DEF Init
<1>2. \A w \in Workers : StillOpen(req[w])
  BY DEF Init, Idle, StillOpen, Decisions
<1> QED BY <1>1, <1>2 DEF FinalInv

(* A step that writes no claim and no profile.                             *)
LEMMA FinalAdvance ==
    ASSUME Inv, FinalInv, NEW w \in Workers, NEW r, Become(w, r),
           UNCHANGED <<claim, claimed>>, StillOpen(r)
    PROVE  FinalInv'
<1>1. \A g \in Agents, a \in Accounts : (claim[g][a] = "approved" => claimed[g])'
  BY DEF FinalInv
<1>2. ASSUME NEW v \in Workers
      PROVE  StillOpen(req[v])'
  <2>1. PICK s : s = IF v = w THEN r ELSE req[v]
    OBVIOUS
  <2>2. req'[v] = s /\ StillOpen(s)
    BY <2>1 DEF Become, Inv, TypeOK, FinalInv
  <2> QED BY <2>2 DEF StillOpen
<1> QED BY <1>1, <1>2 DEF FinalInv

LEMMA FinalStart ==
    ASSUME Inv, FinalInv, NEW w \in Workers, Receive(w)
    PROVE  FinalInv'
<1> USE DEF profiles
<1>1. ASSUME NEW a \in Accounts, NEW g \in Agents, Claim(w, a, g)
      PROVE  FinalInv'
  <2> DEFINE r == [Idle EXCEPT !.pc = "select", !.op = "claim", !.me = a, !.agent = g]
  <2>1. r.op = "claim" /\ r.pc = "select" /\ r.me = a /\ r.agent = g
    BY DEF Idle
  <2>2. Become(w, r) /\ UNCHANGED <<claim, claimed>> /\ ~claimed[g]
    BY <1>1 DEF Claim
  <2> HIDE DEF r
  <2>3. StillOpen(r)
    BY <2>1, <2>2 DEF StillOpen, Decisions, FinalInv
  <2> QED BY <2>2, <2>3, FinalAdvance
<1>2. ASSUME NEW a \in Accounts, NEW g \in Agents, NEW d \in Decisions, Decide(w, a, g, d)
      PROVE  FinalInv'
  <2> DEFINE r == [Idle EXCEPT !.pc = IF d = "approve" THEN "select" ELSE "commit",
                               !.op = d, !.me = a, !.agent = g,
                               !.status = "pending", !.mine = bound[g]]
  <2>1. r.op = d /\ r.me = a /\ r.agent = g
    BY DEF Idle
  <2>2. Become(w, r) /\ UNCHANGED <<claim, claimed>> /\ claim[g][a] = "pending"
    BY <1>2 DEF Decide
  <2> HIDE DEF r
  <2>3. StillOpen(r)
    BY <2>1, <2>2 DEF StillOpen, Decisions
  <2> QED BY <2>2, <2>3, FinalAdvance
<1>3. ASSUME \/ \E p \in Phones : Login(w, p)
             \/ \E a \in Accounts, p \in Phones : Confirm(w, a, p)
             \/ \E a \in Accounts : Close(w, a)
      PROVE  FinalInv'
  <2> DEFINE r == req'[w]
  <2>0. req \in [Workers -> Request]
    BY DEF Inv, TypeOK
  <2>1. Become(w, r) /\ UNCHANGED <<claim, claimed>>
    BY <1>3, <2>0 DEF Login, Confirm, Close, Become
  <2>2. r.op \in {"login", "confirm", "close"}
    BY <1>3, <2>0 DEF Login, Confirm, Close, Become, Idle
  <2> HIDE DEF r
  <2>3. StillOpen(r)
    BY <2>2 DEF StillOpen, Decisions
  <2> QED BY <2>1, <2>3, FinalAdvance
<1> QED BY <1>1, <1>2, <1>3 DEF Receive

(* Past the receipt, until it writes a claim.                              *)
LEMMA FinalRead ==
    ASSUME Inv, FinalInv, NEW w \in Workers, Proceed(w) \/ Crash(w),
           ~CommitClaim(w), ~CommitDecision(w)
    PROVE  FinalInv'
<1> USE DEF profiles
<1>1. UNCHANGED <<claim, claimed>> /\ req[w] \in Request /\ StillOpen(req[w])
  BY DEF Proceed, Crash, Drop, CommitLogin, LoginError, SelectNumber, CommitConfirm,
     ConfirmError, CommitClose, SelectClaim, ClaimError, SelectClaimant, Inv, TypeOK, FinalInv
<1>2. StillOpen(Idle)
  BY DEF StillOpen, Idle, Decisions
<1>3. CASE SelectClaim(w)
  <2>1. CASE Declined(claim[req[w].agent][req[w].me])
    <3>1. Become(w, Idle)
      BY <1>3, <2>1 DEF SelectClaim
    <3> QED BY <1>1, <1>2, <3>1, FinalAdvance
  <2>2. CASE ~Declined(claim[req[w].agent][req[w].me])
    <3> DEFINE r == [req[w] EXCEPT !.pc = "commit",
                                   !.status = claim[req[w].agent][req[w].me]]
    <3>1. Become(w, r)
      BY <1>3, <2>2 DEF SelectClaim
    <3>2. r.op = req[w].op /\ r.me = req[w].me /\ r.agent = req[w].agent
      BY <1>1 DEF Request
    <3> HIDE DEF r
    <3>3. StillOpen(r)
      BY <1>1, <2>2, <3>2 DEF StillOpen, Declined
    <3> QED BY <1>1, <3>1, <3>3, FinalAdvance
  <2> QED BY <2>1, <2>2
<1>4. CASE SelectClaimant(w) \/ SelectNumber(w)
  <2> DEFINE r == req'[w]
  <2>0. req \in [Workers -> Request]
    BY DEF Inv, TypeOK
  <2>1. Become(w, r)
    BY <1>4, <2>0 DEF SelectClaimant, SelectNumber, Become
  <2>2. \/ r = Idle
        \/ /\ r.op = req[w].op /\ r.me = req[w].me /\ r.agent = req[w].agent
           /\ req[w].op # "claim"
    <3>1. CASE SelectClaimant(w)
      BY <1>1, <2>0, <3>1 DEF SelectClaimant, Become, At, Request
    <3>2. CASE SelectNumber(w)
      BY <1>1, <2>0, <3>2 DEF SelectNumber, Become, At, Request
    <3> QED BY <1>4, <3>1, <3>2
  <2> HIDE DEF r
  <2>3. StillOpen(r)
    BY <1>1, <1>2, <2>2 DEF StillOpen
  <2> QED BY <1>1, <2>1, <2>3, FinalAdvance
<1>5. CASE ~SelectClaim(w) /\ ~SelectClaimant(w) /\ ~SelectNumber(w)
  <2>1. Become(w, Idle)
    BY <1>5 DEF Proceed, Crash, Drop, CommitLogin, LoginError, CommitConfirm, ConfirmError,
       CommitClose, ClaimError
  <2> QED BY <1>1, <1>2, <2>1, FinalAdvance
<1> QED BY <1>3, <1>4, <1>5

(* One claim is written, an open one; the other requests are about others. *)
LEMMA FinalWrite ==
    ASSUME ClaimsApart, Inv, FinalInv, NEW w \in Workers,
           CommitClaim(w) \/ CommitDecision(w)
    PROVE  /\ FinalInv'
           /\ \A g \in Agents, a \in Accounts :
                claim[g][a] \in {"approved", "rejected"} => claim'[g][a] = claim[g][a]
<1> DEFINE g == req[w].agent  a == req[w].me
<1>1. /\ OnAClaim(req[w]) /\ StillOpen(req[w]) /\ Become(w, Idle)
      /\ req \in [Workers -> Request]
      /\ claim \in [Agents -> [Accounts -> ClaimStates]] /\ claimed \in [Agents -> BOOLEAN]
  BY DEF CommitClaim, CommitDecision, At, OnAClaim, FinalInv, Inv, TypeOK
<1>2. g \in Agents /\ a \in Accounts
  BY <1>1 DEF Inv, Targets, OnAClaim
<1>3. claim[g][a] \notin {"approved", "rejected"}
  BY <1>1 DEF StillOpen, OnAClaim, CommitClaim, CommitDecision, At, Decisions
<1>4. PICK s : /\ claim' = [claim EXCEPT ![g][a] = s]
               /\ claimed' = IF s = "approved" THEN [claimed EXCEPT ![g] = TRUE] ELSE claimed
  <2>1. CASE CommitClaim(w)
    <3> DEFINE s == Col(claim[g][a], req[w].status, "pending")
    <3>1. claim' = [claim EXCEPT ![g][a] = s] /\ claimed' = claimed
      BY <2>1 DEF CommitClaim
    <3>2. s # "approved"
      BY <1>3 DEF Col
    <3> QED BY <3>1, <3>2
  <2>2. CASE CommitDecision(w)
    <3> DEFINE s == Col(claim[g][a], req[w].status, Decided(req[w].op))
    <3>1. claim' = [claim EXCEPT ![g][a] = s]
      BY <2>2 DEF CommitDecision
    <3>2. req[w].op = "approve" => claimed' = [claimed EXCEPT ![g] = TRUE]
      BY <2>2 DEF CommitDecision
    <3>3. req[w].op # "approve" => claimed' = claimed
      BY <2>2 DEF CommitDecision
    <3>4. req[w].status = "pending"
      BY <1>1, <2>2 DEF CommitDecision, At, Inv, LoadedSound
    <3>5. s = Decided(req[w].op)
      BY <3>4 DEF Col, Decided
    <3>6. s = "approved" <=> req[w].op = "approve"
      BY <3>5 DEF Decided
    <3> HIDE DEF s
    <3> QED BY <3>1, <3>2, <3>3, <3>6
  <2> QED BY <2>1, <2>2
<1>5. \A h \in Agents, b \in Accounts :
        claim'[h][b] = IF h = g /\ b = a THEN s ELSE claim[h][b]
  BY <1>1, <1>2, <1>4
<1>6. \A h \in Agents, b \in Accounts : (claim[h][b] = "approved" => claimed[h])'
  BY <1>1, <1>2, <1>4, <1>5 DEF FinalInv
<1>7. ASSUME NEW v \in Workers
      PROVE  StillOpen(req[v])'
  <2>1. CASE v = w
    BY <1>1, <2>1 DEF Become, StillOpen, Idle, Decisions
  <2>2. CASE v # w
    <3>1. PICK t : t = req[v] /\ req'[v] = t /\ StillOpen(t) /\ Targets(t)
      BY <1>1, <2>2 DEF Become, FinalInv, Inv
    <3>2. OnAClaim(t) => /\ t.agent \in Agents /\ t.me \in Accounts
                         /\ t.agent # g \/ t.me # a
      BY <1>1, <2>2, <3>1 DEF ClaimsApart, About, OnAClaim, Targets
    <3>3. OnAClaim(t) => claim'[t.agent][t.me] = claim[t.agent][t.me]
      BY <1>5, <3>2
    <3> QED BY <3>1, <3>3 DEF StillOpen, OnAClaim
  <2> QED BY <2>1, <2>2
<1> QED BY <1>3, <1>5, <1>6, <1>7 DEF FinalInv

(* What two requests on one claim can undo, nothing else can: while those  *)
(* in flight concern different claims, a claim once approved or rejected   *)
(* stays so (decide_claim), whatever else is decided, claimed, closed or   *)
(* renumbered beside it.                                                   *)
THEOREM DecisionsStand == Spec /\ []ClaimsApart => DecisionIsFinal
<1> DEFINE Keeps == \A g \in Agents, a \in Accounts :
                      claim[g][a] \in {"approved", "rejected"} => claim'[g][a] = claim[g][a]
<1>1. ClaimsApart /\ Inv /\ FinalInv /\ [Next]_vars => FinalInv' /\ Keeps
  <2> SUFFICES ASSUME ClaimsApart, Inv, FinalInv, [Next]_vars
               PROVE  FinalInv' /\ Keeps
      OBVIOUS
  <2>1. CASE \E w \in Workers : CommitClaim(w) \/ CommitDecision(w)
    BY <2>1, FinalWrite
  <2>2. CASE ~\E w \in Workers : CommitClaim(w) \/ CommitDecision(w)
    <3>1. claim' = claim
      BY <2>2 DEF Next, Receive, Proceed, Crash, Drop, Login, CommitLogin, LoginError,
         Confirm, SelectNumber, CommitConfirm, ConfirmError, Close, CommitClose,
         Claim, SelectClaim, ClaimError, Decide, SelectClaimant, profiles, vars
    <3>2. CASE Next
      <4>1. PICK w \in Workers : Receive(w) \/ Proceed(w) \/ Crash(w)
        BY <3>2 DEF Next
      <4>2. FinalInv'
        BY <2>2, <4>1, FinalStart, FinalRead
      <4> QED BY <3>1, <4>2
    <3>3. CASE UNCHANGED vars
      BY <3>3 DEF vars, profiles, FinalInv, StillOpen
    <3> QED BY <3>1, <3>2, <3>3
  <2> QED BY <2>1, <2>2
<1> HIDE DEF Keeps
<1>2. Keeps => [\A g \in Agents, a \in Accounts :
                  claim[g][a] \in {"approved", "rejected"}
                    => claim'[g][a] = claim[g][a]]_vars
  BY DEF Keeps
<1> QED BY <1>1, <1>2, FinalInit, Invariance, PTL DEF Spec, DecisionIsFinal
-----------------------------------------------------------------------------
(* No number is proved by a second account: none is handed on.             *)
NumbersNotReused ==
    \A a, b \in Accounts : a # b => held[a] \cap held[b] = {}

(* The right of reply goes with a number, so it is the claimant's as long  *)
(* as numbers do not pass on: whoever may reply for a profile was then     *)
(* approved for it (add_owner_response).                                   *)
THEOREM RepliesFollowNumbers == Spec /\ []NumbersNotReused => []RepliesAreGranted
<1>1. Inv /\ NumbersNotReused => RepliesAreGranted
  <2> SUFFICES ASSUME Inv, NumbersNotReused, NEW g \in Agents, NEW a \in Accounts,
                      MayReply(a, g)
               PROVE  a \in grants[g]
      BY DEF RepliesAreGranted
  <2>1. bound[g] # NoPhone /\ bound[g] = number[a]
    BY DEF MayReply
  <2>2. PICK b \in grants[g] : bound[g] \in held[b]
    BY <2>1 DEF Inv, BindingWasProved
  <2>3. b \in Accounts /\ bound[g] \in held[a]
    BY <2>1 DEF Inv, TypeOK, NumbersProved
  <2> QED BY <2>2, <2>3 DEF NumbersNotReused
<1> QED BY <1>1, Invariance, PTL
=============================================================================
