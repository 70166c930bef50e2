------------------------------- MODULE Profiles -------------------------------
(***************************************************************************)
(* What a claim on an agent's profile promises, without the requests that  *)
(* race to keep it: who asked and was not declined may be approved, a      *)
(* profile answers on a number that one of the approved has proved, and a  *)
(* "no" takes the claim out of the queue for good.                         *)
(***************************************************************************)
CONSTANTS Accounts, Phones, Agents, NoPhone

VARIABLES
    proved,     \* numbers each account has proved
    queue,      \* claims that wait for a decision, as <<agent, account>>
    declined,   \* claims declined and never approved
    speakers,   \* accounts approved for each profile
    voice       \* the number each profile is bound to, or NoPhone

vars == <<proved, queue, declined, speakers, voice>>

Asked(g, a) == <<g, a>> \in queue \cup declined \/ a \in speakers[g]

Prove(a, p) ==
    /\ proved' = [proved EXCEPT ![a] = @ \cup {p}]
    /\ UNCHANGED <<queue, declined, speakers, voice>>

(* First, again, or again after an approval: a profile is claimed from the *)
(* queue, and a declined claim does not return to it.                      *)
Submit(g, a) ==
    /\ <<g, a>> \notin declined
    /\ queue' = queue \cup {<<g, a>>}
    /\ UNCHANGED <<proved, declined, speakers, voice>>

(* Two who decide at once may overrule each other, so the claim need not   *)
(* be in the queue any more.  A claimant who has left has no number.       *)
Approve(g, a) ==
    /\ Asked(g, a)
    /\ speakers' = [speakers EXCEPT ![g] = @ \cup {a}]
    /\ \E p \in proved[a] \cup {NoPhone, voice[g]} : voice' = [voice EXCEPT ![g] = p]
    /\ queue' = queue \ {<<g, a>>}
    /\ declined' = declined \ {<<g, a>>}
    /\ proved' = proved

Decline(g, a) ==
    /\ Asked(g, a)
    /\ queue' = queue \ {<<g, a>>}
    /\ declined' = IF a \in speakers[g] THEN declined ELSE declined \cup {<<g, a>>}
    /\ UNCHANGED <<proved, speakers, voice>>

Init ==
    /\ proved = [a \in Accounts |-> {}]
    /\ queue = {} /\ declined = {}
    /\ speakers = [g \in Agents |-> {}]
    /\ voice = [g \in Agents |-> NoPhone]

Next ==
    \/ \E a \in Accounts, p \in Phones : Prove(a, p)
    \/ \E g \in Agents, a \in Accounts : Submit(g, a) \/ Approve(g, a) \/ Decline(g, a)

Spec == Init /\ [][Next]_vars
=============================================================================
