---------------------------- MODULE UpstreamProofs ----------------------------
(***************************************************************************)
(* Theorems about Upstream, for any number of processes and callers, any   *)
(* interval, poll and patience.                                            *)
(***************************************************************************)
EXTENDS Upstream, TLAPS

USE DEF At, Become

-----------------------------------------------------------------------------
(* The pace.  A slot has one winner: while nobody has claimed the current  *)
(* one, the last winner is older than the slot and the one before it more  *)
(* than an interval; once it is claimed, the winner before is older than   *)
(* the slot.                                                               *)
PaceInv ==
    /\ phase \in 0 .. (Interval - 1)
    /\ used \in 0..3
    /\ age = <<age[1], age[2]>>
    /\ age[1] \in 0 .. (Interval + 1) /\ age[2] \in 0 .. (Interval + 1)
    /\ used = 0 => age[1] > phase /\ age[2] > Interval
    /\ used > 0 => age[2] > phase

LEMMA PaceInit == Init => PaceInv
BY ConstantsOK DEF Init, PaceInv

LEMMA NextPhase ==
  ASSUME PaceInv, phase' = (phase + 1) % Interval
  PROVE  IF phase = Interval - 1 THEN phase' = 0 ELSE phase' = phase + 1
<1>1. CASE phase = Interval - 1
  BY <1>1, ConstantsOK DEF PaceInv
<1>2. CASE phase # Interval - 1
  <2>1. phase + 1 \in 0 .. (Interval - 1)
    BY <1>2, ConstantsOK DEF PaceInv
  <2> QED BY <1>2, <2>1, ConstantsOK
<1> QED BY <1>1, <1>2

LEMMA PaceTick ==
  ASSUME PaceInv, Tick
  PROVE  PaceInv'
<1>1. IF phase = Interval - 1 THEN phase' = 0 ELSE phase' = phase + 1
  BY NextPhase DEF Tick
<1>2. /\ used' = IF phase' = 0 THEN 0 ELSE used
      /\ age' = <<Capped(age[1] + 1, Interval + 1), Capped(age[2] + 1, Interval + 1)>>
  BY DEF Tick
<1> QED BY <1>1, <1>2, ConstantsOK DEF PaceInv, Capped

LEMMA PaceStep ==
  ASSUME PaceInv, NEW c \in Callers, Step(c)
  PROVE  PaceInv'
<1>1. CASE ClaimSlot(c)
  <2>1. used = 0 /\ used' = 1
    BY <1>1 DEF ClaimSlot, Wins, Capped, PaceInv
  <2>2. phase' = phase /\ age' = <<0, age[1]>>
    BY <1>1 DEF ClaimSlot
  <2> QED BY <2>1, <2>2, ConstantsOK DEF PaceInv
<1>2. CASE RetrySlot(c) \/ GiveUpOnSlot(c)
  <2>1. used > 0 /\ used' \in 1..3
    BY <1>2 DEF RetrySlot, GiveUpOnSlot, Wins, Capped, PaceInv
  <2>2. phase' = phase /\ age' = age
    BY <1>2 DEF RetrySlot, GiveUpOnSlot, clock
  <2> QED BY <2>1, <2>2 DEF PaceInv
<1>3. ASSUME UNCHANGED <<clock, used>> PROVE PaceInv'
  BY <1>3 DEF PaceInv, clock
<1> QED BY <1>1, <1>2, <1>3 DEF Step, PassLocal, StoreDown, FetchFails, EndSave, DriveFails,
             BeginSave, DriveAnswered, limiter

LEMMA PaceNext == PaceInv /\ [Next]_vars => PaceInv'
<1> SUFFICES ASSUME PaceInv, [Next]_vars PROVE PaceInv'
    OBVIOUS
<1>1. ASSUME UNCHANGED <<clock, used>> PROVE PaceInv'
  BY <1>1 DEF PaceInv, clock
<1>2. ASSUME NEW c \in Callers, AskDrive(c) \/ \E t \in Terms : Ask(c, t) PROVE PaceInv'
  BY <1>1, <1>2 DEF AskDrive, Ask, limiter
<1>3. ASSUME NEW p \in Procs, NEW k \in Kinds, Restart(p, k) PROVE PaceInv'
  BY <1>1, <1>3 DEF Restart
<1>4. ASSUME NEW k \in Kinds, RouteExpires(k) PROVE PaceInv'
  BY <1>1, <1>4 DEF RouteExpires, limiter
<1>5. CASE Register \/ SelectProperties \/ FetchHeights \/ CommitHeights \/ HeightsLost
  BY <1>1, <1>5 DEF Register, SelectProperties, FetchHeights, CommitHeights, HeightsLost, limiter
<1>6. CASE UNCHANGED vars
  BY <1>1, <1>6 DEF vars, limiter
<1> QED BY <1>2, <1>3, <1>4, <1>5, <1>6, PaceStep, PaceTick DEF Next

(* However many processes race for slots, and whatever restarts, any       *)
(* Interval + 1 consecutive ticks hold at most two calls that won a slot   *)
(* (AsyncRateLimiter).                                                     *)
THEOREM PaceIsKept == FairSpec => WithinPolicy
<1>1. ASSUME PaceInv, NEW c \in Callers, ClaimSlot(c) PROVE age[2] > Interval
  BY <1>1 DEF ClaimSlot, Wins, Capped, PaceInv
<1>2. PaceInv /\ [Next]_vars => [\A c \in Callers : ClaimSlot(c) => age[2] > Interval]_vars
  BY <1>1
<1> QED BY <1>2, PaceInit, PaceNext, PTL DEF FairSpec, WithinPolicy

-----------------------------------------------------------------------------
(* Cache files.  Whoever writes one means to leave an answer in it, and a  *)
(* process that dies meanwhile leaves its name.                            *)
Saving(c, t) == At(c, "save") /\ call[c].term = t

FilesInv ==
    /\ call = [c \in Callers |-> call[c]]
    /\ file = [t \in Terms |-> file[t]]
    /\ \A c \in Callers : At(c, "save") => call[c].answer # "torn"
    /\ TornByCrashOnly

(* A step that writes no file and keeps who is writing.                    *)
LEMMA FilesStand ==
  ASSUME FilesInv, file' = file, died \subseteq died',
         call' = [c \in Callers |-> call'[c]],
         \A c \in Callers : call'[c] = call[c] \/ (~At(c, "save") /\ call'[c].pc # "save")
  PROVE  FilesInv'
BY DEF FilesInv, TornByCrashOnly

LEMMA FilesStep ==
  ASSUME FilesInv, NEW c \in Callers, Step(c)
  PROVE  FilesInv'
<1>1. ASSUME NEW r, call' = [call EXCEPT ![c] = r], r.pc # "save", ~At(c, "save"),
             UNCHANGED disk
      PROVE  FilesInv'
  BY <1>1, FilesStand DEF FilesInv, disk
<1>2. Idle.pc = "idle"
  BY DEF Idle
<1>3. CASE PassLocal(c)
  <2> DEFINE r == [pc |-> "slot", term |-> call[c].term, wake |-> 0, left |-> MaxWait]
  <2>1. r.pc = "slot" /\ call' = [call EXCEPT ![c] = r] /\ ~At(c, "save") /\ UNCHANGED disk
    BY <1>3 DEF PassLocal
  <2> HIDE DEF r
  <2> QED BY <1>1, <2>1
<1>4. CASE ClaimSlot(c) \/ GiveUpOnSlot(c) \/ StoreDown(c)
  <2>1. Fetching(c).pc = "fetch" /\ call' = [call EXCEPT ![c] = Fetching(c)]
    BY <1>4 DEF ClaimSlot, GiveUpOnSlot, StoreDown, Fetching
  <2>2. ~At(c, "save") /\ UNCHANGED disk
    BY <1>4 DEF ClaimSlot, GiveUpOnSlot, StoreDown
  <2> QED BY <1>1, <2>1, <2>2
<1>5. CASE RetrySlot(c)
  <2> DEFINE r == [call[c] EXCEPT !.wake = Poll]
  <2>1. call' = [call EXCEPT ![c] = r] /\ At(c, "slot") /\ UNCHANGED disk
    BY <1>5 DEF RetrySlot
  <2>2. r.pc = "slot"
    BY <2>1
  <2> HIDE DEF r
  <2> QED BY <1>1, <2>1, <2>2
<1>6. CASE FetchFails(c) \/ DriveFails(c)
  BY <1>1, <1>2, <1>6 DEF FetchFails, DriveFails
<1>7. ASSUME NEW value, DriveAnswered(c, value) PROVE FilesInv'
  BY <1>1, <1>2, <1>7 DEF DriveAnswered
<1>8. ASSUME NEW answer \in {"hits", "empty"}, BeginSave(c, answer) PROVE FilesInv'
  <2> DEFINE r == [pc |-> "save", term |-> call[c].term, answer |-> answer]
  <2>1. /\ r.pc = "save" /\ r.term = call[c].term /\ r.answer # "torn"
        /\ call' = [call EXCEPT ![c] = r] /\ died' = died /\ ~At(c, "save")
        /\ file' = [file EXCEPT ![r.term] = "torn"]
    BY <1>8 DEF BeginSave
  <2> HIDE DEF r
  <2>2. /\ \A d \in Callers : call'[d] = IF d = c THEN r ELSE call[d]
        /\ \A t \in Terms : t # r.term => file'[t] = file[t]
    BY <2>1 DEF FilesInv
  <2>3. TornByCrashOnly'
    BY <2>1, <2>2 DEF FilesInv, TornByCrashOnly
  <2> QED BY <2>1, <2>2, <2>3 DEF FilesInv
<1>9. CASE EndSave(c)
  <2>1. /\ call' = [call EXCEPT ![c] = Idle] /\ died' = died
        /\ file' = [file EXCEPT ![call[c].term] = call[c].answer]
        /\ call[c].answer # "torn"
    BY <1>9 DEF EndSave, FilesInv
  <2>2. /\ \A d \in Callers : call'[d] = IF d = c THEN Idle ELSE call[d]
        /\ \A t \in Terms : file'[t] = "torn" => file[t] = "torn" /\ t # call[c].term
    BY <2>1 DEF FilesInv
  <2>3. TornByCrashOnly'
    BY <2>1, <2>2 DEF FilesInv, TornByCrashOnly
  <2> QED BY <1>2, <2>1, <2>2, <2>3 DEF FilesInv
<1> QED BY <1>3, <1>4, <1>5, <1>6, <1>7, <1>8, <1>9 DEF Step

LEMMA FilesRestart ==
  ASSUME FilesInv, NEW p \in Procs, NEW k \in Kinds, Restart(p, k)
  PROVE  FilesInv'
<1>1. /\ call' = [c \in Callers |-> IF c \in Mine(p) THEN Idle ELSE call[c]]
      /\ died' = died \cup {call[c].term : c \in {d \in Mine(p) : At(d, "save")}}
      /\ file' = file
  BY DEF Restart
<1>2. Idle.pc # "save"
  BY DEF Idle
<1>3. TornByCrashOnly'
  <2> SUFFICES ASSUME NEW t \in Terms, file[t] = "torn", t \notin died'
               PROVE  \E c \in Callers : call'[c].pc = "save" /\ call'[c].term = t
    BY <1>1 DEF TornByCrashOnly
  <2>1. PICK c \in Callers : At(c, "save") /\ call[c].term = t
    BY <1>1 DEF FilesInv, TornByCrashOnly
  <2>2. c \notin Mine(p)
    BY <1>1, <2>1
  <2> QED BY <1>1, <2>1, <2>2
<1> QED BY <1>1, <1>2, <1>3 DEF FilesInv

LEMMA FilesTick ==
  ASSUME FilesInv, Tick
  PROVE  FilesInv'
<1>1. UNCHANGED disk /\ call' = [c \in Callers |-> call'[c]]
  BY DEF Tick
<1>2. ASSUME NEW c \in Callers
      PROVE  call'[c] = call[c] \/ (~At(c, "save") /\ call'[c].pc # "save")
  <2> DEFINE r == [call[c] EXCEPT !.wake = Less(@), !.left = Less(@)]
  <2>1. call'[c] = IF At(c, "slot") THEN r ELSE call[c]
    BY DEF Tick
  <2>2. At(c, "slot") => r.pc = "slot"
    OBVIOUS
  <2> HIDE DEF r
  <2> QED BY <2>1, <2>2
<1> QED BY <1>1, <1>2, FilesStand DEF disk

LEMMA FilesNext == FilesInv /\ [Next]_vars => FilesInv'
<1> SUFFICES ASSUME FilesInv, [Next]_vars PROVE FilesInv'
    OBVIOUS
<1>1. ASSUME UNCHANGED <<call, disk>> PROVE FilesInv'
  BY <1>1, FilesStand DEF FilesInv, disk
<1>2. ASSUME NEW c \in Callers, NEW t \in Terms, Ask(c, t) PROVE FilesInv'
  <2> DEFINE r == [pc |-> "local", term |-> t]
  <2>1. r.pc = "local" /\ call' = [call EXCEPT ![c] = r] /\ ~At(c, "save") /\ UNCHANGED disk
    BY <1>2 DEF Ask
  <2> HIDE DEF r
  <2> QED BY <2>1, FilesStand DEF FilesInv, disk
<1>3. ASSUME NEW c \in Callers, AskDrive(c) PROVE FilesInv'
  <2> DEFINE r == [pc |-> "drive", kind |-> config[Proc[c]]]
  <2>1. r.pc = "drive" /\ call' = [call EXCEPT ![c] = r] /\ ~At(c, "save") /\ UNCHANGED disk
    BY <1>3 DEF AskDrive
  <2> HIDE DEF r
  <2> QED BY <2>1, FilesStand DEF FilesInv, disk
<1>4. ASSUME NEW k \in Kinds, RouteExpires(k) PROVE FilesInv'
  BY <1>1, <1>4 DEF RouteExpires
<1>5. CASE Register \/ SelectProperties \/ FetchHeights \/ CommitHeights \/ HeightsLost
  BY <1>1, <1>5 DEF Register, SelectProperties, FetchHeights, CommitHeights, HeightsLost
<1>6. CASE UNCHANGED vars
  BY <1>1, <1>6 DEF vars
<1> QED BY <1>2, <1>3, <1>4, <1>5, <1>6, FilesStep, FilesRestart, FilesTick DEF Next

(* A cache file no reader can parse is one that is being written, or one a *)
(* process died writing (save_cached).                                     *)
THEOREM OnlyCrashesTear == FairSpec => []TornByCrashOnly
<1>1. Init => FilesInv
  BY DEF Init, FilesInv, TornByCrashOnly, Idle
<1>2. FilesInv => TornByCrashOnly
  BY DEF FilesInv
<1> QED BY <1>1, <1>2, FilesNext, PTL DEF FairSpec

-----------------------------------------------------------------------------
(* A drive time is stored under the kind of provider that measured it,     *)
(* also while a process is restarted with another provider in mid-call     *)
(* (drive_estimate_min).                                                   *)
THEOREM LabelsAreHonest == FairSpec => []LabelsHonest
<1> DEFINE Inv == route = [k \in Kinds |-> route[k]] /\ LabelsHonest
<1>1. Init => Inv
  BY DEF Init, LabelsHonest
<1>2. Inv /\ [Next]_vars => Inv'
  <2> SUFFICES ASSUME Inv, [Next]_vars PROVE Inv'
      OBVIOUS
  <2>1. ASSUME UNCHANGED route PROVE Inv'
    BY <2>1 DEF LabelsHonest
  <2>2. ASSUME NEW c \in Callers, NEW value, DriveAnswered(c, value) PROVE Inv'
    BY <2>2 DEF DriveAnswered, RouteKey, LabelsHonest
  <2>3. ASSUME NEW k \in Kinds, RouteExpires(k) PROVE Inv'
    BY <2>3 DEF RouteExpires, LabelsHonest
  <2>4. ASSUME NEW c \in Callers, Step(c) PROVE Inv'
    BY <2>1, <2>2, <2>4 DEF Step, PassLocal, ClaimSlot, RetrySlot, GiveUpOnSlot, StoreDown,
       FetchFails, EndSave, DriveFails, BeginSave
  <2>5. ASSUME NEW c \in Callers, AskDrive(c) \/ \E t \in Terms : Ask(c, t) PROVE Inv'
    BY <2>1, <2>5 DEF AskDrive, Ask
  <2>6. CASE Register \/ SelectProperties \/ FetchHeights \/ CommitHeights \/ HeightsLost
    BY <2>1, <2>6 DEF Register, SelectProperties, FetchHeights, CommitHeights, HeightsLost
  <2>7. CASE Tick \/ \E p \in Procs, k \in Kinds : Restart(p, k)
    BY <2>1, <2>7 DEF Tick, Restart
  <2>8. CASE UNCHANGED vars
    BY <2>1, <2>8 DEF vars
  <2> QED BY <2>3, <2>4, <2>5, <2>6, <2>7, <2>8 DEF Next
<1>3. Inv => LabelsHonest
  OBVIOUS
<1> QED BY <1>1, <1>2, <1>3, PTL DEF FairSpec

-----------------------------------------------------------------------------
(* Heights.  A request for heights, and so every answer in the cache, is   *)
(* for the first so many properties in id order: two of one length are for *)
(* the same points.                                                        *)
FirstIds(n) == [i \in 1..n |-> i]

HeightsInv ==
    /\ town \in Nat
    /\ imp.pc # "idle" => \E n \in Nat : imp.points = FirstIds(n)
    /\ \A k \in DOMAIN heights : \E n \in Nat : heights[k] = FirstIds(n)
    /\ imp.pc = "read" => Key(imp.points) \in DOMAIN heights
    /\ MeasuredIsOwn

LEMMA FirstIdsFacts ==
  ASSUME NEW n \in Nat
  PROVE  /\ FirstIds(n) \in Seq(Nat) /\ Len(FirstIds(n)) = n
         /\ DOMAIN FirstIds(n) = 1..n /\ \A i \in 1..n : FirstIds(n)[i] = i
         /\ ToSet(FirstIds(n)) = 1..n
<1>1. /\ FirstIds(n) \in Seq(Nat) /\ Len(FirstIds(n)) = n
      /\ DOMAIN FirstIds(n) = 1..n /\ \A i \in 1..n : FirstIds(n)[i] = i
  BY DEF FirstIds
<1> QED
  BY <1>1 DEF ToSet

LEMMA IndexOfId ==
  ASSUME NEW n \in Nat, NEW p \in 1..n
  PROVE  SelectInSeq(FirstIds(n), LAMBDA q : q = p) = p
<1> DEFINE I == {i \in 1..Len(FirstIds(n)) : FirstIds(n)[i] = p}
<1>1. I = {p}
  BY FirstIdsFacts
<1>2. SelectInSeq(FirstIds(n), LAMBDA q : q = p) = IF I # {} THEN Min(I) ELSE 0
  BY DEF SelectInSeq, Min
<1> HIDE DEF I
<1>3. Min(I) = p
  BY <1>1 DEF Min
<1> QED
  BY <1>1, <1>2, <1>3

LEMMA HeightsInit == Init => HeightsInv
<1> SUFFICES ASSUME Init PROVE HeightsInv
    OBVIOUS
<1>1. DOMAIN heights = {}
  BY DEF Init
<1> QED
  BY <1>1 DEF Init, HeightsInv, MeasuredIsOwn, Idle

LEMMA FetchKeepsHeights ==
  ASSUME HeightsInv, FetchHeights
  PROVE  HeightsInv'
<1> DEFINE k == Key(imp.points)
<1>1. PICK n \in Nat : imp.points = FirstIds(n)
  BY DEF HeightsInv, FetchHeights
<1>2. heights' = [x \in DOMAIN heights \cup {k} |->
                    IF x = k THEN FirstIds(n) ELSE heights[x]]
  BY <1>1 DEF FetchHeights
<1>3. imp' = [imp EXCEPT !.pc = "read"] /\ UNCHANGED <<town, height>>
  BY DEF FetchHeights
<1> QED
  BY <1>1, <1>2, <1>3 DEF HeightsInv, MeasuredIsOwn

LEMMA CommitKeepsHeights ==
  ASSUME HeightsInv, CommitHeights
  PROVE  HeightsInv'
<1> DEFINE points == imp.points
           answer == heights[Key(points)]
<1>1. /\ Key(points) \in DOMAIN heights
      /\ imp' = Idle /\ UNCHANGED <<town, heights>>
  BY DEF CommitHeights, HeightsInv
<1>2. PICK n \in Nat : points = FirstIds(n)
  BY DEF HeightsInv, CommitHeights
<1>3. PICK m \in Nat : answer = FirstIds(m)
  BY <1>1 DEF HeightsInv
<1>4. MeasuredIsOwn'
  <2>1. CASE Len(answer) # Len(points)
    BY <2>1 DEF CommitHeights, HeightsInv, MeasuredIsOwn
  <2>2. CASE Len(answer) = Len(points)
    <3>1. answer = FirstIds(n) /\ ToSet(points) = 1..n
      BY <1>2, <1>3, <2>2, FirstIdsFacts
    <3>2. height' = [p \in 1..MaxTown |->
                       IF p \in 1..n
                       THEN FirstIds(n)[SelectInSeq(FirstIds(n), LAMBDA q : q = p)]
                       ELSE height[p]]
      BY <1>2, <2>2, <3>1 DEF CommitHeights
    <3>3. \A p \in 1..n : FirstIds(n)[SelectInSeq(FirstIds(n), LAMBDA q : q = p)] = p
      BY IndexOfId, FirstIdsFacts
    <3>4. height' = [p \in 1..MaxTown |-> IF p \in 1..n THEN p ELSE height[p]]
      BY <3>2, <3>3
    <3> QED
      BY <3>4 DEF HeightsInv, MeasuredIsOwn
  <2> QED
    BY <2>1, <2>2
<1> QED
  BY <1>1, <1>4 DEF HeightsInv, Idle

LEMMA HeightsNext == HeightsInv /\ [Next]_vars => HeightsInv'
<1> SUFFICES ASSUME HeightsInv, [Next]_vars PROVE HeightsInv'
    OBVIOUS
<1>1. ASSUME UNCHANGED land PROVE HeightsInv'
  BY <1>1 DEF HeightsInv, MeasuredIsOwn, land
<1>2. CASE Register
  BY <1>2 DEF Register, HeightsInv, MeasuredIsOwn
<1>3. CASE SelectProperties
  <2>1. /\ imp' = [pc |-> IF Key(FirstIds(town)) \in DOMAIN heights THEN "read" ELSE "fetch",
                   points |-> FirstIds(town)]
        /\ UNCHANGED <<town, height, heights>>
    BY <1>3 DEF SelectProperties, Orders, FirstIds
  <2>2. /\ imp'.points = FirstIds(town)
        /\ imp'.pc = "read" => Key(FirstIds(town)) \in DOMAIN heights
    BY <2>1
  <2> QED
    BY <2>1, <2>2 DEF HeightsInv, MeasuredIsOwn
<1>4. CASE FetchHeights
  BY <1>4, FetchKeepsHeights
<1>5. CASE CommitHeights
  BY <1>5, CommitKeepsHeights
<1>6. CASE HeightsLost
  BY <1>6 DEF HeightsLost, HeightsInv, MeasuredIsOwn, Idle
<1>7. ASSUME NEW c \in Callers, Step(c) \/ AskDrive(c) \/ \E t \in Terms : Ask(c, t)
      PROVE  HeightsInv'
  BY <1>1, <1>7 DEF Step, PassLocal, ClaimSlot, RetrySlot, GiveUpOnSlot, StoreDown, FetchFails,
     EndSave, DriveFails, BeginSave, DriveAnswered, AskDrive, Ask
<1>8. CASE Tick \/ (\E p \in Procs, k \in Kinds : Restart(p, k)) \/ \E k \in Kinds : RouteExpires(k)
  BY <1>1, <1>8 DEF Tick, Restart, RouteExpires
<1>9. CASE UNCHANGED vars
  BY <1>1, <1>9 DEF vars
<1> QED
  BY <1>2, <1>3, <1>4, <1>5, <1>6, <1>7, <1>8, <1>9 DEF Next

(* The height a property shows was measured at its own point: answers      *)
(* outlive the town they were asked for, but one for another number of     *)
(* points is dropped and two of one length are for the same points         *)
(* (import_elevation).                                                     *)
THEOREM HeightsAreMeasured == FairSpec => []MeasuredIsOwn
<1>1. HeightsInv => MeasuredIsOwn
  BY DEF HeightsInv
<1> QED BY <1>1, HeightsInit, HeightsNext, PTL DEF FairSpec

-----------------------------------------------------------------------------
(* A town whose points all fit in a key.  Then a key says which points it  *)
(* is for, and every cached answer is for just those.                      *)
TownFitsKey == town <= KeyPoints

BandInv ==
    /\ town \in Nat /\ town <= MaxTown
    /\ imp.pc # "idle" => \E n \in 0..town : imp.points = FirstIds(n)
    /\ \A k \in DOMAIN heights : heights[k] = k

LEMMA KeyIsWhole ==
  ASSUME TownFitsKey, town \in Nat, NEW n \in 0..town
  PROVE  Key(FirstIds(n)) = FirstIds(n)
<1>1. n \in Nat /\ n <= KeyPoints /\ town \in Nat /\ KeyPoints \in Nat
  BY ConstantsOK DEF TownFitsKey
<1>2. FirstIds(n) \in Seq(Nat) /\ Len(FirstIds(n)) = n
  BY <1>1, FirstIdsFacts
<1>3. Key(FirstIds(n)) = SubSeq(FirstIds(n), 1, n)
  BY <1>1, <1>2 DEF Key
<1> HIDE DEF FirstIds
<1> QED
  BY <1>1, <1>2, <1>3

LEMMA BandInit == Init => BandInv
<1> SUFFICES ASSUME Init PROVE BandInv
    OBVIOUS
<1>1. DOMAIN heights = {}
  BY DEF Init
<1> QED
  BY <1>1, ConstantsOK DEF Init, BandInv, Idle

LEMMA BandNext == BandInv /\ TownFitsKey /\ [Next]_vars => BandInv'
<1> SUFFICES ASSUME BandInv, TownFitsKey, [Next]_vars PROVE BandInv'
    OBVIOUS
<1>1. ASSUME UNCHANGED <<town, imp, heights>> PROVE BandInv'
  BY <1>1 DEF BandInv
<1>2. CASE Register
  <2>1. town' = town + 1 /\ town' <= MaxTown /\ UNCHANGED <<imp, heights>> /\ town \in Nat
    BY <1>2, ConstantsOK DEF Register, BandInv
  <2>2. 0..town \subseteq 0..town'
    BY <2>1
  <2> QED
    BY <2>1, <2>2 DEF BandInv
<1>3. CASE SelectProperties
  <2>1. imp'.points = FirstIds(town) /\ UNCHANGED <<town, heights>>
    BY <1>3 DEF SelectProperties, Orders, FirstIds
  <2>2. town \in 0..town
    BY DEF BandInv
  <2> QED
    BY <2>1, <2>2 DEF BandInv
<1>4. CASE FetchHeights
  <2>1. PICK n \in 0..town : imp.points = FirstIds(n)
    BY <1>4 DEF FetchHeights, BandInv
  <2>2. Key(imp.points) = imp.points
    BY <2>1, KeyIsWhole DEF BandInv
  <2>3. /\ heights' = [k \in DOMAIN heights \cup {imp.points} |->
                         IF k = imp.points THEN imp.points ELSE heights[k]]
        /\ imp' = [imp EXCEPT !.pc = "read"] /\ town' = town
    BY <1>4, <2>2 DEF FetchHeights
  <2>4. \A k \in DOMAIN heights' : heights'[k] = k
    BY <2>3 DEF BandInv
  <2>5. imp'.points = imp.points
    BY <2>3
  <2>6. \E m \in 0..town' : imp'.points = FirstIds(m)
    BY <2>1, <2>3, <2>5
  <2> QED
    BY <2>3, <2>4, <2>6 DEF BandInv
<1>5. CASE CommitHeights \/ HeightsLost
  <2>1. imp' = Idle /\ UNCHANGED <<town, heights>>
    BY <1>5 DEF CommitHeights, HeightsLost
  <2> QED
    BY <2>1 DEF BandInv, Idle
<1>6. ASSUME NEW c \in Callers, Step(c) \/ AskDrive(c) \/ \E t \in Terms : Ask(c, t)
      PROVE  BandInv'
  BY <1>1, <1>6 DEF Step, PassLocal, ClaimSlot, RetrySlot, GiveUpOnSlot, StoreDown, FetchFails,
     EndSave, DriveFails, BeginSave, DriveAnswered, AskDrive, Ask, land
<1>7. CASE Tick \/ (\E p \in Procs, k \in Kinds : Restart(p, k)) \/ \E k \in Kinds : RouteExpires(k)
  BY <1>1, <1>7 DEF Tick, Restart, RouteExpires, land
<1>8. CASE UNCHANGED vars
  BY <1>1, <1>8 DEF vars, land
<1> QED
  BY <1>2, <1>3, <1>4, <1>5, <1>6, <1>7, <1>8 DEF Next

LEMMA CommitBands ==
  ASSUME HeightsInv, BandInv, TownFitsKey, CommitHeights
  PROVE  \A i \in 1..Len(imp.points) : height'[imp.points[i]] # 0
<1>1. PICK n \in 0..town : imp.points = FirstIds(n)
  BY DEF CommitHeights, BandInv
<1>2. n \in Nat /\ n <= MaxTown /\ 1..n \subseteq 1..MaxTown
  BY ConstantsOK DEF BandInv
<1>3. heights[Key(imp.points)] = FirstIds(n)
  BY <1>1, KeyIsWhole DEF CommitHeights, HeightsInv, BandInv
<1>4. ToSet(FirstIds(n)) = 1..n
  BY <1>2, FirstIdsFacts
<1>5. height' = [p \in 1..MaxTown |->
                   IF p \in 1..n
                   THEN FirstIds(n)[SelectInSeq(FirstIds(n), LAMBDA q : q = p)]
                   ELSE height[p]]
  BY <1>1, <1>3, <1>4 DEF CommitHeights
<1>6. \A p \in 1..n : FirstIds(n)[SelectInSeq(FirstIds(n), LAMBDA q : q = p)] = p
  BY <1>2, IndexOfId, FirstIdsFacts
<1>7. \A p \in 1..n : height'[p] = p
  BY <1>2, <1>5, <1>6
<1>8. Len(FirstIds(n)) = n /\ \A i \in 1..n : FirstIds(n)[i] = i
  BY <1>2, FirstIdsFacts
<1>9. \A i \in 1..n : i # 0
  OBVIOUS
<1> QED
  BY <1>1, <1>7, <1>8, <1>9

(* As long as the points of the whole town fit in a cache key, an import   *)
(* that commits leaves no property it selected without a height: what the  *)
(* run upstream_heights shows needs a town that outgrew its key            *)
(* (import_elevation, main).                                               *)
THEOREM SmallTownsAreBanded == FairSpec /\ []TownFitsKey => NewBuildingsBanded
<1> DEFINE Bands == CommitHeights => \A i \in 1..Len(imp.points) : height'[imp.points[i]] # 0
<1>1. HeightsInv /\ BandInv /\ TownFitsKey => [Bands]_vars
  BY CommitBands
<1> HIDE DEF Bands
<1>2. FairSpec /\ []TownFitsKey => [][Bands]_vars
  BY <1>1, HeightsInit, HeightsNext, BandInit, BandNext, PTL DEF FairSpec
<1> QED BY <1>2 DEF Bands, NewBuildingsBanded
=============================================================================
