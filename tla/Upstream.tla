------------------------------- MODULE Upstream -------------------------------
(***************************************************************************)
(* Calls to services that are not ours: address lookups through the file   *)
(* cache and the fleet-wide courtesy limit (app/services/opendata.py),     *)
(* drive times through the shared cache (app/services/routing.py), and the *)
(* import of ground heights (scripts/import_reference_data.py).            *)
(*                                                                         *)
(* The fleet is several processes with one clock, one shared store and one *)
(* cache directory.  Time is counted in ticks; the wall clock is cut into  *)
(* slots of Interval ticks and `phase' says how far into one it is.        *)
(* Timers count down.                                                      *)
(***************************************************************************)
EXTENDS Naturals, Sequences, SequencesExt

CONSTANTS
    Procs,       \* uvicorn workers
    Callers,     \* handlers that look something up
    Proc,        \* the process each runs in
    Terms,       \* search terms, as cache keys
    Interval,    \* min_interval, in ticks
    Poll,        \* min_interval / 4: between two tries for a slot
    MaxWait,     \* SHARED_SLOT_MAX_WAIT_S
    Kinds,       \* "traffic", "free_flow"
    KeyPoints,   \* points whose coordinates fit in an elevation key
    MaxTown      \* bound on the properties registered

ASSUME ConstantsOK == Interval \in Nat \ {0} /\ KeyPoints \in Nat /\ MaxTown \in Nat

VARIABLES
    phase,       \* ticks into the current slot
    used,        \* the slot's counter in the shared store, up to 2
    rest,        \* per process: ticks until _next_allowed
    queue,       \* per process: who waits for the limiter's lock
    call,        \* what each caller does
    file,        \* the cache directory
    route,       \* drive times in the shared store, by label
    config,      \* the kind of provider each process is configured with
    serves,      \* what is looked up, "geocode", "drive" or "height": they share
                 \*   no state, so a behaviour of the model has one of them
    town,        \* properties registered, by id: 1..town
    height,      \* elevation_m: the point it was measured at, 0 for none
    heights,     \* cached elevation answers, by key
    imp,         \* the elevation import
    age,         \* history: ticks since the last two winners of a slot
    died         \* history: terms whose file a process died writing

clock == <<phase, age>>
limiter == <<used, rest, queue>>
disk == <<file, died>>
land == <<town, height, heights, imp>>
vars == <<clock, limiter, call, disk, route, config, serves, land>>

Idle == [pc |-> "idle"]
Become(c, r) == call' = [call EXCEPT ![c] = r]
At(c, pc) == call[c].pc = pc

Capped(n, max) == IF n < max THEN n ELSE max

-----------------------------------------------------------------------------
(* geocode_async by _get_or_fetch_async: cache first, then the limiter.    *)
(* A cached answer of no hits counts as cached; a torn file raises.        *)
Ask(c, t) ==
    /\ serves = "geocode" /\ At(c, "idle") /\ file[t] = "absent"
    /\ Become(c, [pc |-> "local", term |-> t])
    /\ queue' = [queue EXCEPT ![Proc[c]] = Append(@, c)]
    /\ UNCHANGED <<clock, used, rest, disk, route, config, serves, land>>

(* The interval of this process, kept under a lock that is served in turn. *)
PassLocal(c) ==
    LET p == Proc[c] IN
    /\ At(c, "local") /\ Head(queue[p]) = c /\ rest[p] = 0
    /\ rest' = [rest EXCEPT ![p] = Interval]
    /\ queue' = [queue EXCEPT ![p] = Tail(@)]
    /\ Become(c, [pc |-> "slot", term |-> call[c].term, wake |-> 0, left |-> MaxWait])
    /\ UNCHANGED <<clock, used, disk, route, config, serves, land>>

(* The fleet's slot: INCR of its counter; the first takes it.              *)
WinsLate(n) == n <= 2
Wins(n) == n <= 1

Fetching(c) == [pc |-> "fetch", term |-> call[c].term]

ClaimSlot(c) ==
    /\ At(c, "slot") /\ call[c].wake = 0
    /\ used' = Capped(used + 1, 3)
    /\ Wins(used')
    /\ Become(c, Fetching(c))
    /\ age' = <<0, age[1]>>
    /\ UNCHANGED <<phase, rest, queue, disk, route, config, serves, land>>

PatienceForever(c) == FALSE
Patience(c) == call[c].left = 0

RetrySlot(c) ==
    /\ At(c, "slot") /\ call[c].wake = 0
    /\ used' = Capped(used + 1, 3)
    /\ ~Wins(used') /\ ~Patience(c)
    /\ Become(c, [call[c] EXCEPT !.wake = Poll])
    /\ UNCHANGED <<clock, rest, queue, disk, route, config, serves, land>>

GiveUpOnSlot(c) ==
    /\ At(c, "slot") /\ call[c].wake = 0
    /\ used' = Capped(used + 1, 3)
    /\ ~Wins(used') /\ Patience(c)
    /\ Become(c, Fetching(c))
    /\ UNCHANGED <<clock, rest, queue, disk, route, config, serves, land>>

(* "A limiter must never break the request": without the store, ahead.     *)
StoreDown(c) ==
    /\ At(c, "slot") /\ call[c].wake = 0
    /\ Become(c, Fetching(c))
    /\ UNCHANGED <<clock, limiter, disk, route, config, serves, land>>

(* raise_for_status, a timeout, a body that is not JSON: nothing is kept.  *)
FetchFailsWithFileOpen(c) ==
    /\ At(c, "fetch")
    /\ file' = [file EXCEPT ![call[c].term] = "torn"]
    /\ Become(c, Idle)
    /\ UNCHANGED <<clock, limiter, died, route, config, serves, land>>
FetchFails(c) ==
    /\ At(c, "fetch")
    /\ Become(c, Idle)
    /\ UNCHANGED <<clock, limiter, disk, route, config, serves, land>>

(* save_cached writes in place: the file is truncated, then filled.        *)
BeginSave(c, answer) ==
    /\ At(c, "fetch")
    /\ file' = [file EXCEPT ![call[c].term] = "torn"]
    /\ Become(c, [pc |-> "save", term |-> call[c].term, answer |-> answer])
    /\ UNCHANGED <<clock, limiter, died, route, config, serves, land>>

EndSave(c) ==
    /\ At(c, "save")
    /\ file' = [file EXCEPT ![call[c].term] = call[c].answer]
    /\ Become(c, Idle)
    /\ UNCHANGED <<clock, limiter, died, route, config, serves, land>>

-----------------------------------------------------------------------------
(* drive_estimate_min: what is cached is labelled by the kind of provider  *)
(* that is configured now; a value stands here for the kind of provider    *)
(* that measured it.                                                       *)
RouteKeyUnlabelled(kind) == "free_flow"
RouteKey(kind) == kind

AskDrive(c) ==
    /\ serves = "drive" /\ At(c, "idle")
    /\ route[RouteKey(config[Proc[c]])] = "absent"
    /\ Become(c, [pc |-> "drive", kind |-> config[Proc[c]]])
    /\ UNCHANGED <<clock, limiter, disk, route, config, serves, land>>

DriveAnswered(c, value) ==
    /\ At(c, "drive")
    /\ value \in {"none", call[c].kind}
    /\ route' = [route EXCEPT ![RouteKey(call[c].kind)] = value]
    /\ Become(c, Idle)
    /\ UNCHANGED <<clock, limiter, disk, config, serves, land>>

(* A provider or store that fails leaves nothing in the cache.             *)
DriveFails(c) ==
    /\ At(c, "drive")
    /\ Become(c, Idle)
    /\ UNCHANGED <<clock, limiter, disk, route, config, serves, land>>

RouteExpires(kind) ==
    /\ route[kind] # "absent"
    /\ route' = [route EXCEPT ![kind] = "absent"]
    /\ UNCHANGED <<clock, limiter, call, disk, config, serves, land>>

-----------------------------------------------------------------------------
(* import_elevation.  Every property is measured in one request, in id     *)
(* order.  The answer is cached under its coordinates cut to 80            *)
(* characters, which hold the first few; the points of the model are ids.  *)
OrdersAny(n) == SetToSeqs(1..n)
Orders(n) == {[i \in 1..n |-> i]}

Key(points) == SubSeq(points, 1, IF Len(points) < KeyPoints THEN Len(points) ELSE KeyPoints)

(* A tenant's pin, or a building the same run has just imported.           *)
Register ==
    /\ serves = "height" /\ town < MaxTown
    /\ town' = town + 1
    /\ UNCHANGED <<clock, limiter, call, disk, route, config, serves, height, heights, imp>>

SelectProperties ==
    /\ serves = "height" /\ imp.pc = "idle" /\ town > 0
    /\ \E points \in Orders(town) :
         imp' = [pc |-> IF Key(points) \in DOMAIN heights THEN "read" ELSE "fetch",
                 points |-> points]
    /\ UNCHANGED <<clock, limiter, call, disk, route, config, serves, town, height, heights>>

FetchHeights ==
    /\ imp.pc = "fetch"
    /\ heights' = [k \in DOMAIN heights \cup {Key(imp.points)} |->
                     IF k = Key(imp.points) THEN imp.points ELSE heights[k]]
    /\ imp' = [imp EXCEPT !.pc = "read"]
    /\ UNCHANGED <<clock, limiter, call, disk, route, config, serves, town, height>>

(* An answer for another number of points is logged and dropped.           *)
CommitHeights ==
    LET points == imp.points  answer == heights[Key(points)] IN
    /\ imp.pc = "read"
    /\ height' = IF Len(answer) # Len(points) THEN height
                 ELSE [p \in 1..MaxTown |->
                         IF p \in ToSet(points) THEN answer[SelectInSeq(points, LAMBDA q : q = p)]
                         ELSE height[p]]
    /\ imp' = Idle
    /\ UNCHANGED <<clock, limiter, call, disk, route, config, serves, town, heights>>

(* The service fails, or the run is stopped before its one commit.         *)
HeightsLost ==
    /\ imp.pc # "idle"
    /\ imp' = Idle
    /\ UNCHANGED <<clock, limiter, call, disk, route, config, serves, town, height, heights>>

-----------------------------------------------------------------------------
(* A process dies, or is restarted with another provider: its memory goes, *)
(* the store and the directory stay.                                       *)
Mine(p) == {c \in Callers : Proc[c] = p}

Restart(p, kind) ==
    /\ kind = config[p] \/ serves = "drive"
    /\ call' = [c \in Callers |-> IF c \in Mine(p) THEN Idle ELSE call[c]]
    /\ died' = died \cup {call[c].term : c \in {d \in Mine(p) : At(d, "save")}}
    /\ rest' = [rest EXCEPT ![p] = 0]
    /\ queue' = [queue EXCEPT ![p] = <<>>]
    /\ config' = [config EXCEPT ![p] = kind]
    /\ UNCHANGED <<clock, used, file, route, serves, land>>

Less(n) == IF n = 0 THEN 0 ELSE n - 1

Tick ==
    /\ phase' = (phase + 1) % Interval
    /\ used' = IF phase' = 0 THEN 0 ELSE used
    /\ rest' = [p \in Procs |-> Less(rest[p])]
    /\ call' = [c \in Callers |->
                  IF At(c, "slot")
                  THEN [call[c] EXCEPT !.wake = Less(@), !.left = Less(@)]
                  ELSE call[c]]
    /\ age' = <<Capped(age[1] + 1, Interval + 1), Capped(age[2] + 1, Interval + 1)>>
    /\ UNCHANGED <<queue, disk, route, config, serves, land>>

-----------------------------------------------------------------------------
Init ==
    /\ phase = 0 /\ used = 0
    /\ rest = [p \in Procs |-> 0]
    /\ queue = [p \in Procs |-> <<>>]
    /\ call = [c \in Callers |-> Idle]
    /\ file = [t \in Terms |-> "absent"]
    /\ route = [k \in Kinds |-> "absent"]
    /\ serves \in {"geocode", "drive", "height"}
    /\ config \in [Procs -> Kinds]
    /\ serves # "drive" => \A p \in Procs : config[p] = "free_flow"
    /\ age = <<Interval + 1, Interval + 1>>
    /\ died = {}
    /\ town = 0 /\ height = [p \in 1..MaxTown |-> 0]
    /\ heights = <<>>
    /\ imp = Idle

Step(c) ==
    \/ PassLocal(c) \/ ClaimSlot(c) \/ RetrySlot(c) \/ GiveUpOnSlot(c) \/ StoreDown(c)
    \/ FetchFails(c) \/ EndSave(c) \/ DriveFails(c)
    \/ \E answer \in {"hits", "empty"} : BeginSave(c, answer)
    \/ \E value \in Kinds \cup {"none"} : DriveAnswered(c, value)

Next ==
    \/ \E c \in Callers : Step(c) \/ AskDrive(c) \/ \E t \in Terms : Ask(c, t)
    \/ \E p \in Procs, k \in Kinds : Restart(p, k)
    \/ \E k \in Kinds : RouteExpires(k)
    \/ Register \/ SelectProperties \/ FetchHeights \/ CommitHeights \/ HeightsLost
    \/ Tick

(* The loop of every process runs, its timers fire and time passes.        *)
FairSpec ==
    /\ Init /\ [][Next]_vars
    /\ WF_vars(Tick) /\ \A c \in Callers : WF_vars(Step(c))

-----------------------------------------------------------------------------
(* Properties.                                                             *)

(* However many processes race for slots, and whatever restarts, the calls *)
(* that won one keep to the published pace: any Interval + 1 consecutive   *)
(* ticks hold at most two, the last of one slot and the first of the next  *)
(* (AsyncRateLimiter).                                                     *)
WithinPolicy ==
    [][\A c \in Callers : ClaimSlot(c) => age[2] > Interval]_vars

(* "A slow lookup rather than a request that never returns": every caller  *)
(* is through in the end, however busy the fleet.                          *)
LookupsEnd == \A c \in Callers : ~At(c, "idle") ~> At(c, "idle")

(* A cache file no reader can parse is one that is being written now, or   *)
(* one a process died writing.                                             *)
TornByCrashOnly ==
    \A t \in Terms : file[t] = "torn" =>
        t \in died \/ \E c \in Callers : At(c, "save") /\ call[c].term = t

(* "A caller that gets only the number cannot label it honestly": a drive  *)
(* time is stored under the kind of provider that measured it, also while  *)
(* processes with and without a traffic provider share the store.          *)
LabelsHonest == \A k \in Kinds : route[k] \in {"absent", "none", k}

(* "A measurement, not an estimate": the height a property shows was       *)
(* measured at its own point, although answers are cached under the first  *)
(* points of a request and outlive the town they were asked for.           *)
MeasuredIsOwn == \A p \in 1..MaxTown : height[p] \in {0, p}

(* "Newly imported buildings get their flood band in the same run rather   *)
(* than needing a second pass" (import_reference_data.py, main).           *)
NewBuildingsBanded ==
    [][CommitHeights => \A i \in 1..Len(imp.points) : height'[imp.points[i]] # 0]_vars
=============================================================================
