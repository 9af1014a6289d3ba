-------------------------------- MODULE Pool --------------------------------
(***************************************************************************)
(* One Pool of p11rand-core (pool.rs): the session's private object that   *)
(* claims devices, fetches entropy from them on parallel workers, absorbs  *)
(* the fetches into a SHA3-256 chain and rebinds a slot whose read failed. *)
(*                                                                         *)
(* The environment plugs, unplugs and silences devices at any moment, also *)
(* between two steps of one call, and makes single operations fail.        *)
(* Bytes are symbolic: see Entropy.                                        *)
(***************************************************************************)
EXTENDS Entropy

CONSTANTS
  Cfg,          (* the configuration baked into the library                *)
  Names,        (* device names of either kind, ordered as enumerated      *)
  Lens,         (* buffer lengths callers ask for                          *)
  MaxFaults,    (* bound on environment changes and single failures        *)
  MaxCalls      (* bound on calls of read                                  *)

ASSUME PoolAssumption ==
  /\ Cfg \in Configs /\ Validate(Cfg)
  /\ Names \subseteq Nat /\ IsFiniteSet(Names)
  /\ Lens \subseteq Nat
  /\ MaxFaults \in Nat /\ MaxCalls \in Nat

Slot   == Slots(Cfg)
Kinds  == {KindOf(Cfg, i) : i \in Slot}     \* the kinds the pool enumerates
Errors == {"NotEnoughSources", "Resource", "ReadFailure"}

VARIABLES
  dev,      (* environment: what each device name stands for right now     *)
  faults,   (* environment: events spent so far                            *)
  calm,     (* history: since the last call began nothing went wrong but   *)
            (* reads that a rebind follows                                 *)
  slots,    (* Pool.slots; kind is KindOf(Cfg, i)                          *)
  state,    (* Pool.state, the chain value                                 *)
  pc,       (* where the caller's thread is                                *)
  len, buf, (* length of the caller's buffer, and of its unfilled rest     *)
  out,      (* what the caller's buffer holds, chunk by chunk              *)
  result,   (* what the last call returned                                 *)
  tick, idx, pending, scratch,   (* locals of do_round_chain               *)
  hOut, hState,                  (* the two SHA3-256 contexts              *)
  todo,     (* names a scan (open, rebind) has still to try                *)
  att, used,(* history: attempts at a fetch round, and the last one used   *)
  calls     (* calls of read so far                                        *)

envvars  == <<dev, faults, calm>>
rndvars  == <<tick, idx, pending, scratch, hOut, hState, todo>>
callvars == <<len, buf, out, calls>>
hist     == <<att, used>>
vars == <<envvars, rndvars, callvars, slots, state, pc, result, hist>>

(***************************************************************************)
(* Values                                                                  *)
(***************************************************************************)
DevState == {"absent", "mute", "usable"}  \* not enumerated; enumerated, open fails; opens

Fetch   == [att : Nat, tick : Nat, slot : Slot, name : Names]

EmptySlot == [name |-> NoName, inner |-> "Empty"]
Bound(n)  == [name |-> n, inner |-> "Live"]
NoScratch == [i \in Slot |-> NoFetch]
AllEmpty  == [i \in Slot |-> EmptySlot]

(***************************************************************************)
(* Environment                                                             *)
(***************************************************************************)
(* Every event spends one of MaxFaults; a read that fails on a live handle  *)
(* while the call can still rebind leaves the call calm.                   *)
Fault(c) == faults < MaxFaults /\ faults' = faults + 1 /\ calm' = (calm /\ c)
NoFault  == UNCHANGED <<faults, calm>>

(* A device is plugged, unplugged or falls silent; handles open on it die. *)
Change(k, n, s) ==
  /\ dev[k][n] # s
  /\ Fault(FALSE)
  /\ dev' = [dev EXCEPT ![k][n] = s]
  /\ slots' = [i \in Slot |->
       IF KindOf(Cfg, i) = k /\ slots[i].name = n /\ slots[i].inner = "Live"
       THEN [slots[i] EXCEPT !.inner = "Dead"] ELSE slots[i]]
  /\ UNCHANGED <<rndvars, callvars, state, pc, result, hist>>

(* iso7816::list_readers and infnoise::list_paths: the names enumerated    *)
(* now, or an error, or (PC/SC only) an error answered as an empty list.   *)
Listed(k) == {n \in Names : dev[k][n] # "absent"}

ListOk(k, names) ==
  \/ names = Listed(k) /\ NoFault
  \/ k = "Iso7816" /\ names = {} /\ Fault(FALSE)

ListErr == Fault(FALSE)

(* Slot::read of n bytes: what it answers, and whether an event was spent. *)
ReadOk(i, n) ==
  /\ slots[i].inner # "Empty"
  /\ n = 0 \/ slots[i].inner = "Live"
  /\ NoFault

ReadErr(i, n) ==
  \/ slots[i].inner = "Empty" /\ NoFault
  \/ n > 0 /\ slots[i].inner = "Dead" /\ NoFault
  \/ n > 0 /\ slots[i].inner = "Live" /\ Fault(pc # "retry")

(***************************************************************************)
(* Leaving a call: its locals are gone.                                    *)
(***************************************************************************)
DropLocals ==
  /\ tick' = 0 /\ idx' = 0 /\ pending' = {} /\ todo' = {}
  /\ scratch' = NoScratch /\ hOut' = Zero /\ hState' = Zero

Return(r) ==
  /\ pc' = "idle" /\ result' = r
  /\ DropLocals

First(n) == n \in todo /\ \A m \in todo : n <= m

(***************************************************************************)
(* Pool::open.  "claim" is the head of the loop for one kind, "open" the   *)
(* loop over the enumerated names; idx counts the slots pushed so far.     *)
(***************************************************************************)
OpenFails(r) ==
  /\ pc' = "none" /\ result' = r
  /\ slots' = AllEmpty
  /\ DropLocals

BeginOpen ==
  /\ pc = "none"
  /\ pc' = "claim" /\ result' = "pending"
  /\ calm' = TRUE
  /\ idx' = 0
  /\ UNCHANGED <<dev, faults, callvars, slots, state, hist,
                 tick, pending, scratch, hOut, hState, todo>>

OpenList ==
  /\ pc = "claim" /\ idx < PoolSize(Cfg)
  /\ LET k == KindOf(Cfg, idx) IN
       \/ /\ \E names \in {Listed(k), {}} : ListOk(k, names) /\ todo' = names
          /\ pc' = "open"
          /\ UNCHANGED <<slots, result, tick, idx, pending, scratch, hOut, hState>>
       \/ ListErr /\ OpenFails("Resource")
  /\ UNCHANGED <<dev, callvars, state, hist>>

(* One turn of the loop: enough slots of this kind leave it, else the next *)
(* name is opened, and a name that does not open is passed over.           *)
OpenTry(n) ==
  LET k == KindOf(Cfg, idx) IN
  /\ pc = "open" /\ First(n)
  /\ IF dev[k][n] = "usable"
     THEN /\ slots' = [slots EXCEPT ![idx] = Bound(n)]
          /\ idx' = idx + 1
          /\ IF idx + 1 \in {Cfg.iso7816_cards, PoolSize(Cfg)}
             THEN pc' = "claim" /\ todo' = {}
             ELSE pc' = "open" /\ todo' = todo \ {n}
     ELSE /\ todo' = todo \ {n}
          /\ UNCHANGED <<slots, idx, pc>>
  /\ UNCHANGED <<envvars, callvars, state, result, hist,
                 tick, pending, scratch, hOut, hState>>

OpenExhausted ==
  /\ pc = "open" /\ todo = {}
  /\ OpenFails("NotEnoughSources")
  /\ UNCHANGED <<envvars, callvars, state, hist>>

OpenDone ==
  /\ pc = "claim" /\ idx = PoolSize(Cfg)
  /\ state' = Zero
  /\ Return("Ok")
  /\ UNCHANGED <<envvars, callvars, slots, hist>>

(* Drop: the session closes, every source with it; the state is wiped.     *)
Drop ==
  /\ pc = "idle"
  /\ pc' = "none"
  /\ slots' = AllEmpty
  /\ state' = Zero
  /\ UNCHANGED <<envvars, rndvars, callvars, result, hist>>

(***************************************************************************)
(* Pool::read                                                              *)
(***************************************************************************)
BeginRead(n) ==
  /\ pc = "idle" /\ calls < MaxCalls
  /\ calls' = calls + 1
  /\ len' = n /\ buf' = n /\ out' = <<>>
  /\ pc' = IF UseChain(Cfg) THEN "loop" ELSE "raw"
  /\ result' = "pending"
  /\ calm' = TRUE
  /\ att' = IF UseChain(Cfg) THEN att ELSE att + 1
  /\ UNCHANGED <<dev, faults, rndvars, slots, state, used>>

(* Raw passthrough: the buffer goes to the only source as it is.           *)
RawFetch == [att |-> att, tick |-> 0, slot |-> 0, name |-> slots[0].name]

RawFill ==
  /\ out' = <<[data |-> RawFetch, bytes |-> buf]>>
  /\ buf' = 0
  /\ Return("Ok")
  /\ used' = att
  /\ UNCHANGED <<len, calls, slots, state, att>>

(* A read of the source that fails may have filled part of the buffer, and *)
(* the next one begins again at its start.                                 *)
RawSpill ==
  /\ \/ UNCHANGED out
     \/ /\ slots[0].inner # "Empty"
        /\ \E k \in 1 .. buf - 1 : out' = Overwrite(out, RawFetch, k)
  /\ UNCHANGED <<len, buf, calls>>

RawRead ==
  /\ pc = "raw"
  /\ ReadOk(0, buf)
  /\ RawFill
  /\ UNCHANGED dev

(***************************************************************************)
(* Pool::rebind(idx): close, enumerate, then try the names no other slot   *)
(* of the kind holds, lowest first, until one opens.                       *)
(***************************************************************************)
NameInUse_LiveOnly(skip, k, n) ==     \* mutant: a dead handle frees its name
  \E j \in Slot : /\ j # skip /\ KindOf(Cfg, j) = k
                  /\ slots[j].inner = "Live" /\ slots[j].name = n

NameInUse_AnyKind(skip, k, n) ==      \* mutant: the kind is not compared
  \E j \in Slot : j # skip /\ slots[j].name = n

NameInUse(skip, k, n) ==
  \E j \in Slot : j # skip /\ KindOf(Cfg, j) = k /\ slots[j].name = n

Rebind(i) ==
  LET k == KindOf(Cfg, i) IN
  /\ slots' = [slots EXCEPT ![i] = EmptySlot]
  /\ \/ /\ \E names \in {Listed(k), {}} : ListOk(k, names) /\ todo' = names
        /\ pc' = "scan"
        /\ idx' = i
        /\ UNCHANGED <<result, tick, pending, scratch, hOut, hState>>
     \/ ListErr /\ Return("Resource")
  /\ UNCHANGED <<dev, callvars, state, hist>>

(* The failed read and the list that follows it are two failures, so the   *)
(* read's is paid first, in a step of its own.                             *)
RawReadFails_NoRebind ==              \* mutant: the error is returned at once
  /\ pc = "raw"
  /\ ReadErr(0, buf) /\ RawSpill
  /\ Return("ReadFailure")
  /\ UNCHANGED <<dev, slots, state, hist>>

RawReadFails ==
  /\ pc = "raw"
  /\ ReadErr(0, buf) /\ RawSpill
  /\ pc' = "rebind" /\ idx' = 0
  /\ UNCHANGED <<dev, slots, state, result, hist,
                 tick, pending, scratch, hOut, hState, todo>>

BeginRebind == pc = "rebind" /\ Rebind(idx)

RebindTry_FirstOnly(n) ==             \* mutant: a name that fails to open ends it
  LET k == KindOf(Cfg, idx) IN
  /\ pc = "scan" /\ First(n)
  /\ IF ~ NameInUse(idx, k, n) /\ dev[k][n] = "usable"
     THEN /\ slots' = [slots EXCEPT ![idx] = Bound(n)]
          /\ pc' = "retry" /\ todo' = {}
     ELSE /\ todo' = IF NameInUse(idx, k, n) THEN todo \ {n} ELSE {}
          /\ UNCHANGED <<slots, pc>>
  /\ UNCHANGED <<envvars, callvars, state, result, hist,
                 tick, idx, pending, scratch, hOut, hState>>

RebindTry(n) ==
  LET k == KindOf(Cfg, idx) IN
  /\ pc = "scan" /\ First(n)
  /\ IF ~ NameInUse(idx, k, n) /\ dev[k][n] = "usable"
     THEN /\ slots' = [slots EXCEPT ![idx] = Bound(n)]
          /\ pc' = "retry" /\ todo' = {}
     ELSE /\ todo' = todo \ {n}
          /\ UNCHANGED <<slots, pc>>
  /\ UNCHANGED <<envvars, callvars, state, result, hist,
                 tick, idx, pending, scratch, hOut, hState>>

RebindExhausted_Waits ==              \* mutant: polls until a device turns up
  /\ pc = "scan" /\ todo = {}
  /\ pc' = "rebind"
  /\ UNCHANGED <<envvars, rndvars, callvars, slots, state, result, hist>>

RebindExhausted ==
  /\ pc = "scan" /\ todo = {}
  /\ Return("NotEnoughSources")
  /\ UNCHANGED <<envvars, callvars, slots, state, hist>>

RawRetry_Ignored ==                   \* mutant: the second read's answer is lost
  /\ pc = "retry" /\ ~ UseChain(Cfg)
  /\ \/ ReadOk(0, buf) /\ RawFill
     \/ /\ ReadErr(0, buf) /\ RawSpill /\ Return("Ok")
        /\ UNCHANGED <<slots, state, hist>>
  /\ UNCHANGED dev

RawRetry ==
  /\ pc = "retry" /\ ~ UseChain(Cfg)
  /\ \/ ReadOk(0, buf) /\ RawFill
     \/ /\ ReadErr(0, buf) /\ RawSpill /\ Return("ReadFailure")
        /\ UNCHANGED <<slots, state, hist>>
  /\ UNCHANGED dev

(***************************************************************************)
(* Pool::do_round_chain                                                    *)
(***************************************************************************)
Owes_Inclusive(i, t) == t <= SlotTicks(Cfg, i)     \* mutant: off by one
Owes(i, t) == t < SlotTicks(Cfg, i)
Fetched(i) == [att |-> att, tick |-> tick, slot |-> i, name |-> slots[i].name]

(* Fan out: one worker per slot that still owes bytes, all scratch None.   *)
StartTick_KeepsScratch(t) ==          \* mutant: scratch declared outside the loop
  /\ tick' = t /\ idx' = 0
  /\ pending' = {i \in Slot : Owes(i, t)}
  /\ pc' = "fetch" /\ UNCHANGED scratch

StartTick(t) ==
  /\ tick' = t /\ idx' = 0
  /\ pending' = {i \in Slot : Owes(i, t)}
  /\ scratch' = NoScratch
  /\ pc' = "fetch"

StartRound ==
  /\ pc = "loop" /\ buf > 0
  /\ att' = att + 1
  /\ hOut' = Sha3(state, SepOut) /\ hState' = Sha3(state, SepState)
  /\ StartTick(0)
  /\ UNCHANGED <<envvars, callvars, slots, state, result, used, todo>>

Filled ==
  /\ pc = "loop" /\ buf = 0
  /\ Return("Ok")
  /\ UNCHANGED <<envvars, callvars, slots, state, hist>>

(* A worker's only read; the workers of a tick end in any order.           *)
Worker(i) ==
  /\ pc = "fetch" /\ i \in pending
  /\ pending' = pending \ {i}
  /\ \/ ReadOk(i, TickBytes) /\ scratch' = [scratch EXCEPT ![i] = Fetched(i)]
     \/ ReadErr(i, TickBytes) /\ UNCHANGED scratch
  /\ UNCHANGED <<dev, callvars, slots, state, pc, result, hist,
                 tick, idx, hOut, hState, todo>>

Join ==
  /\ pc = "fetch" /\ pending = {}
  /\ pc' = "absorb"
  /\ UNCHANGED <<envvars, rndvars, callvars, slots, state, result, hist>>

Skip ==
  /\ pc = "absorb" /\ idx \in Slot /\ ~ Owes(idx, tick)
  /\ idx' = idx + 1
  /\ UNCHANGED <<envvars, callvars, slots, state, pc, result, hist,
                 tick, pending, scratch, hOut, hState, todo>>

Absorb ==
  /\ pc = "absorb" /\ idx \in Slot /\ Owes(idx, tick)
  /\ scratch[idx] # NoFetch
  /\ hOut' = Update(hOut, scratch[idx]) /\ hState' = Update(hState, scratch[idx])
  /\ idx' = idx + 1
  /\ UNCHANGED <<envvars, callvars, slots, state, pc, result, hist,
                 tick, pending, scratch, todo>>

Recover ==
  /\ pc = "absorb" /\ idx \in Slot /\ Owes(idx, tick)
  /\ scratch[idx] = NoFetch
  /\ Rebind(idx)

ChainRetry ==
  /\ pc = "retry" /\ UseChain(Cfg)
  /\ \/ /\ ReadOk(idx, TickBytes)
        /\ scratch' = [scratch EXCEPT ![idx] = Fetched(idx)]
        /\ pc' = "absorb"
        /\ UNCHANGED <<result, tick, idx, pending, hOut, hState, todo>>
     \/ ReadErr(idx, TickBytes) /\ Return("ReadFailure")
  /\ UNCHANGED <<dev, callvars, slots, state, hist>>

NextTick ==
  /\ pc = "absorb" /\ idx = PoolSize(Cfg) /\ tick + 1 < MaxTicks(Cfg)
  /\ StartTick(tick + 1)
  /\ UNCHANGED <<envvars, callvars, slots, state, result, hist, hOut, hState, todo>>

(* finalize both contexts; the caller copies the part it has room for.     *)
Commit ==
  LET take == LowerOf(buf, RoundBytes) IN
  /\ pc = "absorb" /\ idx = PoolSize(Cfg) /\ tick + 1 = MaxTicks(Cfg)
  /\ out' = Append(out, [data |-> hOut, bytes |-> take])
  /\ buf' = buf - take
  /\ state' = hState
  /\ used' = att
  /\ pc' = "loop"
  /\ DropLocals
  /\ UNCHANGED <<envvars, len, calls, slots, result, att>>

(***************************************************************************)
(* Specification                                                           *)
(***************************************************************************)
Init ==
  /\ dev \in [Kinds -> [Names -> DevState]]
  /\ faults = 0 /\ calm = TRUE
  /\ slots = AllEmpty /\ state = Zero
  /\ pc = "none" /\ result = "Ok"
  /\ len = 0 /\ buf = 0 /\ out = <<>> /\ calls = 0 /\ att = 0 /\ used = 0
  /\ tick = 0 /\ idx = 0 /\ pending = {} /\ scratch = NoScratch
  /\ hOut = Zero /\ hState = Zero /\ todo = {}

Opening == OpenList \/ (\E n \in Names : OpenTry(n)) \/ OpenExhausted \/ OpenDone
Rebinding == BeginRebind \/ (\E n \in Names : RebindTry(n)) \/ RebindExhausted
Raw == RawRead \/ RawReadFails \/ RawRetry
Round == \/ StartRound \/ Filled \/ Join \/ Skip \/ Absorb \/ Recover
         \/ ChainRetry \/ NextTick \/ Commit
         \/ \E i \in Slot : Worker(i)

(* Steps of a call under way, as opposed to the caller's and the world's.  *)
Step == Opening \/ Rebinding \/ Raw \/ Round

Next ==
  \/ Step
  \/ BeginOpen \/ Drop
  \/ \E n \in Lens : BeginRead(n)
  \/ \E k \in Kinds, n \in Names, s \in DevState : Change(k, n, s)

Spec == Init /\ [][Next]_vars

(* A call under way keeps running: the thread is not suspended for ever    *)
(* and a device answers or fails (PC/SC and the kernel driver time out).   *)
FairSpec == Spec /\ WF_vars(Step)

(***************************************************************************)
(* Properties                                                              *)
(***************************************************************************)
FetchOrNone == Fetch \cup {NoFetch}

TypeOK ==
  /\ dev \in [Kinds -> [Names -> DevState]]
  /\ faults \in 0 .. MaxFaults /\ calm \in BOOLEAN
  /\ slots \in [Slot -> [name : Names \cup {NoName}, inner : {"Empty", "Live", "Dead"}]]
  /\ pc \in {"none", "claim", "open", "idle", "raw", "rebind", "scan", "retry",
             "loop", "fetch", "absorb"}
  /\ result \in {"Ok", "pending"} \cup Errors
  /\ len \in Lens \cup {0} /\ buf \in 0 .. len
  /\ tick \in Nat /\ idx \in 0 .. PoolSize(Cfg)
  /\ pending \subseteq Slot /\ todo \subseteq Names
  /\ scratch \in [Slot -> FetchOrNone]
  /\ att \in Nat /\ used \in Nat /\ calls \in 0 .. MaxCalls

(* No two slots of one kind ever hold the same device, however many of     *)
(* them fail and rebind, whatever is plugged meanwhile (rebind,            *)
(* name_in_use).  A slot that holds nothing has no name.                   *)
DistinctNames ==
  /\ \A i \in Slot : slots[i].name = NoName <=> slots[i].inner = "Empty"
  /\ \A i, j \in Slot :
       i # j /\ KindOf(Cfg, i) = KindOf(Cfg, j) /\ slots[i].name # NoName
         => slots[i].name # slots[j].name

(* Within one tick the fetches mixed into a round come from pairwise        *)
(* different devices, also when some of the slots were rebound half way    *)
(* through the tick: no device is counted as two sources.                  *)
TickDistinct ==
  hState # Zero => DistinctSources(Cfg, Absorbed(hState))

(* With enough usable devices a call on the pool succeeds although any      *)
(* number of its handles are dead and any number of its first reads fail:  *)
(* every one is rebound, and the names the other slots hold never starve   *)
(* the slot that is being rebound (Pool::read, rebind, open).              *)
Enough ==
  \A k \in Kinds :
    Cardinality({n \in Names : dev[k][n] = "usable"})
      >= Cardinality({i \in Slot : KindOf(Cfg, i) = k})

CalmSucceeds ==
  pc \in {"none", "idle"} /\ calm /\ Enough => result = "Ok"

(* What reaches the caller is an EntropyChain, whatever fails in between.  *)
IsOpen == pc \notin {"none", "claim", "open"}
Chain == INSTANCE EntropyChain WITH open <- IsOpen, chain <- state,
           last <- used, owed <- buf
ChainSpec == Chain!Spec

(* Every call comes back: open, read and every rebind inside them end      *)
(* whatever the devices do meanwhile.                                      *)
InCall == pc \notin {"none", "idle"}
Terminates == InCall ~> ~ InCall

(* What a call has still to do: bytes to fill, ticks of the round, slots   *)
(* of the tick (or slots to open), and turns at the present slot.          *)
DueTicks ==
  CASE pc = "loop"                                -> MaxTicks(Cfg) + 1
    [] pc # "loop" /\ IsOpen /\ UseChain(Cfg)     -> MaxTicks(Cfg) - tick
    [] OTHER                                      -> 0

DueSlots == IF pc \in {"raw", "fetch"} THEN PoolSize(Cfg) + 1 ELSE PoolSize(Cfg) - idx

DueTurns ==
  CASE pc = "fetch"  -> Cardinality(pending)
    [] pc = "claim"  -> Cardinality(Names) + 1
    [] pc = "open"   -> Cardinality(todo)
    [] pc = "rebind" -> Cardinality(Names) + 3
    [] pc = "scan"   -> Cardinality(todo) + 2
    [] pc = "retry"  -> 1
    [] pc = "absorb" -> IF idx \in Slot /\ scratch[idx] = NoFetch THEN Cardinality(Names) + 3 ELSE 0
    [] OTHER         -> 0

Due == <<buf, DueTicks, DueSlots, DueTurns>>

(* The first number that differs is smaller, and none can be for ever.     *)
Nearer(p, q) == \E k \in 1 .. 4 : p[k] \in 0 .. q[k] - 1 /\ \A j \in 1 .. k - 1 : p[j] = q[j]

(* No call turns in circles: each of its steps brings it nearer to its     *)
(* end, and nothing the devices do sets it back (Pool::open, read and the  *)
(* rebinds inside them).                                                   *)
NoCircles ==
  [][InCall /\ InCall' => IF dev' = dev THEN Nearer(Due', Due) ELSE Due' = Due]_vars
=============================================================================
