----------------------------- MODULE PoolProofs -----------------------------
(***************************************************************************)
(* Proofs about Pool, for every configuration, every set of devices and    *)
(* every number of failures and calls.                                     *)
(***************************************************************************)
EXTENDS Pool, FiniteSetTheorems, TLAPS

(***************************************************************************)
(* Facts about the configuration.                                          *)
(***************************************************************************)
LEMMA SizeFacts ==
  /\ PoolSize(Cfg) \in Nat \ {0}
  /\ Cfg.iso7816_cards \in 0 .. PoolSize(Cfg)
  /\ Slot = 0 .. PoolSize(Cfg) - 1
  /\ Kinds \subseteq Kind
  /\ \A i \in Slot : KindOf(Cfg, i) \in Kinds
  BY PoolAssumption DEF Configs, Validate, PoolSize, Slot, Slots, Kinds, Kind, KindOf

LEMMA TickFacts ==
  /\ MaxTicks(Cfg) \in Nat \ {0}
  /\ \A i \in Slot : SlotTicks(Cfg, i) \in Nat
<1>1. Cfg.iso7816_input_bytes \div 32 \in Nat /\ Cfg.infnoise_input_bytes \div 32 \in Nat
  BY PoolAssumption DEF Configs
<1>2. /\ Cfg.iso7816_cards > 0 => Cfg.iso7816_input_bytes \div 32 > 0
      /\ Cfg.infnoise_devices > 0 => Cfg.infnoise_input_bytes \div 32 > 0
  BY PoolAssumption DEF Configs, Validate, Whole
<1>3. Cfg.iso7816_cards > 0 \/ Cfg.infnoise_devices > 0
  BY PoolAssumption DEF Configs, Validate, PoolSize
<1> QED
  BY <1>1, <1>2, <1>3, PoolAssumption
  DEF MaxTicks, SlotTicks, TickBytes, Configs

LEMMA NameFacts == NoName \notin Names /\ \A n \in Names : n \in Nat
  BY PoolAssumption DEF NoName

(***************************************************************************)
(* Type correctness                                                        *)
(***************************************************************************)
LEMMA ListedFacts == \A k : Listed(k) \subseteq Names
  BY DEF Listed

(***************************************************************************)
(* Type correctness.  It needs to be known when idx is a slot, and that a  *)
(* handle has a name.                                                      *)
(***************************************************************************)
SlotRecord == [name : Names \cup {NoName}, inner : {"Empty", "Live", "Dead"}]

NamedOK == \A i \in Slot : slots[i].name = NoName <=> slots[i].inner = "Empty"

TypeInv ==
  /\ TypeOK
  /\ NamedOK
  /\ pc \in {"open", "rebind", "scan", "retry"} => idx \in Slot

LEMMA InitTypeInv == Init => TypeInv
  BY SizeFacts, PoolAssumption
  DEF Init, TypeInv, TypeOK, NamedOK, AllEmpty, EmptySlot, NoScratch, FetchOrNone

(* Leaving a call, or failing to list, touches no typed variable but these. *)
LEMMA ReturnType ==
  ASSUME NEW r \in {"Ok"} \cup Errors, Return(r)
  PROVE  /\ pc' = "idle" /\ result' \in {"Ok", "pending"} \cup Errors
         /\ tick' \in Nat /\ idx' \in 0 .. PoolSize(Cfg)
         /\ pending' \subseteq Slot /\ todo' \subseteq Names
         /\ scratch' \in [Slot -> FetchOrNone]
  BY SizeFacts DEF Return, DropLocals, NoScratch, FetchOrNone

LEMMA FaultType ==
  ASSUME TypeOK, NEW c \in BOOLEAN, Fault(c) \/ NoFault
  PROVE  faults' \in 0 .. MaxFaults /\ calm' \in BOOLEAN
  BY PoolAssumption DEF TypeOK, Fault, NoFault

LEMMA BindType ==
  ASSUME TypeInv, NEW i \in Slot, NEW n \in Names,
         slots' = [slots EXCEPT ![i] = Bound(n)]
  PROVE  slots' \in [Slot -> SlotRecord] /\ NamedOK'
  BY NameFacts DEF TypeInv, TypeOK, NamedOK, Bound, EmptySlot, SlotRecord

LEMMA EmptyType ==
  ASSUME TypeInv, NEW i \in Slot, slots' = [slots EXCEPT ![i] = EmptySlot]
  PROVE  slots' \in [Slot -> SlotRecord] /\ NamedOK'
  BY NameFacts DEF TypeInv, TypeOK, NamedOK, EmptySlot, SlotRecord

(* A device that changes may leave a handle dead, and names nothing else.  *)
LEMMA ChangeType ==
  ASSUME TypeInv, NEW k \in Kinds, NEW n \in Names, NEW s \in DevState, Change(k, n, s)
  PROVE  slots' \in [Slot -> SlotRecord] /\ NamedOK'
<1> DEFINE Hit(i) == KindOf(Cfg, i) = k /\ slots[i].name = n /\ slots[i].inner = "Live"
<1>1. slots \in [Slot -> SlotRecord]
  BY DEF TypeInv, TypeOK, SlotRecord
<1>2. ASSUME NEW i \in Slot
      PROVE  slots'[i] = slots[i] \/ (Hit(i) /\ slots'[i] = [slots[i] EXCEPT !.inner = "Dead"])
  BY DEF Change
<1>3. DOMAIN slots' = Slot /\ slots' = [i \in Slot |-> slots'[i]]
  BY DEF Change
<1>4. ASSUME NEW i \in Slot
      PROVE  /\ slots'[i] \in SlotRecord
             /\ slots'[i].name = NoName <=> slots'[i].inner = "Empty"
  <2>1. slots[i] \in SlotRecord /\ (slots[i].name = NoName <=> slots[i].inner = "Empty")
    BY <1>1 DEF TypeInv, NamedOK
  <2>2. CASE slots'[i] = slots[i]
    BY <2>1, <2>2
  <2>3. CASE Hit(i) /\ slots'[i] = [slots[i] EXCEPT !.inner = "Dead"]
    BY <2>1, <2>3 DEF SlotRecord
  <2> QED
    BY <1>2, <2>2, <2>3
<1>5. slots' \in [Slot -> SlotRecord]
  BY <1>3, <1>4
<1> QED
  BY <1>4, <1>5 DEF NamedOK

LEMMA FetchedType ==
  ASSUME TypeInv, NEW i \in Slot, slots[i].inner = "Live"
  PROVE  Fetched(i) \in Fetch
  BY DEF TypeInv, TypeOK, NamedOK, Fetched, Fetch

LEMMA RebindType ==
  ASSUME TypeInv, NEW i \in Slot, Rebind(i)
  PROVE  TypeInv'
<1> USE SizeFacts, ListedFacts DEF TypeInv, TypeOK, NamedOK
<1>1. slots' \in [Slot -> SlotRecord] /\ NamedOK'
  BY EmptyType DEF Rebind
<1>2. faults' \in 0 .. MaxFaults /\ calm' \in BOOLEAN
  BY FaultType DEF Rebind, ListOk, ListErr
<1>3. CASE todo' \in {Listed(KindOf(Cfg, i)), {}} /\ pc' = "scan" /\ idx' = i
           /\ UNCHANGED <<result, tick, pending, scratch, hOut, hState>>
  BY <1>1, <1>2, <1>3 DEF Rebind, callvars, hist, SlotRecord
<1>4. CASE Return("Resource")
  BY <1>1, <1>2, <1>4, ReturnType DEF Rebind, callvars, hist, SlotRecord, Errors
<1> QED
  BY <1>3, <1>4 DEF Rebind, ListOk

LEMMA StepTypeInv == TypeInv /\ [Next]_vars => TypeInv'
<1> SUFFICES ASSUME TypeInv, [Next]_vars PROVE TypeInv'
  OBVIOUS
<1> USE SizeFacts, TickFacts, NameFacts, ListedFacts, PoolAssumption
    DEF TypeInv, TypeOK, NamedOK, envvars, rndvars, callvars, hist, NoScratch, FetchOrNone
<1>1. ASSUME BeginOpen PROVE TypeInv'
  BY <1>1 DEF BeginOpen
<1>2. ASSUME OpenExhausted PROVE TypeInv'
  BY <1>2 DEF OpenExhausted, OpenFails, DropLocals, Errors, AllEmpty, EmptySlot
<1>3. ASSUME OpenDone PROVE TypeInv'
  BY <1>3 DEF OpenDone, Return, DropLocals
<1>4. ASSUME Drop PROVE TypeInv'
  BY <1>4 DEF Drop, AllEmpty, EmptySlot
<1>5. ASSUME NEW n \in Lens, BeginRead(n) PROVE TypeInv'
  BY <1>5 DEF BeginRead
<1>6. ASSUME RawRead PROVE TypeInv'
  BY <1>6 DEF RawRead, RawFill, ReadOk, NoFault, Return, DropLocals
<1>7. ASSUME RawReadFails PROVE TypeInv'
  BY <1>7 DEF RawReadFails, RawSpill, ReadErr, Fault, NoFault
<1>8. ASSUME RebindExhausted PROVE TypeInv'
  BY <1>8 DEF RebindExhausted, Return, DropLocals, Errors
<1>9. ASSUME StartRound PROVE TypeInv'
  BY <1>9 DEF StartRound, StartTick
<1>10. ASSUME Filled PROVE TypeInv'
  BY <1>10 DEF Filled, Return, DropLocals
<1>11. ASSUME Join PROVE TypeInv'
  BY <1>11 DEF Join
<1>12. ASSUME Skip PROVE TypeInv'
  BY <1>12 DEF Skip
<1>13. ASSUME Absorb PROVE TypeInv'
  BY <1>13 DEF Absorb
<1>14. ASSUME NextTick PROVE TypeInv'
  BY <1>14 DEF NextTick, StartTick
<1>15. ASSUME Commit PROVE TypeInv'
  BY <1>15 DEF Commit, DropLocals, LowerOf, RoundBytes
<1>16. ASSUME NEW k \in Kinds, NEW n \in Names, NEW s \in DevState, Change(k, n, s)
      PROVE  TypeInv'
  <2>1. dev' \in [Kinds -> [Names -> DevState]]
    BY <1>16 DEF Change
  <2>2. slots' \in [Slot -> SlotRecord] /\ NamedOK'
    BY <1>16, ChangeType
  <2>3. faults' \in 0 .. MaxFaults /\ calm' \in BOOLEAN
    BY <1>16, FaultType DEF Change
  <2> QED
    BY <1>16, <2>1, <2>2, <2>3 DEF Change, SlotRecord
<1>17. ASSUME OpenList PROVE TypeInv'
  <2>1. faults' \in 0 .. MaxFaults /\ calm' \in BOOLEAN
    BY <1>17, FaultType DEF OpenList, ListOk, ListErr
  <2>2. CASE /\ todo' \in {Listed(KindOf(Cfg, idx)), {}} /\ pc' = "open"
             /\ UNCHANGED <<slots, result, tick, idx, pending, scratch, hOut, hState>>
    BY <1>17, <2>1, <2>2 DEF OpenList
  <2>3. CASE OpenFails("Resource")
    BY <1>17, <2>1, <2>3 DEF OpenList, OpenFails, DropLocals, Errors, AllEmpty, EmptySlot
  <2> QED
    BY <1>17, <2>2, <2>3 DEF OpenList, ListOk
<1>18. ASSUME NEW n \in Names, OpenTry(n) PROVE TypeInv'
  <2>1. idx \in Slot
    BY <1>18 DEF OpenTry
  <2>2. slots' \in [Slot -> SlotRecord] /\ NamedOK'
    <3>1. CASE slots' = slots
      BY <3>1 DEF SlotRecord
    <3>2. CASE slots' = [slots EXCEPT ![idx] = Bound(n)]
      BY <2>1, <3>2, BindType
    <3> QED
      BY <1>18, <3>1, <3>2 DEF OpenTry
  <2>3. /\ todo' \subseteq Names /\ pc' \in {"open", "claim"}
        /\ idx' \in 0 .. PoolSize(Cfg) /\ (pc' = "open" => idx' \in Slot)
    <3>1. CASE dev[KindOf(Cfg, idx)][n] = "usable"
      <4>1. idx' = idx + 1 /\ todo' \in {{}, todo \ {n}}
        BY <1>18, <3>1 DEF OpenTry
      <4>2. \/ pc' = "claim"
            \/ pc' = "open" /\ idx + 1 # PoolSize(Cfg)
        <5>1. CASE idx + 1 \in {Cfg.iso7816_cards, PoolSize(Cfg)}
          BY <1>18, <3>1, <5>1 DEF OpenTry
        <5>2. CASE idx + 1 \notin {Cfg.iso7816_cards, PoolSize(Cfg)}
          BY <1>18, <3>1, <5>2 DEF OpenTry
        <5> QED
          BY <5>1, <5>2
      <4>3. todo' \subseteq Names /\ pc' \in {"open", "claim"}
        BY <4>1, <4>2
      <4>4. idx' \in 0 .. PoolSize(Cfg) /\ (pc' = "open" => idx' \in Slot)
        BY <2>1, <4>1, <4>2
      <4> QED
        BY <4>3, <4>4
    <3>2. CASE dev[KindOf(Cfg, idx)][n] # "usable"
      BY <1>18, <2>1, <3>2 DEF OpenTry
    <3> QED
      BY <3>1, <3>2
  <2> QED
    BY <1>18, <2>2, <2>3 DEF OpenTry, SlotRecord
<1>19. ASSUME RawRetry PROVE TypeInv'
  <2>1. CASE RawFill
    BY <1>19, <2>1 DEF RawRetry, RawFill, ReadOk, NoFault, ReadErr, Fault, Return, DropLocals
  <2>2. CASE RawSpill /\ Return("ReadFailure") /\ UNCHANGED <<slots, state, hist>>
    <3>1. faults' \in 0 .. MaxFaults /\ calm' \in BOOLEAN
      BY <1>19, FaultType DEF RawRetry, ReadErr, ReadOk
    <3> QED
      BY <1>19, <2>2, <3>1, ReturnType DEF RawRetry, RawSpill, Errors
  <2> QED
    BY <1>19, <2>1, <2>2 DEF RawRetry
<1>20. ASSUME BeginRebind PROVE TypeInv'
  BY <1>20, RebindType DEF BeginRebind
<1>21. ASSUME Recover PROVE TypeInv'
  BY <1>21, RebindType DEF Recover
<1>22. ASSUME NEW n \in Names, RebindTry(n) PROVE TypeInv'
  <2>1. idx \in Slot
    BY <1>22 DEF RebindTry
  <2>2. slots' \in [Slot -> SlotRecord] /\ NamedOK'
    <3>1. CASE slots' = slots
      BY <3>1 DEF SlotRecord
    <3>2. CASE slots' = [slots EXCEPT ![idx] = Bound(n)]
      BY <2>1, <3>2, BindType
    <3> QED
      BY <1>22, <3>1, <3>2 DEF RebindTry
  <2>3. /\ todo' \subseteq Names /\ pc' \in {"scan", "retry"}
        /\ UNCHANGED <<idx, state, result, hist, callvars, dev, faults, calm>>
        /\ UNCHANGED <<tick, pending, scratch, hOut, hState>>
    BY <1>22 DEF RebindTry
  <2> QED
    BY <2>1, <2>2, <2>3 DEF SlotRecord
<1>23. ASSUME NEW i \in Slot, Worker(i) PROVE TypeInv'
  <2>1. faults' \in 0 .. MaxFaults /\ calm' \in BOOLEAN
    BY <1>23, FaultType DEF Worker, ReadOk, ReadErr
  <2>2. scratch' \in [Slot -> FetchOrNone]
    <3>1. CASE scratch' = scratch
      BY <3>1
    <3>2. CASE slots[i].inner = "Live" /\ scratch' = [scratch EXCEPT ![i] = Fetched(i)]
      BY <3>2, FetchedType
    <3> QED
      BY <1>23, <3>1, <3>2 DEF Worker, ReadOk, TickBytes
  <2> QED
    BY <1>23, <2>1, <2>2 DEF Worker
<1>24. ASSUME ChainRetry PROVE TypeInv'
  <2>1. faults' \in 0 .. MaxFaults /\ calm' \in BOOLEAN
    BY <1>24, FaultType DEF ChainRetry, ReadOk, ReadErr
  <2>2. CASE Return("ReadFailure")
    BY <1>24, <2>1, <2>2, ReturnType DEF ChainRetry, Errors
  <2>3. CASE /\ ReadOk(idx, TickBytes)
             /\ scratch' = [scratch EXCEPT ![idx] = Fetched(idx)]
             /\ pc' = "absorb"
             /\ UNCHANGED <<result, tick, idx, pending, hOut, hState, todo>>
    <3>1. scratch' \in [Slot -> FetchOrNone]
      BY <1>24, <2>3, FetchedType DEF ChainRetry, ReadOk, TickBytes
    <3> QED
      BY <1>24, <2>1, <2>3, <3>1 DEF ChainRetry
  <2> QED
    BY <1>24, <2>2, <2>3 DEF ChainRetry
<1>25. ASSUME UNCHANGED vars PROVE TypeInv'
  BY <1>25 DEF vars
<1> QED
  BY <1>1, <1>2, <1>3, <1>4, <1>5, <1>6, <1>7, <1>8, <1>9, <1>10, <1>11, <1>12, <1>13, <1>14, <1>15, <1>16, <1>17, <1>18, <1>19, <1>20, <1>21, <1>22, <1>23, <1>24, <1>25
  DEF Next, Step, Opening, Rebinding, Raw, Round

(* The pool's state is what the code says it is, in every state.           *)
THEOREM TypeCorrect == Spec => []TypeOK
<1>1. Init => TypeInv
  BY InitTypeInv
<1>2. TypeInv /\ [Next]_vars => TypeInv'
  BY StepTypeInv
<1>3. TypeInv => TypeOK
  BY DEF TypeInv
<1> QED
  BY <1>1, <1>2, <1>3, PTL DEF Spec

(***************************************************************************)
(* No device in two slots.  The inductive invariant says what a slot that  *)
(* is about to be bound holds, and that the names still to be tried in     *)
(* open are not those of the slots already filled.                         *)
(***************************************************************************)
NamesInv ==
  /\ TypeInv
  /\ DistinctNames
  /\ pc = "none" => slots = AllEmpty
  /\ pc = "claim" => idx \in {0, Cfg.iso7816_cards, PoolSize(Cfg)}
  /\ pc \in {"claim", "open"} => \A j \in Slot : j >= idx => slots[j] = EmptySlot
  /\ pc = "open" => \A j \in Slot : j < idx /\ KindOf(Cfg, j) = KindOf(Cfg, idx)
                                     => slots[j].name \notin todo
  /\ pc = "scan" => slots[idx] = EmptySlot

(* Outside open and the scan of rebind, what matters is that slots stay.   *)
LEMMA NamesKept ==
  ASSUME NamesInv, TypeInv', UNCHANGED slots,
         pc' \notin {"none", "claim", "open", "scan"}
  PROVE  NamesInv'
  BY DEF NamesInv, DistinctNames

LEMMA NamesCleared ==
  ASSUME TypeInv', slots' = AllEmpty, pc' = "none"
  PROVE  NamesInv'
  BY DEF NamesInv, DistinctNames, AllEmpty, EmptySlot

LEMMA NamesChange ==
  ASSUME NamesInv, TypeInv', NEW k \in Kinds, NEW n \in Names, NEW s \in DevState, Change(k, n, s)
  PROVE  NamesInv'
<1>1. \A i \in Slot : /\ slots'[i].name = slots[i].name
                      /\ slots[i] = EmptySlot => slots'[i] = EmptySlot
                      /\ slots[i].inner = "Empty" <=> slots'[i].inner = "Empty"
  BY DEF Change, NamesInv, TypeInv, TypeOK, EmptySlot
<1>2. DistinctNames'
  BY <1>1 DEF NamesInv, DistinctNames
<1>3. slots = AllEmpty => slots' = AllEmpty
  BY DEF Change, AllEmpty, EmptySlot
<1>4. UNCHANGED <<pc, idx, todo>>
  BY DEF Change, rndvars
<1>5. pc = "scan" => idx \in Slot
  BY DEF NamesInv, TypeInv
<1> QED
  BY <1>1, <1>2, <1>3, <1>4, <1>5 DEF NamesInv

LEMMA NamesOpenList ==
  ASSUME NamesInv, TypeInv', OpenList
  PROVE  NamesInv'
<1> USE SizeFacts
<1>1. CASE /\ todo' \in {Listed(KindOf(Cfg, idx)), {}} /\ pc' = "open"
           /\ UNCHANGED <<slots, result, tick, idx, pending, scratch, hOut, hState>>
  <2>1. \A j \in Slot : j < idx => KindOf(Cfg, j) # KindOf(Cfg, idx)
    BY PoolAssumption DEF NamesInv, OpenList, KindOf, Configs
  <2> QED
    BY <1>1, <2>1 DEF NamesInv, DistinctNames, OpenList
<1>2. CASE OpenFails("Resource")
  BY <1>2, NamesCleared DEF OpenFails
<1> QED
  BY <1>1, <1>2 DEF OpenList, ListOk

LEMMA NamesOpenTry ==
  ASSUME NamesInv, TypeInv', NEW n \in Names, OpenTry(n)
  PROVE  NamesInv'
<1> USE SizeFacts, NameFacts
<1>1. idx \in Slot /\ pc = "open" /\ n \in todo
  BY DEF NamesInv, TypeInv, OpenTry, First
<1>2. \A j \in Slot : /\ j < idx /\ KindOf(Cfg, j) = KindOf(Cfg, idx) => slots[j].name # n
                      /\ j >= idx => slots[j] = EmptySlot
  BY <1>1 DEF NamesInv
<1>3. CASE dev[KindOf(Cfg, idx)][n] = "usable"
  <2>1. slots' = [slots EXCEPT ![idx] = Bound(n)] /\ idx' = idx + 1
    BY <1>3 DEF OpenTry
  <2>2. /\ slots'[idx].name = n /\ slots'[idx].inner = "Live"
        /\ \A j \in Slot : j # idx => slots'[j] = slots[j]
    BY <1>1, <2>1 DEF Bound, NamesInv, TypeInv, TypeOK
  <2>3. DistinctNames'
    BY <1>1, <1>2, <2>2 DEF NamesInv, DistinctNames, EmptySlot
  <2>4. \A j \in Slot : j >= idx' => slots'[j] = EmptySlot
    BY <1>1, <1>2, <2>1, <2>2
  <2>5. CASE idx + 1 \in {Cfg.iso7816_cards, PoolSize(Cfg)}
    BY <1>3, <2>1, <2>3, <2>4, <2>5 DEF NamesInv, OpenTry
  <2>6. CASE idx + 1 \notin {Cfg.iso7816_cards, PoolSize(Cfg)}
    <3>1. pc' = "open" /\ todo' = todo \ {n}
      BY <1>1, <1>3, <2>6 DEF OpenTry
    <3>2. KindOf(Cfg, idx + 1) = KindOf(Cfg, idx)
      BY <1>1, <2>6, PoolAssumption DEF KindOf, Configs
    <3>3. \A j \in Slot : j < idx + 1 /\ KindOf(Cfg, j) = KindOf(Cfg, idx)
                             => slots'[j].name \notin todo'
      BY <1>1, <2>2, <3>1 DEF NamesInv
    <3> QED
      BY <2>1, <2>3, <2>4, <3>1, <3>2, <3>3 DEF NamesInv
  <2> QED
    BY <2>5, <2>6
<1>4. CASE dev[KindOf(Cfg, idx)][n] # "usable"
  BY <1>1, <1>4 DEF NamesInv, DistinctNames, OpenTry
<1> QED
  BY <1>3, <1>4

LEMMA NamesRebind ==
  ASSUME NamesInv, TypeInv', NEW i \in Slot, Rebind(i)
  PROVE  NamesInv'
<1>1. /\ slots'[i] = EmptySlot
      /\ \A j \in Slot : j # i => slots'[j] = slots[j]
  BY DEF Rebind, NamesInv, TypeInv, TypeOK
<1>2. DistinctNames'
  BY <1>1, NameFacts DEF NamesInv, DistinctNames, EmptySlot
<1>3. pc' \in {"scan", "idle"} /\ (pc' = "scan" => idx' = i)
  BY DEF Rebind, Return
<1> QED
  BY <1>1, <1>2, <1>3 DEF NamesInv

LEMMA NamesRebindTry ==
  ASSUME NamesInv, TypeInv', NEW n \in Names, RebindTry(n)
  PROVE  NamesInv'
<1> USE NameFacts
<1>1. idx \in Slot
  BY DEF NamesInv, TypeInv, RebindTry
<1>2. CASE ~ NameInUse(idx, KindOf(Cfg, idx), n) /\ dev[KindOf(Cfg, idx)][n] = "usable"
  <2>1. /\ slots'[idx].name = n /\ slots'[idx].inner = "Live"
        /\ \A j \in Slot : j # idx => slots'[j] = slots[j]
    BY <1>1, <1>2 DEF RebindTry, Bound, NamesInv, TypeInv, TypeOK
  <2>2. DistinctNames'
    BY <1>1, <1>2, <2>1 DEF NamesInv, DistinctNames, NameInUse
  <2>3. pc' = "retry"
    BY <1>2 DEF RebindTry
  <2> QED
    BY <2>2, <2>3 DEF NamesInv
<1>3. CASE ~ (~ NameInUse(idx, KindOf(Cfg, idx), n) /\ dev[KindOf(Cfg, idx)][n] = "usable")
  <2>1. UNCHANGED <<slots, pc, idx>> /\ pc = "scan"
    BY <1>3 DEF RebindTry
  <2> QED
    BY <2>1 DEF NamesInv, DistinctNames
<1> QED
  BY <1>2, <1>3

LEMMA StepNamesInv == NamesInv /\ [Next]_vars => NamesInv'
<1> SUFFICES ASSUME NamesInv, [Next]_vars PROVE NamesInv'
  OBVIOUS
<1>1. TypeInv'
  BY StepTypeInv DEF NamesInv
<1>2. ASSUME OpenDone PROVE NamesInv'
  BY <1>1, <1>2, NamesKept DEF OpenDone, Return
<1>3. ASSUME NEW n \in Lens, BeginRead(n) PROVE NamesInv'
  BY <1>1, <1>3, NamesKept DEF BeginRead
<1>4. ASSUME RawRead PROVE NamesInv'
  BY <1>1, <1>4, NamesKept DEF RawRead, RawFill, Return
<1>5. ASSUME RawReadFails PROVE NamesInv'
  BY <1>1, <1>5, NamesKept DEF RawReadFails
<1>6. ASSUME RawRetry PROVE NamesInv'
  BY <1>1, <1>6, NamesKept DEF RawRetry, RawFill, Return
<1>7. ASSUME RebindExhausted PROVE NamesInv'
  BY <1>1, <1>7, NamesKept DEF RebindExhausted, Return
<1>8. ASSUME StartRound PROVE NamesInv'
  BY <1>1, <1>8, NamesKept DEF StartRound, StartTick
<1>9. ASSUME Filled PROVE NamesInv'
  BY <1>1, <1>9, NamesKept DEF Filled, Return
<1>10. ASSUME NEW i \in Slot, Worker(i) PROVE NamesInv'
  BY <1>1, <1>10, NamesKept DEF Worker
<1>11. ASSUME Join PROVE NamesInv'
  BY <1>1, <1>11, NamesKept DEF Join
<1>12. ASSUME Skip PROVE NamesInv'
  BY <1>1, <1>12, NamesKept DEF Skip
<1>13. ASSUME Absorb PROVE NamesInv'
  BY <1>1, <1>13, NamesKept DEF Absorb
<1>14. ASSUME ChainRetry PROVE NamesInv'
  BY <1>1, <1>14, NamesKept DEF ChainRetry, Return
<1>15. ASSUME NextTick PROVE NamesInv'
  BY <1>1, <1>15, NamesKept DEF NextTick, StartTick
<1>16. ASSUME Commit PROVE NamesInv'
  BY <1>1, <1>16, NamesKept DEF Commit
<1>17. ASSUME OpenExhausted PROVE NamesInv'
  BY <1>1, <1>17, NamesCleared DEF OpenExhausted, OpenFails
<1>18. ASSUME Drop PROVE NamesInv'
  BY <1>1, <1>18, NamesCleared DEF Drop
<1>19. ASSUME BeginOpen PROVE NamesInv'
  BY <1>1, <1>19, SizeFacts DEF BeginOpen, NamesInv, DistinctNames, AllEmpty
<1>20. ASSUME OpenList PROVE NamesInv'
  BY <1>1, <1>20, NamesOpenList
<1>21. ASSUME NEW n \in Names, OpenTry(n) PROVE NamesInv'
  BY <1>1, <1>21, NamesOpenTry
<1>22. ASSUME BeginRebind PROVE NamesInv'
  BY <1>1, <1>22, NamesRebind DEF BeginRebind, NamesInv, TypeInv
<1>23. ASSUME Recover PROVE NamesInv'
  BY <1>1, <1>23, NamesRebind DEF Recover
<1>24. ASSUME NEW n \in Names, RebindTry(n) PROVE NamesInv'
  BY <1>1, <1>24, NamesRebindTry
<1>25. ASSUME NEW c \in Kinds, NEW n \in Names, NEW s \in DevState, Change(c, n, s) PROVE NamesInv'
  BY <1>1, <1>25, NamesChange
<1>26. ASSUME UNCHANGED vars PROVE NamesInv'
  BY <1>1, <1>26 DEF vars, rndvars, NamesInv, DistinctNames
<1> QED
  BY <1>2, <1>3, <1>4, <1>5, <1>6, <1>7, <1>8, <1>9, <1>10, <1>11, <1>12, <1>13, <1>14, <1>15, <1>16, <1>17, <1>18, <1>19, <1>20, <1>21, <1>22, <1>23, <1>24, <1>25, <1>26
  DEF Next, Step, Opening, Rebinding, Raw, Round

LEMMA NamesAlways == Spec => []NamesInv
<1>1. Init => NamesInv
  BY InitTypeInv, NamesCleared DEF Init, NamesInv, DistinctNames, AllEmpty, EmptySlot
<1> QED
  BY <1>1, StepNamesInv, PTL DEF Spec

(* No two slots of a kind ever hold the same device, for any number of     *)
(* devices, failures and rebinds (name_in_use).                            *)
THEOREM NeverTwice == Spec => []DistinctNames
<1>1. NamesInv => DistinctNames
  BY DEF NamesInv
<1> QED
  BY <1>1, NamesAlways, PTL

(***************************************************************************)
(* Enough devices mean success.  While a name is being looked for, every   *)
(* usable device of the kind is either still to be tried or in another     *)
(* slot of the kind; when none is left to be tried, they are all in other  *)
(* slots, and so fewer than there are slots.                               *)
(***************************************************************************)
Mates(i) == {j \in Slot \ {i} : KindOf(Cfg, j) = KindOf(Cfg, i)}

Accounted(i) ==
  \A n \in Names : dev[KindOf(Cfg, i)][n] = "usable" /\ n \notin todo
                     => \E j \in Mates(i) : slots[j].name = n

CalmInv ==
  /\ NamesInv
  /\ calm /\ Enough =>
       /\ pc \in {"none", "idle"} => result = "Ok"
       /\ pc = "retry" => slots[idx].inner = "Live"
       /\ pc \in {"open", "scan"} => Accounted(idx)

(* Pigeonhole: a set that fits into another one without x has fewer elements. *)
LEMMA Fewer ==
  ASSUME NEW U, NEW I, IsFiniteSet(I), NEW x \in I, NEW f \in Injection(U, I \ {x})
  PROVE  Cardinality(U) \in Nat /\ Cardinality(I) \in Nat /\ Cardinality(U) < Cardinality(I)
<1>1. IsFiniteSet(I \ {x}) /\ Cardinality(I \ {x}) = Cardinality(I) - 1
  BY FS_RemoveElement
<1>2. IsFiniteSet(U) /\ Cardinality(U) <= Cardinality(I \ {x})
  BY <1>1, FS_Injection
<1>3. Cardinality(U) \in Nat /\ Cardinality(I) \in Nat
  BY <1>2, FS_CardinalityType
<1> QED
  BY <1>1, <1>2, <1>3

(* The pigeons are the usable devices, the holes the other slots of the kind. *)
LEMMA NoneLeft ==
  ASSUME NEW i \in Slot, Accounted(i), todo = {}
  PROVE  ~ Enough
<1> DEFINE k == KindOf(Cfg, i)
           U == {n \in Names : dev[k][n] = "usable"}
           I == {j \in Slot : KindOf(Cfg, j) = k}
           hole == [n \in U |-> CHOOSE j \in Mates(i) : slots[j].name = n]
<1>1. IsFiniteSet(Slot)
  BY SizeFacts, FS_Interval
<1>2. IsFiniteSet(I)
  BY <1>1, FS_Subset
<1>3. Mates(i) = I \ {i} /\ i \in I
  BY DEF Mates
<1>4. \A n \in U : hole[n] \in Mates(i) /\ slots[hole[n]].name = n
  BY DEF Accounted
<1>5. hole \in [U -> Mates(i)]
  BY <1>4
<1>6. \A a, b \in U : hole[a] = hole[b] => a = b
  BY <1>4
<1> HIDE DEF k, U, I, hole
<1>7. hole \in Injection(U, I \ {i})
  BY <1>3, <1>5, <1>6 DEF Injection, IsInjective
<1>8. ~ (Cardinality(U) >= Cardinality(I))
  BY <1>2, <1>3, <1>7, Fewer
<1>9. k \in Kinds
  BY SizeFacts DEF k
<1> QED
  BY <1>8, <1>9 DEF Enough, U, I

(* A step that leaves no promise open: in between, well ended, or not calm. *)
LEMMA CalmBetween ==
  ASSUME NamesInv', pc' \notin {"none", "idle", "retry", "open", "scan"}
  PROVE  CalmInv'
  BY DEF CalmInv

LEMMA CalmEnds ==
  ASSUME NamesInv', pc' \in {"none", "idle"}, result' = "Ok"
  PROVE  CalmInv'
  BY DEF CalmInv

LEMMA CalmOver ==
  ASSUME NamesInv', ~ calm' \/ ~ Enough'
  PROVE  CalmInv'
  BY DEF CalmInv

LEMMA EnoughStays ==
  ASSUME UNCHANGED dev
  PROVE  Enough' <=> Enough
  BY DEF Enough

(* A scan begins with every usable device in the list.                     *)
LEMMA ListAccounts ==
  ASSUME NEW i \in Slot, dev' = dev, todo' = Listed(KindOf(Cfg, i))
  PROVE  Accounted(i)'
  BY DEF Accounted, Listed

LEMMA CalmOpenList ==
  ASSUME CalmInv, NamesInv', OpenList
  PROVE  CalmInv'
<1>1. idx \in Slot /\ dev' = dev
  <2>1. idx \in 0 .. PoolSize(Cfg) /\ idx < PoolSize(Cfg)
    BY DEF OpenList, CalmInv, NamesInv, TypeInv, TypeOK
  <2> QED
    BY <2>1, SizeFacts DEF OpenList
<1>2. CASE /\ ListOk(KindOf(Cfg, idx), todo')
           /\ pc' = "open"
           /\ UNCHANGED <<slots, result, tick, idx, pending, scratch, hOut, hState>>
  <2>1. CASE todo' = Listed(KindOf(Cfg, idx))
    <3>1. Accounted(idx)'
      BY <1>1, <1>2, <2>1, ListAccounts DEF Accounted, Mates
    <3> QED
      BY <1>2, <3>1 DEF CalmInv
  <2>2. CASE Fault(FALSE)
    BY <2>2, CalmOver DEF Fault
  <2> QED
    BY <1>2, <2>1, <2>2 DEF ListOk
<1>3. CASE ListErr
  BY <1>3, CalmOver DEF ListErr, Fault
<1> QED
  BY <1>2, <1>3 DEF OpenList

LEMMA CalmOpenTry ==
  ASSUME CalmInv, NamesInv', NEW n \in Names, OpenTry(n)
  PROVE  CalmInv'
<1> DEFINE k == KindOf(Cfg, idx)
<1>1. /\ idx \in Slot /\ pc = "open" /\ n \in todo
      /\ slots \in [Slot -> SlotRecord] /\ slots[idx] = EmptySlot
      /\ UNCHANGED <<dev, calm>>
  BY DEF CalmInv, NamesInv, TypeInv, TypeOK, OpenTry, First, SlotRecord, envvars
<1>2. SUFFICES ASSUME pc' = "open", calm, Enough, Accounted(idx)
               PROVE  Accounted(idx)'
  <2>1. pc' \in {"open", "claim"}
    BY <1>1 DEF OpenTry
  <2>2. calm' /\ Enough' => calm /\ Enough
    BY <1>1, EnoughStays
  <2>3. calm /\ Enough => Accounted(idx)
    BY <1>1 DEF CalmInv
  <2> QED
    BY <1>2, <2>1, <2>2, <2>3 DEF CalmInv, Accounted, Mates
<1>3. CASE dev[k][n] = "usable"
  <2>1. /\ slots' = [slots EXCEPT ![idx] = Bound(n)] /\ idx' = idx + 1
        /\ todo' = todo \ {n} /\ idx + 1 \notin {Cfg.iso7816_cards, PoolSize(Cfg)}
    BY <1>2, <1>3 DEF OpenTry
  <2>2. idx' \in Slot /\ KindOf(Cfg, idx') = k
    BY <1>1, <2>1, SizeFacts, PoolAssumption DEF KindOf, Configs
  <2>3. slots[idx'] = EmptySlot
    BY <1>1, <2>1, <2>2, SizeFacts DEF CalmInv, NamesInv
  <2>4. slots'[idx].name = n /\ \A j \in Slot : j # idx => slots'[j] = slots[j]
    BY <1>1, <2>1 DEF Bound
  <2>5. ASSUME NEW m \in Names, dev[k][m] = "usable", m \notin todo'
        PROVE  \E j \in Slot \ {idx'} : KindOf(Cfg, j) = k /\ slots'[j].name = m
    <3>1. CASE m = n
      BY <1>1, <2>1, <2>4, <3>1, SizeFacts
    <3>2. CASE m # n
      <4>1. PICK j \in Slot \ {idx} : KindOf(Cfg, j) = k /\ slots[j].name = m
        BY <1>2, <2>1, <2>5, <3>2 DEF Accounted, Mates
      <4>2. j # idx'
        BY <2>3, <4>1, NameFacts DEF EmptySlot
      <4> QED
        BY <2>4, <4>1, <4>2
    <3> QED
      BY <3>1, <3>2
  <2> QED
    BY <1>1, <2>2, <2>5 DEF Accounted, Mates
<1>4. CASE dev[k][n] # "usable"
  BY <1>1, <1>2, <1>4 DEF OpenTry, Accounted, Mates
<1> QED
  BY <1>3, <1>4

LEMMA CalmRebind ==
  ASSUME CalmInv, NamesInv', NEW i \in Slot, Rebind(i)
  PROVE  CalmInv'
<1>1. CASE ListOk(KindOf(Cfg, i), todo') /\ pc' = "scan" /\ idx' = i
  <2>1. CASE todo' = Listed(KindOf(Cfg, i))
    <3>1. Accounted(i)'
      BY <2>1, ListAccounts DEF Rebind
    <3>2. Accounted(idx)'
      BY <1>1, <3>1 DEF Accounted, Mates
    <3> QED
      BY <1>1, <3>2 DEF CalmInv
  <2>2. CASE Fault(FALSE)
    BY <2>2, CalmOver DEF Fault
  <2> QED
    BY <1>1, <2>1, <2>2 DEF ListOk
<1>2. CASE ListErr
  BY <1>2, CalmOver DEF ListErr, Fault
<1> QED
  BY <1>1, <1>2 DEF Rebind

LEMMA CalmRebindTry ==
  ASSUME CalmInv, NamesInv', NEW n \in Names, RebindTry(n)
  PROVE  CalmInv'
<1> DEFINE k == KindOf(Cfg, idx)
<1>1. /\ idx \in Slot /\ pc = "scan" /\ idx' = idx
      /\ slots \in [Slot -> SlotRecord]
      /\ UNCHANGED <<dev, calm>>
  BY DEF CalmInv, NamesInv, TypeInv, TypeOK, RebindTry, SlotRecord, envvars
<1>2. calm' /\ Enough' => Accounted(idx)
  BY <1>1, EnoughStays DEF CalmInv
<1>3. CASE ~ NameInUse(idx, k, n) /\ dev[k][n] = "usable"
  <2>1. slots' = [slots EXCEPT ![idx] = Bound(n)] /\ pc' = "retry"
    BY <1>3 DEF RebindTry
  <2>2. slots'[idx'].inner = "Live"
    BY <1>1, <2>1 DEF Bound
  <2> QED
    BY <2>1, <2>2 DEF CalmInv
<1>4. CASE NameInUse(idx, k, n) \/ dev[k][n] # "usable"
  <2>1. todo' = todo \ {n} /\ UNCHANGED <<slots, pc>>
    BY <1>4 DEF RebindTry
  <2>2. Accounted(idx) => Accounted(idx)'
    BY <1>1, <1>4, <2>1 DEF Accounted, Mates, NameInUse
  <2> QED
    BY <1>1, <1>2, <2>1, <2>2 DEF CalmInv
<1> QED
  BY <1>3, <1>4

(* A read that is repeated after a rebind fails only if an event makes it. *)
LEMMA RetryFails ==
  ASSUME CalmInv, pc = "retry", NEW b, ReadErr(idx, b), UNCHANGED dev
  PROVE  ~ calm' \/ ~ Enough'
<1>1. CASE slots[idx].inner = "Live"
  BY <1>1 DEF ReadErr, Fault
<1>2. CASE slots[idx].inner # "Live"
  <2>1. ~ (calm /\ Enough) /\ calm' = calm
    BY <1>2 DEF CalmInv, ReadErr, NoFault
  <2> QED
    BY <2>1, EnoughStays
<1> QED
  BY <1>1, <1>2

(* Raw passthrough is for one slot.                                        *)
LEMMA RawSlot == ~ UseChain(Cfg) => Slot = {0}
  BY SizeFacts DEF UseChain

LEMMA StepCalmInv == CalmInv /\ [Next]_vars => CalmInv'
<1> SUFFICES ASSUME CalmInv, [Next]_vars PROVE CalmInv'
  OBVIOUS
<1>1. NamesInv'
  BY StepNamesInv DEF CalmInv
<1>2. ASSUME BeginOpen PROVE CalmInv'
  BY <1>1, <1>2, CalmBetween DEF BeginOpen
<1>3. ASSUME NEW n \in Lens, BeginRead(n) PROVE CalmInv'
  BY <1>1, <1>3, CalmBetween DEF BeginRead
<1>4. ASSUME RawReadFails PROVE CalmInv'
  BY <1>1, <1>4, CalmBetween DEF RawReadFails
<1>5. ASSUME StartRound PROVE CalmInv'
  BY <1>1, <1>5, CalmBetween DEF StartRound, StartTick
<1>6. ASSUME NEW i \in Slot, Worker(i) PROVE CalmInv'
  BY <1>1, <1>6, CalmBetween DEF Worker
<1>7. ASSUME Join PROVE CalmInv'
  BY <1>1, <1>7, CalmBetween DEF Join
<1>8. ASSUME Skip PROVE CalmInv'
  BY <1>1, <1>8, CalmBetween DEF Skip
<1>9. ASSUME Absorb PROVE CalmInv'
  BY <1>1, <1>9, CalmBetween DEF Absorb
<1>10. ASSUME NextTick PROVE CalmInv'
  BY <1>1, <1>10, CalmBetween DEF NextTick, StartTick
<1>11. ASSUME Commit PROVE CalmInv'
  BY <1>1, <1>11, CalmBetween DEF Commit
<1>12. ASSUME OpenDone PROVE CalmInv'
  BY <1>1, <1>12, CalmEnds DEF OpenDone, Return
<1>13. ASSUME Filled PROVE CalmInv'
  BY <1>1, <1>13, CalmEnds DEF Filled, Return
<1>14. ASSUME RawRead PROVE CalmInv'
  BY <1>1, <1>14, CalmEnds DEF RawRead, RawFill, Return
<1>15. ASSUME NEW k \in Kinds, NEW n \in Names, NEW s \in DevState, Change(k, n, s)
       PROVE  CalmInv'
  BY <1>1, <1>15, CalmOver DEF Change, Fault
<1>16. ASSUME OpenExhausted PROVE CalmInv'
  <2>1. pc = "open" /\ todo = {} /\ idx \in Slot /\ UNCHANGED <<dev, calm>>
    BY <1>16 DEF OpenExhausted, CalmInv, NamesInv, TypeInv, envvars
  <2>2. ~ (calm /\ Enough)
    BY <2>1, NoneLeft DEF CalmInv
  <2> QED
    BY <1>1, <2>1, <2>2, EnoughStays, CalmOver
<1>17. ASSUME RebindExhausted PROVE CalmInv'
  <2>1. pc = "scan" /\ todo = {} /\ idx \in Slot /\ UNCHANGED <<dev, calm>>
    BY <1>17 DEF RebindExhausted, CalmInv, NamesInv, TypeInv, envvars
  <2>2. ~ (calm /\ Enough)
    BY <2>1, NoneLeft DEF CalmInv
  <2> QED
    BY <1>1, <2>1, <2>2, EnoughStays, CalmOver
<1>18. ASSUME RawRetry PROVE CalmInv'
  <2>1. CASE RawFill
    BY <1>1, <2>1, CalmEnds DEF RawFill, Return
  <2>2. CASE ReadErr(0, buf)
    <3>1. idx = 0 => CalmInv'
      BY <1>1, <1>18, <2>2, RetryFails, CalmOver DEF RawRetry
    <3>2. idx = 0
      BY <1>18, RawSlot DEF RawRetry, CalmInv, NamesInv, TypeInv
    <3> QED
      BY <3>1, <3>2
  <2> QED
    BY <1>18, <2>1, <2>2 DEF RawRetry
<1>19. ASSUME ChainRetry PROVE CalmInv'
  <2>1. CASE pc' = "absorb"
    BY <1>1, <2>1, CalmBetween
  <2>2. CASE ReadErr(idx, TickBytes)
    BY <1>1, <1>19, <2>2, RetryFails, CalmOver DEF ChainRetry
  <2> QED
    BY <1>19, <2>1, <2>2 DEF ChainRetry
<1>20. ASSUME Drop PROVE CalmInv'
  <2>1. /\ pc = "idle" /\ pc' = "none" /\ UNCHANGED <<dev, calm, result>>
    BY <1>20 DEF Drop, envvars
  <2> QED
    BY <1>1, <2>1, EnoughStays DEF CalmInv
<1>21. ASSUME OpenList PROVE CalmInv'
  BY <1>1, <1>21, CalmOpenList
<1>22. ASSUME NEW n \in Names, OpenTry(n) PROVE CalmInv'
  BY <1>1, <1>22, CalmOpenTry
<1>23. ASSUME BeginRebind PROVE CalmInv'
  BY <1>1, <1>23, CalmRebind DEF BeginRebind, CalmInv, NamesInv, TypeInv
<1>24. ASSUME Recover PROVE CalmInv'
  BY <1>1, <1>24, CalmRebind DEF Recover
<1>25. ASSUME NEW n \in Names, RebindTry(n) PROVE CalmInv'
  BY <1>1, <1>25, CalmRebindTry
<1>26. ASSUME UNCHANGED vars PROVE CalmInv'
  <2>1. UNCHANGED <<dev, calm, pc, result, slots, idx, todo>>
    BY <1>26 DEF vars, envvars, rndvars
  <2> QED
    BY <1>1, <2>1, EnoughStays DEF CalmInv, Accounted, Mates
<1> QED
  BY <1>2, <1>3, <1>4, <1>5, <1>6, <1>7, <1>8, <1>9, <1>10, <1>11, <1>12, <1>13, <1>14, <1>15, <1>16, <1>17, <1>18, <1>19, <1>20, <1>21, <1>22, <1>23, <1>24, <1>25, <1>26
  DEF Next, Step, Opening, Rebinding, Raw, Round

(* With enough usable devices every call succeeds, however many handles    *)
(* are dead and first reads fail: rebinding never starves a slot (rebind). *)
THEOREM EnoughSucceeds == Spec => []CalmSucceeds
<1>1. Init => CalmInv
  BY InitTypeInv, NamesCleared DEF Init, CalmInv, NamesInv, DistinctNames, AllEmpty, EmptySlot
<1>2. CalmInv => CalmSucceeds
  BY DEF CalmInv, CalmSucceeds
<1> QED
  BY <1>1, <1>2, StepCalmInv, PTL DEF Spec
=============================================================================
