------------------------------ MODULE Provider ------------------------------
(***************************************************************************)
(* The PKCS#11 module (p11rand/src/lib.rs): one process-wide mutex around  *)
(* the slot and the session table, taken by every call of every thread and *)
(* held across the device work the call does, that is while it probes the  *)
(* devices (pool::fillable), opens a pool or reads from one.               *)
(*                                                                         *)
(* Devices come and go at any moment, so each piece of device work ends    *)
(* with any of its answers; Fillable and Pool model the work itself.       *)
(* What runs between two pieces of device work under the mutex is a step.  *)
(***************************************************************************)
EXTENDS Integers, Sequences, FiniteSets

CONSTANTS
  Threads,      (* the threads of the application                          *)
  MaxSessions,  (* MAX_SESSIONS                                            *)
  UsesCards     (* the configuration has cards: POOL_CFG.iso7816_cards > 0 *)

VARIABLES
  initialized, slots, sessions,  (* Module; of a slot only token_present   *)
  refs,     (* iso7816: users of the PC/SC context                         *)
  holder,   (* who holds the module mutex                                  *)
  th        (* per thread: the call, the step it is at, its local, answer  *)

vars == <<initialized, slots, sessions, refs, holder, th>>

(***************************************************************************)
(* Refinement: a call takes effect when its answer is fixed.               *)
(***************************************************************************)
Handles == 1 .. MaxSessions
Status  == [t \in Threads |->
  [fn |-> th[t].fn, arg |-> th[t].arg, rv |-> th[t].rv, val |-> th[t].val]]
Owner   == [h \in Handles |-> sessions[h - 1].by]
Api     == INSTANCE Cryptoki WITH ready <- initialized, owner <- Owner, status <- Status

ASSUME ProviderAssumption ==
  /\ MaxSessions \in Nat \ {0} /\ Api!NoThread \notin Threads
  /\ UsesCards \in BOOLEAN

NoThread == Api!NoThread
NoList   == Api!NoList
Table    == 0 .. MaxSessions - 1
Free     == [slot |-> 0, by |-> NoThread]         \* None
AllFree  == [i \in Table |-> Free]
Absent   == MaxSessions                           \* no index

Idle == [pc |-> "idle", fn |-> "none", arg |-> 0, k |-> 0, rv |-> "none", val |-> 0]

Init ==
  /\ initialized = FALSE /\ slots = <<>> /\ sessions = AllFree
  /\ refs = 0 /\ holder = NoThread
  /\ th = [t \in Threads |-> Idle]

(***************************************************************************)
(* The beginning and the end of a call                                     *)
(***************************************************************************)
(* The functions that refuse a null pointer before they take the mutex.    *)
Checked == Api!PlainFns \cup (Api!SlotFns \ {"C_CloseAllSessions"})
             \cup Api!ListFns \cup {"C_GetSessionInfo", "C_GenerateRandom"}

Call(t) ==
  /\ th[t].pc = "idle"
  /\ \E c \in Api!Calls :
       \/ th' = [th EXCEPT ![t] = [pc |-> "wait", fn |-> c.fn, arg |-> c.arg, k |-> 0,
                                    rv |-> "none", val |-> 0]]
       \/ /\ c.fn \in Checked
          /\ \E rv \in {"ARGUMENTS_BAD"} \cup
                (IF c.fn = "C_OpenSession" THEN {"SESSION_PARALLEL_NOT_SUPPORTED"} ELSE {}) :
               th' = [th EXCEPT ![t] = [pc |-> "ret", fn |-> c.fn, arg |-> c.arg, k |-> 0,
                                        rv |-> rv, val |-> 0]]
  /\ UNCHANGED <<initialized, slots, sessions, refs, holder>>

Return(t) ==
  /\ th[t].pc = "ret"
  /\ th' = [th EXCEPT ![t] = Idle]
  /\ UNCHANGED <<initialized, slots, sessions, refs, holder>>

(* lock() and everything up to the first device work.                      *)
Enter(t, fns) == th[t].pc = "wait" /\ th[t].fn \in fns /\ holder = NoThread

(* The guard is dropped: the answer is fixed.                              *)
Reply(t, rv, v) ==
  /\ th' = [th EXCEPT ![t] = [pc |-> "ret", fn |-> @.fn, arg |-> @.arg, k |-> 0,
                              rv |-> rv, val |-> v]]
  /\ holder' = NoThread

(* Device work under the mutex, with a local kept across it.               *)
Hold(t, p, k) ==
  /\ th' = [th EXCEPT ![t] = [pc |-> p, fn |-> @.fn, arg |-> @.arg, k |-> k,
                              rv |-> "none", val |-> 0]]
  /\ holder' = t

At(t, p) == th[t].pc = p

(***************************************************************************)
(* C_Initialize and C_Finalize                                             *)
(***************************************************************************)
GlobalInit     == refs' = IF UsesCards THEN refs + 1 ELSE refs
GlobalShutdown == refs' = IF UsesCards /\ refs > 0 THEN refs - 1 ELSE refs

Initialize_Twice(t) ==                \* mutant: not refused when initialized
  /\ Enter(t, {"C_Initialize"})
  /\ \/ th[t].arg = 1 /\ Reply(t, "ARGUMENTS_BAD", 0) /\ UNCHANGED refs
     \/ /\ th[t].arg = 0 /\ UsesCards /\ refs = 0
        /\ Reply(t, "FUNCTION_FAILED", 0) /\ UNCHANGED refs
     \/ th[t].arg = 0 /\ GlobalInit /\ Hold(t, "init", 0)
  /\ UNCHANGED <<initialized, slots, sessions>>

(* Establishing the PC/SC context may fail.                                *)
Initialize(t) ==
  /\ Enter(t, {"C_Initialize"})
  /\ \/ /\ initialized
        /\ Reply(t, "CRYPTOKI_ALREADY_INITIALIZED", 0) /\ UNCHANGED refs
     \/ /\ ~ initialized /\ th[t].arg = 1
        /\ Reply(t, "ARGUMENTS_BAD", 0) /\ UNCHANGED refs
     \/ /\ ~ initialized /\ th[t].arg = 0 /\ UsesCards /\ refs = 0
        /\ Reply(t, "FUNCTION_FAILED", 0) /\ UNCHANGED refs
     \/ ~ initialized /\ th[t].arg = 0 /\ GlobalInit /\ Hold(t, "init", 0)
  /\ UNCHANGED <<initialized, slots, sessions>>

InitProbe_KeepsContext(t) ==          \* mutant: no global_shutdown on failure
  /\ At(t, "init")
  /\ \/ \E present \in BOOLEAN :
          /\ slots' = <<present>> /\ sessions' = AllFree /\ initialized' = TRUE
          /\ Reply(t, "OK", 0) /\ UNCHANGED refs
     \/ /\ Reply(t, "FUNCTION_FAILED", 0) /\ UNCHANGED refs
        /\ UNCHANGED <<initialized, slots, sessions>>

InitProbe(t) ==
  /\ At(t, "init")
  /\ \/ \E present \in BOOLEAN :
          /\ slots' = <<present>> /\ sessions' = AllFree /\ initialized' = TRUE
          /\ Reply(t, "OK", 0) /\ UNCHANGED refs
     \/ /\ GlobalShutdown /\ Reply(t, "FUNCTION_FAILED", 0)
        /\ UNCHANGED <<initialized, slots, sessions>>

Finalize(t) ==
  /\ Enter(t, {"C_Finalize"})
  /\ IF initialized
     THEN /\ sessions' = AllFree /\ slots' = <<>> /\ GlobalShutdown /\ initialized' = FALSE
          /\ Reply(t, "OK", 0)
     ELSE /\ Reply(t, "CRYPTOKI_NOT_INITIALIZED", 0)
          /\ UNCHANGED <<initialized, slots, sessions, refs>>

(***************************************************************************)
(* The checks the other calls open with: Admitted, or answered at once.    *)
(***************************************************************************)
FindSession(h) == IF h \in Handles /\ sessions[h - 1] # Free THEN h - 1 ELSE Absent

Verdict(t) ==
  LET fn == th[t].fn IN
  IF ~ initialized /\ fn # "C_SeedRandom" THEN "CRYPTOKI_NOT_INITIALIZED"
  ELSE IF fn \in Api!SlotFns /\ th[t].arg >= Len(slots) THEN "SLOT_ID_INVALID"
  ELSE IF fn \in Api!HandleFns /\ (~ initialized \/ FindSession(th[t].arg) = Absent)
       THEN "SESSION_HANDLE_INVALID"
  ELSE "OK"

Refused(t) ==
  /\ Enter(t, Api!SlotFns \cup Api!HandleFns \cup Api!ListFns \cup {"C_GetInfo"})
  /\ Verdict(t) # "OK" /\ Reply(t, Verdict(t), 0)
  /\ UNCHANGED <<initialized, slots, sessions, refs>>

Admitted(t, fns) == Enter(t, fns) /\ Verdict(t) = "OK"

(***************************************************************************)
(* Slots                                                                   *)
(***************************************************************************)
(* refresh_slot: an error of fillable counts as no token.                  *)
Refresh(present) == slots' = [i \in DOMAIN slots |-> present]

ToOne(b) == IF b THEN 1 ELSE 0
Present  == Cardinality({i \in DOMAIN slots : slots[i]})

GetSlotList(t) ==
  /\ Admitted(t, Api!ListFns)
  /\ IF th[t].fn = "slots with a token" THEN Hold(t, "count", 0)
     ELSE Hold(t, "list", Len(slots))
  /\ UNCHANGED <<initialized, slots, sessions, refs>>

CountSlots(t) ==
  /\ At(t, "count")
  /\ \E present \in BOOLEAN : Refresh(present) /\ Hold(t, "list", ToOne(present))
  /\ UNCHANGED <<initialized, sessions, refs>>

Listed_Reprobed == {0, 1}             \* mutant: the second loop probes again
Listed == {Present}

ListSlots(t) ==
  /\ At(t, "list")
  /\ IF th[t].arg = NoList THEN Reply(t, "OK", th[t].k)
     ELSE IF th[t].arg < th[t].k THEN Reply(t, "BUFFER_TOO_SMALL", th[t].k)
     ELSE \E n \in IF th[t].fn = "all slots" THEN {Len(slots)} ELSE Listed :
            Reply(t, "OK", n)
  /\ UNCHANGED <<initialized, slots, sessions, refs>>

SlotOrTokenInfo(t) ==
  /\ Admitted(t, {"C_GetSlotInfo", "C_GetTokenInfo"})
  /\ Hold(t, "probe", 0)
  /\ UNCHANGED <<initialized, slots, sessions, refs>>

ProbeSlot(t) ==
  /\ At(t, "probe")
  /\ \E present \in BOOLEAN :
       /\ Refresh(present)
       /\ Reply(t, IF th[t].fn = "C_GetTokenInfo" /\ ~ present THEN "TOKEN_NOT_PRESENT"
                   ELSE "OK", ToOne(present))
  /\ UNCHANGED <<initialized, sessions, refs>>

GetInfoOrMechanismList(t) ==
  /\ Admitted(t, {"C_GetInfo", "C_GetMechanismList"})
  /\ Reply(t, "OK", 0)
  /\ UNCHANGED <<initialized, slots, sessions, refs>>

(***************************************************************************)
(* Sessions                                                                *)
(***************************************************************************)
FreeSlots == {i \in Table : sessions[i] = Free}
FirstFree(i) == i \in FreeSlots /\ \A j \in FreeSlots : i <= j

OpenSession_Unlocked(t) ==            \* mutant: the mutex is not held across Pool::open
  /\ Admitted(t, {"C_OpenSession"})
  /\ IF FreeSlots = {} THEN Reply(t, "HOST_MEMORY", 0)
     ELSE /\ \E i \in Table : FirstFree(i) /\ th' = [th EXCEPT ![t].pc = "open", ![t].k = i]
          /\ UNCHANGED holder
  /\ UNCHANGED <<initialized, slots, sessions, refs>>

OpenSession(t) ==
  /\ Admitted(t, {"C_OpenSession"})
  /\ IF FreeSlots = {} THEN Reply(t, "HOST_MEMORY", 0)
     ELSE \E i \in Table : FirstFree(i) /\ Hold(t, "open", i)
  /\ UNCHANGED <<initialized, slots, sessions, refs>>

OpenPool_Waits(t) ==                  \* mutant: probes on until the sources appear
  /\ At(t, "open")
  /\ \/ /\ sessions' = [sessions EXCEPT ![th[t].k] = [slot |-> th[t].arg, by |-> t]]
        /\ slots' = [slots EXCEPT ![th[t].arg + 1] = TRUE]
        /\ Reply(t, "OK", th[t].k + 1)
     \/ /\ \E present \in BOOLEAN : Refresh(present)
        /\ Hold(t, "open", th[t].k) /\ UNCHANGED sessions
     \/ Reply(t, "DEVICE_ERROR", 0) /\ UNCHANGED <<slots, sessions>>
  /\ UNCHANGED <<initialized, refs>>

OpenPool(t) ==
  /\ At(t, "open")
  /\ \/ /\ sessions' = [sessions EXCEPT ![th[t].k] = [slot |-> th[t].arg, by |-> t]]
        /\ slots' = [slots EXCEPT ![th[t].arg + 1] = TRUE]
        /\ Reply(t, "OK", th[t].k + 1)
     \/ /\ slots' = [slots EXCEPT ![th[t].arg + 1] = FALSE]
        /\ Reply(t, "TOKEN_NOT_PRESENT", 0) /\ UNCHANGED sessions
     \/ Reply(t, "DEVICE_ERROR", 0) /\ UNCHANGED <<slots, sessions>>
  /\ UNCHANGED <<initialized, refs>>

CloseSession(t) ==
  /\ Admitted(t, {"C_CloseSession"})
  /\ sessions' = [sessions EXCEPT ![FindSession(th[t].arg)] = Free]
  /\ Reply(t, "OK", 0)
  /\ UNCHANGED <<initialized, slots, refs>>

CloseAllSessions(t) ==
  /\ Admitted(t, {"C_CloseAllSessions"})
  /\ sessions' = [i \in Table |->
       IF sessions[i].slot = th[t].arg THEN Free ELSE sessions[i]]
  /\ Reply(t, "OK", 0)
  /\ UNCHANGED <<initialized, slots, refs>>

GetSessionInfo(t) ==
  /\ Admitted(t, {"C_GetSessionInfo"})
  /\ Reply(t, "OK", 0)
  /\ UNCHANGED <<initialized, slots, sessions, refs>>

GenerateRandom(t) ==
  /\ Admitted(t, {"C_GenerateRandom"})
  /\ Hold(t, "read", FindSession(th[t].arg))
  /\ UNCHANGED <<initialized, slots, sessions, refs>>

ReadPool(t) ==
  /\ At(t, "read")
  /\ \E rv \in {"OK", "DEVICE_ERROR"} : Reply(t, rv, 0)
  /\ UNCHANGED <<initialized, slots, sessions, refs>>

SeedRandom(t) ==
  /\ Admitted(t, {"C_SeedRandom"})
  /\ Reply(t, "RANDOM_SEED_NOT_SUPPORTED", 0)
  /\ UNCHANGED <<initialized, slots, sessions, refs>>

(***************************************************************************)
(* The module                                                              *)
(***************************************************************************)
(* Device work under the mutex ends: Fillable, Iso7816 and Pool show it.   *)
Inside(t) ==
  \/ InitProbe(t) \/ CountSlots(t) \/ ListSlots(t) \/ ProbeSlot(t)
  \/ OpenPool(t) \/ ReadPool(t)

Entering(t) ==
  \/ Initialize(t) \/ Finalize(t) \/ Refused(t)
  \/ GetSlotList(t) \/ SlotOrTokenInfo(t) \/ GetInfoOrMechanismList(t)
  \/ OpenSession(t) \/ CloseSession(t) \/ CloseAllSessions(t)
  \/ GetSessionInfo(t) \/ GenerateRandom(t) \/ SeedRandom(t)

Next == \E t \in Threads : Call(t) \/ Entering(t) \/ Inside(t) \/ Return(t)

Spec     == Init /\ [][Next]_vars
FairSpec == Spec /\ \A t \in Threads : WF_vars(Inside(t))

(***************************************************************************)
(* Properties                                                              *)
(***************************************************************************)
Stages == {"init", "count", "list", "probe", "open", "read"}

ThreadState ==
  [pc : {"idle", "wait", "ret"} \cup Stages, fn : Api!Fns, arg : Int,
   k : 0 .. MaxSessions, rv : Api!Answers, val : Int]

TypeOK ==
  /\ initialized \in BOOLEAN
  /\ slots \in (IF initialized THEN [1 .. 1 -> BOOLEAN] ELSE {<<>>})
  /\ sessions \in [Table -> [slot : {0}, by : Threads \cup {NoThread}]]
  /\ refs \in {0, 1}
  /\ holder \in Threads \cup {NoThread}
  /\ th \in [Threads -> ThreadState]
  /\ \A t \in Threads : th[t].pc \in Stages <=> holder = t

(* Whenever no call is inside, the PC/SC context is held exactly while the *)
(* module is initialized, also after a C_Initialize that failed half way;  *)
(* and a finalized module keeps no session (C_Initialize, C_Finalize).     *)
Balanced ==
  /\ holder = NoThread => refs = ToOne(UsesCards /\ initialized)
  /\ ~ initialized => sessions = AllFree

(* C_GetSlotList never writes more slots than the caller made room for,    *)
(* although the token may come or go between its two loops.                *)
NoOverrun ==
  \A t \in Threads :
    th[t].pc = "ret" /\ th[t].fn \in Api!ListFns /\ th[t].rv = "OK" /\ th[t].arg # NoList
      => th[t].val <= th[t].arg

(* The module is a Cryptoki: calls of several threads take effect one at a *)
(* time; no handle is given to two callers, no call reaches a session that *)
(* was closed under it, and C_Finalize closes them all.                    *)
ApiSpec == Api!Spec

(* The mutex is never kept for good: every call that got in gets out,      *)
(* whatever the devices answer.                                            *)
Released == \A t \in Threads : holder = t ~> holder # t
=============================================================================
