------------------------------ MODULE Cryptoki ------------------------------
(***************************************************************************)
(* What the PKCS#11 module promises the threads of its application: every  *)
(* call takes effect at one moment between its start and its return, on a  *)
(* table of handles that each belong to the call that opened them.         *)
(*                                                                         *)
(* Neither a mutex nor a device is in sight here; what a device may do to  *)
(* a call is a choice among the answers the call may give.                 *)
(***************************************************************************)
EXTENDS Integers

CONSTANTS
  Threads,      (* the threads of the application                          *)
  MaxSessions   (* size of the session table                               *)

NoThread == "nobody"
NoList   == -1                          \* C_GetSlotList: a null pSlotList

(***************************************************************************)
(* Calls: a function and the argument its outcome depends on.              *)
(***************************************************************************)
Handles   == 1 .. MaxSessions
PlainFns  == {"C_Finalize", "C_GetInfo"}
SlotFns   == {"C_GetSlotInfo", "C_GetTokenInfo", "C_GetMechanismList",
              "C_OpenSession", "C_CloseAllSessions"}
HandleFns == {"C_CloseSession", "C_GetSessionInfo", "C_GenerateRandom", "C_SeedRandom"}
ListFns   == {"all slots", "slots with a token"}      \* C_GetSlotList, by its filter

Calls ==
  [fn : {"C_Initialize"}, arg : {0, 1}]               \* 1: pReserved is set
    \cup [fn : PlainFns, arg : {0}]
    \cup [fn : SlotFns, arg : {0, 1}]                 \* the only slot, and no slot
    \cup [fn : HandleFns, arg : 0 .. MaxSessions + 1]
    \cup [fn : ListFns, arg : {NoList, 0, 1}]         \* capacity of the list

Fns == {"none", "C_Initialize"} \cup PlainFns \cup SlotFns \cup HandleFns \cup ListFns

Answers ==
  {"none", "OK", "ARGUMENTS_BAD", "FUNCTION_FAILED", "HOST_MEMORY", "DEVICE_ERROR",
   "CRYPTOKI_ALREADY_INITIALIZED", "CRYPTOKI_NOT_INITIALIZED", "SLOT_ID_INVALID",
   "SESSION_HANDLE_INVALID", "SESSION_PARALLEL_NOT_SUPPORTED", "TOKEN_NOT_PRESENT",
   "BUFFER_TOO_SMALL", "RANDOM_SEED_NOT_SUPPORTED"}

VARIABLES
  ready,    (* between C_Initialize and C_Finalize                         *)
  owner,    (* the thread each handle was given to                         *)
  status    (* each thread's call: the function, its argument, its answer  *)

apivars == <<ready, owner, status>>

Idle == [fn |-> "none", arg |-> 0, rv |-> "none", val |-> 0]
Nobody == [h \in Handles |-> NoThread]

Init == ~ ready /\ owner = Nobody /\ status = [t \in Threads |-> Idle]

Call(t) ==
  /\ status[t] = Idle
  /\ \E c \in Calls :
       status' = [status EXCEPT ![t] = [fn |-> c.fn, arg |-> c.arg, rv |-> "none", val |-> 0]]
  /\ UNCHANGED <<ready, owner>>

(* A call turned away by the checks made on its pointers and flags.        *)
BadCall(t) ==
  /\ status[t] = Idle
  /\ \E c \in Calls, rv \in {"ARGUMENTS_BAD", "SESSION_PARALLEL_NOT_SUPPORTED"} :
       status' = [status EXCEPT ![t] = [fn |-> c.fn, arg |-> c.arg, rv |-> rv, val |-> 0]]
  /\ UNCHANGED <<ready, owner>>

Return(t) ==
  /\ status[t].rv # "none"
  /\ status' = [status EXCEPT ![t] = Idle]
  /\ UNCHANGED <<ready, owner>>

Pending(t, fns) == status[t].fn \in fns /\ status[t].rv = "none"
Answer(t, rv, v) ==
  status' = [status EXCEPT ![t] = [fn |-> @.fn, arg |-> @.arg, rv |-> rv, val |-> v]]
Same == UNCHANGED <<ready, owner>>

(***************************************************************************)
(* The moment a call takes effect                                          *)
(***************************************************************************)
Initialize(t) ==
  /\ Pending(t, {"C_Initialize"})
  /\ \/ ready /\ Answer(t, "CRYPTOKI_ALREADY_INITIALIZED", 0) /\ Same
     \/ ~ ready /\ status[t].arg = 1 /\ Answer(t, "ARGUMENTS_BAD", 0) /\ Same
     \/ ~ ready /\ status[t].arg = 0 /\ Answer(t, "FUNCTION_FAILED", 0) /\ Same
     \/ ~ ready /\ status[t].arg = 0 /\ Answer(t, "OK", 0) /\ ready' /\ owner' = Nobody

NotReady(t) ==
  /\ ~ ready /\ Pending(t, PlainFns \cup SlotFns \cup HandleFns \cup ListFns)
  /\ Answer(t, IF status[t].fn = "C_SeedRandom" THEN "SESSION_HANDLE_INVALID"
               ELSE "CRYPTOKI_NOT_INITIALIZED", 0)
  /\ Same

Finalize(t) ==
  /\ ready /\ Pending(t, {"C_Finalize"})
  /\ Answer(t, "OK", 0) /\ ~ ready' /\ owner' = Nobody

BadSlot(t) ==
  /\ ready /\ Pending(t, SlotFns) /\ status[t].arg # 0
  /\ Answer(t, "SLOT_ID_INVALID", 0) /\ Same

BadHandle(t) ==
  /\ ready /\ Pending(t, HandleFns)
  /\ status[t].arg \notin Handles \/ owner[status[t].arg] = NoThread
  /\ Answer(t, "SESSION_HANDLE_INVALID", 0) /\ Same

(* A new handle is one nobody holds; without one the table is full.        *)
OpenSession(t) ==
  /\ ready /\ Pending(t, {"C_OpenSession"}) /\ status[t].arg = 0
  /\ \/ \E h \in Handles :
          owner[h] = NoThread /\ Answer(t, "OK", h) /\ owner' = [owner EXCEPT ![h] = t]
     \/ (\A h \in Handles : owner[h] # NoThread) /\ Answer(t, "HOST_MEMORY", 0)
          /\ UNCHANGED owner
     \/ \E rv \in {"TOKEN_NOT_PRESENT", "DEVICE_ERROR"} :
          Answer(t, rv, 0) /\ UNCHANGED owner
  /\ UNCHANGED ready

CloseSession(t) ==
  LET h == status[t].arg IN
  /\ ready /\ Pending(t, {"C_CloseSession"})
  /\ h \in Handles /\ owner[h] # NoThread
  /\ Answer(t, "OK", 0) /\ owner' = [owner EXCEPT ![h] = NoThread]
  /\ UNCHANGED ready

CloseAllSessions(t) ==
  /\ ready /\ Pending(t, {"C_CloseAllSessions"}) /\ status[t].arg = 0
  /\ Answer(t, "OK", 0) /\ owner' = Nobody
  /\ UNCHANGED ready

(* A call on a handle that is open when it takes effect.                   *)
UseSession(t) ==
  LET h == status[t].arg IN
  /\ ready /\ Pending(t, HandleFns \ {"C_CloseSession"})
  /\ h \in Handles /\ owner[h] # NoThread
  /\ \E rv \in CASE status[t].fn = "C_GetSessionInfo" -> {"OK"}
                 [] status[t].fn = "C_GenerateRandom" -> {"OK", "DEVICE_ERROR"}
                 [] OTHER -> {"RANDOM_SEED_NOT_SUPPORTED"} :
       Answer(t, rv, 0)
  /\ Same

(* The list has one slot, or none when only slots with a token count and   *)
(* none is there; it is never longer than the room the caller gave.        *)
GetSlotList(t) ==
  LET cap == status[t].arg IN
  /\ ready /\ Pending(t, ListFns)
  /\ \E n \in IF status[t].fn = "all slots" THEN {1} ELSE {0, 1} :
       Answer(t, IF cap = NoList \/ n <= cap THEN "OK" ELSE "BUFFER_TOO_SMALL", n)
  /\ Same

(* 1: a token was present; only C_GetTokenInfo insists on one.             *)
Query(t) ==
  /\ ready
  /\ \/ Pending(t, {"C_GetInfo"}) /\ Answer(t, "OK", 0)
     \/ Pending(t, {"C_GetMechanismList"}) /\ status[t].arg = 0 /\ Answer(t, "OK", 0)
     \/ /\ Pending(t, {"C_GetSlotInfo"}) /\ status[t].arg = 0
        /\ \E n \in {0, 1} : Answer(t, "OK", n)
     \/ /\ Pending(t, {"C_GetTokenInfo"}) /\ status[t].arg = 0
        /\ \E n \in {0, 1} : Answer(t, IF n = 1 THEN "OK" ELSE "TOKEN_NOT_PRESENT", n)
  /\ Same

Next ==
  \E t \in Threads :
    \/ Call(t) \/ BadCall(t) \/ Return(t)
    \/ Initialize(t) \/ NotReady(t) \/ Finalize(t) \/ BadSlot(t) \/ BadHandle(t)
    \/ OpenSession(t) \/ CloseSession(t) \/ CloseAllSessions(t) \/ UseSession(t)
    \/ GetSlotList(t) \/ Query(t)

Spec == Init /\ [][Next]_apivars
=============================================================================
