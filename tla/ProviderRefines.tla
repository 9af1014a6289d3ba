-------------------------- MODULE ProviderRefines --------------------------
(***************************************************************************)
(* Provider implements Cryptoki: under the mutex, the calls of any number  *)
(* of threads take effect one at a time, each when its answer is fixed.    *)
(***************************************************************************)
EXTENDS ProviderProofs

(***************************************************************************)
(* What the pieces of a step are in Cryptoki                               *)
(***************************************************************************)
LEMMA StatusOf ==
  ASSUME NEW t \in Threads
  PROVE  /\ Status[t] = [fn |-> th[t].fn, arg |-> th[t].arg, rv |-> th[t].rv, val |-> th[t].val]
         /\ Status[t].fn = th[t].fn /\ Status[t].arg = th[t].arg
         /\ Status[t].rv = th[t].rv
  BY DEF Status

(* A thread whose entry becomes r: the others' calls stay as they are.     *)
LEMMA StatusStep ==
  ASSUME IInv, NEW t \in Threads, NEW r, th' = [th EXCEPT ![t] = r]
  PROVE  Status' = [Status EXCEPT ![t] =
                      [fn |-> r.fn, arg |-> r.arg, rv |-> r.rv, val |-> r.val]]
<1>1. th \in [Threads -> ThreadState]
  BY DEF IInv, TypeOK
<1>2. th'[t] = r /\ \A u \in Threads \ {t} : th'[u] = th[u]
  BY <1>1
<1> QED
  BY <1>2 DEF Status

(* Dropping the guard with an answer is the moment a call takes effect;    *)
(* device work under the mutex is invisible.                               *)
LEMMA ReplyAnswers ==
  ASSUME IInv, NEW t \in Threads, MayAct(t), NEW rv, NEW v, Reply(t, rv, v)
  PROVE  /\ Api!Answer(t, rv, v)
         /\ \A fns : th[t].fn \in fns => Api!Pending(t, fns)
<1> DEFINE r == [pc |-> "ret", fn |-> th[t].fn, arg |-> th[t].arg, k |-> 0, rv |-> rv, val |-> v]
<1>1. th \in [Threads -> ThreadState]
  BY DEF IInv, TypeOK
<1>2. th' = [th EXCEPT ![t] = r]
  BY <1>1 DEF Reply
<1>3. r.fn = th[t].fn /\ r.arg = th[t].arg /\ r.rv = rv /\ r.val = v
  OBVIOUS
<1> HIDE DEF r
<1>4. Status' = [Status EXCEPT ![t] =
                   [fn |-> th[t].fn, arg |-> th[t].arg, rv |-> rv, val |-> v]]
  BY <1>2, <1>3, StatusStep
<1>5. th[t].rv = "none"
  BY OnlyOne
<1> QED
  BY <1>4, <1>5, StatusOf DEF Api!Answer, Api!Pending, Status

LEMMA HoldStutters ==
  ASSUME IInv, NEW t \in Threads, MayAct(t), NEW p, NEW k, Hold(t, p, k)
  PROVE  Status' = Status
<1> DEFINE r == [pc |-> p, fn |-> th[t].fn, arg |-> th[t].arg, k |-> k, rv |-> "none", val |-> 0]
<1>1. th \in [Threads -> ThreadState]
  BY DEF IInv, TypeOK
<1>2. th' = [th EXCEPT ![t] = r]
  BY <1>1 DEF Hold
<1>3. r.fn = th[t].fn /\ r.arg = th[t].arg /\ r.rv = "none" /\ r.val = 0
  OBVIOUS
<1> HIDE DEF r
<1>4. th[t].rv = "none" /\ th[t].val = 0
  BY OnlyOne DEF IInv, CallOK
<1>5. Status' = [Status EXCEPT ![t] =
                   [fn |-> th[t].fn, arg |-> th[t].arg, rv |-> "none", val |-> 0]]
  <2>1. Status' = [Status EXCEPT ![t] =
                     [fn |-> r.fn, arg |-> r.arg, rv |-> r.rv, val |-> r.val]]
    BY <1>2, StatusStep
  <2> QED
    BY <1>3, <2>1
<1>6. Status[t] = [fn |-> th[t].fn, arg |-> th[t].arg, rv |-> "none", val |-> 0]
  BY <1>4 DEF Status
<1> QED
  BY <1>5, <1>6 DEF Status

(* A handle is owned exactly while its entry of the table is taken.        *)
LEMMA Held ==
  ASSUME QuietOK, NEW h \in Handles
  PROVE  /\ h - 1 \in Table
         /\ Owner[h] = NoThread <=> sessions[h - 1] = Free
<1>1. h - 1 \in Table
  BY ProviderAssumption DEF Handles, Table
<1>2. sessions[h - 1] \in [slot : {0}, by : Threads \cup {NoThread}]
  BY <1>1 DEF QuietOK
<1>3. sessions[h - 1] = [slot |-> 0, by |-> sessions[h - 1].by]
  BY <1>2
<1>4. Owner[h] = sessions[h - 1].by
  BY DEF Owner
<1> QED
  BY <1>1, <1>3, <1>4 DEF Free

(* Clearing the table closes every handle; one entry, one handle.          *)
LEMMA Emptied ==
  ASSUME sessions' = AllFree
  PROVE  Owner' = Api!Nobody
<1>1. \A h \in Handles : h - 1 \in Table
  BY ProviderAssumption DEF Handles, Table
<1>2. \A h \in Handles : AllFree[h - 1].by = NoThread
  BY <1>1 DEF AllFree, Free
<1> QED
  BY <1>2 DEF Owner, Api!Nobody, Handles, Api!Handles, NoThread

LEMMA OwnerStep ==
  ASSUME QuietOK, NEW h \in Handles, NEW b, NEW e, e.by = b,
         sessions' = [sessions EXCEPT ![h - 1] = e]
  PROVE  Owner' = [Owner EXCEPT ![h] = b]
<1>1. \A i \in Handles : i - 1 \in Table /\ (i - 1 = h - 1 <=> i = h)
  BY ProviderAssumption DEF Handles, Table
<1>2. \A i \in Handles : sessions'[i - 1] = IF i = h THEN e ELSE sessions[i - 1]
  BY <1>1 DEF QuietOK
<1>4. \A i \in Handles : Owner'[i] = IF i = h THEN b ELSE Owner[i]
  BY <1>2 DEF Owner
<1>5. Owner' = [i \in Handles |-> IF i = h THEN b ELSE Owner[i]]
  <2>1. Owner' = [i \in Handles |-> Owner'[i]]
    BY DEF Owner
  <2> QED
    BY <1>4, <2>1
<1> QED
  BY <1>5 DEF Owner

LEMMA SameHandles == Api!Handles = Handles /\ Api!NoThread = NoThread /\ Api!NoList = NoList
  BY DEF Api!Handles, Handles, NoThread, NoList

(* The checks a call opens with, in Cryptoki's terms.                      *)
LEMMA Checks ==
  ASSUME IInv, NEW t \in Threads, NEW fns, Admitted(t, fns)
  PROVE  /\ MayAct(t) /\ QuietOK /\ th[t].fn \in fns
         /\ th[t].fn \in Api!HandleFns =>
              /\ initialized /\ th[t].arg \in Handles
              /\ Owner[th[t].arg] # NoThread
         /\ th[t].fn \in Api!SlotFns => initialized /\ th[t].arg = 0
         /\ initialized \/ th[t].fn = "C_SeedRandom"
<1>1. /\ MayAct(t) /\ QuietOK /\ th[t].fn \in fns
      /\ initialized \/ th[t].fn = "C_SeedRandom"
      /\ th[t].fn \in Api!SlotFns => initialized /\ th[t].arg = 0
      /\ th[t].fn \in Api!HandleFns =>
              /\ initialized /\ th[t].arg \in Handles
              /\ sessions[th[t].arg - 1] # Free
  BY Enters
<1> QED
  BY <1>1, Held

(***************************************************************************)
(* One lemma per call                                                      *)
(***************************************************************************)
Step == Api!Next \/ UNCHANGED <<initialized, Owner, Status>>

LEMMA SameFrame ==
  ASSUME UNCHANGED <<initialized, sessions>>
  PROVE  Api!Same /\ UNCHANGED <<initialized, Owner>>
  BY DEF Api!Same, Owner

LEMMA HoldSteps ==
  ASSUME IInv, NEW t \in Threads, MayAct(t), NEW p, NEW k, Hold(t, p, k),
         UNCHANGED <<initialized, sessions>>
  PROVE  Step
  BY HoldStutters, SameFrame DEF Step

LEMMA CallSteps ==
  ASSUME IInv, NEW t \in Threads, Call(t)
  PROVE  Step
<1>1. th[t].pc = "idle" /\ UNCHANGED <<initialized, sessions>>
  BY DEF Call
<1>2. th[t] = Idle
  BY <1>1 DEF IInv, CallOK
<1>3. Status[t] = Api!Idle
  BY <1>2 DEF Status, Idle, Api!Idle
<1>4. Api!Same
  BY <1>1, SameFrame
<1>5. PICK c \in Api!Calls :
        \/ th' = [th EXCEPT ![t] = [pc |-> "wait", fn |-> c.fn, arg |-> c.arg, k |-> 0,
                                    rv |-> "none", val |-> 0]]
        \/ \E rv \in {"ARGUMENTS_BAD", "SESSION_PARALLEL_NOT_SUPPORTED"} :
             th' = [th EXCEPT ![t] = [pc |-> "ret", fn |-> c.fn, arg |-> c.arg, k |-> 0,
                                      rv |-> rv, val |-> 0]]
  BY DEF Call
<1>6. CASE th' = [th EXCEPT ![t] = [pc |-> "wait", fn |-> c.fn, arg |-> c.arg, k |-> 0,
                                    rv |-> "none", val |-> 0]]
  <2>1. Status' = [Status EXCEPT ![t] = [fn |-> c.fn, arg |-> c.arg, rv |-> "none", val |-> 0]]
    BY <1>6, StatusStep
  <2>2. Api!Call(t)
    BY <1>3, <1>4, <2>1 DEF Api!Call, Api!Same
  <2> QED
    BY <2>2 DEF Step, Api!Next
<1>7. CASE \E rv \in {"ARGUMENTS_BAD", "SESSION_PARALLEL_NOT_SUPPORTED"} :
             th' = [th EXCEPT ![t] = [pc |-> "ret", fn |-> c.fn, arg |-> c.arg, k |-> 0,
                                      rv |-> rv, val |-> 0]]
  <2>1. PICK rv \in {"ARGUMENTS_BAD", "SESSION_PARALLEL_NOT_SUPPORTED"} :
             th' = [th EXCEPT ![t] = [pc |-> "ret", fn |-> c.fn, arg |-> c.arg, k |-> 0,
                                      rv |-> rv, val |-> 0]]
    BY <1>7
  <2>2. Status' = [Status EXCEPT ![t] = [fn |-> c.fn, arg |-> c.arg, rv |-> rv, val |-> 0]]
    BY <2>1, StatusStep
  <2>3. Api!BadCall(t)
    BY <1>3, <1>4, <2>2 DEF Api!BadCall, Api!Same
  <2> QED
    BY <2>3 DEF Step, Api!Next
<1> QED
  BY <1>5, <1>6, <1>7

LEMMA ReturnSteps ==
  ASSUME IInv, NEW t \in Threads, Return(t)
  PROVE  Step
<1>1. /\ th[t].pc = "ret" /\ UNCHANGED <<initialized, sessions>>
      /\ th' = [th EXCEPT ![t] = Idle]
  BY DEF Return
<1>2. Status[t].rv # "none"
  BY <1>1 DEF IInv, CallOK, Status
<1>3. Status' = [Status EXCEPT ![t] = Api!Idle]
  BY <1>1, StatusStep DEF Idle, Api!Idle
<1>4. Api!Return(t)
  BY <1>1, <1>2, <1>3, SameFrame DEF Api!Return, Api!Same
<1> QED
  BY <1>4 DEF Step, Api!Next

LEMMA InitializeSteps ==
  ASSUME IInv, NEW t \in Threads, Initialize(t)
  PROVE  Step
<1>1. MayAct(t) /\ th[t].fn \in {"C_Initialize"} /\ UNCHANGED <<initialized, sessions>>
  BY Entered DEF Initialize
<1>2. CASE Hold(t, "init", 0)
  BY <1>1, <1>2, HoldSteps
<1>3. ASSUME NEW rv, Reply(t, rv, 0),
             \/ initialized /\ rv = "CRYPTOKI_ALREADY_INITIALIZED"
             \/ ~ initialized /\ th[t].arg = 1 /\ rv = "ARGUMENTS_BAD"
             \/ ~ initialized /\ th[t].arg = 0 /\ rv = "FUNCTION_FAILED"
      PROVE  Step
  <2>1. Api!Answer(t, rv, 0) /\ Api!Pending(t, {"C_Initialize"}) /\ Api!Same
    BY <1>1, <1>3, ReplyAnswers, SameFrame
  <2>2. Status[t].arg = th[t].arg
    BY StatusOf
  <2>3. Api!Initialize(t)
    BY <1>3, <2>1, <2>2 DEF Api!Initialize
  <2> QED
    BY <2>3 DEF Step, Api!Next
<1> QED
  BY <1>2, <1>3 DEF Initialize

LEMMA InitProbeSteps ==
  ASSUME IInv, NEW t \in Threads, InitProbe(t)
  PROVE  Step
<1>1. /\ MayAct(t) /\ ~ initialized
      /\ th[t].fn \in {"C_Initialize"} /\ th[t].arg = 0
  BY DEF InitProbe, At, MayAct, Stages, IInv, StageOK
<1>2. Status[t].arg = 0
  BY <1>1, StatusOf
<1>3. CASE sessions' = AllFree /\ initialized' = TRUE /\ Reply(t, "OK", 0)
  <2>1. Api!Answer(t, "OK", 0) /\ Api!Pending(t, {"C_Initialize"}) /\ Owner' = Api!Nobody
    BY <1>1, <1>3, ReplyAnswers, Emptied
  <2>2. Api!Initialize(t)
    BY <1>1, <1>2, <1>3, <2>1 DEF Api!Initialize
  <2> QED
    BY <2>2 DEF Step, Api!Next
<1>4. CASE Reply(t, "FUNCTION_FAILED", 0) /\ UNCHANGED <<initialized, sessions>>
  <2>1. Api!Answer(t, "FUNCTION_FAILED", 0) /\ Api!Pending(t, {"C_Initialize"}) /\ Api!Same
    BY <1>1, <1>4, ReplyAnswers, SameFrame
  <2>2. Api!Initialize(t)
    BY <1>1, <1>2, <2>1 DEF Api!Initialize
  <2> QED
    BY <2>2 DEF Step, Api!Next
<1> QED
  BY <1>3, <1>4 DEF InitProbe

LEMMA FinalizeSteps ==
  ASSUME IInv, NEW t \in Threads, Finalize(t)
  PROVE  Step
<1>1. MayAct(t) /\ th[t].fn \in {"C_Finalize"}
  BY Entered DEF Finalize
<1>2. CASE initialized
  <2>1. sessions' = AllFree /\ initialized' = FALSE /\ Reply(t, "OK", 0)
    BY <1>2 DEF Finalize
  <2>2. Api!Answer(t, "OK", 0) /\ Api!Pending(t, {"C_Finalize"}) /\ Owner' = Api!Nobody
    BY <1>1, <2>1, ReplyAnswers, Emptied
  <2>3. Api!Finalize(t)
    BY <1>2, <2>1, <2>2 DEF Api!Finalize
  <2> QED
    BY <2>3 DEF Step, Api!Next
<1>3. CASE ~ initialized
  <2>1. Reply(t, "CRYPTOKI_NOT_INITIALIZED", 0) /\ UNCHANGED <<initialized, sessions>>
    BY <1>3 DEF Finalize
  <2>2. th[t].fn \in Api!PlainFns \cup Api!SlotFns \cup Api!HandleFns \cup Api!ListFns
        /\ th[t].fn # "C_SeedRandom"
    BY <1>1 DEF Api!PlainFns
  <2>3. /\ Api!Answer(t, "CRYPTOKI_NOT_INITIALIZED", 0) /\ Api!Same
        /\ Api!Pending(t, Api!PlainFns \cup Api!SlotFns \cup Api!HandleFns \cup Api!ListFns)
    BY <1>1, <2>1, <2>2, ReplyAnswers, SameFrame
  <2>4. Api!NotReady(t)
    BY <1>3, <2>2, <2>3, StatusOf DEF Api!NotReady
  <2> QED
    BY <2>4 DEF Step, Api!Next
<1> QED
  BY <1>2, <1>3

LEMMA RefusedSteps ==
  ASSUME IInv, NEW t \in Threads, Refused(t)
  PROVE  Step
<1> DEFINE fns == Api!SlotFns \cup Api!HandleFns \cup Api!ListFns \cup {"C_GetInfo"}
           every == Api!PlainFns \cup Api!SlotFns \cup Api!HandleFns \cup Api!ListFns
<1>1. /\ Enter(t, fns) /\ Verdict(t) # "OK" /\ Reply(t, Verdict(t), 0)
      /\ UNCHANGED <<initialized, sessions>>
  BY DEF Refused
<1>2. fns \subseteq every
  BY DEF Api!PlainFns
<1> HIDE DEF fns, every
<1>3. MayAct(t) /\ QuietOK /\ th[t].fn \in every
  BY <1>1, <1>2, Entered
<1>4. Api!Answer(t, Verdict(t), 0) /\ Api!Same
  BY <1>1, <1>3, ReplyAnswers, SameFrame
<1>5. Status[t].fn = th[t].fn /\ Status[t].arg = th[t].arg
  BY StatusOf
<1>6. CASE ~ initialized
  <2>1. Verdict(t) = IF th[t].fn = "C_SeedRandom" THEN "SESSION_HANDLE_INVALID"
                     ELSE "CRYPTOKI_NOT_INITIALIZED"
    <3>1. CASE th[t].fn = "C_SeedRandom"
      <4>1. th[t].fn \notin Api!SlotFns /\ th[t].fn \in Api!HandleFns
        BY <3>1 DEF Api!SlotFns, Api!HandleFns
      <4> QED
        BY <1>6, <3>1, <4>1 DEF Verdict
    <3>2. CASE th[t].fn # "C_SeedRandom"
      BY <1>6, <3>2 DEF Verdict
    <3> QED
      BY <3>1, <3>2
  <2>2. Api!Pending(t, every)
    BY <1>1, <1>3, ReplyAnswers
  <2>3. Api!NotReady(t)
    BY <1>4, <1>5, <1>6, <2>1, <2>2 DEF Api!NotReady, every
  <2> QED
    BY <2>3 DEF Step, Api!Next
<1>7. CASE initialized /\ th[t].fn \in Api!SlotFns /\ th[t].arg >= Len(slots)
  <2>1. Verdict(t) = "SLOT_ID_INVALID"
    BY <1>7 DEF Verdict
  <2>2. Len(slots) = 1
    BY <1>7, OneSlot DEF IInv
  <2>3. th[t].arg # 0
    BY <1>7, <2>2
  <2>4. Api!Pending(t, Api!SlotFns)
    BY <1>1, <1>3, <1>7, ReplyAnswers
  <2>5. Api!BadSlot(t)
    BY <1>4, <1>5, <1>7, <2>1, <2>3, <2>4 DEF Api!BadSlot
  <2> QED
    BY <2>5 DEF Step, Api!Next
<1>8. CASE initialized /\ ~ (th[t].fn \in Api!SlotFns /\ th[t].arg >= Len(slots))
  <2>1. /\ th[t].fn \in Api!HandleFns /\ FindSession(th[t].arg) = Absent
        /\ Verdict(t) = "SESSION_HANDLE_INVALID"
    BY <1>1, <1>8 DEF Verdict
  <2>2. ~ (th[t].arg \in Handles /\ sessions[th[t].arg - 1] # Free)
    <3> SUFFICES ASSUME th[t].arg \in Handles, sessions[th[t].arg - 1] # Free PROVE FALSE
      OBVIOUS
    <3>1. th[t].arg - 1 = MaxSessions
      BY <2>1 DEF FindSession, Absent
    <3> QED
      BY <3>1, ProviderAssumption DEF Handles
  <2>3. th[t].arg \notin Handles \/ Owner[th[t].arg] = NoThread
    BY <1>3, <2>2, Held
  <2>4. Api!Pending(t, Api!HandleFns)
    BY <1>1, <1>3, <2>1, ReplyAnswers
  <2>5. Api!BadHandle(t)
    BY <1>4, <1>5, <1>8, <2>1, <2>3, <2>4, SameHandles DEF Api!BadHandle
  <2> QED
    BY <2>5 DEF Step, Api!Next
<1> QED
  BY <1>6, <1>7, <1>8
LEMMA ListSteps ==
  ASSUME IInv, NEW t \in Threads, GetSlotList(t) \/ CountSlots(t) \/ ListSlots(t)
  PROVE  Step
<1>1. CASE GetSlotList(t)
  <2>1. /\ Admitted(t, Api!ListFns) /\ UNCHANGED <<initialized, sessions>>
        /\ Hold(t, "count", 0) \/ Hold(t, "list", Len(slots))
    BY <1>1 DEF GetSlotList
  <2> QED
    BY <2>1, Checks, HoldSteps
<1>2. CASE CountSlots(t)
  <2>1. At(t, "count") /\ UNCHANGED <<initialized, sessions>>
        /\ \E b \in BOOLEAN : Hold(t, "list", ToOne(b))
    BY <1>2 DEF CountSlots
  <2>2. MayAct(t)
    BY <2>1 DEF At, MayAct, Stages
  <2> QED
    BY <2>1, <2>2, HoldSteps
<1>3. CASE ListSlots(t)
  <2>1. PICK rv \in {"OK", "BUFFER_TOO_SMALL"} :
          /\ Reply(t, rv, th[t].k) /\ th[t].k \in {0, 1}
          /\ th[t].fn = "all slots" => th[t].k = 1
          /\ rv = "OK" <=> th[t].arg = NoList \/ th[t].k <= th[t].arg
          /\ UNCHANGED <<initialized, slots, sessions, refs>>
    BY <1>3, Listing
  <2>2. At(t, "list")
    BY <1>3 DEF ListSlots
  <2>3. MayAct(t) /\ StageOK(t) /\ initialized /\ th[t].pc = "list"
    BY <2>2, Stays DEF Stages
  <2>4. th[t].fn \in Api!ListFns
    BY <2>3 DEF StageOK
  <2>5. Api!Answer(t, rv, th[t].k) /\ Api!Pending(t, Api!ListFns) /\ Api!Same
    BY <2>1, <2>3, <2>4, ReplyAnswers, SameFrame
  <2>6. Status[t].fn = th[t].fn /\ Status[t].arg = th[t].arg
    BY StatusOf
  <2>7. th[t].k \in IF Status[t].fn = "all slots" THEN {1} ELSE {0, 1}
    BY <2>1, <2>6
  <2>8. rv = IF Status[t].arg = Api!NoList \/ th[t].k <= Status[t].arg
             THEN "OK" ELSE "BUFFER_TOO_SMALL"
    BY <2>1, <2>6, SameHandles
  <2>9. Api!GetSlotList(t)
    BY <2>3, <2>5, <2>7, <2>8 DEF Api!GetSlotList
  <2> QED
    BY <2>9 DEF Step, Api!Next
<1> QED
  BY <1>1, <1>2, <1>3

LEMMA QuerySteps ==
  ASSUME IInv, NEW t \in Threads,
         SlotOrTokenInfo(t) \/ ProbeSlot(t) \/ GetInfoOrMechanismList(t)
  PROVE  Step
<1>1. CASE SlotOrTokenInfo(t)
  <2>1. /\ Admitted(t, {"C_GetSlotInfo", "C_GetTokenInfo"}) /\ Hold(t, "probe", 0)
        /\ UNCHANGED <<initialized, sessions>>
    BY <1>1 DEF SlotOrTokenInfo
  <2> QED
    BY <2>1, Checks, HoldSteps
<1>2. CASE ProbeSlot(t)
  <2>1. At(t, "probe") /\ UNCHANGED <<initialized, sessions>>
    BY <1>2 DEF ProbeSlot
  <2>2. MayAct(t) /\ StageOK(t) /\ initialized /\ th[t].pc = "probe"
    BY <2>1, Stays DEF Stages
  <2>3. th[t].fn \in {"C_GetSlotInfo", "C_GetTokenInfo"} /\ Status[t].arg = 0
    BY <2>2, StatusOf DEF StageOK
  <2>4. PICK b \in BOOLEAN :
          Reply(t, IF th[t].fn = "C_GetTokenInfo" /\ ~ b THEN "TOKEN_NOT_PRESENT"
                   ELSE "OK", ToOne(b))
    BY <1>2 DEF ProbeSlot
  <2> DEFINE n == ToOne(b)
  <2>5. n \in {0, 1} /\ (n = 1 <=> b)
    BY DEF ToOne
  <2>6. CASE th[t].fn = "C_GetSlotInfo"
    <3>1. Reply(t, "OK", n)
      BY <2>4, <2>6
    <3>2. Api!Answer(t, "OK", n) /\ Api!Pending(t, {"C_GetSlotInfo"}) /\ Api!Same
      BY <2>1, <2>2, <2>6, <3>1, ReplyAnswers, SameFrame
    <3>3. Api!Query(t)
      BY <2>2, <2>3, <2>5, <3>2 DEF Api!Query
    <3> QED
      BY <3>3 DEF Step, Api!Next
  <2>7. CASE th[t].fn = "C_GetTokenInfo"
    <3>1. Reply(t, IF n = 1 THEN "OK" ELSE "TOKEN_NOT_PRESENT", n)
      BY <2>4, <2>5, <2>7
    <3>2. /\ Api!Answer(t, IF n = 1 THEN "OK" ELSE "TOKEN_NOT_PRESENT", n)
          /\ Api!Pending(t, {"C_GetTokenInfo"}) /\ Api!Same
      BY <2>1, <2>2, <2>7, <3>1, ReplyAnswers, SameFrame
    <3>3. Api!Query(t)
      BY <2>2, <2>3, <2>5, <3>2 DEF Api!Query
    <3> QED
      BY <3>3 DEF Step, Api!Next
  <2> QED
    BY <2>3, <2>6, <2>7
<1>3. CASE GetInfoOrMechanismList(t)
  <2>1. /\ Admitted(t, {"C_GetInfo", "C_GetMechanismList"}) /\ Reply(t, "OK", 0)
        /\ UNCHANGED <<initialized, sessions>>
    BY <1>3 DEF GetInfoOrMechanismList
  <2>2. /\ MayAct(t) /\ th[t].fn \in {"C_GetInfo", "C_GetMechanismList"}
        /\ th[t].fn \in Api!SlotFns => initialized /\ th[t].arg = 0
        /\ initialized \/ th[t].fn = "C_SeedRandom"
    BY <2>1, Checks
  <2>3. initialized /\ (th[t].fn = "C_GetMechanismList" => Status[t].arg = 0)
    BY <2>2, StatusOf DEF Api!SlotFns
  <2>4. Api!Answer(t, "OK", 0) /\ Api!Same
        /\ \/ Api!Pending(t, {"C_GetInfo"})
           \/ Api!Pending(t, {"C_GetMechanismList"}) /\ Status[t].arg = 0
    BY <2>1, <2>2, <2>3, ReplyAnswers, SameFrame
  <2>5. Api!Query(t)
    BY <2>3, <2>4 DEF Api!Query
  <2> QED
    BY <2>5 DEF Step, Api!Next
<1> QED
  BY <1>1, <1>2, <1>3

LEMMA OpenSessionSteps ==
  ASSUME IInv, NEW t \in Threads, OpenSession(t)
  PROVE  Step
<1>1. Admitted(t, {"C_OpenSession"}) /\ UNCHANGED <<initialized, sessions>>
  BY DEF OpenSession
<1>2. /\ MayAct(t) /\ QuietOK /\ th[t].fn \in {"C_OpenSession"}
      /\ th[t].fn \in Api!SlotFns => initialized /\ th[t].arg = 0
  BY <1>1, Checks
<1>3. initialized /\ Status[t].arg = 0
  BY <1>2, StatusOf DEF Api!SlotFns
<1>4. CASE FreeSlots = {} /\ Reply(t, "HOST_MEMORY", 0)
  <2>1. \A h \in Api!Handles : Owner[h] # Api!NoThread
    BY <1>2, <1>4, Held, SameHandles DEF FreeSlots
  <2>2. Api!Answer(t, "HOST_MEMORY", 0) /\ Api!Pending(t, {"C_OpenSession"})
        /\ UNCHANGED <<initialized, Owner>>
    BY <1>1, <1>2, <1>4, ReplyAnswers, SameFrame
  <2>3. Api!OpenSession(t)
    BY <1>3, <2>1, <2>2 DEF Api!OpenSession
  <2> QED
    BY <2>3 DEF Step, Api!Next
<1>5. CASE \E i \in Table : Hold(t, "open", i)
  BY <1>1, <1>2, <1>5, HoldSteps
<1> QED
  BY <1>4, <1>5 DEF OpenSession

LEMMA OpenPoolSteps ==
  ASSUME IInv, NEW t \in Threads, OpenPool(t)
  PROVE  Step
<1>1. At(t, "open") /\ UNCHANGED initialized
  BY DEF OpenPool
<1>2. MayAct(t) /\ QuietOK /\ StageOK(t) /\ initialized /\ th[t].pc = "open"
  BY <1>1, Stays DEF Stages
<1>3. /\ th[t].fn \in {"C_OpenSession"} /\ th[t].arg = 0
      /\ th[t].k \in Table /\ sessions[th[t].k] = Free
  BY <1>2 DEF StageOK
<1>4. Status[t].arg = 0
  BY <1>3, StatusOf
<1>5. CASE /\ sessions' = [sessions EXCEPT ![th[t].k] = [slot |-> th[t].arg, by |-> t]]
           /\ Reply(t, "OK", th[t].k + 1)
  <2> DEFINE h == th[t].k + 1
             e == [slot |-> th[t].arg, by |-> t]
  <2>1. h \in Handles /\ h - 1 = th[t].k
    BY <1>3, ProviderAssumption DEF Table, Handles
  <2>2. e.by = t /\ sessions' = [sessions EXCEPT ![h - 1] = e] /\ sessions[h - 1] = Free
    BY <1>3, <1>5, <2>1
  <2>3. Reply(t, "OK", h)
    BY <1>5
  <2> HIDE DEF h, e
  <2>4. Owner[h] = Api!NoThread /\ Owner' = [Owner EXCEPT ![h] = t]
    BY <1>2, <2>1, <2>2, Held, OwnerStep, SameHandles
  <2>5. Api!Answer(t, "OK", h) /\ Api!Pending(t, {"C_OpenSession"})
    BY <1>2, <1>3, <2>3, ReplyAnswers
  <2>6. Api!OpenSession(t)
    BY <1>1, <1>2, <1>4, <2>1, <2>4, <2>5, SameHandles DEF Api!OpenSession
  <2> QED
    BY <2>6 DEF Step, Api!Next
<1>6. ASSUME NEW rv \in {"TOKEN_NOT_PRESENT", "DEVICE_ERROR"}, Reply(t, rv, 0),
             UNCHANGED sessions
      PROVE  Step
  <2>1. /\ Api!Answer(t, rv, 0) /\ Api!Pending(t, {"C_OpenSession"})
        /\ UNCHANGED <<initialized, Owner>>
    BY <1>1, <1>2, <1>3, <1>6, ReplyAnswers, SameFrame
  <2>2. Api!OpenSession(t)
    BY <1>2, <1>4, <2>1 DEF Api!OpenSession
  <2> QED
    BY <2>2 DEF Step, Api!Next
<1> QED
  BY <1>5, <1>6 DEF OpenPool

LEMMA CloseSessionSteps ==
  ASSUME IInv, NEW t \in Threads, CloseSession(t)
  PROVE  Step
<1> DEFINE h == th[t].arg
<1>1. /\ Admitted(t, {"C_CloseSession"}) /\ UNCHANGED initialized /\ Reply(t, "OK", 0)
      /\ sessions' = [sessions EXCEPT ![FindSession(h)] = Free]
  BY DEF CloseSession
<1>2. /\ MayAct(t) /\ QuietOK /\ th[t].fn \in {"C_CloseSession"}
      /\ th[t].fn \in Api!HandleFns =>
           /\ initialized /\ h \in Handles /\ FindSession(h) = h - 1
  BY <1>1, Enters
<1>3. th[t].fn \in Api!HandleFns
  BY <1>2 DEF Api!HandleFns
<1>4. initialized /\ h \in Handles /\ Owner[h] # NoThread
  BY <1>1, <1>3, Checks
<1>5. Free.by = NoThread /\ sessions' = [sessions EXCEPT ![h - 1] = Free]
  BY <1>1, <1>2, <1>3 DEF Free
<1>6. Status[t].arg = h
  BY StatusOf
<1> HIDE DEF h
<1>7. Owner' = [Owner EXCEPT ![h] = NoThread]
  BY <1>2, <1>4, <1>5, OwnerStep
<1>8. Api!Answer(t, "OK", 0) /\ Api!Pending(t, {"C_CloseSession"})
  BY <1>1, <1>2, ReplyAnswers
<1>9. Api!CloseSession(t)
  BY <1>1, <1>4, <1>6, <1>7, <1>8, SameHandles DEF Api!CloseSession
<1> QED
  BY <1>9 DEF Step, Api!Next

LEMMA CloseAllSessionsSteps ==
  ASSUME IInv, NEW t \in Threads, CloseAllSessions(t)
  PROVE  Step
<1>1. /\ Admitted(t, {"C_CloseAllSessions"}) /\ UNCHANGED initialized /\ Reply(t, "OK", 0)
      /\ sessions' = [i \in Table |-> IF sessions[i].slot = th[t].arg THEN Free ELSE sessions[i]]
  BY DEF CloseAllSessions
<1>2. /\ MayAct(t) /\ QuietOK /\ th[t].fn \in {"C_CloseAllSessions"}
      /\ th[t].fn \in Api!SlotFns => initialized /\ th[t].arg = 0
  BY <1>1, Checks
<1>3. initialized /\ th[t].arg = 0
  BY <1>2 DEF Api!SlotFns
<1>4. sessions' = AllFree
  <2>1. \A i \in Table : sessions[i].slot = 0
    BY <1>2 DEF QuietOK
  <2> QED
    BY <1>1, <1>3, <2>1 DEF AllFree
<1>5. Owner' = Api!Nobody
  BY <1>4, Emptied
<1>6. Api!Answer(t, "OK", 0) /\ Api!Pending(t, {"C_CloseAllSessions"}) /\ Status[t].arg = 0
  BY <1>1, <1>2, <1>3, ReplyAnswers, StatusOf
<1>7. Api!CloseAllSessions(t)
  BY <1>1, <1>3, <1>5, <1>6 DEF Api!CloseAllSessions
<1> QED
  BY <1>7 DEF Step, Api!Next

(* A call that found its session open, and still has it at its answer.     *)
LEMMA UseSteps ==
  ASSUME IInv, NEW t \in Threads, MayAct(t), initialized,
         th[t].arg \in Handles, Owner[th[t].arg] # NoThread,
         th[t].fn \in {"C_GetSessionInfo", "C_GenerateRandom", "C_SeedRandom"},
         NEW rv, Reply(t, rv, 0), UNCHANGED <<initialized, sessions>>,
         rv \in CASE th[t].fn = "C_GetSessionInfo" -> {"OK"}
                  [] th[t].fn = "C_GenerateRandom" -> {"OK", "DEVICE_ERROR"}
                  [] OTHER -> {"RANDOM_SEED_NOT_SUPPORTED"}
  PROVE  Step
<1>1. th[t].fn \in Api!HandleFns \ {"C_CloseSession"}
  BY DEF Api!HandleFns
<1>2. Api!Answer(t, rv, 0) /\ Api!Pending(t, Api!HandleFns \ {"C_CloseSession"}) /\ Api!Same
  BY <1>1, ReplyAnswers, SameFrame
<1>3. Status[t].fn = th[t].fn /\ Status[t].arg = th[t].arg
  BY StatusOf
<1>4. Api!UseSession(t)
  BY <1>2, <1>3, SameHandles DEF Api!UseSession
<1> QED
  BY <1>4 DEF Step, Api!Next

LEMMA SessionSteps ==
  ASSUME IInv, NEW t \in Threads,
         GetSessionInfo(t) \/ SeedRandom(t) \/ GenerateRandom(t) \/ ReadPool(t)
  PROVE  Step
<1>1. ASSUME NEW f \in {"C_GetSessionInfo", "C_GenerateRandom", "C_SeedRandom"},
             Admitted(t, {f})
      PROVE  /\ MayAct(t) /\ th[t].fn = f /\ initialized
             /\ th[t].arg \in Handles /\ Owner[th[t].arg] # NoThread
  <2>1. f \in Api!HandleFns
    BY DEF Api!HandleFns
  <2>2. MayAct(t) /\ th[t].fn \in {f}
    BY <1>1, Checks
  <2> QED
    BY <1>1, <2>1, <2>2, Checks
<1>2. CASE GetSessionInfo(t)
  <2>1. /\ Admitted(t, {"C_GetSessionInfo"}) /\ Reply(t, "OK", 0)
        /\ UNCHANGED <<initialized, sessions>>
    BY <1>2 DEF GetSessionInfo
  <2>2. /\ MayAct(t) /\ th[t].fn = "C_GetSessionInfo" /\ initialized
        /\ th[t].arg \in Handles /\ Owner[th[t].arg] # NoThread
    BY <1>1, <2>1
  <2> QED
    BY <2>1, <2>2, UseSteps
<1>3. CASE SeedRandom(t)
  <2>1. /\ Admitted(t, {"C_SeedRandom"}) /\ Reply(t, "RANDOM_SEED_NOT_SUPPORTED", 0)
        /\ UNCHANGED <<initialized, sessions>>
    BY <1>3 DEF SeedRandom
  <2>2. /\ MayAct(t) /\ th[t].fn = "C_SeedRandom" /\ initialized
        /\ th[t].arg \in Handles /\ Owner[th[t].arg] # NoThread
    BY <1>1, <2>1
  <2> QED
    BY <2>1, <2>2, UseSteps
<1>4. CASE GenerateRandom(t)
  <2>1. /\ Admitted(t, {"C_GenerateRandom"}) /\ Hold(t, "read", FindSession(th[t].arg))
        /\ UNCHANGED <<initialized, sessions>>
    BY <1>4 DEF GenerateRandom
  <2> QED
    BY <2>1, Checks, HoldSteps
<1>5. CASE ReadPool(t)
  <2>1. PICK rv \in {"OK", "DEVICE_ERROR"} :
          /\ At(t, "read") /\ Reply(t, rv, 0) /\ UNCHANGED <<initialized, sessions>>
    BY <1>5 DEF ReadPool
  <2>2. MayAct(t) /\ QuietOK /\ StageOK(t) /\ initialized /\ th[t].pc = "read"
    BY <2>1, Stays DEF Stages
  <2>3. /\ th[t].fn = "C_GenerateRandom" /\ th[t].arg \in Handles
        /\ sessions[th[t].arg - 1] # Free
    BY <2>2 DEF StageOK
  <2>4. Owner[th[t].arg] # NoThread
    BY <2>2, <2>3, Held
  <2> QED
    BY <2>1, <2>2, <2>3, <2>4, UseSteps
<1> QED
  BY <1>2, <1>3, <1>4, <1>5

(***************************************************************************)
(* The refinement                                                          *)
(***************************************************************************)
LEMMA InitMaps == Init => Api!Init
<1> SUFFICES ASSUME Init PROVE Api!Init
  OBVIOUS
<1>1. Status = [t \in Threads |-> Api!Idle]
  BY DEF Init, Status, Idle, Api!Idle
<1>2. Owner = Api!Nobody
  <2>1. \A h \in Handles : h - 1 \in Table
    BY ProviderAssumption DEF Handles, Table
  <2>2. \A h \in Handles : AllFree[h - 1].by = NoThread
    BY <2>1 DEF AllFree, Free
  <2> QED
    BY <2>2 DEF Init, Owner, Api!Nobody, Handles, Api!Handles, NoThread
<1> QED
  BY <1>1, <1>2 DEF Init, Api!Init

LEMMA StepMaps == IInv /\ [Next]_vars => [Api!Next]_(Api!apivars)
<1> SUFFICES ASSUME IInv, [Next]_vars PROVE Step
  BY DEF Step, Api!apivars
<1>1. CASE UNCHANGED vars
  BY <1>1 DEF vars, Step, Owner, Status
<1>2. CASE Next
  <2>1. PICK t \in Threads : Call(t) \/ Entering(t) \/ Inside(t) \/ Return(t)
    BY <1>2 DEF Next
  <2>2. CASE Call(t) \/ Return(t)
    BY <2>2, CallSteps, ReturnSteps
  <2>3. CASE Entering(t)
    BY <2>3, InitializeSteps, FinalizeSteps, RefusedSteps, ListSteps, QuerySteps,
       OpenSessionSteps, CloseSessionSteps, CloseAllSessionsSteps, SessionSteps DEF Entering
  <2>4. CASE Inside(t)
    BY <2>4, InitProbeSteps, ListSteps, QuerySteps, OpenPoolSteps, SessionSteps DEF Inside
  <2> QED
    BY <2>1, <2>2, <2>3, <2>4
<1> QED
  BY <1>1, <1>2

(* The module is an atomic table of handles to its application: no handle  *)
(* has two owners, none is used after it was closed, C_Finalize closes     *)
(* them all, for any number of threads and sessions.                       *)
THEOREM ImplementsCryptoki == Spec => ApiSpec
  BY InitMaps, StepMaps, Inductive, PTL DEF Spec, ApiSpec, Api!Spec
=============================================================================
