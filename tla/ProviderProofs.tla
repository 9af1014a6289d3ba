--------------------------- MODULE ProviderProofs ---------------------------
(***************************************************************************)
(* Proofs about Provider, for any set of threads, any size of the session  *)
(* table, with and without cards.                                          *)
(***************************************************************************)
EXTENDS Provider, FiniteSetTheorems, SequenceTheorems, TLAPS

(***************************************************************************)
(* The inductive invariant.  What makes the module atomic is that a thread *)
(* inside still has what it checked when it entered.                       *)
(***************************************************************************)
(* An idle thread is blank, any other carries a call; an answer is there   *)
(* exactly once the call has left the mutex.                               *)
CallOK(t) ==
  /\ th[t].pc = "idle" => th[t] = Idle
  /\ th[t].pc # "idle" => [fn |-> th[t].fn, arg |-> th[t].arg] \in Api!Calls
  /\ th[t].pc = "ret" <=> th[t].rv # "none"
  /\ th[t].rv = "none" => th[t].val = 0

Roomy(t) ==
  th[t].pc = "ret" /\ th[t].fn \in Api!ListFns /\ th[t].rv = "OK" /\ th[t].arg # NoList
    => th[t].val <= th[t].arg

StageOK(t) ==
  /\ th[t].pc = "init" => th[t].fn = "C_Initialize" /\ th[t].arg = 0 /\ ~ initialized
  /\ th[t].pc \in Stages \ {"init"} => initialized
  /\ th[t].pc = "count" => th[t].fn = "slots with a token"
  /\ th[t].pc = "list" =>
       /\ th[t].fn \in Api!ListFns
       /\ th[t].k = IF th[t].fn = "all slots" THEN 1 ELSE Present
  /\ th[t].pc = "probe" =>
       th[t].fn \in {"C_GetSlotInfo", "C_GetTokenInfo"} /\ th[t].arg = 0
  /\ th[t].pc = "open" =>
       /\ th[t].fn = "C_OpenSession" /\ th[t].arg = 0
       /\ th[t].k \in Table /\ sessions[th[t].k] = Free
  /\ th[t].pc = "read" =>
       /\ th[t].fn = "C_GenerateRandom" /\ th[t].arg \in Handles
       /\ sessions[th[t].arg - 1] # Free

Initializing == \E t \in Threads : th[t].pc = "init"

SharedOK ==
  /\ refs = ToOne(UsesCards /\ (initialized \/ Initializing))
  /\ ~ initialized => sessions = AllFree

IInv ==
  /\ TypeOK /\ SharedOK
  /\ \A t \in Threads : CallOK(t) /\ Roomy(t) /\ StageOK(t)

(***************************************************************************)
(* Small facts                                                             *)
(***************************************************************************)
LEMMA OneEntry ==
  ASSUME NEW s \in [1 .. 1 -> BOOLEAN]
  PROVE  /\ DOMAIN s = {1} /\ Len(s) = 1
         /\ Cardinality({i \in DOMAIN s : s[i]}) = ToOne(s[1])
<1>1. DOMAIN s = {1}
  OBVIOUS
<1>2. s = <<s[1]>>
  BY <1>1
<1>3. Len(s) = 1
  BY <1>2
<1>4. CASE s[1]
  <2>1. {i \in DOMAIN s : s[i]} = {1}
    BY <1>1, <1>4
  <2> QED
    BY <1>1, <1>3, <1>4, <2>1, FS_Singleton DEF ToOne
<1>5. CASE ~ s[1]
  <2>1. {i \in DOMAIN s : s[i]} = {}
    BY <1>1, <1>5
  <2> QED
    BY <1>1, <1>3, <1>5, <2>1, FS_EmptySet DEF ToOne
<1> QED
  BY <1>4, <1>5

LEMMA OneSlot ==
  ASSUME TypeOK, initialized
  PROVE  /\ slots \in [1 .. 1 -> BOOLEAN] /\ DOMAIN slots = {1} /\ Len(slots) = 1
         /\ Present = ToOne(slots[1])
<1>1. slots \in [1 .. 1 -> BOOLEAN]
  BY DEF TypeOK
<1> QED
  BY <1>1, OneEntry DEF Present

(* The mutex: whoever is inside holds it, alone.                           *)
LEMMA InsideHolds ==
  ASSUME IInv, NEW t \in Threads, th[t].pc \in Stages
  PROVE  holder = t /\ \A u \in Threads \ {t} : th[u].pc \notin Stages
  BY DEF IInv, TypeOK

LEMMA OutsideHolds ==
  ASSUME IInv, holder = NoThread
  PROVE  \A u \in Threads : th[u].pc \notin Stages
  BY ProviderAssumption DEF IInv, TypeOK, NoThread

(* A thread that may use the shared state: it is inside, or is let in.     *)
MayAct(t) == th[t].pc \in Stages \/ (th[t].pc = "wait" /\ holder = NoThread)

LEMMA OnlyOne ==
  ASSUME IInv, NEW t \in Threads, MayAct(t)
  PROVE  /\ \A u \in Threads \ {t} : th[u].pc \notin Stages
         /\ holder \in {NoThread, t}
         /\ th[t].rv = "none" /\ [fn |-> th[t].fn, arg |-> th[t].arg] \in Api!Calls
<1>1. th[t].pc \notin {"idle", "ret"}
  BY DEF MayAct, Stages
<1>2. th[t].rv = "none" /\ [fn |-> th[t].fn, arg |-> th[t].arg] \in Api!Calls
  BY <1>1 DEF IInv, CallOK
<1> QED
  BY <1>2, InsideHolds, OutsideHolds DEF MayAct

(***************************************************************************)
(* The two ways a step ends.                                               *)
(***************************************************************************)
LEMMA ReplyKeeps ==
  ASSUME IInv, NEW t \in Threads, MayAct(t),
         NEW rv \in Api!Answers \ {"none"}, NEW v \in Int, Reply(t, rv, v),
         th[t].fn \in Api!ListFns /\ rv = "OK" /\ th[t].arg # NoList => v <= th[t].arg
  PROVE  /\ holder' = NoThread
         /\ th' \in [Threads -> ThreadState]
         /\ \A u \in Threads : th'[u].pc \notin Stages
         /\ \A u \in Threads : CallOK(u)' /\ Roomy(u)' /\ StageOK(u)'
<1> DEFINE r == [pc |-> "ret", fn |-> th[t].fn, arg |-> th[t].arg, k |-> 0, rv |-> rv, val |-> v]
<1>1. /\ th \in [Threads -> ThreadState]
      /\ MaxSessions \in Nat
  BY ProviderAssumption DEF IInv, TypeOK
<1>2. th' = [th EXCEPT ![t] = r] /\ holder' = NoThread
  BY <1>1 DEF Reply
<1>3. th'[t] = r /\ \A u \in Threads \ {t} : th'[u] = th[u]
  BY <1>1, <1>2
<1>4. th[t].rv = "none" /\ [fn |-> th[t].fn, arg |-> th[t].arg] \in Api!Calls
      /\ \A u \in Threads \ {t} : th[u].pc \notin Stages
  BY OnlyOne
<1>5. r \in ThreadState
      /\ r.pc = "ret" /\ r.fn = th[t].fn /\ r.arg = th[t].arg /\ r.rv = rv /\ r.val = v
  BY <1>1 DEF ThreadState
<1> HIDE DEF r
<1>6. \A u \in Threads : th'[u].pc \notin Stages
  BY <1>3, <1>4, <1>5 DEF Stages
<1>7. ASSUME NEW u \in Threads PROVE StageOK(u)'
  <2>1. th'[u].pc \notin Stages
    BY <1>6
  <2> QED
    BY <2>1 DEF StageOK, Stages
<1>8. ASSUME NEW u \in Threads \ {t} PROVE CallOK(u)' /\ Roomy(u)'
  <2>1. CallOK(u) /\ Roomy(u)
    BY DEF IInv
  <2> QED
    BY <1>3, <2>1 DEF CallOK, Roomy, Idle, NoList
<1>9. CallOK(t)'
  BY <1>3, <1>4, <1>5 DEF CallOK
<1>10. Roomy(t)'
  BY <1>3, <1>5 DEF Roomy, NoList
<1> QED
  BY <1>1, <1>2, <1>5, <1>6, <1>7, <1>8, <1>9, <1>10

LEMMA HoldKeeps ==
  ASSUME IInv, NEW t \in Threads, MayAct(t), NEW p \in Stages, NEW k \in 0 .. MaxSessions,
         Hold(t, p, k)
  PROVE  /\ holder' = t
         /\ th' \in [Threads -> ThreadState]
         /\ \A u \in Threads : th'[u].pc \in Stages <=> holder' = u
         /\ \A u \in Threads : CallOK(u)' /\ Roomy(u)'
         /\ \A u \in Threads \ {t} : th'[u] = th[u] /\ StageOK(u)'
         /\ th'[t].pc = p /\ th'[t].k = k /\ th'[t].fn = th[t].fn /\ th'[t].arg = th[t].arg
<1> DEFINE r == [pc |-> p, fn |-> th[t].fn, arg |-> th[t].arg, k |-> k, rv |-> "none", val |-> 0]
<1>1. th \in [Threads -> ThreadState]
  BY DEF IInv, TypeOK
<1>2. th' = [th EXCEPT ![t] = r] /\ holder' = t
  BY <1>1 DEF Hold
<1>3. th'[t] = r /\ \A u \in Threads \ {t} : th'[u] = th[u]
  BY <1>1, <1>2
<1>4. th[t].rv = "none" /\ [fn |-> th[t].fn, arg |-> th[t].arg] \in Api!Calls
      /\ \A u \in Threads \ {t} : th[u].pc \notin Stages
  BY OnlyOne
<1>5. r \in ThreadState
      /\ r.pc = p /\ r.fn = th[t].fn /\ r.arg = th[t].arg /\ r.rv = "none" /\ r.k = k
      /\ r.val = 0
  BY <1>1, <1>4 DEF ThreadState, Api!Answers
<1> HIDE DEF r
<1>6. p \notin {"idle", "wait", "ret"}
  BY DEF Stages
<1>7. ASSUME NEW u \in Threads \ {t} PROVE CallOK(u)' /\ Roomy(u)' /\ StageOK(u)'
  <2>1. CallOK(u) /\ Roomy(u) /\ th'[u] = th[u] /\ th'[u].pc \notin Stages
    BY <1>3, <1>4 DEF IInv
  <2> QED
    BY <2>1 DEF CallOK, Roomy, Idle, NoList, StageOK, Stages
<1>8. CallOK(t)' /\ Roomy(t)'
  BY <1>3, <1>4, <1>5, <1>6 DEF CallOK, Roomy
<1> QED
  BY <1>1, <1>2, <1>3, <1>4, <1>5, <1>7, <1>8

(* The shared state, as TypeOK and SharedOK have it when nobody is inside. *)
QuietOK ==
  /\ initialized \in BOOLEAN
  /\ slots \in (IF initialized THEN [1 .. 1 -> BOOLEAN] ELSE {<<>>})
  /\ sessions \in [Table -> [slot : {0}, by : Threads \cup {NoThread}]]
  /\ ~ initialized => sessions = AllFree

(* A step that answers, or goes on to device work, keeps the invariant if  *)
(* what it leaves in the shared state is in order.                         *)
LEMMA AfterReply ==
  ASSUME IInv, NEW t \in Threads, MayAct(t),
         NEW rv \in Api!Answers \ {"none"}, NEW v \in Int, Reply(t, rv, v),
         th[t].fn \in Api!ListFns /\ rv = "OK" /\ th[t].arg # NoList => v <= th[t].arg,
         QuietOK', refs' = ToOne(UsesCards /\ initialized')
  PROVE  IInv'
<1>1. /\ holder' = NoThread
      /\ th' \in [Threads -> ThreadState]
      /\ \A u \in Threads : th'[u].pc \notin Stages
      /\ \A u \in Threads : CallOK(u)' /\ Roomy(u)' /\ StageOK(u)'
  BY ReplyKeeps
<1>2. NoThread \notin Threads
  BY ProviderAssumption DEF NoThread
<1>3. TypeOK'
  BY <1>1, <1>2 DEF TypeOK, QuietOK, ToOne
<1>4. ~ Initializing'
  BY <1>1 DEF Initializing, Stages
<1>5. SharedOK'
  BY <1>4 DEF SharedOK, QuietOK, ToOne
<1> QED
  BY <1>1, <1>3, <1>5 DEF IInv

LEMMA AfterHold ==
  ASSUME IInv, NEW t \in Threads, MayAct(t), NEW p \in Stages, NEW k \in 0 .. MaxSessions,
         Hold(t, p, k), QuietOK', StageOK(t)',
         refs' = ToOne(UsesCards /\ (initialized' \/ p = "init"))
  PROVE  IInv'
<1>1. /\ holder' = t
      /\ th' \in [Threads -> ThreadState]
      /\ \A u \in Threads : th'[u].pc \in Stages <=> holder' = u
      /\ \A u \in Threads : CallOK(u)' /\ Roomy(u)'
      /\ \A u \in Threads \ {t} : th'[u] = th[u] /\ StageOK(u)'
      /\ th'[t].pc = p
  BY HoldKeeps
<1>2. TypeOK'
  BY <1>1 DEF TypeOK, QuietOK, ToOne
<1>3. Initializing' <=> p = "init"
  <2>1. ASSUME NEW u \in Threads \ {t} PROVE th'[u].pc # "init"
    BY <1>1, OnlyOne DEF Stages
  <2> QED
    BY <1>1, <2>1 DEF Initializing
<1>4. SharedOK'
  BY <1>3 DEF SharedOK, QuietOK, ToOne
<1> QED
  BY <1>1, <1>2, <1>4 DEF IInv

(* What a thread that may act finds there.                                 *)
LEMMA Quiet ==
  ASSUME IInv
  PROVE  /\ QuietOK
         /\ \A t \in Threads : MayAct(t) /\ th[t].pc # "init"
              => refs = ToOne(UsesCards /\ initialized)
         /\ \A t \in Threads : th[t].pc = "init" => refs = ToOne(UsesCards)
<1>1. QuietOK
  BY DEF IInv, TypeOK, SharedOK, QuietOK
<1>2. ASSUME NEW t \in Threads, MayAct(t), th[t].pc # "init"
      PROVE  refs = ToOne(UsesCards /\ initialized)
  <2>1. ~ Initializing
    BY <1>2, OnlyOne DEF Initializing, Stages
  <2> QED
    BY <2>1 DEF IInv, SharedOK, ToOne
<1>3. ASSUME NEW t \in Threads, th[t].pc = "init" PROVE refs = ToOne(UsesCards)
  BY <1>3 DEF IInv, SharedOK, Initializing, ToOne
<1> QED
  BY <1>1, <1>2, <1>3

(***************************************************************************)
(* One lemma per kind of action                                            *)
(***************************************************************************)
(* Steps that leave the shared state alone leave it in order.              *)
LEMMA Idles ==
  ASSUME QuietOK, refs = ToOne(UsesCards /\ initialized),
         UNCHANGED <<initialized, slots, sessions, refs>>
  PROVE  QuietOK' /\ refs' = ToOne(UsesCards /\ initialized')
  BY DEF QuietOK, AllFree, Free, Table, NoThread, ToOne

LEMMA CallType ==
  ASSUME NEW c \in Api!Calls
  PROVE  c.fn \in Api!Fns /\ c.arg \in Int /\ [fn |-> c.fn, arg |-> c.arg] = c
<1>1. MaxSessions \in Nat
  BY ProviderAssumption
<1>2. c \in [fn : Api!Fns, arg : Int]
  <2>1. CASE c \in [fn : {"C_Initialize"}, arg : {0, 1}]
    BY <2>1 DEF Api!Fns
  <2>2. CASE c \in [fn : Api!PlainFns, arg : {0}]
    BY <2>2 DEF Api!Fns
  <2>3. CASE c \in [fn : Api!SlotFns, arg : {0, 1}]
    BY <2>3 DEF Api!Fns
  <2>4. CASE c \in [fn : Api!HandleFns, arg : 0 .. MaxSessions + 1]
    BY <1>1, <2>4 DEF Api!Fns
  <2>5. CASE c \in [fn : Api!ListFns, arg : {Api!NoList, 0, 1}]
    BY <2>5 DEF Api!Fns, Api!NoList
  <2> QED
    BY <2>1, <2>2, <2>3, <2>4, <2>5 DEF Api!Calls
<1> QED
  BY <1>2

LEMMA CallKeeps ==
  ASSUME IInv, NEW t \in Threads, Call(t) \/ Return(t)
  PROVE  IInv'
<1>1. /\ th \in [Threads -> ThreadState]
      /\ MaxSessions \in Nat \ {0} /\ th[t].pc \notin Stages
      /\ UNCHANGED <<initialized, slots, sessions, refs, holder>>
  BY ProviderAssumption DEF IInv, TypeOK, Call, Return, Stages
<1>2. PICK r \in ThreadState :
        /\ r.pc \in {"idle", "wait", "ret"}
        /\ th' = [th EXCEPT ![t] = r]
        /\ r.pc = "idle" => r = Idle
        /\ r.pc # "idle" => [fn |-> r.fn, arg |-> r.arg] \in Api!Calls
        /\ r.pc = "ret" <=> r.rv # "none"
        /\ r.rv # "OK" /\ r.val = 0
  <2>1. CASE Return(t)
    <3>1. Idle \in ThreadState
      BY <1>1 DEF Idle, ThreadState, Api!Fns, Api!Answers
    <3>2. th' = [th EXCEPT ![t] = Idle]
      BY <2>1 DEF Return
    <3>3. Idle.pc = "idle" /\ Idle.rv = "none" /\ Idle.val = 0
      BY DEF Idle
    <3> QED
      BY <3>1, <3>2, <3>3
  <2>2. CASE Call(t)
    <3>1. PICK c \in Api!Calls : \E p \in {"wait", "ret"}, rv \in Api!Answers :
            /\ th' = [th EXCEPT ![t] = [pc |-> p, fn |-> c.fn, arg |-> c.arg, k |-> 0,
                                        rv |-> rv, val |-> 0]]
            /\ p = "ret" <=> rv # "none"
            /\ rv # "OK"
      <4>1. PICK c \in Api!Calls :
              \/ th' = [th EXCEPT ![t] = [pc |-> "wait", fn |-> c.fn, arg |-> c.arg, k |-> 0,
                                          rv |-> "none", val |-> 0]]
              \/ \E rv \in {"ARGUMENTS_BAD", "SESSION_PARALLEL_NOT_SUPPORTED"} :
                   th' = [th EXCEPT ![t] = [pc |-> "ret", fn |-> c.fn, arg |-> c.arg, k |-> 0,
                                            rv |-> rv, val |-> 0]]
        BY <2>2 DEF Call
      <4>2. CASE th' = [th EXCEPT ![t] = [pc |-> "wait", fn |-> c.fn, arg |-> c.arg, k |-> 0,
                                          rv |-> "none", val |-> 0]]
        <5>1. "wait" \in {"wait", "ret"} /\ "none" \in Api!Answers /\ "none" # "OK"
          BY DEF Api!Answers
        <5> QED
          BY <4>2, <5>1
      <4>3. CASE \E rv \in {"ARGUMENTS_BAD", "SESSION_PARALLEL_NOT_SUPPORTED"} :
                   th' = [th EXCEPT ![t] = [pc |-> "ret", fn |-> c.fn, arg |-> c.arg, k |-> 0,
                                            rv |-> rv, val |-> 0]]
        <5>1. PICK rv \in {"ARGUMENTS_BAD", "SESSION_PARALLEL_NOT_SUPPORTED"} :
                   th' = [th EXCEPT ![t] = [pc |-> "ret", fn |-> c.fn, arg |-> c.arg, k |-> 0,
                                            rv |-> rv, val |-> 0]]
          BY <4>3
        <5>2. rv \in Api!Answers /\ rv # "none" /\ rv # "OK"
          BY DEF Api!Answers
        <5> QED
          BY <5>1, <5>2
      <4> QED
        BY <4>1, <4>2, <4>3
    <3>2. c.fn \in Api!Fns /\ c.arg \in Int /\ [fn |-> c.fn, arg |-> c.arg] = c
      BY CallType
    <3>3. PICK p \in {"wait", "ret"}, rv \in Api!Answers :
            /\ th' = [th EXCEPT ![t] = [pc |-> p, fn |-> c.fn, arg |-> c.arg, k |-> 0,
                                        rv |-> rv, val |-> 0]]
            /\ p = "ret" <=> rv # "none"
            /\ rv # "OK"
      BY <3>1
    <3> DEFINE r == [pc |-> p, fn |-> c.fn, arg |-> c.arg, k |-> 0, rv |-> rv, val |-> 0]
    <3>4. r \in ThreadState
      BY <1>1, <3>2 DEF ThreadState
    <3>5. /\ r.pc \in {"idle", "wait", "ret"}
          /\ th' = [th EXCEPT ![t] = r]
          /\ r.pc # "idle" /\ [fn |-> r.fn, arg |-> r.arg] \in Api!Calls
          /\ r.pc = "ret" <=> r.rv # "none"
          /\ r.rv # "OK" /\ r.val = 0
      BY <3>2, <3>3
    <3> QED
      BY <3>4, <3>5
  <2> QED
    BY <2>1, <2>2
<1>3. th'[t] = r /\ \A u \in Threads \ {t} : th'[u] = th[u]
  BY <1>1, <1>2
<1>4. r.pc \notin Stages
  BY <1>2 DEF Stages
<1>5. TypeOK'
  <2>1. th' \in [Threads -> ThreadState]
    BY <1>1, <1>2
  <2>2. \A u \in Threads : th'[u].pc \in Stages <=> holder' = u
    BY <1>1, <1>3, <1>4 DEF IInv, TypeOK
  <2> QED
    BY <1>1, <2>1, <2>2 DEF IInv, TypeOK
<1>6. SharedOK'
  <2>1. Initializing' <=> Initializing
    BY <1>1, <1>3, <1>4 DEF Initializing, Stages
  <2> QED
    BY <1>1, <2>1 DEF IInv, SharedOK, AllFree, Free
<1>7. CallOK(t)' /\ Roomy(t)' /\ StageOK(t)'
  BY <1>2, <1>3, <1>4 DEF CallOK, Roomy, StageOK, Stages
<1>8. ASSUME NEW u \in Threads \ {t} PROVE CallOK(u)' /\ Roomy(u)' /\ StageOK(u)'
  <2>1. CallOK(u) /\ Roomy(u) /\ StageOK(u)
    BY DEF IInv
  <2>2. CallOK(u)' /\ Roomy(u)'
    BY <1>3, <2>1 DEF CallOK, Roomy, Idle, NoList
  <2>3. StageOK(u)'
    BY <1>1, <1>3, <2>1 DEF StageOK, Present, Free, Table, Handles, NoThread
  <2> QED
    BY <2>2, <2>3
<1> QED
  BY <1>5, <1>6, <1>7, <1>8 DEF IInv

(* lock() lets a thread in that finds everything in order.                 *)
LEMMA Entered ==
  ASSUME IInv, NEW t \in Threads, NEW fns, Enter(t, fns)
  PROVE  /\ MayAct(t) /\ th[t].pc = "wait" /\ th[t].fn \in fns /\ th[t].rv = "none"
         /\ [fn |-> th[t].fn, arg |-> th[t].arg] \in Api!Calls
         /\ QuietOK /\ refs = ToOne(UsesCards /\ initialized)
<1>1. MayAct(t) /\ th[t].pc = "wait" /\ th[t].fn \in fns
  BY DEF Enter, MayAct
<1> QED
  BY <1>1, OnlyOne, Quiet

(* What the arguments of a call may be.                                    *)
LEMMA ArgFacts ==
  ASSUME NEW f, NEW a, [fn |-> f, arg |-> a] \in Api!Calls
  PROVE  /\ f \in Api!SlotFns \cup {"C_Initialize"} => a \in {0, 1}
         /\ f \in Api!HandleFns => a \in 0 .. MaxSessions + 1
         /\ f \in Api!ListFns => a \in {NoList, 0, 1}
<1> DEFINE c == [fn |-> f, arg |-> a]
<1>1. c.fn = f /\ c.arg = a
  OBVIOUS
<1> HIDE DEF c
<1>2. \/ c \in [fn : {"C_Initialize"}, arg : {0, 1}]
      \/ c \in [fn : Api!PlainFns, arg : {0}]
      \/ c \in [fn : Api!SlotFns, arg : {0, 1}]
      \/ c \in [fn : Api!HandleFns, arg : 0 .. MaxSessions + 1]
      \/ c \in [fn : Api!ListFns, arg : {Api!NoList, 0, 1}]
  BY DEF Api!Calls, c
<1>3. \/ f = "C_Initialize" /\ a \in {0, 1}
      \/ f \in Api!PlainFns
      \/ f \in Api!SlotFns /\ a \in {0, 1}
      \/ f \in Api!HandleFns /\ a \in 0 .. MaxSessions + 1
      \/ f \in Api!ListFns /\ a \in {Api!NoList, 0, 1}
  BY <1>1, <1>2
<1> QED
  BY <1>3 DEF Api!PlainFns, Api!SlotFns, Api!HandleFns, Api!ListFns, NoList

(* A verdict other than OK is the answer the code gives; OK is what the    *)
(* rest of the call relies on.                                             *)
LEMMA VerdictFacts ==
  ASSUME IInv, NEW t \in Threads, NEW fns, Enter(t, fns)
  PROVE  /\ Verdict(t) \in Api!Answers \ {"none"}
         /\ Verdict(t) = "OK" => initialized \/ th[t].fn = "C_SeedRandom"
         /\ Verdict(t) = "OK" /\ th[t].fn \in Api!SlotFns => initialized /\ th[t].arg = 0
         /\ Verdict(t) = "OK" /\ th[t].fn \in Api!HandleFns =>
              /\ initialized /\ th[t].arg \in Handles
              /\ sessions[th[t].arg - 1] # Free /\ FindSession(th[t].arg) = th[t].arg - 1
<1>1. [fn |-> th[t].fn, arg |-> th[t].arg] \in Api!Calls /\ QuietOK
  BY Entered
<1>2. /\ th[t].fn \in Api!SlotFns => th[t].arg \in {0, 1}
      /\ th[t].fn \in Api!HandleFns => th[t].arg \in 0 .. MaxSessions + 1
  BY <1>1, ArgFacts
<1>3. MaxSessions \in Nat \ {0}
  BY ProviderAssumption
<1>4. initialized => Len(slots) = 1
  BY OneSlot DEF IInv
<1>5. Verdict(t) \in Api!Answers \ {"none"}
  BY DEF Verdict, Api!Answers
<1>6. Verdict(t) = "OK" => initialized \/ th[t].fn = "C_SeedRandom"
  BY DEF Verdict
<1>7. Verdict(t) = "OK" /\ th[t].fn \in Api!SlotFns => initialized /\ th[t].arg = 0
  <2> SUFFICES ASSUME Verdict(t) = "OK", th[t].fn \in Api!SlotFns
               PROVE  initialized /\ th[t].arg = 0
    OBVIOUS
  <2>1. th[t].fn # "C_SeedRandom"
    BY DEF Api!SlotFns
  <2>2. initialized /\ Len(slots) = 1
    BY <1>4, <1>6, <2>1
  <2>3. ~ (th[t].arg >= Len(slots))
    BY <2>1, <2>2 DEF Verdict
  <2> QED
    BY <1>2, <2>2, <2>3
<1>8. ASSUME Verdict(t) = "OK", th[t].fn \in Api!HandleFns
      PROVE  /\ initialized /\ th[t].arg \in Handles
             /\ sessions[th[t].arg - 1] # Free /\ FindSession(th[t].arg) = th[t].arg - 1
  <2>1. initialized /\ FindSession(th[t].arg) # Absent
    BY <1>8 DEF Verdict
  <2> QED
    BY <1>2, <1>3, <1>8, <2>1 DEF FindSession
<1> QED
  BY <1>5, <1>6, <1>7, <1>8

LEMMA AllFreeType == AllFree \in [Table -> [slot : {0}, by : Threads \cup {NoThread}]]
  BY DEF AllFree, Free

LEMMA InitializeKeeps ==
  ASSUME IInv, NEW t \in Threads, Initialize(t)
  PROVE  IInv'
<1>1. /\ MayAct(t) /\ QuietOK /\ refs = ToOne(UsesCards /\ initialized)
      /\ th[t].fn = "C_Initialize" /\ th[t].pc = "wait"
      /\ UNCHANGED <<initialized, slots, sessions>>
  <2>1. Enter(t, {"C_Initialize"}) /\ UNCHANGED <<initialized, slots, sessions>>
    BY DEF Initialize
  <2>2. th[t].fn \in {"C_Initialize"}
    BY <2>1, Entered
  <2> QED
    BY <2>1, <2>2, Entered
<1>2. QuietOK'
  BY <1>1 DEF QuietOK, AllFree, Free
<1>3. th[t].fn \notin Api!ListFns
  BY <1>1 DEF Api!ListFns
<1>4. CASE UNCHANGED refs /\ \E rv \in {"CRYPTOKI_ALREADY_INITIALIZED", "ARGUMENTS_BAD",
                                       "FUNCTION_FAILED"} : Reply(t, rv, 0)
  BY <1>1, <1>2, <1>3, <1>4, AfterReply DEF Api!Answers
<1>5. CASE ~ initialized /\ th[t].arg = 0 /\ GlobalInit /\ Hold(t, "init", 0)
  <2>1. "init" \in Stages /\ 0 \in 0 .. MaxSessions
    BY ProviderAssumption DEF Stages
  <2>2. StageOK(t)'
    <3>1. /\ th'[t].pc = "init" /\ th'[t].fn = "C_Initialize" /\ th'[t].arg = 0
          /\ ~ initialized'
      BY <1>1, <1>5, <2>1, HoldKeeps
    <3> QED
      BY <3>1 DEF StageOK
  <2>3. refs' = ToOne(UsesCards)
    BY <1>1, <1>5, ProviderAssumption DEF GlobalInit, ToOne
  <2> QED
    BY <1>1, <1>2, <1>5, <2>1, <2>2, <2>3, AfterHold DEF ToOne
<1> QED
  BY <1>4, <1>5 DEF Initialize

LEMMA InitProbeKeeps ==
  ASSUME IInv, NEW t \in Threads, InitProbe(t)
  PROVE  IInv'
<1>1. /\ MayAct(t) /\ QuietOK /\ refs = ToOne(UsesCards) /\ ~ initialized
      /\ th[t].fn = "C_Initialize" /\ th[t].pc = "init"
  BY Quiet DEF InitProbe, At, MayAct, Stages, IInv, StageOK
<1>2. th[t].fn \notin Api!ListFns
  BY <1>1 DEF Api!ListFns
<1>3. ASSUME NEW present \in BOOLEAN,
             slots' = <<present>>, sessions' = AllFree, initialized' = TRUE,
             Reply(t, "OK", 0), UNCHANGED refs
      PROVE  IInv'
  <2>1. slots' \in [1 .. 1 -> BOOLEAN]
    BY <1>3
  <2>2. QuietOK'
    BY <1>3, <2>1, AllFreeType DEF QuietOK, AllFree, Free
  <2> QED
    BY <1>1, <1>2, <1>3, <2>2, AfterReply DEF ToOne, Api!Answers
<1>4. ASSUME GlobalShutdown, Reply(t, "FUNCTION_FAILED", 0),
             UNCHANGED <<initialized, slots, sessions>>
      PROVE  IInv'
  <2>1. QuietOK'
    BY <1>1, <1>4 DEF QuietOK, AllFree, Free
  <2>2. refs' = ToOne(UsesCards /\ initialized')
    BY <1>1, <1>4 DEF GlobalShutdown, ToOne
  <2> QED
    BY <1>1, <1>2, <1>4, <2>1, <2>2, AfterReply DEF Api!Answers
<1> QED
  BY <1>3, <1>4 DEF InitProbe

LEMMA FinalizeKeeps ==
  ASSUME IInv, NEW t \in Threads, Finalize(t)
  PROVE  IInv'
<1>1. /\ MayAct(t) /\ QuietOK /\ refs = ToOne(UsesCards /\ initialized)
      /\ th[t].fn = "C_Finalize"
  <2>1. Enter(t, {"C_Finalize"})
    BY DEF Finalize
  <2>2. th[t].fn \in {"C_Finalize"}
    BY <2>1, Entered
  <2> QED
    BY <2>1, <2>2, Entered
<1>2. th[t].fn \notin Api!ListFns
  BY <1>1 DEF Api!ListFns
<1>3. CASE initialized
  <2>1. /\ sessions' = AllFree /\ slots' = <<>> /\ GlobalShutdown /\ initialized' = FALSE
        /\ Reply(t, "OK", 0)
    BY <1>3 DEF Finalize
  <2>2. QuietOK'
    BY <2>1, AllFreeType DEF QuietOK, AllFree, Free
  <2>3. refs' = ToOne(UsesCards /\ initialized')
    BY <1>1, <1>3, <2>1 DEF GlobalShutdown, ToOne
  <2> QED
    BY <1>1, <1>2, <2>1, <2>2, <2>3, AfterReply DEF Api!Answers
<1>4. CASE ~ initialized
  <2>1. Reply(t, "CRYPTOKI_NOT_INITIALIZED", 0) /\ UNCHANGED <<initialized, slots, sessions, refs>>
    BY <1>4 DEF Finalize
  <2> QED
    BY <1>1, <1>2, <2>1, Idles, AfterReply DEF Api!Answers
<1> QED
  BY <1>3, <1>4

(* A call admitted past its opening checks.                                *)
LEMMA Enters ==
  ASSUME IInv, NEW t \in Threads, NEW fns, Admitted(t, fns)
  PROVE  /\ MayAct(t) /\ QuietOK /\ refs = ToOne(UsesCards /\ initialized)
         /\ th[t].fn \in fns /\ th[t].pc = "wait"
         /\ initialized \/ th[t].fn = "C_SeedRandom"
         /\ th[t].fn \in Api!SlotFns => initialized /\ th[t].arg = 0
         /\ th[t].fn \in Api!HandleFns =>
              /\ initialized /\ th[t].arg \in Handles
              /\ sessions[th[t].arg - 1] # Free /\ FindSession(th[t].arg) = th[t].arg - 1
  BY Entered, VerdictFacts DEF Admitted

(* A thread that has been inside since its call was admitted.              *)
LEMMA Stays ==
  ASSUME IInv, NEW t \in Threads, NEW p \in Stages \ {"init"}, At(t, p)
  PROVE  /\ MayAct(t) /\ QuietOK /\ refs = ToOne(UsesCards /\ initialized)
         /\ th[t].pc = p /\ StageOK(t) /\ th[t] \in ThreadState
         /\ initialized /\ DOMAIN slots = {1} /\ Len(slots) = 1
         /\ [fn |-> th[t].fn, arg |-> th[t].arg] \in Api!Calls
<1>1. MayAct(t) /\ th[t].pc = p /\ p # "init"
  BY DEF At, MayAct, Stages
<1>2. StageOK(t) /\ th[t] \in ThreadState /\ TypeOK
  BY DEF IInv, TypeOK
<1>3. initialized
  BY <1>1, <1>2 DEF StageOK
<1> QED
  BY <1>1, <1>2, <1>3, Quiet, OneSlot, OnlyOne

LEMMA SimpleKeeps ==
  ASSUME IInv, NEW t \in Threads, Refused(t) \/ GetInfoOrMechanismList(t)
                                    \/ GetSessionInfo(t) \/ SeedRandom(t)
  PROVE  IInv'
<1>1. CASE Refused(t)
  <2> DEFINE fns == Api!SlotFns \cup Api!HandleFns \cup Api!ListFns \cup {"C_GetInfo"}
  <2>1. Enter(t, fns) /\ Verdict(t) # "OK" /\ Reply(t, Verdict(t), 0)
        /\ UNCHANGED <<initialized, slots, sessions, refs>>
    BY <1>1 DEF Refused
  <2>2. /\ MayAct(t) /\ QuietOK /\ refs = ToOne(UsesCards /\ initialized)
        /\ Verdict(t) \in Api!Answers \ {"none"}
    <3> HIDE DEF fns
    <3> QED
      BY <2>1, Entered, VerdictFacts
  <2> QED
    BY <2>1, <2>2, Idles, AfterReply
<1>2. CASE GetInfoOrMechanismList(t)
  <2>1. /\ Admitted(t, {"C_GetInfo", "C_GetMechanismList"}) /\ Reply(t, "OK", 0)
        /\ UNCHANGED <<initialized, slots, sessions, refs>>
    BY <1>2 DEF GetInfoOrMechanismList
  <2>2. /\ MayAct(t) /\ QuietOK /\ refs = ToOne(UsesCards /\ initialized)
        /\ th[t].fn \in {"C_GetInfo", "C_GetMechanismList"}
    BY <2>1, Enters
  <2>3. th[t].fn \notin Api!ListFns /\ "OK" \in Api!Answers \ {"none"}
    BY <2>2 DEF Api!ListFns, Api!Answers
  <2>4. QuietOK' /\ refs' = ToOne(UsesCards /\ initialized')
    BY <2>1, <2>2, Idles
  <2> QED
    BY <2>1, <2>2, <2>3, <2>4, AfterReply
<1>3. CASE GetSessionInfo(t)
  <2>1. /\ Admitted(t, {"C_GetSessionInfo"}) /\ Reply(t, "OK", 0)
        /\ UNCHANGED <<initialized, slots, sessions, refs>>
    BY <1>3 DEF GetSessionInfo
  <2>2. /\ MayAct(t) /\ QuietOK /\ refs = ToOne(UsesCards /\ initialized)
        /\ th[t].fn \in {"C_GetSessionInfo"}
    BY <2>1, Enters
  <2>3. th[t].fn \notin Api!ListFns /\ "OK" \in Api!Answers \ {"none"}
    BY <2>2 DEF Api!ListFns, Api!Answers
  <2>4. QuietOK' /\ refs' = ToOne(UsesCards /\ initialized')
    BY <2>1, <2>2, Idles
  <2> QED
    BY <2>1, <2>2, <2>3, <2>4, AfterReply
<1>4. CASE SeedRandom(t)
  <2>1. /\ Admitted(t, {"C_SeedRandom"}) /\ Reply(t, "RANDOM_SEED_NOT_SUPPORTED", 0)
        /\ UNCHANGED <<initialized, slots, sessions, refs>>
    BY <1>4 DEF SeedRandom
  <2>2. /\ MayAct(t) /\ QuietOK /\ refs = ToOne(UsesCards /\ initialized)
    BY <2>1, Enters
  <2> QED
    BY <2>1, <2>2, Idles, AfterReply DEF Api!Answers
<1> QED
  BY <1>1, <1>2, <1>3, <1>4

LEMMA GetSlotListKeeps ==
  ASSUME IInv, NEW t \in Threads, GetSlotList(t)
  PROVE  IInv'
<1>1. Admitted(t, Api!ListFns) /\ UNCHANGED <<initialized, slots, sessions, refs>>
  BY DEF GetSlotList
<1>2. /\ MayAct(t) /\ QuietOK /\ refs = ToOne(UsesCards /\ initialized)
      /\ th[t].fn \in Api!ListFns /\ (initialized \/ th[t].fn = "C_SeedRandom")
  BY <1>1, Enters
<1>3. initialized /\ Len(slots) = 1
  <2>1. initialized
    BY <1>2 DEF Api!ListFns
  <2> QED
    BY <2>1, OneSlot DEF IInv
<1>4. 0 \in 0 .. MaxSessions /\ 1 \in 0 .. MaxSessions /\ "count" \in Stages /\ "list" \in Stages
  BY ProviderAssumption DEF Stages
<1>5. QuietOK' /\ refs' = ToOne(UsesCards /\ initialized') /\ initialized'
  BY <1>1, <1>2, <1>3, Idles
<1>6. CASE th[t].fn = "slots with a token"
  <2>1. Hold(t, "count", 0)
    BY <1>6 DEF GetSlotList
  <2>2. th'[t].pc = "count" /\ th'[t].fn = th[t].fn
    BY <1>2, <1>4, <2>1, HoldKeeps
  <2>3. StageOK(t)'
    BY <1>5, <1>6, <2>2 DEF StageOK
  <2> QED
    BY <1>2, <1>4, <1>5, <2>1, <2>3, AfterHold
<1>7. CASE th[t].fn # "slots with a token"
  <2>1. Hold(t, "list", 1) /\ th[t].fn = "all slots"
    <3>1. th[t].fn = "all slots"
      BY <1>2, <1>7 DEF Api!ListFns
    <3> QED
      BY <1>3, <1>7, <3>1 DEF GetSlotList
  <2>2. th'[t].pc = "list" /\ th'[t].fn = "all slots" /\ th'[t].k = 1
    BY <1>2, <1>4, <2>1, HoldKeeps
  <2>3. StageOK(t)'
    BY <1>5, <2>2 DEF StageOK, Api!ListFns
  <2> QED
    BY <1>2, <1>4, <1>5, <2>1, <2>3, AfterHold
<1> QED
  BY <1>6, <1>7

(* Probing a slot leaves a slot there.                                     *)
LEMMA Refreshed ==
  ASSUME QuietOK, initialized, DOMAIN slots = {1}, NEW b \in BOOLEAN,
         slots' = [i \in DOMAIN slots |-> b], UNCHANGED <<initialized, sessions>>
  PROVE  QuietOK' /\ Present' = ToOne(b)
<1>1. slots' \in [1 .. 1 -> BOOLEAN] /\ slots'[1] = b
  OBVIOUS
<1> QED
  BY <1>1, OneEntry DEF QuietOK, AllFree, Free, Present

LEMMA CountSlotsKeeps ==
  ASSUME IInv, NEW t \in Threads, CountSlots(t)
  PROVE  IInv'
<1>1. At(t, "count") /\ UNCHANGED <<initialized, sessions, refs>>
  BY DEF CountSlots
<1>2. PICK b \in BOOLEAN : slots' = [i \in DOMAIN slots |-> b] /\ Hold(t, "list", ToOne(b))
  BY DEF CountSlots, Refresh
<1>3. /\ MayAct(t) /\ QuietOK /\ refs = ToOne(UsesCards /\ initialized)
      /\ th[t].pc = "count" /\ StageOK(t) /\ initialized /\ DOMAIN slots = {1}
  BY <1>1, Stays DEF Stages
<1>4. QuietOK' /\ Present' = ToOne(b)
  BY <1>1, <1>2, <1>3, Refreshed
<1>5. "list" \in Stages /\ ToOne(b) \in 0 .. MaxSessions
  BY ProviderAssumption DEF Stages, ToOne
<1>6. th'[t].pc = "list" /\ th'[t].k = ToOne(b) /\ th'[t].fn = th[t].fn
  BY <1>2, <1>3, <1>5, HoldKeeps
<1>7. th[t].fn = "slots with a token"
  BY <1>3 DEF StageOK
<1>8. StageOK(t)'
  BY <1>1, <1>3, <1>4, <1>6, <1>7 DEF StageOK, Api!ListFns
<1> QED
  BY <1>1, <1>2, <1>3, <1>4, <1>5, <1>8, AfterHold

LEMMA Compared == \A a, b \in Int : a < b <=> ~ (b <= a)
  OBVIOUS

(* What C_GetSlotList writes is what it counted, and fits.                 *)
LEMMA Listing ==
  ASSUME IInv, NEW t \in Threads, ListSlots(t)
  PROVE  \E rv \in {"OK", "BUFFER_TOO_SMALL"} :
           /\ Reply(t, rv, th[t].k) /\ th[t].k \in {0, 1}
           /\ th[t].fn = "all slots" => th[t].k = 1
           /\ rv = "OK" <=> th[t].arg = NoList \/ th[t].k <= th[t].arg
           /\ UNCHANGED <<initialized, slots, sessions, refs>>
<1>1. At(t, "list") /\ UNCHANGED <<initialized, slots, sessions, refs>>
  BY DEF ListSlots
<1>2. /\ th[t].pc = "list" /\ StageOK(t) /\ initialized /\ Len(slots) = 1
      /\ [fn |-> th[t].fn, arg |-> th[t].arg] \in Api!Calls
  BY <1>1, Stays DEF Stages
<1>3. /\ th[t].fn \in Api!ListFns
      /\ th[t].k = IF th[t].fn = "all slots" THEN 1 ELSE Present
  BY <1>2 DEF StageOK
<1>4. Present \in {0, 1}
  BY <1>2, OneSlot DEF IInv, ToOne
<1>5. th[t].arg \in Int /\ th[t].k \in Int
  BY ProviderAssumption DEF IInv, TypeOK, ThreadState
<1>6. th[t].k \in {0, 1} /\ (th[t].fn = "all slots" => th[t].k = 1)
  BY <1>3, <1>4
<1>7. CASE th[t].arg = NoList
  BY <1>1, <1>6, <1>7 DEF ListSlots
<1>8. CASE th[t].arg # NoList /\ th[t].arg < th[t].k
  <2>1. Reply(t, "BUFFER_TOO_SMALL", th[t].k)
    BY <1>8 DEF ListSlots
  <2>2. ~ (th[t].k <= th[t].arg)
    BY <1>5, <1>8, Compared
  <2> QED
    BY <1>1, <1>6, <1>8, <2>1, <2>2
<1>9. CASE th[t].arg # NoList /\ ~ (th[t].arg < th[t].k)
  <2>1. PICK n \in IF th[t].fn = "all slots" THEN {Len(slots)} ELSE Listed : Reply(t, "OK", n)
    BY <1>9 DEF ListSlots
  <2>2. n = th[t].k
    BY <1>2, <1>3, <2>1 DEF Listed
  <2>3. th[t].k <= th[t].arg
    BY <1>5, <1>9, Compared
  <2> QED
    BY <1>1, <1>6, <2>1, <2>2, <2>3
<1> QED
  BY <1>7, <1>8, <1>9

LEMMA ListSlotsKeeps ==
  ASSUME IInv, NEW t \in Threads, ListSlots(t)
  PROVE  IInv'
<1>1. PICK rv \in {"OK", "BUFFER_TOO_SMALL"} :
        /\ Reply(t, rv, th[t].k) /\ th[t].k \in {0, 1}
        /\ rv = "OK" <=> th[t].arg = NoList \/ th[t].k <= th[t].arg
        /\ UNCHANGED <<initialized, slots, sessions, refs>>
  BY Listing
<1>2. At(t, "list")
  BY DEF ListSlots
<1>3. MayAct(t) /\ QuietOK /\ refs = ToOne(UsesCards /\ initialized)
  BY <1>2, Stays DEF Stages
<1>4. rv \in Api!Answers \ {"none"} /\ th[t].k \in Int
  BY <1>1 DEF Api!Answers
<1>5. QuietOK' /\ refs' = ToOne(UsesCards /\ initialized')
  BY <1>1, <1>3, Idles
<1> QED
  BY <1>1, <1>3, <1>4, <1>5, AfterReply

LEMMA SlotOrTokenInfoKeeps ==
  ASSUME IInv, NEW t \in Threads, SlotOrTokenInfo(t)
  PROVE  IInv'
<1>1. /\ Admitted(t, {"C_GetSlotInfo", "C_GetTokenInfo"}) /\ Hold(t, "probe", 0)
      /\ UNCHANGED <<initialized, slots, sessions, refs>>
  BY DEF SlotOrTokenInfo
<1>2. /\ MayAct(t) /\ QuietOK /\ refs = ToOne(UsesCards /\ initialized)
      /\ th[t].fn \in {"C_GetSlotInfo", "C_GetTokenInfo"}
      /\ th[t].fn \in Api!SlotFns => initialized /\ th[t].arg = 0
  BY <1>1, Enters
<1>3. initialized /\ th[t].arg = 0
  BY <1>2 DEF Api!SlotFns
<1>4. "probe" \in Stages /\ 0 \in 0 .. MaxSessions
  BY ProviderAssumption DEF Stages
<1>5. th'[t].pc = "probe" /\ th'[t].fn = th[t].fn /\ th'[t].arg = th[t].arg
  BY <1>1, <1>2, <1>4, HoldKeeps
<1>6. StageOK(t)'
  BY <1>1, <1>2, <1>3, <1>5 DEF StageOK
<1>7. QuietOK' /\ refs' = ToOne(UsesCards /\ initialized') /\ initialized'
  BY <1>1, <1>2, <1>3, Idles
<1> QED
  BY <1>1, <1>2, <1>4, <1>6, <1>7, AfterHold

LEMMA ProbeSlotKeeps ==
  ASSUME IInv, NEW t \in Threads, ProbeSlot(t)
  PROVE  IInv'
<1>1. At(t, "probe") /\ UNCHANGED <<initialized, sessions, refs>>
  BY DEF ProbeSlot
<1>2. PICK b \in BOOLEAN :
        /\ slots' = [i \in DOMAIN slots |-> b]
        /\ Reply(t, IF th[t].fn = "C_GetTokenInfo" /\ ~ b THEN "TOKEN_NOT_PRESENT"
                    ELSE "OK", ToOne(b))
  BY DEF ProbeSlot, Refresh
<1> DEFINE rv == IF th[t].fn = "C_GetTokenInfo" /\ ~ b THEN "TOKEN_NOT_PRESENT" ELSE "OK"
<1>3. /\ MayAct(t) /\ QuietOK /\ refs = ToOne(UsesCards /\ initialized)
      /\ th[t].pc = "probe" /\ StageOK(t) /\ initialized /\ DOMAIN slots = {1}
  BY <1>1, Stays DEF Stages
<1>4. QuietOK'
  BY <1>1, <1>2, <1>3, Refreshed
<1>5. rv \in Api!Answers \ {"none"} /\ ToOne(b) \in Int /\ Reply(t, rv, ToOne(b))
  BY <1>2 DEF Api!Answers, ToOne
<1>6. th[t].fn \notin Api!ListFns
  BY <1>3 DEF StageOK, Api!ListFns
<1>7. refs' = ToOne(UsesCards /\ initialized')
  BY <1>1, <1>3
<1> HIDE DEF rv
<1> QED
  BY <1>3, <1>4, <1>5, <1>6, <1>7, AfterReply

LEMMA OpenSessionKeeps ==
  ASSUME IInv, NEW t \in Threads, OpenSession(t)
  PROVE  IInv'
<1>1. Admitted(t, {"C_OpenSession"}) /\ UNCHANGED <<initialized, slots, sessions, refs>>
  BY DEF OpenSession
<1>2. /\ MayAct(t) /\ QuietOK /\ refs = ToOne(UsesCards /\ initialized)
      /\ th[t].fn \in {"C_OpenSession"}
      /\ th[t].fn \in Api!SlotFns => initialized /\ th[t].arg = 0
  BY <1>1, Enters
<1>3. initialized /\ th[t].arg = 0 /\ th[t].fn = "C_OpenSession"
  BY <1>2 DEF Api!SlotFns
<1>4. QuietOK' /\ refs' = ToOne(UsesCards /\ initialized') /\ initialized'
  BY <1>1, <1>2, <1>3, Idles
<1>5. CASE Reply(t, "HOST_MEMORY", 0)
  <2>1. th[t].fn \notin Api!ListFns /\ "HOST_MEMORY" \in Api!Answers \ {"none"}
    BY <1>3 DEF Api!ListFns, Api!Answers
  <2> QED
    BY <1>2, <1>4, <1>5, <2>1, AfterReply
<1>6. CASE \E i \in Table : FirstFree(i) /\ Hold(t, "open", i)
  <2>1. PICK i \in Table : FirstFree(i) /\ Hold(t, "open", i)
    BY <1>6
  <2>2. "open" \in Stages /\ i \in 0 .. MaxSessions
    BY ProviderAssumption DEF Stages, Table
  <2>3. /\ th'[t].pc = "open" /\ th'[t].k = i
        /\ th'[t].fn = "C_OpenSession" /\ th'[t].arg = 0
    BY <1>2, <1>3, <2>1, <2>2, HoldKeeps
  <2>4. sessions'[i] = Free'
    BY <1>1, <2>1 DEF FirstFree, FreeSlots, Free
  <2>5. StageOK(t)'
    BY <1>4, <2>3, <2>4 DEF StageOK, Table
  <2> QED
    BY <1>2, <1>4, <2>1, <2>2, <2>5, AfterHold
<1> QED
  BY <1>5, <1>6 DEF OpenSession

LEMMA OpenPoolKeeps ==
  ASSUME IInv, NEW t \in Threads, OpenPool(t)
  PROVE  IInv'
<1>1. At(t, "open") /\ UNCHANGED <<initialized, refs>>
  BY DEF OpenPool
<1>2. /\ MayAct(t) /\ QuietOK /\ refs = ToOne(UsesCards /\ initialized)
      /\ th[t].pc = "open" /\ StageOK(t) /\ initialized /\ DOMAIN slots = {1}
  BY <1>1, Stays DEF Stages
<1>3. /\ th[t].fn = "C_OpenSession" /\ th[t].arg = 0 /\ th[t].k \in Table
      /\ th[t].k + 1 \in Int
  BY <1>2, ProviderAssumption DEF StageOK, Table
<1>4. refs' = ToOne(UsesCards /\ initialized') /\ th[t].fn \notin Api!ListFns
  BY <1>1, <1>2, <1>3 DEF Api!ListFns
<1>5. CASE /\ sessions' = [sessions EXCEPT ![th[t].k] = [slot |-> th[t].arg, by |-> t]]
           /\ slots' = [slots EXCEPT ![th[t].arg + 1] = TRUE]
           /\ Reply(t, "OK", th[t].k + 1)
  <2>1. slots' \in [1 .. 1 -> BOOLEAN]
    BY <1>2, <1>3, <1>5 DEF QuietOK
  <2>2. sessions' \in [Table -> [slot : {0}, by : Threads \cup {NoThread}]]
    BY <1>2, <1>3, <1>5 DEF QuietOK
  <2>3. QuietOK'
    BY <1>1, <1>2, <2>1, <2>2 DEF QuietOK, Table
  <2> QED
    BY <1>2, <1>3, <1>4, <1>5, <2>3, AfterReply DEF Api!Answers
<1>6. CASE /\ slots' = [slots EXCEPT ![th[t].arg + 1] = FALSE]
           /\ Reply(t, "TOKEN_NOT_PRESENT", 0) /\ UNCHANGED sessions
  <2>1. slots' \in [1 .. 1 -> BOOLEAN]
    BY <1>2, <1>3, <1>6 DEF QuietOK
  <2>2. QuietOK'
    BY <1>1, <1>2, <1>6, <2>1 DEF QuietOK, Table
  <2> QED
    BY <1>2, <1>4, <1>6, <2>2, AfterReply DEF Api!Answers
<1>7. CASE Reply(t, "DEVICE_ERROR", 0) /\ UNCHANGED <<slots, sessions>>
  <2>1. QuietOK'
    BY <1>1, <1>2, <1>7 DEF QuietOK, Table
  <2> QED
    BY <1>2, <1>4, <1>7, <2>1, AfterReply DEF Api!Answers
<1> QED
  BY <1>5, <1>6, <1>7 DEF OpenPool

LEMMA CloseKeeps ==
  ASSUME IInv, NEW t \in Threads, CloseSession(t) \/ CloseAllSessions(t)
  PROVE  IInv'
<1>1. /\ MayAct(t) /\ QuietOK /\ refs = ToOne(UsesCards /\ initialized)
      /\ (initialized \/ th[t].fn = "C_SeedRandom")
      /\ th[t].fn \in {"C_CloseSession", "C_CloseAllSessions"}
  <2>1. CASE CloseSession(t)
    <3>1. Admitted(t, {"C_CloseSession"})
      BY <2>1 DEF CloseSession
    <3>2. th[t].fn \in {"C_CloseSession"}
      BY <3>1, Enters
    <3> QED
      BY <3>1, <3>2, Enters
  <2>2. CASE CloseAllSessions(t)
    <3>1. Admitted(t, {"C_CloseAllSessions"})
      BY <2>2 DEF CloseAllSessions
    <3>2. th[t].fn \in {"C_CloseAllSessions"}
      BY <3>1, Enters
    <3> QED
      BY <3>1, <3>2, Enters
  <2> QED
    BY <2>1, <2>2
<1>2. QuietOK
  BY <1>1
<1>3. initialized /\ th[t].fn \notin Api!ListFns
  BY <1>1 DEF Api!ListFns
<1>4. Reply(t, "OK", 0) /\ UNCHANGED <<initialized, slots, refs>>
  BY DEF CloseSession, CloseAllSessions
<1>5. sessions \in [Table -> [slot : {0}, by : Threads \cup {NoThread}]]
      /\ Free \in [slot : {0}, by : Threads \cup {NoThread}]
  BY <1>2 DEF QuietOK, Free
<1>6. sessions' \in [Table -> [slot : {0}, by : Threads \cup {NoThread}]]
  BY <1>5 DEF CloseSession, CloseAllSessions
<1>7. QuietOK'
  BY <1>2, <1>3, <1>4, <1>6 DEF QuietOK, Table
<1> QED
  BY <1>1, <1>3, <1>4, <1>7, AfterReply DEF Api!Answers

LEMMA GenerateRandomKeeps ==
  ASSUME IInv, NEW t \in Threads, GenerateRandom(t)
  PROVE  IInv'
<1>1. /\ Admitted(t, {"C_GenerateRandom"}) /\ Hold(t, "read", FindSession(th[t].arg))
      /\ UNCHANGED <<initialized, slots, sessions, refs>>
  BY DEF GenerateRandom
<1>2. /\ MayAct(t) /\ QuietOK /\ refs = ToOne(UsesCards /\ initialized)
      /\ th[t].fn \in {"C_GenerateRandom"}
      /\ th[t].fn \in Api!HandleFns =>
              /\ initialized /\ th[t].arg \in Handles
              /\ sessions[th[t].arg - 1] # Free /\ FindSession(th[t].arg) = th[t].arg - 1
  BY <1>1, Enters
<1>3. /\ initialized /\ th[t].arg \in Handles /\ th[t].fn = "C_GenerateRandom"
      /\ sessions[th[t].arg - 1] # Free /\ FindSession(th[t].arg) = th[t].arg - 1
  BY <1>2 DEF Api!HandleFns
<1>4. "read" \in Stages /\ th[t].arg - 1 \in 0 .. MaxSessions
  BY <1>3, ProviderAssumption DEF Stages, Handles
<1>5. th'[t].pc = "read" /\ th'[t].fn = th[t].fn /\ th'[t].arg = th[t].arg
  BY <1>1, <1>2, <1>3, <1>4, HoldKeeps
<1>6. QuietOK' /\ refs' = ToOne(UsesCards /\ initialized') /\ initialized'
  BY <1>1, <1>2, <1>3, Idles
<1>7. StageOK(t)'
  BY <1>1, <1>3, <1>5, <1>6 DEF StageOK, Free, Handles, NoThread
<1> QED
  BY <1>1, <1>2, <1>3, <1>4, <1>6, <1>7, AfterHold

LEMMA ReadPoolKeeps ==
  ASSUME IInv, NEW t \in Threads, ReadPool(t)
  PROVE  IInv'
<1>1. At(t, "read") /\ UNCHANGED <<initialized, slots, sessions, refs>>
  BY DEF ReadPool
<1>2. PICK rv \in {"OK", "DEVICE_ERROR"} : Reply(t, rv, 0)
  BY DEF ReadPool
<1>3. /\ MayAct(t) /\ QuietOK /\ refs = ToOne(UsesCards /\ initialized)
      /\ th[t].pc = "read" /\ StageOK(t)
  BY <1>1, Stays DEF Stages
<1>4. th[t].fn \notin Api!ListFns /\ rv \in Api!Answers \ {"none"}
  BY <1>3 DEF StageOK, Api!ListFns, Api!Answers
<1>5. QuietOK' /\ refs' = ToOne(UsesCards /\ initialized')
  BY <1>1, <1>3, Idles
<1> QED
  BY <1>2, <1>3, <1>4, <1>5, AfterReply

(***************************************************************************)
(* The invariant                                                           *)
(***************************************************************************)
LEMMA InitIInv == Init => IInv
<1> SUFFICES ASSUME Init PROVE IInv
  OBVIOUS
<1>1. MaxSessions \in Nat /\ NoThread \notin Threads
  BY ProviderAssumption DEF NoThread
<1>2. Idle \in ThreadState /\ Idle.pc = "idle" /\ Idle.rv = "none" /\ Idle.val = 0
  BY <1>1 DEF Idle, ThreadState, Api!Fns, Api!Answers
<1>3. \A t \in Threads : th[t] = Idle
  BY DEF Init
<1>4. TypeOK
  <2>1. th \in [Threads -> ThreadState]
    BY <1>2 DEF Init
  <2>2. \A t \in Threads : th[t].pc \in Stages <=> holder = t
    BY <1>1, <1>2, <1>3 DEF Init, Stages
  <2> QED
    BY <2>1, <2>2, AllFreeType DEF Init, TypeOK
<1>5. SharedOK
  <2>1. ~ Initializing
    BY <1>2, <1>3 DEF Initializing
  <2> QED
    BY <2>1 DEF Init, SharedOK, ToOne
<1>6. \A t \in Threads : CallOK(t) /\ Roomy(t) /\ StageOK(t)
  BY <1>2, <1>3 DEF CallOK, Roomy, StageOK, Stages
<1> QED
  BY <1>4, <1>5, <1>6 DEF IInv

LEMMA NextIInv == IInv /\ [Next]_vars => IInv'
<1> SUFFICES ASSUME IInv, [Next]_vars PROVE IInv'
  OBVIOUS
<1>1. CASE UNCHANGED vars
  <2>1. TypeOK' /\ SharedOK'
    BY <1>1 DEF vars, IInv, TypeOK, SharedOK, Initializing, Present
  <2>2. ASSUME NEW t \in Threads PROVE (CallOK(t) /\ Roomy(t) /\ StageOK(t))'
    BY <1>1, <2>2 DEF vars, IInv, CallOK, Roomy, StageOK, Present
  <2> QED
    BY <2>1, <2>2 DEF IInv
<1>2. CASE Next
  <2>1. PICK t \in Threads : Call(t) \/ Entering(t) \/ Inside(t) \/ Return(t)
    BY <1>2 DEF Next
  <2>2. CASE Call(t) \/ Return(t)
    BY <2>2, CallKeeps
  <2>3. CASE Entering(t)
    BY <2>3, InitializeKeeps, FinalizeKeeps, SimpleKeeps, GetSlotListKeeps,
       SlotOrTokenInfoKeeps, OpenSessionKeeps, CloseKeeps, GenerateRandomKeeps DEF Entering
  <2>4. CASE Inside(t)
    BY <2>4, InitProbeKeeps, CountSlotsKeeps, ListSlotsKeeps, ProbeSlotKeeps,
       OpenPoolKeeps, ReadPoolKeeps DEF Inside
  <2> QED
    BY <2>1, <2>2, <2>3, <2>4
<1> QED
  BY <1>1, <1>2

(* The invariant holds of every behaviour: what a call checked under the   *)
(* mutex is still true when its device work ends.                          *)
THEOREM Inductive == Spec => []IInv
  BY InitIInv, NextIInv, PTL DEF Spec

(* Module keeps its type, and the thread inside is the one that holds the  *)
(* mutex, whatever the calls, their order and the devices.                 *)
THEOREM TypeCorrect == Spec => []TypeOK
<1>1. IInv => TypeOK
  BY DEF IInv
<1> QED
  BY <1>1, Inductive, PTL

(* The PC/SC context is held exactly while the module is initialized, also *)
(* after a C_Initialize that failed half way; no session outlives          *)
(* C_Finalize.                                                             *)
THEOREM ContextBalanced == Spec => []Balanced
<1>1. IInv => Balanced
  <2> SUFFICES ASSUME IInv PROVE Balanced
    OBVIOUS
  <2>1. ASSUME holder = NoThread PROVE refs = ToOne(UsesCards /\ initialized)
    <3>1. ~ Initializing
      BY <2>1, OutsideHolds DEF Initializing, Stages
    <3> QED
      BY <3>1 DEF IInv, SharedOK, ToOne
  <2> QED
    BY <2>1 DEF Balanced, IInv, SharedOK
<1> QED
  BY <1>1, Inductive, PTL

(* C_GetSlotList never writes past the room its caller gave.               *)
THEOREM ListFits == Spec => []NoOverrun
<1>1. IInv => NoOverrun
  BY DEF IInv, Roomy, NoOverrun
<1> QED
  BY <1>1, Inductive, PTL
=============================================================================
