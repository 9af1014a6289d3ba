----------------------------- MODULE WaiterProofs ----------------------------
(***************************************************************************)
(* Proofs about Waiter, for every configuration, any number of readers and *)
(* events, any timeout and any poll interval: when p11rand-wait ends, what *)
(* it leaves behind, and what the answers it waits for mean.               *)
(***************************************************************************)
EXTENDS Waiter, FiniteSetTheorems, TLAPS

(***************************************************************************)
(* The clock.  A poll begins less than an interval after the timeout and   *)
(* takes MaxPoll ticks at most; the tool only sleeps before the timeout.   *)
(***************************************************************************)
SettingUp == {"load", "start", "probe", "install"}
Late == timeout # NoTimeout /\ elapsed \in timeout .. timeout + Interval + MaxPoll - 1

ClockInv ==
  /\ elapsed \in Nat /\ busy \in 0 .. MaxPoll /\ timeout \in 0 .. NoTimeout /\ signals \in Nat
  /\ timeout = NoTimeout => elapsed = 0
  /\ pc \in SettingUp => elapsed = 0 /\ busy = 0
  /\ pc = "poll" => elapsed < timeout + Interval + busy
  /\ pc = "sleep" => busy = 0 /\ (timeout # NoTimeout => elapsed < timeout)

EndInv ==
  /\ pc \in SettingUp \cup {"poll", "sleep", "finalize", "exited"}
  /\ rv \in {"0", "1"} /\ code \in Codes
  /\ pc \in {"load", "start", "probe"} => ~ initialized
  /\ pc \in {"load", "start"} => ctx = "none"
  /\ pc = "finalize" => rv = "0" \/ signals > 0 \/ Late
  /\ pc = "exited" <=> code # "none"
  /\ PunctualTimeout /\ CleanExit

LEMMA Parameters ==
  /\ Interval \in Nat \ {0} /\ MaxPoll \in Nat /\ NoTimeout \in Nat
  /\ \A t \in Timeouts : t \in 0 .. NoTimeout
  BY WaiterAssumption DEF NoTimeout

LEMMA InitEnds == Init => ClockInv /\ EndInv
  BY Parameters DEF Init, ClientInit, ClockInv, EndInv, SettingUp, PunctualTimeout, CleanExit,
     Codes, Query!Idle

(* What does not move the clock leaves its invariant alone.                *)
LEMMA ClockStays ==
  ASSUME ClockInv, UNCHANGED <<elapsed, timeout, busy>>, signals' \in Nat,
         \/ pc' = pc
         \/ pc' \in SettingUp /\ pc \in SettingUp
         \/ pc' = "poll" /\ pc \in SettingUp
         \/ pc' \in {"finalize", "exited"}
  PROVE  ClockInv'
<1>1. CASE pc' = pc
  BY <1>1 DEF ClockInv, SettingUp
<1>2. CASE pc' \in SettingUp /\ pc \in SettingUp
  BY <1>2 DEF ClockInv, SettingUp
<1>3. CASE pc' = "poll" /\ pc \in SettingUp
  BY <1>3, Parameters DEF ClockInv, SettingUp
<1>4. CASE pc' \in {"finalize", "exited"}
  BY <1>4 DEF ClockInv, SettingUp
<1> QED
  BY <1>1, <1>2, <1>3, <1>4

(* Before the loop a step moves on, or the process ends.                   *)
LEMMA SetupEnds ==
  ASSUME EndInv, pc \in SettingUp, rv' = rv,
         pc' \in {"load", "start", "probe"} => ~ initialized',
         pc' \in {"load", "start"} => ctx' = "none",
         \/ pc' \in SettingUp \cup {"poll"} /\ code' = code
         \/ pc' = "exited" /\ code' \in {"2", "130", "killed"},
         code' = "2" => ~ initialized' /\ ctx' = "none"
  PROVE  EndInv'
<1>1. code = "none"
  BY DEF EndInv, SettingUp
<1>2. code' \in Codes /\ code' # "1" /\ code' # "0" /\ (pc' = "exited" <=> code' # "none")
  BY <1>1 DEF Codes, SettingUp
<1>3. pc' # "finalize" /\ pc' \in SettingUp \cup {"poll", "sleep", "finalize", "exited"}
  BY DEF SettingUp
<1>4. PunctualTimeout' /\ CleanExit'
  BY <1>2 DEF PunctualTimeout, CleanExit
<1> QED
  BY <1>2, <1>3, <1>4 DEF EndInv, Codes, SettingUp

(* Every step of the tool, by what it does to the clock and the exit.      *)
LEMMA StepsEnd ==
  ASSUME ClockInv, EndInv, [Next]_vars
  PROVE  ClockInv' /\ EndInv'
<1>1. CASE LoadModule \/ GlobalInit \/ Initialized \/ InstallSignals
  <2>1. UNCHANGED <<elapsed, timeout, busy, rv>> /\ (signals' = signals \/ signals' = 0)
    BY <1>1 DEF LoadModule, Load, GlobalInit, Initialized, InstallSignals, Install, clock, sigvars
  <2>2. ClockInv'
    <3>1. /\ pc \in SettingUp
          /\ pc' \in SettingUp \/ pc' = "poll" \/ pc' = "exited"
      BY <1>1 DEF LoadModule, Load, GlobalInit, Initialized, InstallSignals, Install, GoTo, Exit,
         SettingUp
    <3> QED
      BY <2>1, <3>1, ClockStays DEF ClockInv
  <2>3. CASE LoadModule
    <3>1. /\ pc = "load" /\ UNCHANGED <<initialized, ctx>>
          /\ (pc' = "start" /\ code' = code) \/ (pc' = "exited" /\ code' = "2")
      BY <2>3 DEF LoadModule, Load, GoTo, Exit, modvars, queryvars
    <3> QED
      BY <2>1, <2>2, <3>1, SetupEnds DEF EndInv, SettingUp
  <2>4. CASE GlobalInit
    <3>1. /\ pc = "start" /\ UNCHANGED initialized
          /\ \/ pc' = "probe" /\ code' = code
             \/ pc' = "exited" /\ code' = "2" /\ UNCHANGED ctx
      BY <2>4 DEF GlobalInit, GoTo, Exit, modvars
    <3> QED
      BY <2>1, <2>2, <3>1, SetupEnds DEF EndInv, SettingUp
  <2>5. CASE Initialized
    <3>1. /\ pc = "probe"
          /\ \/ pc' = "install" /\ code' = code
             \/ pc' = "exited" /\ code' = "2" /\ UNCHANGED initialized /\ ctx' = "none"
      BY <2>5 DEF Initialized, GoTo, Exit
    <3> QED
      BY <2>1, <2>2, <3>1, SetupEnds DEF EndInv, SettingUp
  <2>6. CASE InstallSignals
    <3>1. pc = "install" /\ pc' = "poll" /\ code' = code
      BY <2>6 DEF InstallSignals, Install, GoTo
    <3> QED
      BY <2>1, <2>2, <3>1, SetupEnds DEF EndInv, SettingUp
  <2> QED
    BY <1>1, <2>2, <2>3, <2>4, <2>5, <2>6
<1>2. CASE Ask \/ World \/ Ended \/ UNCHANGED vars
  <2>1. UNCHANGED <<pc, code, elapsed, timeout, busy, rv, signals, initialized>>
    BY <1>2 DEF Ask, World, Ended, vars, clientvars, modvars, sigvars, clock
  <2>2. ctx' = ctx \/ (ctx = "fresh" /\ pc # "exited")
    BY <1>2 DEF Ask, World, Ended, vars, queryvars, Query!World, Query!Restart, Query!Change,
       Query!Step, Query!Begin, Query!ListReaders, Query!TryReader, Query!Counted, Query!CountPaths
  <2>3. ClockInv'
    BY <2>1, ClockStays DEF ClockInv
  <2> QED
    BY <2>1, <2>2, <2>3 DEF EndInv, SettingUp, PunctualTimeout, CleanExit, Codes, Late
<1>3. CASE Tick
  BY <1>3, Parameters DEF Tick, Pass, ClockInv, EndInv, SettingUp, PunctualTimeout, CleanExit,
     Codes, clientvars, modvars, sigvars, queryvars, Late
<1>4. CASE Judge
  <2>1. UNCHANGED <<elapsed, timeout, signals, initialized, ctx, code>> /\ busy' = 0 /\ pc = "poll"
    BY <1>4 DEF Judge, GoTo, modvars, sigvars
  <2>2. \/ pc' = "finalize" /\ rv' = "0"
        \/ pc' = "finalize" /\ GivesUp /\ rv' = rv
        \/ pc' = "sleep" /\ ~ GivesUp /\ rv' = rv
    BY <1>4 DEF Judge, GoTo
  <2>3. elapsed < timeout + Interval + MaxPoll
    BY <2>1, Parameters DEF ClockInv
  <2>4. GivesUp => signals > 0 \/ Late
    BY <2>3, Parameters DEF GivesUp, TimedOut, Late, ClockInv
  <2>5. ClockInv'
    BY <2>1, <2>2, Parameters DEF ClockInv, GivesUp, TimedOut, SettingUp
  <2> QED
    BY <2>1, <2>2, <2>4, <2>5 DEF EndInv, SettingUp, PunctualTimeout, CleanExit, Codes, Late
<1>5. CASE Sleep
  <2>1. UNCHANGED <<timeout, busy, signals, initialized, ctx, code, rv>> /\ pc = "sleep" /\ pc' = "poll"
    BY <1>5 DEF Sleep, GoTo, modvars, sigvars, queryvars
  <2>2. ClockInv'
    BY <1>5, <2>1, Parameters DEF Sleep, Pass, ClockInv, SettingUp
  <2> QED
    BY <2>1, <2>2 DEF EndInv, SettingUp, PunctualTimeout, CleanExit, Codes
<1>6. CASE Finalize
  <2>1. UNCHANGED <<elapsed, timeout, busy, signals, rv>> /\ pc' = "exited" /\ code' = rv
        /\ pc = "finalize" /\ ctx' = "none" /\ ~ initialized'
    BY <1>6 DEF Finalize, Finalized, Exit, sigvars, clock
  <2>2. ClockInv'
    BY <2>1, ClockStays DEF ClockInv
  <2> QED
    BY <2>1, <2>2 DEF EndInv, SettingUp, PunctualTimeout, CleanExit, Codes, Late
<1>7. CASE Interrupt
  <2>1. UNCHANGED <<elapsed, timeout, busy, rv, initialized, ctx>>
    BY <1>7 DEF Interrupt, Signal, modvars, queryvars, clock
  <2>2. \/ pc' = "exited" /\ code' \in {"killed", "130"}
        \/ UNCHANGED <<pc, code>>
    BY <1>7 DEF Interrupt, Signal, Exit
  <2>3. signals' \in Nat /\ (signals > 0 => signals' > 0) /\ pc # "exited"
    BY <1>7 DEF Interrupt, Signal, ClockInv
  <2>4. ClockInv'
    <3>1. /\ pc' = pc \/ pc' \in {"finalize", "exited"}
          /\ UNCHANGED <<elapsed, timeout, busy>> /\ signals' \in Nat
      BY <2>1, <2>2, <2>3
    <3> QED
      BY <3>1, ClockStays DEF ClockInv
  <2>5. CASE UNCHANGED <<pc, code>>
    BY <2>1, <2>3, <2>4, <2>5 DEF EndInv, SettingUp, PunctualTimeout, CleanExit, Codes, Late
  <2>6. CASE pc' = "exited" /\ code' \in {"killed", "130"}
    <3>1. PunctualTimeout' /\ CleanExit'
      BY <2>6 DEF PunctualTimeout, CleanExit
    <3> QED
      BY <2>1, <2>4, <2>6, <3>1 DEF EndInv, SettingUp, Codes
  <2> QED
    BY <2>2, <2>5, <2>6
<1> QED
  BY <1>1, <1>2, <1>3, <1>4, <1>5, <1>6, <1>7 DEF Next, Step

THEOREM Endings == Spec => [](ClockInv /\ EndInv)
  BY InitEnds, StepsEnd, PTL DEF Spec

(* Exit code 1 means a signal, or that the timeout is over, and then by    *)
(* less than one interval and one poll: it never gives up early            *)
(* (p11rand-wait, main's loop).                                            *)
THEOREM GivesUpOnTime == Spec => []PunctualTimeout
<1>1. EndInv => PunctualTimeout
  BY DEF EndInv
<1> QED
  BY <1>1, Endings, PTL

(* However it ends by itself, the PC/SC context and the module are given   *)
(* back, also if C_Initialize failed after it took the context.            *)
THEOREM ExitsClean == Spec => []CleanExit
<1>1. EndInv => CleanExit
  BY DEF EndInv
<1> QED
  BY <1>1, Endings, PTL

(***************************************************************************)
(* The query.  The configuration counts as many slots of a kind as it says *)
(* and a kind has slots only if that is not zero.                          *)
(***************************************************************************)
(* Cardinality as Fillable imports it is Cardinality.                      *)
LEMMA SameCount == \A S : Query!Cardinality(S) = Cardinality(S)
  BY DEF Query!Cardinality, Cardinality, Query!IsFiniteSet, IsFiniteSet

LEMMA Quotas ==
  /\ Cfg.iso7816_cards \in Nat /\ Cfg.infnoise_devices \in Nat
  /\ Query!Needed("Iso7816") = Cfg.iso7816_cards
  /\ Query!Needed("Infnoise") = Cfg.infnoise_devices
  /\ Query!Kinds \subseteq {"Iso7816", "Infnoise"}
  /\ "Iso7816" \in Query!Kinds <=> Cfg.iso7816_cards > 0
  /\ "Infnoise" \in Query!Kinds <=> Cfg.infnoise_devices > 0
<1> DEFINE a == Cfg.iso7816_cards
           b == Cfg.infnoise_devices
<1>1. a \in Nat /\ b \in Nat
  BY WaiterAssumption DEF Configs
<1>2. Query!Slots(Cfg) = 0 .. (a + b) - 1
  BY DEF Query!Slots, Query!PoolSize
<1>3. \A j : Query!KindOf(Cfg, j) = IF j < a THEN "Iso7816" ELSE "Infnoise"
  BY DEF Query!KindOf
<1> HIDE DEF a, b
<1>4. /\ {j \in Query!Slots(Cfg) : Query!KindOf(Cfg, j) = "Iso7816"} = 0 .. a - 1
      /\ {j \in Query!Slots(Cfg) : Query!KindOf(Cfg, j) = "Infnoise"} = a .. (a + b) - 1
  BY <1>1, <1>2, <1>3
<1>5. Query!Needed("Iso7816") = a /\ Query!Needed("Infnoise") = b
  <2>1. Cardinality(0 .. a - 1) = a
    BY <1>1, FS_Interval
  <2>2. Cardinality(a .. (a + b) - 1) = b
    BY <1>1, FS_Interval
  <2>3. /\ Query!Needed("Iso7816") =
             Cardinality({j \in Query!Slots(Cfg) : Query!KindOf(Cfg, j) = "Iso7816"})
        /\ Query!Needed("Infnoise") =
             Cardinality({j \in Query!Slots(Cfg) : Query!KindOf(Cfg, j) = "Infnoise"})
    BY SameCount DEF Query!Needed
  <2> QED
    BY <1>4, <2>1, <2>2, <2>3
<1>6. a > 0 => "Iso7816" \in Query!Kinds
  <2>1. a > 0 => 0 \in Query!Slots(Cfg) /\ Query!KindOf(Cfg, 0) = "Iso7816"
    BY <1>1, <1>2, <1>3
  <2> QED
    BY <2>1 DEF Query!Kinds
<1>7. b > 0 => "Infnoise" \in Query!Kinds
  <2>1. b > 0 => a \in Query!Slots(Cfg) /\ Query!KindOf(Cfg, a) = "Infnoise"
    BY <1>1, <1>2, <1>3
  <2> QED
    BY <2>1 DEF Query!Kinds
<1>8. /\ "Iso7816" \in Query!Kinds => a > 0
      /\ "Infnoise" \in Query!Kinds => b > 0
      /\ Query!Kinds \subseteq {"Iso7816", "Infnoise"}
  BY <1>1, <1>2, <1>3 DEF Query!Kinds
<1> QED
  BY <1>1, <1>5, <1>6, <1>7, <1>8 DEF a, b

(* Sets of names can be counted, and a smaller one has no more of them.    *)
LEMMA Counting ==
  /\ Cardinality({}) = 0
  /\ \A S \in SUBSET Names : IsFiniteSet(S) /\ Cardinality(S) \in Nat
  /\ \A S, T \in SUBSET Names : S \subseteq T => Cardinality(S) <= Cardinality(T)
<1>1. IsFiniteSet(Names)
  BY WaiterAssumption
<1>2. \A S \in SUBSET Names : IsFiniteSet(S) /\ Cardinality(S) \in Nat
  BY <1>1, FS_Subset, FS_CardinalityType
<1>3. ASSUME NEW S \in SUBSET Names, NEW T \in SUBSET Names, S \subseteq T
      PROVE  Cardinality(S) <= Cardinality(T)
  BY <1>2, <1>3, FS_Subset
<1> QED
  BY <1>2, <1>3, FS_EmptySet

(***************************************************************************)
(* While a query runs, what is there now lies between what was there all   *)
(* along and what was there at some moment.  The count of the readers that *)
(* opened lies between the same two, as far as they have been tried.       *)
(***************************************************************************)
Between ==
  /\ ever \in [Query!Kinds -> SUBSET Names] /\ always \in [Query!Kinds -> SUBSET Names]
  /\ at # "idle" => \A k \in Query!Kinds :
       always[k] \subseteq Query!There(k) /\ Query!There(k) \subseteq ever[k]

Cards(history) == history["Iso7816"]

Tried ==
  /\ Cfg.iso7816_cards > 0
  /\ Cardinality(Cards(always) \ todo) <= usable
  /\ usable <= Cardinality(Cards(ever) \ todo)

QueryInv ==
  /\ at \in {"idle", "list", "try", "count"} /\ usable \in Nat /\ todo \subseteq Names
  /\ ctx \in {"none", "fresh", "stale"}
  /\ pc \in {"load", "start", "install", "sleep", "finalize"} => at = "idle" /\ answer = "none"
  /\ pc \in {"probe", "install", "poll", "sleep"} /\ Cfg.iso7816_cards > 0 => ctx # "none"
  /\ at \in {"idle", "list"} => usable = 0
  /\ at # "idle" => answer = "none"
  /\ at = "list" => Cfg.iso7816_cards > 0
  /\ Between
  /\ at = "try" => Tried
  /\ at = "count" /\ Cfg.iso7816_cards > 0 =>
       Cardinality(Cards(ever)) >= Cfg.iso7816_cards
  /\ Truthful

LEMMA ThereFacts == \A k : Query!There(k) \in SUBSET Names
  BY DEF Query!There, Query!Listed

LEMMA InitAnswers == Init => QueryInv
  BY DEF Init, ClientInit, Query!Idle, QueryInv, Between, Truthful, Query!Truthful

(* No answer says nothing.                                                 *)
LEMMA NoAnswer == answer = "none" => Truthful
  BY DEF Truthful, Query!Truthful

(* A step that leaves the query alone, or takes its answer.                *)
LEMMA QueryStays ==
  ASSUME QueryInv, UNCHANGED queryvars,
         \/ pc' = pc
         \/ pc = "load" /\ pc' = "start"
         \/ pc \in {"install", "sleep"} /\ pc' = "poll"
         \/ pc' = "exited"
  PROVE  QueryInv'
<1>1. UNCHANGED <<dev, ctx, calm, at, todo, usable, answer, ever, always>>
  BY DEF queryvars, call, seen
<1>2. \A k : Query!There(k)' = Query!There(k)
  BY <1>1 DEF Query!There, Query!Listed
<1>3. Truthful' /\ Between' /\ (Tried => Tried')
  BY <1>1, <1>2 DEF QueryInv, Truthful, Query!Truthful, Between, Tried, Cards
<1> QED
  BY <1>1, <1>3 DEF QueryInv, Cards

LEMMA QueryTaken ==
  ASSUME QueryInv, at = "idle", answer' = "none", Query!Unseen, UNCHANGED <<at, todo, usable>>,
         ctx' \in {"none", "fresh", "stale"},
         pc' \in {"probe", "install", "poll", "sleep"} /\ Cfg.iso7816_cards > 0 => ctx' # "none"
  PROVE  QueryInv'
<1>1. Between'
  BY DEF Query!Unseen, Between
<1>2. Truthful'
  BY DEF Truthful, Query!Truthful
<1> QED
  BY <1>1, <1>2 DEF QueryInv

(* The environment moved: more was there, less was there all along.        *)
LEMMA WorldAnswers == ASSUME QueryInv, World PROVE QueryInv'
<1>1. /\ calm' = FALSE /\ UNCHANGED <<pc, at, todo, usable, answer>>
      /\ ctx' = ctx \/ (ctx = "fresh" /\ ctx' = "stale")
      /\ Query!Watched
  BY DEF World, Query!World, Query!Restart, Query!Change, Query!Fault, Query!call, clientvars
<1>2. CASE at = "idle"
  <2>1. UNCHANGED <<ever, always>>
    BY <1>1, <1>2 DEF Query!Watched, Query!seen
  <2>2. Truthful' /\ Between'
    BY <1>1, <1>2, <2>1 DEF QueryInv, Truthful, Query!Truthful, Between
  <2> QED
    BY <1>1, <1>2, <2>2 DEF QueryInv
<1>3. CASE at # "idle"
  <2>1. /\ ever' = [k \in Query!Kinds |-> ever[k] \cup Query!There(k)']
        /\ always' = [k \in Query!Kinds |-> always[k] \cap Query!There(k)']
    BY <1>1, <1>3 DEF Query!Watched
  <2>2. \A k : Query!There(k)' \in SUBSET Names
    BY DEF Query!There, Query!Listed
  <2>3. Between'
    BY <2>1, <2>2 DEF QueryInv, Between
  <2>4. Truthful'
    BY <1>1, <1>3, NoAnswer DEF QueryInv, Truthful, Query!Truthful
  <2>5. Cfg.iso7816_cards > 0 =>
          /\ Cards(always') \in SUBSET Cards(always) /\ Cards(ever) \in SUBSET Cards(ever')
          /\ Cards(ever') \in SUBSET Names /\ Cards(always) \in SUBSET Names
    BY <2>1, <2>2, Quotas DEF QueryInv, Between, Cards
  <2>6. Tried => Tried'
    <3> SUFFICES ASSUME Tried PROVE Tried'
      OBVIOUS
    <3>1. /\ Cards(always') \ todo \subseteq Cards(always) \ todo
          /\ Cards(ever) \ todo \subseteq Cards(ever') \ todo
          /\ Cards(ever') \ todo \in SUBSET Names /\ Cards(always) \ todo \in SUBSET Names
      BY <2>5 DEF Tried
    <3>2. /\ Cardinality(Cards(always') \ todo) <= Cardinality(Cards(always) \ todo)
          /\ Cardinality(Cards(ever) \ todo) <= Cardinality(Cards(ever') \ todo)
          /\ Cardinality(Cards(always') \ todo) \in Nat /\ Cardinality(Cards(always) \ todo) \in Nat
          /\ Cardinality(Cards(ever') \ todo) \in Nat /\ Cardinality(Cards(ever) \ todo) \in Nat
      BY <3>1, Counting
    <3>3. usable \in Nat /\ usable' = usable /\ todo' = todo
      BY <1>1 DEF QueryInv
    <3> QED
      BY <3>2, <3>3 DEF Tried, Cards
  <2>7. at = "count" /\ Cfg.iso7816_cards > 0 => Cardinality(Cards(ever)') >= Cfg.iso7816_cards
    <3> SUFFICES ASSUME at = "count", Cfg.iso7816_cards > 0
                 PROVE  Cardinality(Cards(ever)') >= Cfg.iso7816_cards
      OBVIOUS
    <3>1. /\ Cardinality(Cards(ever)) >= Cfg.iso7816_cards
          /\ Cardinality(Cards(ever)) <= Cardinality(Cards(ever'))
          /\ Cardinality(Cards(ever)) \in Nat /\ Cardinality(Cards(ever')) \in Nat
          /\ Cfg.iso7816_cards \in Nat
      BY <2>5, Counting, Quotas DEF QueryInv
    <3> QED
      BY <3>1 DEF Cards
  <2> QED
    BY <1>1, <1>3, <2>3, <2>4, <2>6, <2>7 DEF QueryInv
<1> QED
  BY <1>2, <1>3

(* The steps of the query change no device: the same is there before and   *)
(* after them.                                                             *)
LEMMA SameThere ==
  ASSUME UNCHANGED <<dev, ctx>>
  PROVE  \A k : Query!There(k)' = Query!There(k)
  BY DEF Query!There, Query!Listed

LEMMA BeginAnswers ==
  ASSUME QueryInv, pc \in {"probe", "poll"}, pc' = pc, Query!Begin
  PROVE  QueryInv'
<1>1. /\ at = "idle" /\ answer' = "none" /\ UNCHANGED <<dev, ctx, todo, usable>>
      /\ at' = IF Cfg.iso7816_cards > 0 THEN "list" ELSE "count"
      /\ ever' = [k \in Query!Kinds |-> Query!There(k)] /\ always' = ever'
  BY DEF Query!Begin
<1>2. Between'
  BY <1>1, ThereFacts, SameThere DEF Between
<1>3. Truthful'
  BY <1>1 DEF Truthful, Query!Truthful
<1> QED
  BY <1>1, <1>2, <1>3 DEF QueryInv

LEMMA ListAnswers ==
  ASSUME QueryInv, pc \in {"probe", "poll"}, pc' = pc, Query!ListReaders
  PROVE  QueryInv'
<1>1. /\ at = "list" /\ UNCHANGED <<dev, ctx, ever>> /\ Cfg.iso7816_cards > 0 /\ usable = 0
      /\ answer = "none" /\ ctx # "none"
  BY DEF Query!ListReaders, QueryInv
<1>2. "Iso7816" \in Query!Kinds
  BY <1>1, Quotas
<1>3. CASE (Query!Readers(Query!Listed("Iso7816")) /\ UNCHANGED always)
           \/ (Query!Readers({}) /\ always' = [always EXCEPT !["Iso7816"] = {}])
  <2>1. /\ at' = "try" /\ UNCHANGED <<usable, answer>>
        /\ \/ todo' = Query!Listed("Iso7816") /\ always' = always
           \/ todo' = {} /\ always' = [always EXCEPT !["Iso7816"] = {}]
    BY <1>3 DEF Query!Readers
  <2>2. todo' \subseteq Names /\ Query!There("Iso7816") \subseteq Query!Listed("Iso7816")
    BY <2>1 DEF Query!Listed, Query!There
  <2>3. Between'
    BY <1>1, <2>1, SameThere DEF QueryInv, Between
  <2>4. Cards(always') \ todo' = {}
    BY <1>1, <1>2, <2>1, <2>2 DEF QueryInv, Between, Cards
  <2>5. Cards(ever') \ todo' \in SUBSET Names
    BY <1>1, <1>2 DEF QueryInv, Between, Cards
  <2>6. Tried'
    BY <1>1, <2>1, <2>4, <2>5, Counting DEF Tried, Cards
  <2>7. Truthful'
    BY <1>1, <2>1 DEF Truthful, Query!Truthful
  <2> QED
    BY <1>1, <2>1, <2>2, <2>3, <2>6, <2>7 DEF QueryInv
<1>4. CASE Query!Answer("Err") /\ (IF ctx = "none" THEN Query!NoFault ELSE Query!Fault)
           /\ UNCHANGED always
  <2>1. at' = "idle" /\ todo' = {} /\ usable' = 0 /\ calm' = FALSE /\ answer' = "Err"
    BY <1>1, <1>4 DEF Query!Answer, Query!Fault
  <2>2. Truthful' /\ Between'
    BY <1>1, <1>4, <2>1 DEF Truthful, Query!Truthful, QueryInv, Between
  <2> QED
    BY <1>1, <2>1, <2>2 DEF QueryInv
<1> QED
  BY <1>3, <1>4 DEF Query!ListReaders

LEMMA TryAnswers ==
  ASSUME QueryInv, pc \in {"probe", "poll"}, pc' = pc, NEW n \in Names, Query!TryReader(n)
  PROVE  QueryInv'
<1>1. /\ at = "try" /\ at' = "try" /\ UNCHANGED <<dev, ctx, calm, answer, ever, always>>
      /\ n \in todo /\ todo' = todo \ {n}
      /\ usable' = IF n \in Query!There("Iso7816") THEN usable + 1 ELSE usable
  BY DEF Query!TryReader, Query!There, Query!seen
<1>2. Tried /\ usable \in Nat /\ todo \subseteq Names /\ "Iso7816" \in Query!Kinds
  BY <1>1, Quotas DEF QueryInv, Tried
<1> DEFINE a == Cards(always) \ todo
           e == Cards(ever) \ todo
<1>3. /\ Cards(always) \subseteq Query!There("Iso7816") /\ Query!There("Iso7816") \subseteq Cards(ever)
      /\ a \in SUBSET Names /\ e \in SUBSET Names
  BY <1>1, <1>2 DEF QueryInv, Between, Cards
<1>4. n \notin a /\ n \notin e
  BY <1>1
<1>5. /\ a' = IF n \in Cards(always) THEN a \cup {n} ELSE a
      /\ e' = IF n \in Cards(ever) THEN e \cup {n} ELSE e
  BY <1>1 DEF Cards
<1>6. /\ Cardinality(a) <= usable /\ usable <= Cardinality(e)
      /\ Cardinality(a) \in Nat /\ Cardinality(e) \in Nat
      /\ IsFiniteSet(a) /\ IsFiniteSet(e)
  BY <1>2, <1>3, Counting DEF Tried
<1> HIDE DEF a, e
<1>7. Cardinality(a \cup {n}) = Cardinality(a) + 1 /\ Cardinality(e \cup {n}) = Cardinality(e) + 1
  BY <1>4, <1>6, FS_AddElement
<1>8. Cardinality(a') <= usable' /\ usable' <= Cardinality(e')
  BY <1>1, <1>2, <1>3, <1>5, <1>6, <1>7
<1>9. Tried'
  BY <1>2, <1>8 DEF Tried, a, e, Cards
<1>10. Between' /\ Truthful'
  BY <1>1, SameThere DEF QueryInv, Between, Truthful, Query!Truthful
<1> QED
  BY <1>1, <1>2, <1>9, <1>10 DEF QueryInv

LEMMA CountedAnswers ==
  ASSUME QueryInv, pc \in {"probe", "poll"}, pc' = pc, Query!Counted
  PROVE  QueryInv'
<1>1. /\ at = "try" /\ UNCHANGED <<dev, ctx, calm, ever, always>>
      /\ usable >= Cfg.iso7816_cards \/ todo = {}
  BY DEF Query!Counted, Query!seen
<1>2. /\ Tried /\ usable \in Nat /\ answer = "none" /\ Cfg.iso7816_cards \in Nat
      /\ "Iso7816" \in Query!Kinds /\ Query!Needed("Iso7816") = Cfg.iso7816_cards
  BY <1>1, Quotas DEF QueryInv, Tried
<1>3. /\ Cards(ever) \in SUBSET Names /\ Cards(always) \in SUBSET Names
      /\ Cards(ever) \ todo \in SUBSET Names
      /\ (\A k : Query!There(k)' = Query!There(k))
  BY <1>1, <1>2, SameThere DEF QueryInv, Between, Cards
<1>4. CASE usable < Cfg.iso7816_cards /\ Query!Answer("false")
  <2>1. at' = "idle" /\ todo' = {} /\ usable' = 0 /\ answer' = "false" /\ todo = {}
    BY <1>1, <1>2, <1>4 DEF Query!Answer
  <2>2. Cardinality(Cards(always)) < Cfg.iso7816_cards
    <3>1. Cards(always) \ todo = Cards(always)
      BY <2>1
    <3>2. Cardinality(Cards(always)) \in Nat
      BY <1>3, Counting
    <3> QED
      BY <1>2, <1>4, <3>1, <3>2 DEF Tried
  <2>3. Truthful'
    BY <1>1, <1>2, <2>1, <2>2, SameCount DEF Truthful, Query!Truthful, Cards
  <2>4. Between'
    BY <1>1, <2>1 DEF QueryInv, Between
  <2> QED
    BY <1>1, <2>1, <2>3, <2>4 DEF QueryInv
<1>5. CASE usable >= Cfg.iso7816_cards /\ at' = "count" /\ todo' = {} /\ UNCHANGED <<usable, answer>>
  <2>1. Cardinality(Cards(ever)) >= Cfg.iso7816_cards
    <3>1. /\ Cardinality(Cards(ever) \ todo) <= Cardinality(Cards(ever))
          /\ Cardinality(Cards(ever) \ todo) \in Nat /\ Cardinality(Cards(ever)) \in Nat
      BY <1>3, Counting
    <3> QED
      BY <1>2, <1>5, <3>1 DEF Tried
  <2>2. Between' /\ Truthful'
    BY <1>1, <1>2, <1>3, <1>5 DEF QueryInv, Between, Truthful, Query!Truthful
  <2> QED
    BY <1>1, <1>2, <1>5, <2>1, <2>2 DEF QueryInv, Cards
<1> QED
  BY <1>2, <1>4, <1>5 DEF Query!Counted

LEMMA PathsAnswers ==
  ASSUME QueryInv, pc \in {"probe", "poll"}, pc' = pc, Query!CountPaths
  PROVE  QueryInv'
<1>1. at = "count" /\ UNCHANGED <<dev, ctx, ever, always>>
  BY DEF Query!CountPaths, Query!seen
<1>2. PICK a \in {"true", "false", "Err"} :
        /\ Query!Answer(a)
        /\ a = "Err" => calm' = FALSE
        /\ a = "true" /\ Cfg.infnoise_devices > 0 =>
             ~ (Query!Cardinality(Query!Listed("Infnoise")) < Cfg.infnoise_devices)
        /\ a = "false" => /\ Cfg.infnoise_devices > 0
                          /\ Query!Cardinality(Query!Listed("Infnoise")) < Cfg.infnoise_devices
  BY DEF Query!CountPaths, Query!NoFault, Query!Fault
<1>3. at' = "idle" /\ todo' = {} /\ usable' = 0 /\ answer' = a
  BY <1>2 DEF Query!Answer
<1>4. Between'
  BY <1>1, <1>3 DEF QueryInv, Between
<1> DEFINE now == Query!Listed("Infnoise")
<1>5. Cfg.infnoise_devices > 0 =>
        /\ Cardinality(always["Infnoise"]) <= Cardinality(now)
        /\ Cardinality(now) <= Cardinality(ever["Infnoise"])
        /\ Cardinality(always["Infnoise"]) \in Nat /\ Cardinality(now) \in Nat
        /\ Cardinality(ever["Infnoise"]) \in Nat
        /\ Query!Cardinality(now) = Cardinality(now)
  <2> SUFFICES ASSUME Cfg.infnoise_devices > 0
               PROVE  /\ Cardinality(always["Infnoise"]) <= Cardinality(now)
                      /\ Cardinality(now) <= Cardinality(ever["Infnoise"])
                      /\ Cardinality(always["Infnoise"]) \in Nat /\ Cardinality(now) \in Nat
                      /\ Cardinality(ever["Infnoise"]) \in Nat
                      /\ Query!Cardinality(now) = Cardinality(now)
    OBVIOUS
  <2>1. "Infnoise" \in Query!Kinds /\ Query!There("Infnoise") = now
    BY Quotas DEF Query!There
  <2>2. /\ always["Infnoise"] \subseteq now /\ now \subseteq ever["Infnoise"]
        /\ always["Infnoise"] \in SUBSET Names /\ ever["Infnoise"] \in SUBSET Names
        /\ now \in SUBSET Names
    BY <1>1, <2>1, ThereFacts DEF QueryInv, Between
  <2> QED
    BY <2>2, Counting, SameCount
<1>6. a = "true" => \A k \in Query!Kinds : Cardinality(ever[k]) >= Query!Needed(k)
  <2>1. a = "true" /\ Cfg.infnoise_devices > 0 =>
          Cardinality(ever["Infnoise"]) >= Cfg.infnoise_devices
    BY <1>2, <1>5, Quotas
  <2>2. Cfg.iso7816_cards > 0 => Cardinality(ever["Iso7816"]) >= Cfg.iso7816_cards
    BY <1>1 DEF QueryInv, Cards
  <2> QED
    BY <2>1, <2>2, Quotas
<1>7. a = "false" => \E k \in Query!Kinds : Cardinality(always[k]) < Query!Needed(k)
  <2>1. a = "false" => /\ "Infnoise" \in Query!Kinds
                       /\ Cardinality(always["Infnoise"]) < Query!Needed("Infnoise")
    BY <1>2, <1>5, Quotas
  <2> QED
    BY <2>1
<1>8. Truthful'
  BY <1>1, <1>2, <1>3, <1>6, <1>7, SameCount DEF Truthful, Query!Truthful
<1> QED
  BY <1>1, <1>3, <1>4, <1>8 DEF QueryInv

LEMMA AsksAnswers == ASSUME QueryInv, Ask PROVE QueryInv'
<1>1. pc \in {"probe", "poll"} /\ pc' = pc
  BY DEF Ask, clientvars
<1> QED
  BY <1>1, BeginAnswers, ListAnswers, TryAnswers, CountedAnswers, PathsAnswers DEF Ask, Query!Step

LEMMA StepsAnswer == ASSUME QueryInv, [Next]_vars PROVE QueryInv'
<1>1. CASE LoadModule \/ InstallSignals \/ Sleep \/ Tick \/ Interrupt \/ Ended \/ UNCHANGED vars
  <2>1. UNCHANGED queryvars
    BY <1>1 DEF LoadModule, InstallSignals, Sleep, Tick, Interrupt, Ended, vars
  <2>2. \/ pc' = pc
        \/ pc = "load" /\ pc' = "start"
        \/ pc \in {"install", "sleep"} /\ pc' = "poll"
        \/ pc' = "exited"
    BY <1>1 DEF LoadModule, Load, InstallSignals, Install, Sleep, Tick, Interrupt, Signal, Ended,
       GoTo, Exit, vars, clientvars
  <2> QED
    BY <2>1, <2>2, QueryStays DEF QueryInv
<1>2. CASE GlobalInit \/ Finalize
  <2>1. /\ pc \in {"start", "finalize"} /\ at = "idle" /\ answer = "none"
        /\ UNCHANGED <<at, todo, usable, answer, ever, always>>
        /\ \/ pc' = "probe" /\ ctx' = (IF Cfg.iso7816_cards > 0 THEN "fresh" ELSE "none")
           \/ pc' = "exited" /\ ctx' \in {ctx, "none"}
    BY <1>2 DEF GlobalInit, Finalize, GoTo, Exit, QueryInv, call, seen
  <2>2. Truthful' /\ Between'
    BY <2>1 DEF Truthful, Query!Truthful, QueryInv, Between
  <2> QED
    BY <2>1, <2>2 DEF QueryInv
<1>3. CASE Initialized \/ Judge
  <2>1. /\ at = "idle" /\ answer' = "none" /\ UNCHANGED <<at, todo, usable>> /\ Query!Unseen
        /\ pc \in {"probe", "poll"}
        /\ \/ pc' \in {"install", "finalize", "sleep"} /\ UNCHANGED ctx
           \/ pc' = "exited" /\ ctx' = "none"
    BY <1>3 DEF Initialized, Judge, Answered, Taken, GoTo, Exit
  <2>2. /\ ctx' \in {"none", "fresh", "stale"}
        /\ pc' \in {"probe", "install", "poll", "sleep"} /\ Cfg.iso7816_cards > 0 => ctx' # "none"
    BY <2>1 DEF QueryInv
  <2> QED
    BY <2>1, <2>2, QueryTaken
<1> QED
  BY <1>1, <1>2, <1>3, AsksAnswers, WorldAnswers DEF Next, Step

(* Whatever comes and goes during a query, true means that enough cards    *)
(* opened and enough nodes existed in its course, and false that some were *)
(* missing in it (pool::fillable).                                         *)
THEOREM AnswersTruthful == Spec => []Truthful
<1>1. QueryInv => Truthful
  BY DEF QueryInv
<1>2. Spec => []QueryInv
  BY InitAnswers, StepsAnswer, PTL DEF Spec
<1> QED
  BY <1>1, <1>2, PTL

(***************************************************************************)
(* Types.  What ClockInv and EndInv do not say already: what the tool      *)
(* holds of the module, and the state of the query.                        *)
(***************************************************************************)
Typed ==
  /\ initialized \in BOOLEAN /\ session \in BOOLEAN /\ installed \in BOOLEAN
  /\ signals \in 0 .. 2 /\ (pc # "exited" => signals < 2)
  /\ timeout \in Timeouts /\ Query!TypeOK

LEMMA InitTyped == Init => Typed
<1> SUFFICES ASSUME Init PROVE Typed
  OBVIOUS
<1>1. Query!Idle /\ ctx = "none"
  BY DEF Init
<1>2. /\ dev \in [Query!Kinds -> [Names -> Query!DevState]] /\ calm = TRUE
      /\ faults = 0 /\ usable = 0 /\ at = "idle" /\ todo = {} /\ answer = "none"
      /\ ever \in [Query!Kinds -> SUBSET Names] /\ always = ever
  BY <1>1 DEF Query!Idle
<1>3. faults \in 0 .. MaxFaults /\ usable \in 0 .. Cfg.iso7816_cards
  BY <1>2, WaiterAssumption, Quotas
<1>4. Query!TypeOK
  BY <1>1, <1>2, <1>3 DEF Query!TypeOK
<1>5. /\ initialized = FALSE /\ session = FALSE /\ installed = FALSE
      /\ signals = 0 /\ timeout \in Timeouts
  BY DEF Init, ClientInit
<1>6. initialized \in BOOLEAN /\ session \in BOOLEAN /\ installed \in BOOLEAN
  BY <1>5
<1>7. signals \in 0 .. 2 /\ signals < 2
  BY <1>5
<1> QED
  BY <1>4, <1>5, <1>6, <1>7 DEF Typed

(* Events are counted up to their bound.                                   *)
LEMMA EventTyped ==
  ASSUME faults \in 0 .. MaxFaults, calm \in BOOLEAN, Query!Fault \/ Query!NoFault
  PROVE  faults' \in 0 .. MaxFaults /\ calm' \in BOOLEAN
<1>1. CASE Query!NoFault
  BY <1>1 DEF Query!NoFault
<1>2. CASE Query!Fault
  <2>1. faults < MaxFaults /\ faults' = faults + 1 /\ calm' = FALSE
    BY <1>2 DEF Query!Fault
  <2>2. faults' \in 0 .. MaxFaults
    BY <2>1, WaiterAssumption
  <2> QED
    BY <2>1, <2>2
<1> QED
  BY <1>1, <1>2

(* The histories hold names.                                               *)
LEMMA HistoryTyped ==
  ASSUME Query!TypeOK, Query!Step \/ Query!World \/ Query!Unseen \/ UNCHANGED seen
  PROVE  ever' \in [Query!Kinds -> SUBSET Names] /\ always' \in [Query!Kinds -> SUBSET Names]
<1>1. ever \in [Query!Kinds -> SUBSET Names] /\ always \in [Query!Kinds -> SUBSET Names]
  BY DEF Query!TypeOK
<1>2. \A k : Query!There(k) \in SUBSET Names /\ Query!There(k)' \in SUBSET Names
  BY DEF Query!There, Query!Listed
<1>3. CASE Query!Begin
  BY <1>2, <1>3 DEF Query!Begin
<1>4. CASE Query!ListReaders
  <2>1. ever' = ever /\ (always' = always \/ always' = [always EXCEPT !["Iso7816"] = {}])
    BY <1>4 DEF Query!ListReaders
  <2> QED
    BY <1>1, <2>1
<1>5. CASE (\E n \in Names : Query!TryReader(n)) \/ Query!Counted \/ Query!CountPaths
  BY <1>1, <1>5 DEF Query!TryReader, Query!Counted, Query!CountPaths, Query!seen
<1>6. CASE Query!World
  <2>1. Query!Watched
    BY <1>6 DEF Query!World, Query!Restart, Query!Change
  <2> QED
    BY <1>1, <1>2, <2>1 DEF Query!Watched, Query!seen
<1>7. CASE Query!Unseen \/ UNCHANGED seen
  BY <1>1, <1>7 DEF Query!Unseen, seen
<1> QED
  BY <1>3, <1>4, <1>5, <1>6, <1>7 DEF Query!Step

(* A step of the query keeps the query typed.                              *)
LEMMA QueryTyped ==
  ASSUME Query!TypeOK, Query!Step \/ Query!World
  PROVE  Query!TypeOK'
<1> USE Quotas, HistoryTyped DEF Query!TypeOK
<1>1. CASE Query!Begin
  BY <1>1 DEF Query!Begin
<1>2. CASE Query!ListReaders
  <2>1. todo' \subseteq Names /\ at' \in {"idle", "try"} /\ UNCHANGED <<dev, ctx>>
    BY <1>2 DEF Query!ListReaders, Query!Readers, Query!Answer, Query!Listed
  <2>2. usable' \in 0 .. Cfg.iso7816_cards /\ answer' \in {"none", "true", "false", "Err"}
    BY <1>2 DEF Query!ListReaders, Query!Readers, Query!Answer
  <2>3. faults' \in 0 .. MaxFaults /\ calm' \in BOOLEAN
    <3>1. Query!Fault \/ Query!NoFault
      BY <1>2 DEF Query!ListReaders
    <3> QED
      BY <3>1, EventTyped
  <2> QED
    BY <2>1, <2>2, <2>3
<1>3. ASSUME NEW n \in Names, Query!TryReader(n) PROVE Query!TypeOK'
  <2>1. usable' \in 0 .. Cfg.iso7816_cards
    BY <1>3 DEF Query!TryReader
  <2> QED
    BY <1>3, <2>1 DEF Query!TryReader
<1>4. CASE Query!Counted
  BY <1>4 DEF Query!Counted, Query!Answer
<1>5. CASE Query!CountPaths
  <2>1. Query!Fault \/ Query!NoFault
    BY <1>5 DEF Query!CountPaths
  <2>2. /\ at' = "idle" /\ todo' = {} /\ usable' = 0 /\ answer' \in {"true", "false", "Err"}
        /\ UNCHANGED <<dev, ctx>>
    BY <1>5 DEF Query!CountPaths, Query!Answer
  <2> QED
    BY <2>1, <2>2, EventTyped, Quotas
<1>6. CASE Query!Restart
  <2>1. Query!Fault /\ ctx' = "stale" /\ UNCHANGED <<dev, at, todo, usable, answer>>
    BY <1>6 DEF Query!Restart, Query!call
  <2> QED
    BY <2>1, EventTyped
<1>7. ASSUME NEW k \in Query!Kinds, NEW n \in Names, NEW s \in Query!DevState, Query!Change(k, n, s)
      PROVE  Query!TypeOK'
  <2>1. dev' \in [Query!Kinds -> [Names -> Query!DevState]]
    BY <1>7 DEF Query!Change
  <2>2. faults' \in 0 .. MaxFaults /\ calm' \in BOOLEAN
    BY <1>7, EventTyped DEF Query!Change
  <2> QED
    BY <1>7, <2>1, <2>2 DEF Query!Change, Query!call
<1> QED
  BY <1>1, <1>2, <1>3, <1>4, <1>5, <1>6, <1>7 DEF Query!Step, Query!World

LEMMA StepsTyped == ASSUME Typed, EndInv, [Next]_vars PROVE Typed'
<1>1. CASE LoadModule \/ Tick \/ InstallSignals \/ Sleep \/ Ended \/ UNCHANGED vars
  <2>1. UNCHANGED <<queryvars, timeout, initialized, session>>
    BY <1>1 DEF LoadModule, Load, Tick, InstallSignals, Install, Sleep, Ended, vars, clientvars,
       modvars, clock
  <2>2. Query!TypeOK'
    BY <2>1 DEF Typed, queryvars, call, seen, Query!TypeOK
  <2>3. /\ installed' \in BOOLEAN
        /\ signals' = 0 \/ (signals' = signals /\ (pc = "exited" => pc' = "exited"))
    BY <1>1 DEF Typed, LoadModule, Load, Tick, InstallSignals, Install, Sleep, Ended, vars,
       clientvars, sigvars
  <2> QED
    BY <2>1, <2>2, <2>3 DEF Typed
<1>2. CASE Interrupt
  <2>1. UNCHANGED <<queryvars, timeout, initialized, session, installed>>
    BY <1>2 DEF Interrupt, Signal, modvars, clock
  <2>2. Query!TypeOK'
    BY <2>1 DEF Typed, queryvars, call, seen, Query!TypeOK
  <2>3. signals' \in 0 .. 2 /\ (pc' # "exited" => signals' < 2)
    BY <1>2 DEF Interrupt, Signal, Exit, Typed
  <2> QED
    BY <2>1, <2>2, <2>3 DEF Typed
<1>3. CASE Ask \/ World
  <2>1. UNCHANGED <<clientvars, timeout>>
    BY <1>3 DEF Ask, World, clock
  <2>2. Query!TypeOK'
    BY <1>3, QueryTyped DEF Ask, World, Typed
  <2> QED
    BY <2>1, <2>2 DEF Typed, clientvars, modvars, sigvars
<1>4. CASE GlobalInit \/ Initialized \/ Judge \/ Finalize
  <2>1. /\ UNCHANGED <<timeout, installed, signals, dev, faults, calm, at, todo, usable>>
        /\ pc # "exited"
    BY <1>4 DEF GlobalInit, Initialized, Judge, Finalize, Taken, sigvars, clock, call
  <2>2. /\ initialized' \in BOOLEAN /\ session' \in BOOLEAN
        /\ ctx' \in {"none", "fresh", "stale"} /\ answer' \in {"none", answer}
    BY <1>4 DEF GlobalInit, Initialized, Judge, Finalize, Finalized, Taken, modvars, call,
       Typed, Query!TypeOK
  <2>3. ever' \in [Query!Kinds -> SUBSET Names] /\ always' \in [Query!Kinds -> SUBSET Names]
    <3>1. Query!Unseen \/ UNCHANGED seen
      BY <1>4 DEF GlobalInit, Initialized, Judge, Finalize, Taken
    <3> QED
      BY <3>1, HistoryTyped DEF Typed
  <2>4. Query!TypeOK'
    BY <2>1, <2>2, <2>3 DEF Typed, Query!TypeOK
  <2> QED
    BY <2>1, <2>2, <2>4 DEF Typed
<1> QED
  BY <1>1, <1>2, <1>3, <1>4 DEF Next, Step

(* Every variable has its type, for any interval and any timeout.          *)
THEOREM TypeCorrect == Spec => []TypeOK
<1>1. Typed /\ ClockInv /\ EndInv => TypeOK
  BY DEF Typed, ClockInv, EndInv, TypeOK, ClientTypeOK, SettingUp, Places
<1>2. Typed /\ ClockInv /\ EndInv /\ [Next]_vars => Typed'
  BY StepsTyped
<1> QED
  BY <1>1, <1>2, InitTyped, Endings, PTL DEF Spec
=============================================================================
