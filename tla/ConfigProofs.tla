---------------------------- MODULE ConfigProofs -----------------------------
(***************************************************************************)
(* The three properties of a configuration, for whatever configurations    *)
(* builds are given: the runs can only try small numbers.                                *)
(***************************************************************************)
EXTENDS Builds, TLAPS

(* Builds are given configurations.                                       *)
LEMMA AlwaysGiven == Spec => [](cfg \in Configs)
<1>1. Init => cfg \in Configs
  BY BuildsAssumption DEF Init
<1>2. cfg \in Configs /\ [Next]_cfg => (cfg \in Configs)'
  BY BuildsAssumption DEF Next
<1> QED
  BY <1>1, <1>2, PTL DEF Spec

LEMMA Numbers ==
  ASSUME NEW c \in Configs
  PROVE  /\ c.iso7816_cards \in Nat /\ c.infnoise_devices \in Nat
         /\ c.iso7816_input_bytes \in Nat /\ c.infnoise_input_bytes \in Nat
  BY DEF Configs

(* Bytes of a tick are 32: of a legal amount, the fetches.                 *)
LEMMA Fetches ==
  ASSUME NEW b \in Nat, Whole(b)
  PROVE  b \div TickBytes \in Nat \ {0} /\ (b > 32 <=> b \div TickBytes # 1)
  BY DEF Whole, TickBytes

(* build.rs accepts what Config::validate accepts, and logs the mode that  *)
(* Pool::read will be in.                                                  *)
LEMMA SameRules ==
  ASSUME NEW c \in Configs
  PROVE  /\ BuildAccepts(c) <=> Validate(c)
         /\ BuildUseChain(c) <=> UseChain(c)
<1>1. BuildAccepts(c) <=> Validate(c)
  BY Numbers DEF BuildAccepts, Validate, PoolSize, Whole
<1>2. BuildUseChain(c) <=> UseChain(c)
  BY Numbers DEF BuildUseChain, UseChain, PoolSize, IsoOversampled, InfOversampled
<1> QED
  BY <1>1, <1>2

(* No build bakes in a configuration that Pool::open would refuse, or logs *)
(* a mode it will not be in, however its four numbers are chosen.          *)
THEOREM BuildIsConfig == Spec => []BuildAgrees
<1>1. cfg \in Configs => BuildAgrees
  BY SameRules DEF BuildAgrees
<1> QED
  BY <1>1, AlwaysGiven, PTL

(* What slots there are and what each of them owes.                        *)
LEMMA Owed ==
  ASSUME NEW c \in Configs, Validate(c)
  PROVE  /\ Slots(c) = 0 .. (c.iso7816_cards + c.infnoise_devices) - 1 /\ 0 \in Slots(c)
         /\ \A i \in Slots(c) :
              /\ i < c.iso7816_cards => SlotTicks(c, i) = c.iso7816_input_bytes \div TickBytes
              /\ i >= c.iso7816_cards => SlotTicks(c, i) = c.infnoise_input_bytes \div TickBytes
<1>1. Slots(c) = 0 .. (c.iso7816_cards + c.infnoise_devices) - 1
  BY DEF Slots, PoolSize
<1>2. 0 \in Slots(c)
  BY <1>1, Numbers DEF Validate, PoolSize
<1>3. \A i \in Slots(c) :
        /\ i < c.iso7816_cards => SlotTicks(c, i) = c.iso7816_input_bytes \div TickBytes
        /\ i >= c.iso7816_cards => SlotTicks(c, i) = c.infnoise_input_bytes \div TickBytes
  BY <1>1, Numbers DEF SlotTicks
<1> QED
  BY <1>1, <1>2, <1>3

(* A configuration is raw if it asks for one source and one fetch.         *)
LEMMA RawFetch ==
  ASSUME NEW c \in Configs, Validate(c)
  PROVE  ~ UseChain(c) <=> \A i, j \in Slots(c) : i = j /\ SlotTicks(c, i) = 1
<1> DEFINE m == c.iso7816_cards
           n == c.infnoise_devices
           f == c.iso7816_input_bytes \div TickBytes
           g == c.infnoise_input_bytes \div TickBytes
<1>1. m \in Nat /\ n \in Nat /\ m + n >= 1
  BY Numbers DEF Validate, PoolSize
<1>2. /\ m > 0 => f \in Nat \ {0} /\ (c.iso7816_input_bytes > 32 <=> f # 1)
      /\ n > 0 => g \in Nat \ {0} /\ (c.infnoise_input_bytes > 32 <=> g # 1)
  BY Numbers, Fetches DEF Validate
<1>3. UseChain(c) <=> m + n > 1 \/ (m > 0 /\ f # 1) \/ (n > 0 /\ g # 1)
  BY <1>2 DEF UseChain, PoolSize, IsoOversampled, InfOversampled
<1>4. /\ Slots(c) = 0 .. (m + n) - 1 /\ 0 \in Slots(c)
      /\ \A i \in Slots(c) : (i < m => SlotTicks(c, i) = f) /\ (i >= m => SlotTicks(c, i) = g)
  BY Owed
<1> HIDE DEF m, n, f, g
<1>5. ASSUME ~ UseChain(c), NEW i \in Slots(c), NEW j \in Slots(c)
      PROVE  i = j /\ SlotTicks(c, i) = 1
  <2>1. m + n = 1 /\ i = 0 /\ j = 0
    BY <1>1, <1>3, <1>4, <1>5
  <2> QED
    BY <1>1, <1>3, <1>4, <1>5, <2>1
<1>6. ASSUME \A i, j \in Slots(c) : i = j /\ SlotTicks(c, i) = 1
      PROVE  ~ UseChain(c)
  <2>1. ~ (m + n > 1)
    <3>1. m + n > 1 => 1 \in Slots(c)
      BY <1>1, <1>4
    <3> QED
      BY <1>4, <1>6, <3>1
  <2>2. SlotTicks(c, 0) = 1
    BY <1>4, <1>6
  <2> QED
    BY <1>1, <1>3, <1>4, <2>1, <2>2
<1> QED
  BY <1>5, <1>6

(* Raw passthrough is for one source and one fetch, and only then: nobody  *)
(* who configured more sources or more input gets bytes past the chain.    *)
THEOREM RawIsOneFetch == Spec => []RawIffOneFetch
<1>1. cfg \in Configs => RawIffOneFetch
  BY RawFetch DEF RawIffOneFetch
<1> QED
  BY <1>1, AlwaysGiven, PTL

(* Every slot owes a fetch to the first tick, and one to the last.         *)
LEMMA TightLoop ==
  ASSUME NEW c \in Configs, Validate(c)
  PROVE  /\ \A i \in Slots(c) : SlotTicks(c, i) \in 1 .. MaxTicks(c)
         /\ \E i \in Slots(c) : SlotTicks(c, i) = MaxTicks(c)
<1> DEFINE m == c.iso7816_cards
           n == c.infnoise_devices
           f == c.iso7816_input_bytes \div TickBytes
           g == c.infnoise_input_bytes \div TickBytes
           p == IF m > 0 THEN f ELSE 0
           q == IF n > 0 THEN g ELSE 0
<1>1. m \in Nat /\ n \in Nat /\ m + n >= 1
  BY Numbers DEF Validate, PoolSize
<1>2. /\ m > 0 => f \in Nat \ {0}
      /\ n > 0 => g \in Nat \ {0}
  BY Numbers, Fetches DEF Validate
<1>3. MaxTicks(c) = IF p >= q THEN p ELSE q
  BY DEF MaxTicks
<1>4. /\ Slots(c) = 0 .. (m + n) - 1
      /\ \A i \in Slots(c) : (i < m => SlotTicks(c, i) = f) /\ (i >= m => SlotTicks(c, i) = g)
  BY Owed
<1>5. p \in Nat /\ q \in Nat /\ (m > 0 => p = f /\ p >= 1) /\ (n > 0 => q = g /\ q >= 1)
      /\ (m = 0 => p = 0) /\ (n = 0 => q = 0)
  BY <1>1, <1>2
<1> HIDE DEF m, n, f, g, p, q
<1>6. ASSUME NEW i \in Slots(c) PROVE SlotTicks(c, i) \in 1 .. MaxTicks(c)
  <2>1. CASE i < m
    BY <1>1, <1>3, <1>4, <1>5, <2>1
  <2>2. CASE i >= m
    BY <1>1, <1>3, <1>4, <1>5, <2>2
  <2> QED
    BY <1>1, <1>4, <2>1, <2>2
<1>7. \E i \in Slots(c) : SlotTicks(c, i) = MaxTicks(c)
  <2>1. CASE p >= q
    <3>1. m > 0 /\ 0 \in Slots(c)
      BY <1>1, <1>4, <1>5, <2>1
    <3>2. SlotTicks(c, 0) = MaxTicks(c)
      BY <1>1, <1>3, <1>4, <1>5, <2>1, <3>1
    <3> QED
      BY <3>1, <3>2
  <2>2. CASE ~ (p >= q)
    <3>1. n > 0 /\ m \in Slots(c)
      BY <1>1, <1>4, <1>5, <2>2
    <3>2. SlotTicks(c, m) = MaxTicks(c)
      BY <1>1, <1>3, <1>4, <1>5, <2>2, <3>1
    <3> QED
      BY <3>1, <3>2
  <2> QED
    BY <2>1, <2>2
<1> QED
  BY <1>6, <1>7

(* The round loop ends with the last slot that owes a fetch, and leaves no *)
(* slot out.                                                               *)
THEOREM LoopIsTight == Spec => []TicksTight
<1>1. cfg \in Configs => TicksTight
  BY TightLoop DEF TicksTight
<1> QED
  BY <1>1, AlwaysGiven, PTL
=============================================================================
