----------------------------- MODULE PoolRounds -----------------------------
(***************************************************************************)
(* Proofs about the rounds of Pool: what is mixed into one, and that the   *)
(* pool is an EntropyChain to its caller, for every configuration, every   *)
(* set of devices and every sequence of failures.                          *)
(***************************************************************************)
EXTENDS PoolProofs

(***************************************************************************)
(* A part of a round, as a predicate on the fetches mixed in so far.       *)
(***************************************************************************)
(* Fetch (t, i) comes before fetch (tk, ix) in E_round.                    *)
Sooner(t, i, tk, ix) == t < tk \/ (t = tk /\ i < ix)

(* A fetch absorbed before (tk, ix); if in this tick, then from the device *)
(* its slot still has (s: the slots).                                      *)
Early(f, s, tk, ix) ==
  /\ f.tick < SlotTicks(Cfg, f.slot)
  /\ Sooner(f.tick, f.slot, tk, ix)
  /\ f.tick = tk => f.name = s[f.slot].name

Covered(e, t, i) == \E p \in DOMAIN e : e[p].tick = t /\ e[p].slot = i

(* e is E_round of attempt a up to, and without, fetch (tk, ix).           *)
Part(e, s, tk, ix, a) ==
  /\ e \in Seq(Fetch)
  /\ InOrder(e) /\ FetchedFor(a, e) /\ DistinctSources(Cfg, e)
  /\ \A p \in DOMAIN e : Early(e[p], s, tk, ix)
  /\ \A t \in 0 .. MaxTicks(Cfg) - 1, i \in Slot :
       Owes(i, t) /\ Sooner(t, i, tk, ix) => Covered(e, t, i)

(***************************************************************************)
(* Facts about sequences and fetches                                       *)
(***************************************************************************)
LEMMA SeqFacts ==
  ASSUME NEW S, NEW e \in Seq(S)
  PROVE  /\ Len(e) \in Nat /\ DOMAIN e = 1 .. Len(e)
         /\ \A p \in DOMAIN e : e[p] \in S
  OBVIOUS

LEMMA AppendFacts ==
  ASSUME NEW S, NEW e \in Seq(S), NEW f \in S
  PROVE  /\ Append(e, f) \in Seq(S)
         /\ DOMAIN Append(e, f) = 1 .. Len(e) + 1
         /\ \A p \in 1 .. Len(e) : Append(e, f)[p] = e[p]
         /\ Append(e, f)[Len(e) + 1] = f
  OBVIOUS

(* The fetches after an append: the old ones, and the new one last.        *)
LEMMA AppendCases ==
  ASSUME NEW S, NEW e \in Seq(S), NEW f \in S
  PROVE  /\ Append(e, f) \in Seq(S)
         /\ \A p \in DOMAIN e : p \in DOMAIN Append(e, f) /\ Append(e, f)[p] = e[p]
         /\ \A p \in DOMAIN Append(e, f) :
              (p \in DOMAIN e /\ Append(e, f)[p] = e[p]) \/ Append(e, f)[p] = f
         /\ \A p, q \in DOMAIN Append(e, f) :
              p < q => p \in DOMAIN e /\ Append(e, f)[p] = e[p]
         /\ \E p \in DOMAIN Append(e, f) : Append(e, f)[p] = f
<1>1. Len(e) \in Nat /\ DOMAIN e = 1 .. Len(e)
  BY SeqFacts
<1>2. /\ Append(e, f) \in Seq(S) /\ DOMAIN Append(e, f) = 1 .. Len(e) + 1
      /\ \A p \in 1 .. Len(e) : Append(e, f)[p] = e[p]
      /\ Append(e, f)[Len(e) + 1] = f
  BY AppendFacts
<1>3. /\ \A p \in 1 .. Len(e) + 1 : p \in 1 .. Len(e) \/ p = Len(e) + 1
      /\ \A p \in 1 .. Len(e) : p \in 1 .. Len(e) + 1
      /\ \A p, q \in 1 .. Len(e) + 1 : p < q => p \in 1 .. Len(e)
      /\ Len(e) + 1 \in 1 .. Len(e) + 1
  BY <1>1
<1>4. ASSUME NEW p \in DOMAIN Append(e, f)
      PROVE  (p \in DOMAIN e /\ Append(e, f)[p] = e[p]) \/ Append(e, f)[p] = f
  BY <1>1, <1>2, <1>3
<1>5. ASSUME NEW p \in DOMAIN Append(e, f), NEW q \in DOMAIN Append(e, f), p < q
      PROVE  p \in DOMAIN e /\ Append(e, f)[p] = e[p]
  BY <1>1, <1>2, <1>3, <1>5
<1>6. \E p \in DOMAIN Append(e, f) : Append(e, f)[p] = f
  BY <1>1, <1>2, <1>3
<1> QED
  BY <1>1, <1>2, <1>3, <1>4, <1>5, <1>6

LEMMA FetchFacts ==
  ASSUME NEW f \in Fetch
  PROVE  f.att \in Nat /\ f.tick \in Nat /\ f.slot \in Slot /\ f.slot \in Nat /\ f.name \in Names
  BY SizeFacts DEF Fetch

LEMMA PartFetches ==
  ASSUME NEW e \in Seq(Fetch)
  PROVE  \A p \in DOMAIN e :
           e[p] \in Fetch /\ e[p].tick \in Nat /\ e[p].slot \in Slot /\ e[p].slot \in Nat
  BY SeqFacts, FetchFacts

LEMMA TickOrder ==
  /\ \A t, i, ix, u \in Int : Sooner(t, i, u, ix) => Sooner(t, i, u, ix + 1)
  /\ \A t, i, ix, u \in Int : Sooner(t, i, u, ix + 1) => Sooner(t, i, u, ix) \/ (t = u /\ i = ix)
  /\ \A t, i, ix, u \in Int : ~ Sooner(u, ix, u, ix)
  BY DEF Sooner

(***************************************************************************)
(* How a part of a round grows                                             *)
(***************************************************************************)
LEMMA PartEmpty ==
  ASSUME NEW s, NEW a
  PROVE  Part(<<>>, s, 0, 0, a)
<1>1. <<>> \in Seq(Fetch) /\ DOMAIN <<>> = {}
  OBVIOUS
<1>2. \A t \in 0 .. MaxTicks(Cfg) - 1, i \in Slot : ~ Sooner(t, i, 0, 0)
  BY SizeFacts, TickFacts DEF Sooner
<1> QED
  BY <1>1, <1>2 DEF Part, InOrder, FetchedFor, DistinctSources

(* Only the devices of the slots already absorbed in this tick matter.     *)
LEMMA PartFrame ==
  ASSUME NEW e, NEW s, NEW s2, NEW tk \in Nat, NEW ix \in Nat, NEW a, Part(e, s, tk, ix, a),
         \A j \in Slot : j < ix => s2[j].name = s[j].name
  PROVE  Part(e, s2, tk, ix, a)
<1>1. e \in Seq(Fetch)
  BY DEF Part
<1>2. ASSUME NEW p \in DOMAIN e PROVE Early(e[p], s2, tk, ix)
  <2>1. e[p].tick \in Nat /\ e[p].slot \in Slot
    BY <1>1, PartFetches
  <2>2. Early(e[p], s, tk, ix)
    BY DEF Part
  <2>3. e[p].tick = tk => e[p].slot < ix
    BY <2>1, <2>2 DEF Early, Sooner
  <2> QED
    BY <2>1, <2>2, <2>3 DEF Early
<1> QED
  BY <1>2 DEF Part

(* A slot that owes nothing in this tick is passed over.                   *)
LEMMA PartSkip ==
  ASSUME NEW e, NEW s, NEW tk \in Nat, NEW ix \in Slot, NEW a, Part(e, s, tk, ix, a),
         ~ Owes(ix, tk)
  PROVE  Part(e, s, tk, ix + 1, a)
<1>1. e \in Seq(Fetch) /\ tk \in Int /\ ix \in Int
  BY SizeFacts DEF Part
<1>2. ASSUME NEW p \in DOMAIN e PROVE Early(e[p], s, tk, ix + 1)
  <2>1. e[p].tick \in Nat /\ e[p].slot \in Nat /\ Early(e[p], s, tk, ix)
    BY <1>1, PartFetches DEF Part
  <2> QED
    BY <1>1, <2>1, TickOrder DEF Early
<1>3. ASSUME NEW t \in 0 .. MaxTicks(Cfg) - 1, NEW i \in Slot, Owes(i, t), Sooner(t, i, tk, ix + 1)
      PROVE  Covered(e, t, i)
  <2>1. t \in Int /\ i \in Int
    BY SizeFacts, TickFacts
  <2>2. Sooner(t, i, tk, ix)
    BY <1>1, <1>3, <2>1, TickOrder
  <2> QED
    BY <1>3, <2>2 DEF Part
<1> QED
  BY <1>2, <1>3 DEF Part

(* The next tick begins: the names of this one no longer matter.           *)
LEMMA PartNextTick ==
  ASSUME NEW e, NEW s, NEW s2, NEW tk \in Nat, NEW a, Part(e, s, tk, PoolSize(Cfg), a)
  PROVE  Part(e, s2, tk + 1, 0, a)
<1>1. e \in Seq(Fetch)
  BY DEF Part
<1>2. ASSUME NEW p \in DOMAIN e PROVE Early(e[p], s2, tk + 1, 0)
  <2>1. e[p].tick \in Nat /\ e[p].slot \in Nat /\ Early(e[p], s, tk, PoolSize(Cfg))
    BY <1>1, PartFetches DEF Part
  <2>2. e[p].tick < tk + 1 /\ e[p].tick # tk + 1
    BY <2>1 DEF Early, Sooner
  <2> QED
    BY <2>1, <2>2 DEF Early, Sooner
<1>3. ASSUME NEW t \in 0 .. MaxTicks(Cfg) - 1, NEW i \in Slot, Owes(i, t), Sooner(t, i, tk + 1, 0)
      PROVE  Covered(e, t, i)
  <2>1. Sooner(t, i, tk, PoolSize(Cfg))
    BY <1>3, SizeFacts, TickFacts DEF Sooner
  <2> QED
    BY <1>3, <2>1 DEF Part
<1> QED
  BY <1>2, <1>3 DEF Part

(* The fetch of the next slot, from a device no other slot of its kind     *)
(* has, makes the part one longer.                                         *)
LEMMA PartAppend ==
  ASSUME NEW e, NEW s, NEW tk \in Nat, NEW ix \in Slot, NEW a, Part(e, s, tk, ix, a),
         NEW f \in Fetch, f.att = a, f.tick = tk, f.slot = ix, f.name = s[ix].name,
         Owes(ix, tk),
         \A j \in Slot : j # ix /\ KindOf(Cfg, j) = KindOf(Cfg, ix) => s[j].name # s[ix].name
  PROVE  Part(Append(e, f), s, tk, ix + 1, a)
<1>1. e \in Seq(Fetch) /\ tk \in Int /\ ix \in Int
  BY SizeFacts DEF Part
<1> DEFINE g == Append(e, f)
<1>2. /\ g \in Seq(Fetch)
      /\ \A p \in DOMAIN e : p \in DOMAIN g /\ g[p] = e[p]
      /\ \A p \in DOMAIN g : (p \in DOMAIN e /\ g[p] = e[p]) \/ g[p] = f
      /\ \A p, q \in DOMAIN g : p < q => p \in DOMAIN e /\ g[p] = e[p]
      /\ \E p \in DOMAIN g : g[p] = f
  BY <1>1, AppendCases
<1>3. \A p \in DOMAIN e :
        /\ e[p].tick \in Nat /\ e[p].slot \in Slot /\ e[p].slot \in Nat
        /\ Early(e[p], s, tk, ix)
  BY <1>1, PartFetches DEF Part
<1> HIDE DEF g
<1>4. InOrder(g)
  <2> SUFFICES ASSUME NEW p \in DOMAIN g, NEW q \in DOMAIN g, p < q
               PROVE  Before(g[p], g[q])
    BY DEF InOrder
  <2>1. p \in DOMAIN e /\ g[p] = e[p]
    BY <1>2
  <2>2. CASE q \in DOMAIN e /\ g[q] = e[q]
    BY <2>1, <2>2 DEF Part, InOrder
  <2>3. CASE g[q] = f
    BY <1>3, <2>1, <2>3 DEF Before, Early, Sooner
  <2> QED
    BY <1>2, <2>2, <2>3
<1>5. FetchedFor(a, g)
  BY <1>2 DEF Part, FetchedFor
<1>6. DistinctSources(Cfg, g)
  <2>1. ASSUME NEW p \in DOMAIN e, e[p].tick = tk, e[p].slot # ix,
               KindOf(Cfg, e[p].slot) = KindOf(Cfg, ix)
        PROVE  e[p].name # s[ix].name
    <3>1. e[p].slot \in Slot /\ e[p].name = s[e[p].slot].name
      BY <1>3, <2>1 DEF Early
    <3> QED
      BY <2>1, <3>1
  <2> SUFFICES ASSUME NEW p \in DOMAIN g, NEW q \in DOMAIN g,
                      g[p].tick = g[q].tick, g[p].slot # g[q].slot,
                      KindOf(Cfg, g[p].slot) = KindOf(Cfg, g[q].slot)
               PROVE  g[p].name # g[q].name
    BY DEF DistinctSources
  <2>2. CASE p \in DOMAIN e /\ g[p] = e[p] /\ q \in DOMAIN e /\ g[q] = e[q]
    BY <2>2 DEF Part, DistinctSources
  <2>3. CASE p \in DOMAIN e /\ g[p] = e[p] /\ g[q] = f
    BY <2>1, <2>3
  <2>4. CASE g[p] = f /\ q \in DOMAIN e /\ g[q] = e[q]
    BY <2>1, <2>4
  <2>5. CASE g[p] = f /\ g[q] = f
    BY <2>5
  <2> QED
    BY <1>2, <2>2, <2>3, <2>4, <2>5
<1>7. ASSUME NEW p \in DOMAIN g PROVE Early(g[p], s, tk, ix + 1)
  <2>1. CASE p \in DOMAIN e /\ g[p] = e[p]
    BY <1>1, <1>3, <2>1, TickOrder DEF Early
  <2>2. CASE g[p] = f
    BY <1>1, <2>2 DEF Early, Sooner, Owes
  <2> QED
    BY <1>2, <2>1, <2>2
<1>8. ASSUME NEW t \in 0 .. MaxTicks(Cfg) - 1, NEW i \in Slot, Owes(i, t), Sooner(t, i, tk, ix + 1)
      PROVE  Covered(g, t, i)
  <2>1. t \in Int /\ i \in Int
    BY SizeFacts, TickFacts
  <2>2. CASE Sooner(t, i, tk, ix)
    <3>1. Covered(e, t, i)
      BY <1>8, <2>2 DEF Part
    <3> QED
      BY <1>2, <3>1 DEF Covered
  <2>3. CASE t = tk /\ i = ix
    BY <1>2, <2>3 DEF Covered
  <2> QED
    BY <1>1, <1>8, <2>1, <2>2, <2>3, TickOrder
<1> QED
  BY <1>2, <1>4, <1>5, <1>6, <1>7, <1>8 DEF Part, g

(* A part that has come to its end is E_round.                             *)
LEMMA PartWhole ==
  ASSUME NEW e, NEW s, NEW a, Part(e, s, MaxTicks(Cfg) - 1, PoolSize(Cfg), a)
  PROVE  RoundEntropy(Cfg, a, e) /\ e # <<>> /\ e[1].att = a
<1>1. e \in Seq(Fetch)
  BY DEF Part
<1>2. \A p \in DOMAIN e :
        /\ e[p].tick \in 0 .. MaxTicks(Cfg) - 1 /\ e[p].slot \in Slot
        /\ e[p].tick < SlotTicks(Cfg, e[p].slot)
  <2> SUFFICES ASSUME NEW p \in DOMAIN e
               PROVE  /\ e[p].tick \in 0 .. MaxTicks(Cfg) - 1 /\ e[p].slot \in Slot
                      /\ e[p].tick < SlotTicks(Cfg, e[p].slot)
    OBVIOUS
  <2>1. e[p].tick \in Nat /\ e[p].slot \in Slot
    BY <1>1, PartFetches
  <2>2. Early(e[p], s, MaxTicks(Cfg) - 1, PoolSize(Cfg))
    BY DEF Part
  <2> QED
    BY <2>1, <2>2, TickFacts DEF Early, Sooner
<1>3. \A t \in 0 .. MaxTicks(Cfg) - 1, i \in Slot : Sooner(t, i, MaxTicks(Cfg) - 1, PoolSize(Cfg))
  BY SizeFacts, TickFacts DEF Sooner
<1>4. \A t \in 0 .. MaxTicks(Cfg) - 1, i \in Slot : Owes(i, t) => Covered(e, t, i)
  BY <1>3 DEF Part
<1>5. Complete(Cfg, e)
  <2>1. ASSUME NEW p \in DOMAIN e PROVE <<e[p].tick, e[p].slot>> \in Quota(Cfg)
    BY <1>2 DEF Quota, Slot
  <2>2. ASSUME NEW x \in Quota(Cfg) PROVE x \in {<<e[p].tick, e[p].slot>> : p \in DOMAIN e}
    <3>1. PICK t \in 0 .. MaxTicks(Cfg) - 1, i \in Slot : x = <<t, i>> /\ t < SlotTicks(Cfg, i)
      BY DEF Quota, Slot
    <3>2. Covered(e, t, i)
      BY <1>4, <3>1 DEF Owes
    <3> QED
      BY <3>1, <3>2 DEF Covered
  <2> QED
    BY <2>1, <2>2 DEF Complete
<1>6. e # <<>> /\ 1 \in DOMAIN e
  <2>1. 0 \in Slot /\ 0 \in 0 .. MaxTicks(Cfg) - 1
    BY SizeFacts, TickFacts
  <2>2. 0 < SlotTicks(Cfg, 0)
    BY PoolAssumption DEF Validate, PoolSize, Whole, Configs, SlotTicks, TickBytes
  <2>3. PICK p \in DOMAIN e : TRUE
    BY <1>4, <2>1, <2>2 DEF Owes, Covered
  <2> QED
    BY <1>1, <2>3, SeqFacts
<1>7. InOrder(e) /\ FetchedFor(a, e) /\ DistinctSources(Cfg, e)
  BY DEF Part
<1> QED
  BY <1>5, <1>6, <1>7 DEF RoundEntropy, FetchedFor

(***************************************************************************)
(* The inductive invariant                                                 *)
(***************************************************************************)
(* A call is between the fork of a tick and the end of its absorb loop, or *)
(* rebinding a slot for the raw passthrough.                               *)
InRound == pc \in {"fetch", "absorb"} \/ (pc \in {"scan", "retry"} /\ UseChain(Cfg))
InRaw   == pc \in {"raw", "rebind"} \/ (pc \in {"scan", "retry"} /\ ~ UseChain(Cfg))

FlowInv ==
  /\ pc \in {"none", "idle"} <=> result # "pending"
  /\ used <= att
  /\ InRaw => ~ UseChain(Cfg) /\ used < att
  /\ pc = "loop" => UseChain(Cfg)
  /\ InRound => UseChain(Cfg) /\ buf > 0 /\ used < att
  /\ ~ InRound => hState = Zero

Mixed == Absorbed(hState)

(* The two contexts hold the same part of a round.  What a worker left for *)
(* a slot not yet absorbed is of this tick and from the device the slot    *)
(* still has; a slot that is being rebound has nothing there.              *)
RoundOK ==
  /\ tick < MaxTicks(Cfg)
  /\ hState = <<SepState, state, Mixed>> /\ hOut = <<SepOut, state, Mixed>>
  /\ Part(Mixed, slots, tick, idx, att)
  /\ \A i \in Slot : i >= idx => scratch[i] \in {NoFetch, Fetched(i)}
  /\ pc = "fetch" => idx = 0
  /\ pc \in {"scan", "retry"} => Owes(idx, tick) /\ scratch[idx] = NoFetch

RoundInv == NamesInv /\ FlowInv /\ (InRound => RoundOK)

LEMMA HashFacts ==
  ASSUME NEW a, NEW b, NEW e, NEW f
  PROVE  /\ Absorbed(<<a, b, e>>) = e
         /\ Update(<<a, b, e>>, f) = <<a, b, Append(e, f)>>
         /\ <<a, b, e>> # Zero
         /\ Sha3(a, b) = <<b, a, <<>>>>
  BY DEF Absorbed, Update, Zero, Sha3

LEMMA PoolTypes ==
  ASSUME NamesInv
  PROVE  /\ tick \in Nat /\ idx \in 0 .. PoolSize(Cfg) /\ idx \in Nat
         /\ att \in Nat /\ used \in Nat /\ buf \in Nat
         /\ scratch \in [Slot -> FetchOrNone]
         /\ slots \in [Slot -> SlotRecord]
         /\ pc \in {"open", "rebind", "scan", "retry"} => idx \in Slot
  BY SizeFacts, PoolAssumption DEF NamesInv, TypeInv, TypeOK, SlotRecord

(***************************************************************************)
(* Where a call is                                                         *)
(***************************************************************************)
LEMMA FlowReturn ==
  ASSUME FlowInv, NEW r \in {"Ok"} \cup Errors, Return(r), used' <= att'
  PROVE  FlowInv'
<1>1. pc' = "idle" /\ result' = r /\ hState' = Zero
  BY DEF Return, DropLocals
<1>2. r # "pending"
  BY DEF Errors
<1> QED
  BY <1>1, <1>2 DEF FlowInv, InRound, InRaw

LEMMA FlowRebind ==
  ASSUME RoundInv, NEW i \in Slot, Rebind(i), InRound \/ InRaw, pc # "none", pc # "idle"
  PROVE  FlowInv'
<1>1. FlowInv /\ UNCHANGED <<buf, used, att>>
  BY DEF RoundInv, Rebind, callvars, hist
<1>2. CASE pc' = "scan" /\ UNCHANGED <<result, hState>>
  BY <1>1, <1>2 DEF FlowInv, InRound, InRaw
<1>3. CASE Return("Resource")
  BY <1>1, <1>3, FlowReturn DEF FlowInv, Errors
<1> QED
  BY <1>2, <1>3 DEF Rebind

LEMMA StepFlow == RoundInv /\ [Next]_vars => FlowInv'
<1> SUFFICES ASSUME RoundInv, [Next]_vars PROVE FlowInv'
  OBVIOUS
<1>0. FlowInv /\ NamesInv
  BY DEF RoundInv
<1>00. used \in Nat /\ att \in Nat /\ buf \in Nat
  BY <1>0, PoolTypes
<1>1. ASSUME BeginOpen PROVE FlowInv'
  BY <1>0, <1>1 DEF BeginOpen, hist, callvars, FlowInv, InRound, InRaw
<1>2. ASSUME OpenList PROVE FlowInv'
  <2>1. pc = "claim" /\ UNCHANGED <<buf, used, att>>
    BY <1>2 DEF OpenList, hist, callvars
  <2>2. CASE pc' = "open" /\ UNCHANGED <<result, hState>>
    BY <1>0, <2>1, <2>2 DEF FlowInv, InRound, InRaw
  <2>3. CASE OpenFails("Resource")
    BY <1>0, <2>1, <2>3 DEF OpenFails, DropLocals, FlowInv, InRound, InRaw
  <2> QED
    BY <1>2, <2>2, <2>3 DEF OpenList
<1>3. ASSUME NEW n \in Names, OpenTry(n) PROVE FlowInv'
  <2>1. pc = "open" /\ UNCHANGED <<buf, used, att, result, hState>>
    BY <1>3 DEF OpenTry, hist, callvars
  <2>2. pc' \in {"open", "claim"}
    BY <1>3 DEF OpenTry
  <2> QED
    BY <1>0, <2>1, <2>2 DEF FlowInv, InRound, InRaw
<1>4. ASSUME OpenExhausted PROVE FlowInv'
  BY <1>0, <1>4 DEF OpenExhausted, OpenFails, DropLocals, hist, callvars, FlowInv, InRound, InRaw
<1>5. ASSUME OpenDone PROVE FlowInv'
  BY <1>0, <1>5, FlowReturn DEF OpenDone, hist, FlowInv
<1>6. ASSUME Drop PROVE FlowInv'
  BY <1>0, <1>6 DEF Drop, rndvars, hist, callvars, FlowInv, InRound, InRaw
<1>7. ASSUME NEW n \in Lens, BeginRead(n) PROVE FlowInv'
  BY <1>0, <1>00, <1>7 DEF BeginRead, rndvars, FlowInv, InRound, InRaw
<1>8. ASSUME RawFill, pc \in {"raw", "retry"} PROVE FlowInv'
  BY <1>0, <1>00, <1>8, FlowReturn DEF RawFill
<1>9. ASSUME RawRead PROVE FlowInv'
  BY <1>8, <1>9 DEF RawRead
<1>10. ASSUME RawReadFails PROVE FlowInv'
  BY <1>0, <1>10 DEF RawReadFails, RawSpill, hist, FlowInv, InRound, InRaw
<1>11. ASSUME RawRetry PROVE FlowInv'
  BY <1>0, <1>8, <1>11, FlowReturn DEF RawRetry, hist, FlowInv, Errors
<1>12. ASSUME BeginRebind PROVE FlowInv'
  BY <1>0, <1>12, PoolTypes, FlowRebind DEF BeginRebind, InRaw
<1>13. ASSUME NEW n \in Names, RebindTry(n) PROVE FlowInv'
  <2>1. pc = "scan" /\ pc' \in {"scan", "retry"} /\ UNCHANGED <<buf, used, att, result, hState>>
    BY <1>13 DEF RebindTry, hist, callvars
  <2> QED
    BY <1>0, <2>1 DEF FlowInv, InRound, InRaw
<1>14. ASSUME RebindExhausted PROVE FlowInv'
  BY <1>0, <1>14, FlowReturn DEF RebindExhausted, hist, FlowInv, Errors
<1>15. ASSUME StartRound PROVE FlowInv'
  BY <1>0, <1>00, <1>15 DEF StartRound, StartTick, callvars, FlowInv, InRound, InRaw
<1>16. ASSUME Filled PROVE FlowInv'
  BY <1>0, <1>16, FlowReturn DEF Filled, hist, FlowInv
<1>17. ASSUME NEW i \in Slot, Worker(i) PROVE FlowInv'
  BY <1>0, <1>17 DEF Worker, hist, callvars, FlowInv, InRound, InRaw
<1>18. ASSUME Join PROVE FlowInv'
  BY <1>0, <1>18 DEF Join, rndvars, hist, callvars, FlowInv, InRound, InRaw
<1>19. ASSUME Skip PROVE FlowInv'
  BY <1>0, <1>19 DEF Skip, hist, callvars, FlowInv, InRound, InRaw
<1>20. ASSUME Absorb PROVE FlowInv'
  BY <1>0, <1>20 DEF Absorb, hist, callvars, FlowInv, InRound, InRaw
<1>21. ASSUME Recover PROVE FlowInv'
  BY <1>0, <1>21, FlowRebind DEF Recover, InRound
<1>22. ASSUME ChainRetry PROVE FlowInv'
  <2>1. pc = "retry" /\ UseChain(Cfg) /\ UNCHANGED <<buf, used, att>>
    BY <1>22 DEF ChainRetry, callvars, hist
  <2>2. CASE pc' = "absorb" /\ UNCHANGED <<result, hState>>
    BY <1>0, <2>1, <2>2 DEF FlowInv, InRound, InRaw
  <2>3. CASE Return("ReadFailure")
    BY <1>0, <2>1, <2>3, FlowReturn DEF FlowInv, Errors
  <2> QED
    BY <1>22, <2>2, <2>3 DEF ChainRetry
<1>23. ASSUME NextTick PROVE FlowInv'
  BY <1>0, <1>23 DEF NextTick, StartTick, hist, callvars, FlowInv, InRound, InRaw
<1>24. ASSUME Commit PROVE FlowInv'
  BY <1>0, <1>00, <1>24 DEF Commit, DropLocals, FlowInv, InRound, InRaw
<1>25. ASSUME NEW k \in Kinds, NEW n \in Names, NEW d \in DevState, Change(k, n, d) PROVE FlowInv'
  BY <1>0, <1>25 DEF Change, rndvars, hist, callvars, FlowInv, InRound, InRaw
<1>26. ASSUME UNCHANGED vars PROVE FlowInv'
  BY <1>0, <1>26 DEF vars, rndvars, hist, callvars, FlowInv, InRound, InRaw
<1> QED
  BY <1>1, <1>2, <1>3, <1>4, <1>5, <1>6, <1>7, <1>9, <1>10, <1>11, <1>12, <1>13, <1>14,
     <1>15, <1>16, <1>17, <1>18, <1>19, <1>20, <1>21, <1>22, <1>23, <1>24, <1>25, <1>26
  DEF Next, Step, Opening, Rebinding, Raw, Round

(***************************************************************************)
(* The round                                                               *)
(***************************************************************************)
(* Steps that leave the contexts alone, and change the device of no slot   *)
(* but one that waits for it.                                              *)
LEMMA RoundFrame ==
  ASSUME RoundInv, InRound, UNCHANGED <<state, hState, hOut, tick, idx, att, scratch>>,
         \A j \in Slot : slots'[j].name = slots[j].name \/ (j = idx /\ scratch[j] = NoFetch),
         pc' = "fetch" => pc = "fetch",
         pc' \in {"scan", "retry"} => Owes(idx, tick) /\ scratch[idx] = NoFetch
  PROVE  RoundOK'
<1>1. RoundOK /\ tick \in Nat /\ idx \in Nat
  BY PoolTypes DEF RoundInv
<1>2. Mixed' = Mixed
  BY DEF Mixed
<1>3. Part(Mixed, slots', tick, idx, att)
  <2>1. \A j \in Slot : j < idx => slots'[j].name = slots[j].name
    BY <1>1
  <2>2. Part(Mixed, slots, tick, idx, att)
    BY <1>1 DEF RoundOK
  <2> QED
    BY <1>1, <2>1, <2>2, PartFrame
<1>4. Part(Mixed, slots, tick, idx, att)'
  BY <1>2, <1>3
<1>5. \A i \in Slot : i >= idx => scratch[i] \in {NoFetch, Fetched(i)'}
  BY <1>1 DEF RoundOK, Fetched
<1> QED
  BY <1>1, <1>2, <1>4, <1>5 DEF RoundOK, Owes

LEMMA RoundStart ==
  ASSUME RoundInv, StartRound
  PROVE  RoundOK'
<1>1. /\ tick' = 0 /\ idx' = 0 /\ scratch' = NoScratch /\ pc' = "fetch"
      /\ hState' = Sha3(state, SepState) /\ hOut' = Sha3(state, SepOut) /\ state' = state
  BY DEF StartRound, StartTick
<1>2. hState' = <<SepState, state', <<>>>> /\ hOut' = <<SepOut, state', <<>>>>
  BY <1>1, HashFacts
<1>3. Mixed' = <<>>
  BY <1>2, HashFacts DEF Mixed
<1>4. Part(Mixed', slots', tick', idx', att')
  BY <1>1, <1>3, PartEmpty
<1>5. \A i \in Slot : scratch'[i] = NoFetch
  BY <1>1 DEF NoScratch
<1> QED
  BY <1>1, <1>2, <1>3, <1>4, <1>5, TickFacts DEF RoundOK

LEMMA RoundNextTick ==
  ASSUME RoundInv, NextTick
  PROVE  RoundOK'
<1>1. /\ tick' = tick + 1 /\ idx' = 0 /\ scratch' = NoScratch /\ pc' = "fetch"
      /\ UNCHANGED <<state, hState, hOut, att>>
      /\ idx = PoolSize(Cfg) /\ tick + 1 < MaxTicks(Cfg) /\ pc = "absorb"
  BY DEF NextTick, StartTick, hist
<1>2. RoundOK /\ tick \in Nat
  BY <1>1, PoolTypes DEF RoundInv, InRound
<1>3. Mixed' = Mixed
  BY <1>1 DEF Mixed
<1>4. Part(Mixed, slots, tick, PoolSize(Cfg), att)
  BY <1>1, <1>2 DEF RoundOK
<1>5. Part(Mixed, slots', tick + 1, 0, att)
  BY <1>2, <1>4, PartNextTick
<1>6. Part(Mixed, slots, tick, idx, att)'
  BY <1>1, <1>3, <1>5
<1>7. \A i \in Slot : scratch'[i] = NoFetch
  BY <1>1 DEF NoScratch
<1> QED
  BY <1>1, <1>2, <1>3, <1>6, <1>7 DEF RoundOK

LEMMA RoundWorker ==
  ASSUME RoundInv, NEW w \in Slot, Worker(w)
  PROVE  RoundOK'
<1>1. /\ pc = "fetch" /\ pc' = "fetch"
      /\ UNCHANGED <<state, hState, hOut, tick, idx, att, slots>>
      /\ scratch' \in {scratch, [scratch EXCEPT ![w] = Fetched(w)]}
  BY DEF Worker, hist
<1>2. RoundOK /\ scratch \in [Slot -> FetchOrNone]
  BY <1>1, PoolTypes DEF RoundInv, InRound
<1>3. Mixed' = Mixed /\ \A i \in Slot : Fetched(i)' = Fetched(i)
  BY <1>1 DEF Mixed, Fetched
<1>4. \A i \in Slot : scratch'[i] \in {scratch[i], Fetched(i)}
  BY <1>1, <1>2
<1>5. \A i \in Slot : i >= idx' => scratch'[i] \in {NoFetch, Fetched(i)'}
  BY <1>1, <1>2, <1>3, <1>4 DEF RoundOK
<1>6. Part(Mixed, slots, tick, idx, att)'
  BY <1>1, <1>2, <1>3 DEF RoundOK
<1> QED
  BY <1>1, <1>2, <1>3, <1>5, <1>6 DEF RoundOK

LEMMA RoundSkip ==
  ASSUME RoundInv, Skip
  PROVE  RoundOK'
<1>1. /\ pc = "absorb" /\ pc' = "absorb" /\ idx \in Slot /\ ~ Owes(idx, tick) /\ idx' = idx + 1
      /\ UNCHANGED <<state, hState, hOut, tick, att, slots, scratch>>
  BY DEF Skip, hist
<1>2. RoundOK /\ tick \in Nat /\ idx \in Nat
  BY <1>1, PoolTypes DEF RoundInv, InRound
<1>3. Mixed' = Mixed /\ \A i \in Slot : Fetched(i)' = Fetched(i)
  BY <1>1 DEF Mixed, Fetched
<1>4. Part(Mixed, slots, tick, idx + 1, att)
  BY <1>1, <1>2, PartSkip DEF RoundOK
<1>5. Part(Mixed, slots, tick, idx, att)'
  BY <1>1, <1>3, <1>4
<1>6. \A i \in Slot : i >= idx' => scratch'[i] \in {NoFetch, Fetched(i)'}
  BY <1>1, <1>2, <1>3, SizeFacts DEF RoundOK
<1> QED
  BY <1>1, <1>2, <1>3, <1>5, <1>6 DEF RoundOK

LEMMA RoundAbsorb ==
  ASSUME RoundInv, Absorb
  PROVE  RoundOK'
<1>1. /\ pc = "absorb" /\ pc' = "absorb" /\ idx \in Slot /\ Owes(idx, tick) /\ idx' = idx + 1
      /\ scratch[idx] # NoFetch
      /\ hOut' = Update(hOut, scratch[idx]) /\ hState' = Update(hState, scratch[idx])
      /\ UNCHANGED <<state, tick, att, slots, scratch>>
  BY DEF Absorb, hist
<1>2. RoundOK /\ tick \in Nat /\ idx \in Nat /\ NamesInv /\ scratch \in [Slot -> FetchOrNone]
  BY <1>1, PoolTypes DEF RoundInv, InRound
<1>3. scratch[idx] = Fetched(idx) /\ scratch[idx] \in Fetch
  BY <1>1, <1>2 DEF RoundOK, FetchOrNone
<1>4. /\ scratch[idx].att = att /\ scratch[idx].tick = tick
      /\ scratch[idx].slot = idx /\ scratch[idx].name = slots[idx].name
  BY <1>3 DEF Fetched
<1>5. \A j \in Slot : j # idx /\ KindOf(Cfg, j) = KindOf(Cfg, idx)
                        => slots[j].name # slots[idx].name
  <2>1. slots[idx].name # NoName
    BY <1>3, <1>4, FetchFacts, NameFacts
  <2> QED
    BY <1>1, <1>2, <2>1 DEF NamesInv, DistinctNames
<1> DEFINE g == Append(Mixed, scratch[idx])
<1>6. Part(g, slots, tick, idx + 1, att)
  <2>1. Part(Mixed, slots, tick, idx, att)
    BY <1>2 DEF RoundOK
  <2> QED
    BY <1>1, <1>2, <1>3, <1>4, <1>5, <2>1, PartAppend
<1>7. hState' = <<SepState, state, g>> /\ hOut' = <<SepOut, state, g>>
  <2>1. hState = <<SepState, state, Mixed>> /\ hOut = <<SepOut, state, Mixed>>
    BY <1>2 DEF RoundOK
  <2>2. /\ Update(<<SepState, state, Mixed>>, scratch[idx]) = <<SepState, state, g>>
        /\ Update(<<SepOut, state, Mixed>>, scratch[idx]) = <<SepOut, state, g>>
    BY DEF Update
  <2> QED
    BY <1>1, <2>1, <2>2
<1>8. Mixed' = g
  <2> HIDE DEF g
  <2> QED
    BY <1>7, HashFacts DEF Mixed
<1> HIDE DEF g
<1>9. Part(Mixed, slots, tick, idx, att)'
  BY <1>1, <1>6, <1>8
<1>10. \A i \in Slot : i >= idx' => scratch'[i] \in {NoFetch, Fetched(i)'}
  BY <1>1, <1>2, SizeFacts DEF RoundOK, Fetched
<1> QED
  BY <1>1, <1>2, <1>7, <1>8, <1>9, <1>10 DEF RoundOK

LEMMA RoundRecover ==
  ASSUME RoundInv, Recover, InRound'
  PROVE  RoundOK'
<1>1. /\ pc = "absorb" /\ idx \in Slot /\ Owes(idx, tick) /\ scratch[idx] = NoFetch
      /\ Rebind(idx)
  BY DEF Recover
<1>2. pc' # "idle"
  BY DEF InRound
<1>3. /\ pc' = "scan" /\ idx' = idx /\ UNCHANGED <<tick, scratch, hOut, hState>>
      /\ UNCHANGED <<state, att>> /\ slots' = [slots EXCEPT ![idx] = EmptySlot]
  BY <1>1, <1>2 DEF Rebind, Return, hist
<1>4. slots \in [Slot -> SlotRecord] /\ InRound
  BY <1>1, PoolTypes DEF RoundInv, InRound
<1>5. \A j \in Slot : slots'[j].name = slots[j].name \/ (j = idx /\ scratch[j] = NoFetch)
  BY <1>1, <1>3, <1>4
<1> QED
  BY <1>1, <1>3, <1>4, <1>5, RoundFrame

LEMMA RoundRebindTry ==
  ASSUME RoundInv, NEW n \in Names, RebindTry(n), InRound'
  PROVE  RoundOK'
<1>1. /\ pc = "scan" /\ pc' \in {"scan", "retry"}
      /\ UNCHANGED <<state, hState, hOut, tick, idx, att, scratch>>
      /\ slots' \in {slots, [slots EXCEPT ![idx] = Bound(n)]}
  BY DEF RebindTry, hist
<1>2. InRound
  BY <1>1 DEF InRound
<1>3. RoundOK /\ idx \in Slot /\ slots \in [Slot -> SlotRecord]
  BY <1>1, <1>2, PoolTypes DEF RoundInv
<1>4. Owes(idx, tick) /\ scratch[idx] = NoFetch
  BY <1>1, <1>3 DEF RoundOK
<1>5. \A j \in Slot : slots'[j].name = slots[j].name \/ (j = idx /\ scratch[j] = NoFetch)
  BY <1>1, <1>3, <1>4
<1> QED
  BY <1>1, <1>2, <1>4, <1>5, RoundFrame

LEMMA RoundRetry ==
  ASSUME RoundInv, ChainRetry, InRound'
  PROVE  RoundOK'
<1>1. pc = "retry" /\ UseChain(Cfg) /\ pc' # "idle"
  BY DEF ChainRetry, InRound
<1>2. /\ pc' = "absorb" /\ scratch' = [scratch EXCEPT ![idx] = Fetched(idx)]
      /\ UNCHANGED <<state, hState, hOut, tick, idx, att, slots>>
  BY <1>1 DEF ChainRetry, Return, hist
<1>3. RoundOK /\ scratch \in [Slot -> FetchOrNone]
  BY <1>1, PoolTypes DEF RoundInv, InRound
<1>4. Mixed' = Mixed /\ \A i \in Slot : Fetched(i)' = Fetched(i)
  BY <1>2 DEF Mixed, Fetched
<1>5. \A i \in Slot : scratch'[i] \in {scratch[i], Fetched(i)}
  BY <1>2, <1>3
<1>6. \A i \in Slot : i >= idx' => scratch'[i] \in {NoFetch, Fetched(i)'}
  BY <1>2, <1>3, <1>4, <1>5 DEF RoundOK
<1>7. Part(Mixed, slots, tick, idx, att)'
  BY <1>2, <1>3, <1>4 DEF RoundOK
<1> QED
  BY <1>2, <1>3, <1>4, <1>6, <1>7 DEF RoundOK

LEMMA RoundChange ==
  ASSUME RoundInv, InRound, NEW k \in Kinds, NEW n \in Names, NEW d \in DevState, Change(k, n, d)
  PROVE  RoundOK'
<1>1. UNCHANGED <<pc, state, hState, hOut, tick, idx, att, scratch>>
  BY DEF Change, rndvars, hist
<1>2. \A j \in Slot : slots'[j].name = slots[j].name
  BY PoolTypes DEF Change, RoundInv, SlotRecord
<1>3. RoundOK
  BY DEF RoundInv
<1>4. pc \in {"scan", "retry"} => Owes(idx, tick) /\ scratch[idx] = NoFetch
  BY <1>3 DEF RoundOK
<1> QED
  BY <1>1, <1>2, <1>4, RoundFrame

LEMMA StepRound == RoundInv /\ [Next]_vars /\ InRound' => RoundOK'
<1> SUFFICES ASSUME RoundInv, [Next]_vars, InRound' PROVE RoundOK'
  OBVIOUS
<1>0. FlowInv
  BY DEF RoundInv
<1>1. ASSUME BeginOpen \/ OpenList \/ (\E n \in Names : OpenTry(n)) \/ OpenExhausted \/ OpenDone \/ Drop
      PROVE  FALSE
  BY <1>1 DEF InRound, BeginOpen, OpenList, OpenTry, OpenExhausted, OpenFails, OpenDone, Return, Drop
<1>2. ASSUME (\E n \in Lens : BeginRead(n)) \/ RawRead \/ RawReadFails \/ RawRetry \/ RebindExhausted
             \/ Filled \/ Commit
      PROVE  FALSE
  BY <1>2 DEF InRound, BeginRead, RawRead, RawFill, RawReadFails, RawRetry, RebindExhausted,
              Filled, Commit, Return
<1>3. ASSUME BeginRebind PROVE FALSE
  BY <1>0, <1>3 DEF BeginRebind, Rebind, Return, InRound, InRaw, FlowInv
<1>4. ASSUME Join PROVE RoundOK'
  <2>1. /\ pc = "fetch" /\ pc' = "absorb"
        /\ UNCHANGED <<state, hState, hOut, tick, idx, att, scratch, slots>>
    BY <1>4 DEF Join, rndvars, hist
  <2> QED
    BY <2>1, RoundFrame DEF InRound
<1>5. ASSUME NEW k \in Kinds, NEW n \in Names, NEW d \in DevState, Change(k, n, d) PROVE RoundOK'
  <2>1. InRound
    BY <1>5 DEF Change, InRound
  <2> QED
    BY <1>5, <2>1, RoundChange
<1>6. ASSUME UNCHANGED vars PROVE RoundOK'
  <2>1. UNCHANGED <<pc, state, hState, hOut, tick, idx, att, scratch, slots>>
    BY <1>6 DEF vars, rndvars, hist
  <2>2. InRound /\ RoundOK
    BY <2>1 DEF RoundInv, InRound
  <2>3. pc \in {"scan", "retry"} => Owes(idx, tick) /\ scratch[idx] = NoFetch
    BY <2>2 DEF RoundOK
  <2> QED
    BY <2>1, <2>2, <2>3, RoundFrame
<1>7. ASSUME Step PROVE RoundOK'
  BY <1>1, <1>2, <1>3, <1>4, <1>7, RoundStart, RoundNextTick, RoundWorker, RoundSkip, RoundAbsorb,
     RoundRecover, RoundRebindTry, RoundRetry
  DEF Step, Opening, Rebinding, Raw, Round
<1> QED
  BY <1>1, <1>2, <1>5, <1>6, <1>7 DEF Next

LEMMA InitRound == Init => RoundInv
<1>1. Init => NamesInv
  BY InitTypeInv, NamesCleared DEF Init, NamesInv, DistinctNames, AllEmpty, EmptySlot
<1>2. Init => FlowInv /\ ~ InRound
  BY DEF Init, FlowInv, InRound, InRaw
<1> QED
  BY <1>1, <1>2 DEF RoundInv

(* What is known of a round holds of every behaviour.                      *)
THEOREM RoundAlways == Spec => []RoundInv
<1>1. RoundInv /\ [Next]_vars => RoundInv'
  BY StepNamesInv, StepFlow, StepRound DEF RoundInv
<1> QED
  BY <1>1, InitRound, PTL DEF Spec

(* The fetches of one tick come from pairwise different devices, although  *)
(* slots are rebound between them (do_round_chain, rebind).                *)
THEOREM DifferentSources == Spec => []TickDistinct
<1>1. RoundInv => TickDistinct
  BY DEF RoundInv, FlowInv, RoundOK, Part, Mixed, TickDistinct
<1> QED
  BY <1>1, RoundAlways, PTL

(***************************************************************************)
(* The refinement                                                          *)
(***************************************************************************)
(* The abstract chain speaks of the same entropy, hashes and sizes.        *)
LEMMA SameEntropy ==
  /\ Chain!Zero = Zero /\ Chain!SepOut = SepOut /\ Chain!SepState = SepState
  /\ Chain!NoName = NoName /\ Chain!RoundBytes = RoundBytes
  /\ Chain!UseChain(Cfg) <=> UseChain(Cfg)
  /\ \A h : Chain!Absorbed(h) = Absorbed(h)
  /\ \A a, b : Chain!LowerOf(a, b) = LowerOf(a, b)
  /\ \A o, f, k : Chain!Overwrite(o, f, k) = Overwrite(o, f, k)
<1>1. Chain!UseChain(Cfg) <=> UseChain(Cfg)
  BY DEF Chain!UseChain, UseChain, Chain!PoolSize, PoolSize, Chain!IsoOversampled, IsoOversampled,
         Chain!InfOversampled, InfOversampled
<1>2. \A a, b : Chain!LowerOf(a, b) = LowerOf(a, b)
  BY DEF Chain!LowerOf, LowerOf
<1>3. \A h : Chain!Absorbed(h) = Absorbed(h)
  BY DEF Chain!Absorbed, Absorbed
<1>4. \A o, f, k : Chain!Overwrite(o, f, k) = Overwrite(o, f, k)
  BY DEF Chain!Overwrite, Overwrite
<1> QED
  BY <1>1, <1>2, <1>3, <1>4
  DEF Chain!Zero, Zero, Chain!SepOut, SepOut, Chain!SepState, SepState, Chain!NoName, NoName,
      Chain!RoundBytes, RoundBytes

LEMMA SameRound ==
  ASSUME NEW a, NEW e, RoundEntropy(Cfg, a, e)
  PROVE  Chain!RoundEntropy(Cfg, a, e)
<1>1. Chain!MaxTicks(Cfg) = MaxTicks(Cfg)
  BY DEF Chain!MaxTicks, MaxTicks, Chain!TickBytes, TickBytes
<1>2. \A i : Chain!SlotTicks(Cfg, i) = SlotTicks(Cfg, i)
  BY DEF Chain!SlotTicks, SlotTicks, Chain!TickBytes, TickBytes
<1>3. Chain!Slots(Cfg) = Slots(Cfg)
  BY DEF Chain!Slots, Slots, Chain!PoolSize, PoolSize
<1>4. \A i : Chain!KindOf(Cfg, i) = KindOf(Cfg, i)
  BY DEF Chain!KindOf, KindOf
<1>5. Chain!Quota(Cfg) = Quota(Cfg)
  BY <1>1, <1>2, <1>3 DEF Chain!Quota, Quota
<1>6. Chain!Complete(Cfg, e)
  BY <1>5 DEF RoundEntropy, Complete, Chain!Complete
<1>7. Chain!InOrder(e)
  BY DEF RoundEntropy, InOrder, Chain!InOrder, Before, Chain!Before
<1>8. Chain!FetchedFor(a, e)
  BY DEF RoundEntropy, FetchedFor, Chain!FetchedFor
<1>9. Chain!DistinctSources(Cfg, e)
  BY <1>4 DEF RoundEntropy, DistinctSources, Chain!DistinctSources
<1> QED
  BY <1>6, <1>7, <1>8, <1>9 DEF Chain!RoundEntropy

ChainStep == Chain!Next \/ UNCHANGED <<IsOpen, state, used, buf, out, result>>

LEMMA ReturnFails ==
  ASSUME RoundInv, NEW r \in Errors, Return(r), pc \notin {"none", "idle", "claim", "open"},
         UNCHANGED <<state, used, buf, out>>
  PROVE  ChainStep
<1>1. pc' = "idle" /\ result' = r /\ result = "pending"
  BY DEF Return, RoundInv, FlowInv
<1>2. Chain!Fail
  BY <1>1 DEF Chain!Fail, Chain!Failures, Errors, IsOpen
<1> QED
  BY <1>2 DEF ChainStep, Chain!Next

LEMMA RebindMaps ==
  ASSUME RoundInv, NEW i \in Slot, Rebind(i), pc \in {"rebind", "absorb"}
  PROVE  ChainStep
<1>1. UNCHANGED <<state, used, buf, out>>
  BY DEF Rebind, callvars, hist
<1>2. CASE pc' = "scan" /\ UNCHANGED result
  BY <1>1, <1>2 DEF ChainStep, IsOpen
<1>3. CASE Return("Resource")
  BY <1>1, <1>3, ReturnFails DEF Errors
<1> QED
  BY <1>2, <1>3 DEF Rebind

LEMMA OpenFailMaps ==
  ASSUME RoundInv, NEW r \in Errors, OpenFails(r), pc \in {"claim", "open"},
         UNCHANGED <<state, used, buf, out>>
  PROVE  ChainStep
<1>1. pc' = "none" /\ result' = r /\ result = "pending"
  BY DEF OpenFails, RoundInv, FlowInv
<1>2. Chain!Fail
  BY <1>1 DEF Chain!Fail, Chain!Failures, Errors, IsOpen
<1> QED
  BY <1>2 DEF ChainStep, Chain!Next

(* A read of the source for the buffer as it is: what it fetches is fresh. *)
LEMMA RawFresh ==
  ASSUME RoundInv, pc = "raw" \/ (pc = "retry" /\ ~ UseChain(Cfg)), slots[0].inner # "Empty"
  PROVE  /\ result = "pending" /\ ~ UseChain(Cfg) /\ IsOpen
         /\ RawFetch.att > used /\ RawFetch.att = att
         /\ RawFetch.slot = 0 /\ RawFetch.name # NoName
<1>1. /\ result = "pending" /\ used < att /\ ~ UseChain(Cfg)
  BY DEF RoundInv, FlowInv, InRaw
<1>2. slots[0].name # NoName
  BY SizeFacts DEF RoundInv, NamesInv, DistinctNames
<1>3. att > used
  BY <1>1, PoolTypes DEF RoundInv
<1> QED
  BY <1>1, <1>2, <1>3 DEF RawFetch, IsOpen

LEMMA RawFillMaps ==
  ASSUME RoundInv, RawFill, pc = "raw" \/ (pc = "retry" /\ ~ UseChain(Cfg)),
         slots[0].inner # "Empty"
  PROVE  ChainStep
<1> DEFINE f == RawFetch
<1>1. /\ result = "pending" /\ ~ UseChain(Cfg) /\ IsOpen
      /\ f.att > used /\ f.att = att /\ f.slot = 0 /\ f.name # NoName
  BY RawFresh
<1>2. /\ out' = <<[data |-> f, bytes |-> buf]>> /\ buf' = 0 /\ used' = att
      /\ pc' = "idle" /\ result' = "Ok" /\ UNCHANGED state
  BY DEF RawFill, Return
<1> HIDE DEF f
<1>3. f \in {out'[p].data : p \in DOMAIN out'}
  <2>1. 1 \in DOMAIN out' /\ out'[1].data = f
    BY <1>2
  <2> QED
    BY <2>1
<1>4. IsOpen'
  BY <1>2 DEF IsOpen
<1>5. Chain!EmitRaw
  BY <1>1, <1>2, <1>3, <1>4, SameEntropy DEF Chain!EmitRaw
<1> QED
  BY <1>5 DEF ChainStep, Chain!Next

(* What is written last is at the start of the buffer.                     *)
LEMMA OverwriteHead ==
  ASSUME NEW o, NEW f, NEW k
  PROVE  /\ Overwrite(o, f, k) # <<>>
         /\ Overwrite(o, f, k)[1].data = f /\ Overwrite(o, f, k)[1].bytes = k
  BY DEF Overwrite

(* A read that fails has left the buffer alone or torn it.                 *)
LEMMA RawSpillMaps ==
  ASSUME RoundInv, RawSpill, pc = "raw" \/ (pc = "retry" /\ ~ UseChain(Cfg))
  PROVE  Chain!Spill \/ UNCHANGED out
<1> SUFFICES ASSUME slots[0].inner # "Empty",
                    NEW k \in 1 .. buf - 1, out' = Overwrite(out, RawFetch, k)
             PROVE  Chain!Spill
  BY DEF RawSpill
<1> DEFINE f == RawFetch
<1>1. /\ result = "pending" /\ ~ UseChain(Cfg) /\ IsOpen
      /\ f.att > used /\ f.slot = 0 /\ f.name # NoName
  BY RawFresh
<1> HIDE DEF f
<1>2. out' # <<>> /\ out'[1].data = f /\ out'[1].bytes = k
  BY OverwriteHead DEF f
<1>3. out' = Overwrite(out, f, k)
  BY DEF f
<1> QED
  BY <1>1, <1>2, <1>3, SameEntropy DEF Chain!Spill

LEMMA CommitMaps ==
  ASSUME RoundInv, Commit
  PROVE  ChainStep
<1>1. /\ pc = "absorb" /\ idx = PoolSize(Cfg) /\ tick + 1 = MaxTicks(Cfg) /\ pc' = "loop"
      /\ out' = Append(out, [data |-> hOut, bytes |-> LowerOf(buf, RoundBytes)])
      /\ buf' = buf - LowerOf(buf, RoundBytes) /\ state' = hState /\ used' = att
      /\ UNCHANGED result
  BY DEF Commit
<1>2. /\ RoundOK /\ result = "pending" /\ UseChain(Cfg) /\ buf > 0 /\ used < att
  BY <1>1 DEF RoundInv, FlowInv, InRound
<1>3. tick = MaxTicks(Cfg) - 1 /\ att \in Nat /\ used \in Nat
  BY <1>1, PoolTypes, TickFacts DEF RoundInv
<1>4. RoundEntropy(Cfg, att, Mixed) /\ Mixed # <<>> /\ Mixed[1].att = att
  BY <1>1, <1>2, <1>3, PartWhole DEF RoundOK
<1>5. state' = <<SepState, state, Mixed>> /\ hOut = <<SepOut, state, Mixed>>
  BY <1>1, <1>2 DEF RoundOK
<1>6. state' # Zero /\ Absorbed(state') = Mixed
  BY <1>5, HashFacts
<1>7. IsOpen /\ IsOpen'
  BY <1>1 DEF IsOpen
<1>8. Chain!Emit(att, Mixed)
  <2>1. Chain!RoundEntropy(Cfg, att, Mixed)
    BY <1>4, SameRound
  <2>2. att > used
    BY <1>2, <1>3
  <2> QED
    BY <1>1, <1>2, <1>5, <1>7, <2>1, <2>2, SameEntropy DEF Chain!Emit
<1>9. Chain!EmitRound
  BY <1>4, <1>6, <1>8, SameEntropy DEF Chain!EmitRound
<1> QED
  BY <1>9 DEF ChainStep, Chain!Next

LEMMA InitMaps == Init => Chain!Init
  BY SameEntropy DEF Init, Chain!Init, IsOpen

LEMMA StepMaps == RoundInv /\ [Next]_vars => [Chain!Next]_(Chain!chainvars)
<1> SUFFICES ASSUME RoundInv, [Next]_vars PROVE ChainStep
  BY DEF ChainStep, Chain!chainvars
<1> USE DEF ChainStep, Chain!Next, IsOpen, callvars, hist
<1>0. FlowInv /\ (pc \in {"none", "idle"} <=> result # "pending")
  BY DEF RoundInv, FlowInv
<1>1. ASSUME BeginOpen PROVE ChainStep
  BY <1>0, <1>1 DEF BeginOpen, Chain!CallOpen
<1>2. ASSUME OpenList PROVE ChainStep
  <2>1. pc = "claim" /\ UNCHANGED <<state, used, buf, out>>
    BY <1>2 DEF OpenList
  <2>2. CASE OpenFails("Resource")
    BY <2>1, <2>2, OpenFailMaps DEF Errors
  <2>3. CASE pc' = "open" /\ UNCHANGED result
    BY <2>1, <2>3
  <2> QED
    BY <1>2, <2>2, <2>3 DEF OpenList
<1>3. ASSUME NEW n \in Names, OpenTry(n) PROVE ChainStep
  BY <1>3 DEF OpenTry
<1>4. ASSUME OpenExhausted PROVE ChainStep
  BY <1>4, OpenFailMaps DEF OpenExhausted, Errors
<1>5. ASSUME OpenDone PROVE ChainStep
  BY <1>0, <1>5, SameEntropy DEF OpenDone, Return, Chain!Opened
<1>6. ASSUME Drop PROVE ChainStep
  BY <1>0, <1>6, SameEntropy DEF Drop, Chain!Close
<1>7. ASSUME NEW n \in Lens, BeginRead(n) PROVE ChainStep
  BY <1>0, <1>7 DEF BeginRead, Chain!CallRead
<1>8. ASSUME RawRead PROVE ChainStep
  BY <1>8, RawFillMaps DEF RawRead, ReadOk
<1>9. ASSUME RawReadFails PROVE ChainStep
  <2>1. pc = "raw" /\ pc' = "rebind" /\ UNCHANGED <<state, used, buf, result>>
    BY <1>9 DEF RawReadFails, RawSpill
  <2>2. Chain!Spill \/ UNCHANGED out
    BY <1>9, <2>1, RawSpillMaps DEF RawReadFails
  <2>3. CASE UNCHANGED out
    BY <2>1, <2>3
  <2>4. CASE Chain!Spill
    BY <2>1, <2>4 DEF Chain!Tear
  <2> QED
    BY <2>2, <2>3, <2>4
<1>10. ASSUME RawRetry PROVE ChainStep
  <2>1. CASE ReadOk(0, buf) /\ RawFill
    BY <1>10, <2>1, RawFillMaps DEF RawRetry, ReadOk
  <2>2. CASE RawSpill /\ Return("ReadFailure") /\ UNCHANGED <<slots, state, hist>>
    <3>1. /\ pc = "retry" /\ pc' = "idle" /\ result' = "ReadFailure" /\ result = "pending"
          /\ UNCHANGED <<state, used, buf>>
      BY <1>0, <1>10, <2>2 DEF RawRetry, RawSpill, Return
    <3>2. Chain!Spill \/ UNCHANGED out
      BY <1>10, <2>2, RawSpillMaps DEF RawRetry
    <3>3. Chain!Fail
      BY <3>1, <3>2 DEF Chain!Fail, Chain!Failures
    <3> QED
      BY <3>3
  <2> QED
    BY <1>10, <2>1, <2>2 DEF RawRetry
<1>11. ASSUME BeginRebind PROVE ChainStep
  BY <1>11, PoolTypes, RebindMaps DEF BeginRebind, RoundInv
<1>12. ASSUME NEW n \in Names, RebindTry(n) PROVE ChainStep
  BY <1>12 DEF RebindTry
<1>13. ASSUME RebindExhausted PROVE ChainStep
  BY <1>13, ReturnFails DEF RebindExhausted, Errors
<1>14. ASSUME StartRound PROVE ChainStep
  BY <1>14 DEF StartRound, StartTick
<1>15. ASSUME Filled PROVE ChainStep
  BY <1>0, <1>15 DEF Filled, Return, Chain!Succeed
<1>16. ASSUME NEW i \in Slot, Worker(i) PROVE ChainStep
  BY <1>16 DEF Worker
<1>17. ASSUME Join \/ Skip \/ Absorb PROVE ChainStep
  BY <1>17 DEF Join, Skip, Absorb
<1>18. ASSUME Recover PROVE ChainStep
  BY <1>18, RebindMaps DEF Recover
<1>19. ASSUME ChainRetry PROVE ChainStep
  <2>1. pc = "retry" /\ UNCHANGED <<state, used, buf, out>>
    BY <1>19 DEF ChainRetry
  <2>2. CASE pc' = "absorb" /\ UNCHANGED result
    BY <2>1, <2>2
  <2>3. CASE Return("ReadFailure")
    BY <2>1, <2>3, ReturnFails DEF Errors
  <2> QED
    BY <1>19, <2>2, <2>3 DEF ChainRetry
<1>20. ASSUME NextTick PROVE ChainStep
  BY <1>20 DEF NextTick, StartTick
<1>21. ASSUME Commit PROVE ChainStep
  BY <1>21, CommitMaps
<1>22. ASSUME NEW k \in Kinds, NEW n \in Names, NEW d \in DevState, Change(k, n, d) PROVE ChainStep
  BY <1>22 DEF Change
<1>23. ASSUME UNCHANGED vars PROVE ChainStep
  BY <1>23 DEF vars
<1> HIDE DEF ChainStep, Chain!Next, IsOpen, callvars, hist
<1> QED
  BY <1>1, <1>2, <1>3, <1>4, <1>5, <1>6, <1>7, <1>8, <1>9, <1>10, <1>11, <1>12, <1>13, <1>14,
     <1>15, <1>16, <1>17, <1>18, <1>19, <1>20, <1>21, <1>22, <1>23
  DEF Next, Step, Opening, Rebinding, Raw, Round

(* Whatever devices do, a chained pool delivers only whole rounds of fresh *)
(* entropy, in the documented order, and a failed round leaves its chain   *)
(* as it was.  A raw one succeeds with one read of one device only, and a  *)
(* call of it that fails may leave a torn buffer (do_round_chain, read,    *)
(* rebind, open).                                                          *)
THEOREM ImplementsChain == Spec => ChainSpec
  BY InitMaps, StepMaps, RoundAlways, PTL DEF Spec, ChainSpec, Chain!Spec

(***************************************************************************)
(* No circles: every step of a call brings it nearer to its end.           *)
(***************************************************************************)
LEMMA NearerBy ==
  ASSUME NEW a, NEW b, NEW c, NEW d, NEW e, NEW f, NEW g, NEW h,
         \/ e \in 0 .. a - 1
         \/ e = a /\ f \in 0 .. b - 1
         \/ e = a /\ f = b /\ g \in 0 .. c - 1
         \/ e = a /\ f = b /\ g = c /\ h \in 0 .. d - 1
  PROVE  Nearer(<<e, f, g, h>>, <<a, b, c, d>>)
<1> DEFINE p == <<e, f, g, h>>
           q == <<a, b, c, d>>
<1>1. /\ p[1] = e /\ p[2] = f /\ p[3] = g /\ p[4] = h
      /\ q[1] = a /\ q[2] = b /\ q[3] = c /\ q[4] = d
  OBVIOUS
<1>2. \E k \in 1 .. 4 : p[k] \in 0 .. q[k] - 1 /\ \A j \in 1 .. k - 1 : p[j] = q[j]
  <2> HIDE DEF p, q
  <2>1. CASE e \in 0 .. a - 1
    <3>1. 1 \in 1 .. 4 /\ p[1] \in 0 .. q[1] - 1 /\ \A j \in 1 .. 1 - 1 : p[j] = q[j]
      BY <1>1, <2>1
    <3> QED
      BY <3>1
  <2>2. CASE e = a /\ f \in 0 .. b - 1
    <3>1. 2 \in 1 .. 4 /\ p[2] \in 0 .. q[2] - 1 /\ \A j \in 1 .. 2 - 1 : p[j] = q[j]
      BY <1>1, <2>2
    <3> QED
      BY <3>1
  <2>3. CASE e = a /\ f = b /\ g \in 0 .. c - 1
    <3>1. 3 \in 1 .. 4 /\ p[3] \in 0 .. q[3] - 1 /\ \A j \in 1 .. 3 - 1 : p[j] = q[j]
      BY <1>1, <2>3
    <3> QED
      BY <3>1
  <2>4. CASE e = a /\ f = b /\ g = c /\ h \in 0 .. d - 1
    <3>1. 4 \in 1 .. 4 /\ p[4] \in 0 .. q[4] - 1 /\ \A j \in 1 .. 4 - 1 : p[j] = q[j]
      BY <1>1, <2>4
    <3> QED
      BY <3>1
  <2> QED
    BY <2>1, <2>2, <2>3, <2>4
<1> QED
  BY <1>2 DEF Nearer

(* By bytes, by a tick, by a slot, by a turn.                              *)
LEMMA NearerDue ==
  ASSUME \/ buf' \in 0 .. buf - 1
         \/ buf' = buf /\ DueTicks' \in 0 .. DueTicks - 1
         \/ buf' = buf /\ DueTicks' = DueTicks /\ DueSlots' \in 0 .. DueSlots - 1
         \/ /\ buf' = buf /\ DueTicks' = DueTicks /\ DueSlots' = DueSlots
            /\ DueTurns' \in 0 .. DueTurns - 1
  PROVE  Nearer(Due', Due)
<1>1. Nearer(<<buf', DueTicks', DueSlots', DueTurns'>>, <<buf, DueTicks, DueSlots, DueTurns>>)
  BY NearerBy
<1> QED
  BY <1>1, Zenon DEF Due

(* Names and workers can be counted.                                       *)
LEMMA Counts ==
  ASSUME TypeInv
  PROVE  /\ Cardinality(Names) \in Nat /\ Cardinality(todo) \in 0 .. Cardinality(Names)
         /\ Cardinality(pending) \in Nat
         /\ \A k : \A S \in {Listed(k), {}} : Cardinality(S) \in 0 .. Cardinality(Names)
         /\ \A n \in todo : Cardinality(todo \ {n}) \in 0 .. Cardinality(todo) - 1
         /\ \A i \in pending : Cardinality(pending \ {i}) \in 0 .. Cardinality(pending) - 1
<1>1. IsFiniteSet(Names) /\ Cardinality(Names) \in Nat
  BY PoolAssumption, FS_CardinalityType
<1>2. ASSUME NEW S, S \in SUBSET Names
      PROVE  IsFiniteSet(S) /\ Cardinality(S) \in 0 .. Cardinality(Names)
  <2>1. IsFiniteSet(S) /\ Cardinality(S) <= Cardinality(Names)
    BY <1>1, <1>2, FS_Subset
  <2>2. Cardinality(S) \in Nat
    BY <2>1, FS_CardinalityType
  <2> QED
    BY <1>1, <2>1, <2>2
<1>3. ASSUME NEW S, IsFiniteSet(S), NEW x \in S
      PROVE  Cardinality(S \ {x}) \in 0 .. Cardinality(S) - 1
  <2>1. IsFiniteSet(S \ {x}) /\ Cardinality(S \ {x}) = Cardinality(S) - 1
    BY <1>3, FS_RemoveElement
  <2>2. Cardinality(S \ {x}) \in Nat /\ Cardinality(S) \in Nat
    BY <1>3, <2>1, FS_CardinalityType
  <2> QED
    BY <2>1, <2>2
<1>4. todo \in SUBSET Names /\ pending \in SUBSET Slot
  BY DEF TypeInv, TypeOK
<1>5. IsFiniteSet(pending) /\ Cardinality(pending) \in Nat
  <2>1. IsFiniteSet(Slot)
    BY SizeFacts, FS_Interval
  <2> QED
    BY <1>4, <2>1, FS_Subset, FS_CardinalityType
<1>6. \A k : \A S \in {Listed(k), {}} : S \in SUBSET Names
  BY ListedFacts
<1> QED
  BY <1>1, <1>2, <1>3, <1>4, <1>5, <1>6

LEMMA DueTypes ==
  ASSUME RoundInv
  PROVE  /\ buf \in Nat /\ tick \in Nat /\ idx \in 0 .. PoolSize(Cfg) /\ Slot = 0 .. PoolSize(Cfg) - 1
         /\ PoolSize(Cfg) \in Nat \ {0} /\ MaxTicks(Cfg) \in Nat \ {0}
         /\ pc \in {"open", "rebind", "scan", "retry"} => idx \in Slot
         /\ InRound => UseChain(Cfg) /\ buf > 0 /\ tick < MaxTicks(Cfg)
         /\ pc = "loop" => UseChain(Cfg)
         /\ InRaw => ~ UseChain(Cfg)
  BY PoolTypes, SizeFacts, TickFacts DEF RoundInv, FlowInv, RoundOK

LEMMA OpeningNearer ==
  ASSUME RoundInv, Opening, InCall'
  PROVE  Nearer(Due', Due)
<1>0. TypeInv
  BY DEF RoundInv, NamesInv
<1> USE DueTypes DEF DueTicks, DueSlots, DueTurns, IsOpen, InCall
<1>1. CASE OpenList
  <2>1. /\ pc = "claim" /\ pc' = "open" /\ UNCHANGED <<buf, idx>>
        /\ todo' \in {Listed(KindOf(Cfg, idx)), {}}
    BY <1>1 DEF OpenList, OpenFails, callvars
  <2>2. Cardinality(todo') \in 0 .. Cardinality(Names) /\ Cardinality(Names) \in Nat
    BY <1>0, <2>1, Counts
  <2>3. DueTurns' \in 0 .. DueTurns - 1
    BY <2>1, <2>2
  <2> QED
    BY <2>1, <2>3, NearerDue
<1>2. ASSUME NEW n \in Names, OpenTry(n) PROVE Nearer(Due', Due)
  <2>1. /\ pc = "open" /\ pc' \in {"open", "claim"} /\ buf' = buf /\ n \in todo
        /\ \/ idx' = idx + 1
           \/ idx' = idx /\ pc' = "open" /\ todo' = todo \ {n}
    BY <1>2 DEF OpenTry, First, callvars
  <2>2. DueTicks' = DueTicks /\ DueTicks = 0
    BY <2>1
  <2>3. CASE idx' = idx + 1
    <3>1. DueSlots' \in 0 .. DueSlots - 1
      BY <2>1, <2>3
    <3> QED
      BY <2>1, <2>2, <3>1, NearerDue
  <2>4. CASE idx' = idx /\ pc' = "open" /\ todo' = todo \ {n}
    <3>1. Cardinality(todo') \in 0 .. Cardinality(todo) - 1
      BY <1>0, <2>1, <2>4, Counts
    <3>2. DueTurns' \in 0 .. DueTurns - 1 /\ DueSlots' = DueSlots
      BY <2>1, <2>4, <3>1
    <3> QED
      BY <2>1, <2>2, <3>2, NearerDue
  <2> QED
    BY <2>1, <2>3, <2>4
<1>3. CASE OpenExhausted \/ OpenDone
  BY <1>3 DEF OpenExhausted, OpenFails, OpenDone, Return
<1> QED
  BY <1>1, <1>2, <1>3 DEF Opening

(* A rebind is over when its names are, and then the slot is read again.   *)
LEMMA RebindNearer ==
  ASSUME RoundInv, Rebind(idx), InCall', idx \in Slot, DueTurns = Cardinality(Names) + 3,
         pc = "rebind" \/ pc = "absorb"
  PROVE  Nearer(Due', Due)
<1>1. /\ pc' = "scan" /\ UNCHANGED <<buf, tick, idx>>
      /\ todo' \in {Listed(KindOf(Cfg, idx)), {}}
  BY DEF Rebind, Return, InCall, callvars
<1>2. Cardinality(todo') \in 0 .. Cardinality(Names) /\ Cardinality(Names) \in Nat
  BY <1>1, Counts DEF RoundInv, NamesInv
<1>3. DueTurns' \in 0 .. DueTurns - 1
  BY <1>1, <1>2 DEF DueTurns
<1>4. DueTicks' = DueTicks /\ DueSlots' = DueSlots
  BY <1>1 DEF DueTicks, DueSlots, IsOpen
<1> QED
  BY <1>1, <1>3, <1>4, NearerDue

LEMMA RebindingNearer ==
  ASSUME RoundInv, Rebinding, InCall'
  PROVE  Nearer(Due', Due)
<1>0. TypeInv
  BY DEF RoundInv, NamesInv
<1> USE DueTypes
<1>1. CASE BeginRebind
  BY <1>1, RebindNearer DEF BeginRebind, DueTurns
<1>2. ASSUME NEW n \in Names, RebindTry(n) PROVE Nearer(Due', Due)
  <2>1. /\ pc = "scan" /\ UNCHANGED <<buf, idx, tick>> /\ n \in todo
        /\ \/ pc' = "retry"
           \/ pc' = "scan" /\ todo' = todo \ {n}
    BY <1>2 DEF RebindTry, First, callvars
  <2>2. DueTicks' = DueTicks /\ DueSlots' = DueSlots
    BY <2>1 DEF DueTicks, DueSlots, IsOpen
  <2>3. Cardinality(todo) \in Nat /\ Cardinality(todo \ {n}) \in 0 .. Cardinality(todo) - 1
    BY <1>0, <2>1, Counts
  <2>4. DueTurns' \in 0 .. DueTurns - 1
    <3>1. DueTurns = Cardinality(todo) + 2
      BY <2>1 DEF DueTurns
    <3>2. DueTurns' = 1 \/ DueTurns' = Cardinality(todo \ {n}) + 2
      BY <2>1 DEF DueTurns
    <3> QED
      BY <2>3, <3>1, <3>2
  <2> QED
    BY <2>1, <2>2, <2>4, NearerDue
<1>3. CASE RebindExhausted
  BY <1>3 DEF RebindExhausted, Return, InCall
<1> QED
  BY <1>1, <1>2, <1>3 DEF Rebinding

LEMMA RawNearer ==
  ASSUME RoundInv, Raw, InCall'
  PROVE  Nearer(Due', Due)
<1>1. RawReadFails
  BY DEF Raw, RawRead, RawRetry, RawFill, Return, InCall
<1>2. pc = "raw" /\ pc' = "rebind" /\ idx' = 0 /\ UNCHANGED <<buf, tick>>
  BY <1>1 DEF RawReadFails, RawSpill
<1>3. DueTicks' = DueTicks
  BY <1>2 DEF DueTicks, IsOpen
<1>4. DueSlots' \in 0 .. DueSlots - 1
  BY <1>2, DueTypes DEF DueSlots
<1> QED
  BY <1>2, <1>3, <1>4, NearerDue

LEMMA RoundNearer ==
  ASSUME RoundInv, Round, InCall'
  PROVE  Nearer(Due', Due)
<1>0. TypeInv
  BY DEF RoundInv, NamesInv
<1> USE DueTypes
<1>1. CASE StartRound
  <2>1. pc = "loop" /\ pc' = "fetch" /\ tick' = 0 /\ buf' = buf /\ UseChain(Cfg)
    BY <1>1 DEF StartRound, StartTick, callvars
  <2>2. DueTicks' \in 0 .. DueTicks - 1
    BY <2>1 DEF DueTicks, IsOpen
  <2> QED
    BY <2>1, <2>2, NearerDue
<1>2. CASE Filled
  BY <1>2 DEF Filled, Return, InCall
<1>3. ASSUME NEW i \in Slot, Worker(i) PROVE Nearer(Due', Due)
  <2>1. /\ pc = "fetch" /\ i \in pending /\ pending' = pending \ {i}
        /\ UNCHANGED <<buf, tick, idx, pc>>
    BY <1>3 DEF Worker, callvars
  <2>2. DueTicks' = DueTicks /\ DueSlots' = DueSlots
    BY <2>1 DEF DueTicks, DueSlots, IsOpen
  <2>3. DueTurns' \in 0 .. DueTurns - 1
    BY <1>0, <2>1, Counts DEF DueTurns
  <2> QED
    BY <2>1, <2>2, <2>3, NearerDue
<1>4. CASE Join
  <2>1. pc = "fetch" /\ pc' = "absorb" /\ UNCHANGED <<buf, tick, idx>>
    BY <1>4 DEF Join, callvars, rndvars
  <2>2. DueTicks' = DueTicks /\ DueSlots' \in 0 .. DueSlots - 1
    BY <2>1 DEF DueTicks, DueSlots, IsOpen
  <2> QED
    BY <2>1, <2>2, NearerDue
<1>5. CASE Skip \/ Absorb
  <2>1. pc = "absorb" /\ idx \in Slot /\ idx' = idx + 1 /\ UNCHANGED <<buf, tick, pc>>
    BY <1>5 DEF Skip, Absorb, callvars
  <2>2. DueTicks' = DueTicks /\ DueSlots' \in 0 .. DueSlots - 1
    BY <2>1 DEF DueTicks, DueSlots, IsOpen
  <2> QED
    BY <2>1, <2>2, NearerDue
<1>6. CASE Recover
  BY <1>6, RebindNearer DEF Recover, DueTurns
<1>7. CASE ChainRetry
  <2>1. /\ pc = "retry" /\ pc' = "absorb" /\ UNCHANGED <<buf, tick, idx>> /\ idx \in Slot
        /\ ReadOk(idx, TickBytes) /\ scratch' = [scratch EXCEPT ![idx] = Fetched(idx)]
    BY <1>7 DEF ChainRetry, Return, InCall, callvars
  <2>2. scratch'[idx] # NoFetch
    <3>1. Fetched(idx) \in Fetch
      BY <1>0, <2>1, FetchedType DEF ReadOk, TickBytes
    <3>2. scratch'[idx] = Fetched(idx)
      BY <1>0, <2>1 DEF TypeInv, TypeOK
    <3>3. Fetched(idx).name # NoFetch.name
      BY <3>1, FetchFacts, NameFacts DEF NoFetch
    <3> QED
      BY <3>2, <3>3
  <2>3. DueTicks' = DueTicks /\ DueSlots' = DueSlots
    BY <2>1 DEF DueTicks, DueSlots, IsOpen
  <2>4. DueTurns' = 0 /\ DueTurns = 1
    BY <2>1, <2>2 DEF DueTurns
  <2> QED
    BY <2>1, <2>3, <2>4, NearerDue
<1>8. CASE NextTick
  <2>1. /\ pc = "absorb" /\ pc' = "fetch" /\ tick' = tick + 1 /\ tick + 1 < MaxTicks(Cfg)
        /\ buf' = buf /\ UseChain(Cfg)
    BY <1>8 DEF NextTick, StartTick, callvars, InRound
  <2>2. DueTicks' \in 0 .. DueTicks - 1
    BY <2>1 DEF DueTicks, IsOpen
  <2> QED
    BY <2>1, <2>2, NearerDue
<1>9. CASE Commit
  <2>1. buf' = buf - LowerOf(buf, RoundBytes) /\ buf > 0
    BY <1>9 DEF Commit, InRound
  <2>2. buf' \in 0 .. buf - 1
    BY <2>1 DEF LowerOf, RoundBytes
  <2> QED
    BY <2>2, NearerDue
<1> QED
  BY <1>1, <1>2, <1>3, <1>4, <1>5, <1>6, <1>7, <1>8, <1>9 DEF Round

(* A device that changes sets no call back.                                *)
LEMMA ChangeNotDue ==
  ASSUME RoundInv, NEW k \in Kinds, NEW n \in Names, NEW s \in DevState, Change(k, n, s)
  PROVE  dev' # dev /\ Due' = Due
<1>1. dev \in [Kinds -> [Names -> DevState]]
  BY DEF RoundInv, NamesInv, TypeInv, TypeOK
<1>2. dev'[k][n] = s /\ dev[k][n] # s
  BY <1>1 DEF Change
<1>3. UNCHANGED <<buf, pc, tick, idx, pending, todo, scratch>>
  BY DEF Change, callvars, rndvars
<1>4. DueTicks' = DueTicks /\ DueSlots' = DueSlots /\ DueTurns' = DueTurns
  BY <1>3 DEF DueTicks, DueSlots, DueTurns, IsOpen
<1> QED
  BY <1>2, <1>3, <1>4 DEF Due

(* No call turns in circles, for every configuration, any devices and any  *)
(* length of buffer.                                                       *)
THEOREM CallsEnd == Spec => NoCircles
<1>1. ASSUME RoundInv, [Next]_vars
      PROVE  [InCall /\ InCall' => IF dev' = dev THEN Nearer(Due', Due) ELSE Due' = Due]_vars
  <2> SUFFICES ASSUME Next, InCall, InCall'
               PROVE  IF dev' = dev THEN Nearer(Due', Due) ELSE Due' = Due
    BY <1>1
  <2>1. CASE Step
    <3>1. dev' = dev
      BY <2>1 DEF Step, Opening, Rebinding, Raw, Round, OpenList, OpenTry, OpenExhausted, OpenDone,
         BeginRebind, Rebind, RebindTry, RebindExhausted, RawRead, RawReadFails, RawRetry,
         StartRound, Filled, Worker, Join, Skip, Absorb, Recover, ChainRetry, NextTick, Commit,
         envvars
    <3>2. Nearer(Due', Due)
      BY <1>1, <2>1, OpeningNearer, RebindingNearer, RawNearer, RoundNearer DEF Step
    <3> QED
      BY <3>1, <3>2
  <2>2. CASE BeginOpen \/ Drop \/ \E n \in Lens : BeginRead(n)
    BY <2>2 DEF BeginOpen, Drop, BeginRead, InCall
  <2>3. ASSUME NEW k \in Kinds, NEW n \in Names, NEW s \in DevState, Change(k, n, s)
        PROVE  dev' # dev /\ Due' = Due
    BY <1>1, <2>3, ChangeNotDue
  <2> QED
    BY <2>1, <2>2, <2>3 DEF Next
<1> QED
  BY <1>1, RoundAlways, PTL DEF Spec, NoCircles
=============================================================================
