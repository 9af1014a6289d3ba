------------------------------ MODULE Entropy -------------------------------
(***************************************************************************)
(* Symbolic data of the pool and what pool.rs promises of one round's      *)
(* entropy.                                                                *)
(*                                                                         *)
(* A fetch of 32 bytes is a record that says which attempt at a round,     *)
(* which tick, slot and device it came from.  A digest is the tuple of     *)
(* everything hashed into it, so SHA3-256 is taken as injective and the    *)
(* state S_0 = 0^256 as no digest.                                         *)
(***************************************************************************)
EXTENDS PoolConfig, FiniteSets, Sequences

NoName  == -1
NoFetch == [att |-> 0, tick |-> 0, slot |-> 0, name |-> NoName]

Zero         == <<>>                         \* S_0 = 0^256
Sha3(s, sep) == <<sep, s, <<>>>>             \* context fed S and the separator
Update(h, f) == <<h[1], h[2], Append(h[3], f)>>
Absorbed(h)  == h[3]
SepOut   == 17                               \* 0x11
SepState == 0                                \* 0x00

(* A buffer that held the chunk of o, or nothing, and got k bytes of f.    *)
Overwrite(o, f, k) ==
  LET torn == [data |-> f, bytes |-> k]
  IN  IF o # <<>> /\ o[1].bytes > k
      THEN <<torn, [data |-> o[1].data, bytes |-> o[1].bytes - k]>>
      ELSE <<torn>>

LowerOf_NoClip(a, b) == b                    \* mutant: take = ROUND_BYTES
LowerOf(a, b) == IF a <= b THEN a ELSE b

(***************************************************************************)
(* E_round, the comment on do_round_chain: tick-major, slots in order      *)
(* within a tick, slot i present in its first slot_ticks(i) ticks.         *)
(***************************************************************************)
Before(f, g) ==
  \/ f.tick < g.tick
  \/ f.tick = g.tick /\ f.slot < g.slot

InOrder(e) == \A p, q \in DOMAIN e : p < q => Before(e[p], e[q])

Quota(c) == {f \in (0 .. MaxTicks(c) - 1) \X Slots(c) : f[1] < SlotTicks(c, f[2])}

Complete(c, e) == {<<e[p].tick, e[p].slot>> : p \in DOMAIN e} = Quota(c)

(* All bytes were fetched for one and the same attempt.                    *)
FetchedFor(a, e) == \A p \in DOMAIN e : e[p].att = a

(* Two fetches of one tick by slots of one kind have different devices.    *)
DistinctSources(c, e) ==
  \A p, q \in DOMAIN e :
    /\ e[p].tick = e[q].tick /\ e[p].slot # e[q].slot
    /\ KindOf(c, e[p].slot) = KindOf(c, e[q].slot)
    => e[p].name # e[q].name

RoundEntropy(c, a, e) ==
  InOrder(e) /\ Complete(c, e) /\ FetchedFor(a, e) /\ DistinctSources(c, e)
=============================================================================
