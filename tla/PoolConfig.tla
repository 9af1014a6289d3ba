----------------------------- MODULE PoolConfig -----------------------------
(***************************************************************************)
(* The compile-time configuration of the RNG pool (p11rand-core/pool.rs,   *)
(* struct Config) as pure operators over a configuration record, and the   *)
(* copy of its rules that the cdylib's build script applies before the     *)
(* four numbers are baked into the library.                                *)
(*                                                                         *)
(* Slots are numbered from 0, as the code's Vec is: the iso7816 cards come *)
(* first, the infnoise devices after them.                                 *)
(***************************************************************************)
EXTENDS Integers

TickBytes  == 32      \* bytes one worker fetches
RoundBytes == 32      \* bytes one chain round outputs

Configs == [iso7816_cards : Nat, infnoise_devices : Nat,
            iso7816_input_bytes : Nat, infnoise_input_bytes : Nat]

Kind == {"Iso7816", "Infnoise"}

PoolSize(c) == c.iso7816_cards + c.infnoise_devices
Slots(c)    == 0 .. PoolSize(c) - 1
KindOf(c, i) == IF i < c.iso7816_cards THEN "Iso7816" ELSE "Infnoise"

Whole(bytes) == bytes >= 32 /\ bytes % 32 = 0

Validate(c) ==
  /\ PoolSize(c) >= 1
  /\ c.iso7816_cards > 0 => Whole(c.iso7816_input_bytes)
  /\ c.infnoise_devices > 0 => Whole(c.infnoise_input_bytes)

IsoOversampled(c) == c.iso7816_cards > 0 /\ c.iso7816_input_bytes > 32
InfOversampled(c) == c.infnoise_devices > 0 /\ c.infnoise_input_bytes > 32

UseChain_IsoOnly(c) == PoolSize(c) > 1 \/ IsoOversampled(c)  \* mutant: one kind forgotten
UseChain(c) == PoolSize(c) > 1 \/ IsoOversampled(c) \/ InfOversampled(c)

(* Fetches slot i owes to one round.                                       *)
SlotTicks(c, i) ==
  IF i < c.iso7816_cards THEN c.iso7816_input_bytes \div TickBytes
                         ELSE c.infnoise_input_bytes \div TickBytes

MaxTicks_Unguarded(c) ==            \* mutant: absent kinds counted too
  LET iso == c.iso7816_input_bytes \div TickBytes
      inf == c.infnoise_input_bytes \div TickBytes
  IN  IF iso >= inf THEN iso ELSE inf

MaxTicks(c) ==
  LET iso == IF c.iso7816_cards > 0 THEN c.iso7816_input_bytes \div TickBytes ELSE 0
      inf == IF c.infnoise_devices > 0 THEN c.infnoise_input_bytes \div TickBytes ELSE 0
  IN  IF iso >= inf THEN iso ELSE inf

(***************************************************************************)
(* build.rs: the panics that stop the build, and its own use_chain, which  *)
(* only the build log shows.                                               *)
(***************************************************************************)
BuildAccepts_NoMultiple(c) ==       \* mutant: the multiple of 32 is not checked
  /\ ~ (c.iso7816_cards + c.infnoise_devices < 1)
  /\ ~ (c.iso7816_cards > 0 /\ c.iso7816_input_bytes < 32)
  /\ ~ (c.infnoise_devices > 0 /\ c.infnoise_input_bytes < 32)

BuildAccepts(c) ==
  /\ ~ (c.iso7816_cards + c.infnoise_devices < 1)
  /\ ~ (c.iso7816_cards > 0
         /\ (c.iso7816_input_bytes < 32 \/ c.iso7816_input_bytes % 32 # 0))
  /\ ~ (c.infnoise_devices > 0
         /\ (c.infnoise_input_bytes < 32 \/ c.infnoise_input_bytes % 32 # 0))

BuildUseChain(c) ==
  \/ c.iso7816_cards + c.infnoise_devices > 1
  \/ c.iso7816_cards > 0 /\ c.iso7816_input_bytes > 32
  \/ c.infnoise_devices > 0 /\ c.infnoise_input_bytes > 32
=============================================================================
