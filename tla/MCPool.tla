------------------------------- MODULE MCPool -------------------------------
(* Small instances of Pool for TLC: the configurations the .cfg files pick. *)
EXTENDS Pool

Config(n, m, isoBytes, infBytes) ==
  [iso7816_cards |-> n, infnoise_devices |-> m,
   iso7816_input_bytes |-> isoBytes, infnoise_input_bytes |-> infBytes]

RawCard    == Config(1, 0, 32, 32)   \* the default build: raw passthrough
TwoCards   == Config(2, 0, 64, 32)   \* two slots compete for readers, two ticks
CardAndInf == Config(1, 1, 32, 64)   \* both kinds, the second owes one tick more
=============================================================================
