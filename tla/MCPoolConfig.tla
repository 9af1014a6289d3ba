---------------------------- MODULE MCPoolConfig ----------------------------
(* Every small configuration a build may be given, valid or not.           *)
EXTENDS Builds

Bytes == {0, 16, 32, 48, 64, 96}
Small == [iso7816_cards : 0 .. 2, infnoise_devices : 0 .. 2,
          iso7816_input_bytes : Bytes, infnoise_input_bytes : Bytes]
=============================================================================
