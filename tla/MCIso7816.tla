----------------------------- MODULE MCIso7816 ------------------------------
(* The cards are those of CardKinds.                                       *)
EXTENDS Iso7816
=============================================================================
