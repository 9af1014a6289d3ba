----------------------------- MODULE MCFillable -----------------------------
EXTENDS Fillable

CardsAndNode == [iso7816_cards |-> 2, infnoise_devices |-> 1,
                 iso7816_input_bytes |-> 32, infnoise_input_bytes |-> 32]
=============================================================================
