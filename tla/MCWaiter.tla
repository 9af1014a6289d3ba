------------------------------ MODULE MCWaiter ------------------------------
EXTENDS Waiter

CardAndNode == [iso7816_cards |-> 1, infnoise_devices |-> 1,
                iso7816_input_bytes |-> 32, infnoise_input_bytes |-> 32]
CardsAndNode == [CardAndNode EXCEPT !.iso7816_cards = 2]
=============================================================================
