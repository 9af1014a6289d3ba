------------------------------ MODULE CardKinds -----------------------------
(***************************************************************************)
(* What a smart card is to iso7816.rs: the applets that can be SELECTed on *)
(* it and the lengths for which each answers GET CHALLENGE.  Then the      *)
(* cards the source speaks of, for the model checker.                      *)
(***************************************************************************)
EXTENDS Integers

App    == {"None", "Piv", "OpenPgp"}      \* AppId; None: nothing was SELECTed
Le     == 1 .. 255
CardOf == [has : SUBSET (App \ {"None"}), le : [App -> SUBSET Le]]

Card(has, default, piv, pgp) ==
  [has |-> has, le |-> [a \in App |-> CASE a = "None" -> default
                                        [] a = "Piv"  -> piv
                                        [] OTHER      -> pgp]]

PlainCard   == Card({}, 1 .. 255, {}, {})           \* a bare card, any Le
CappedCard  == Card({"Piv"}, {}, 1 .. 100, {})      \* PIV applet, capped Le
NationalId  == Card({"OpenPgp"}, {8}, {}, {})       \* fixed Le of 8 by default
OpenPgpCard == Card({"OpenPgp"}, {}, {}, {8, 16})   \* no PIV to select on the way
TokenCard   == Card({"Piv", "OpenPgp"}, {}, {}, {8, 16})
MuteCard    == Card({"Piv"}, {}, {}, {})            \* no GET CHALLENGE at all

KnownCards == {PlainCard, CappedCard, NationalId, OpenPgpCard, TokenCard, MuteCard}
TwoFaced   == {NationalId}
FixedCards == {Card({}, {n}, {n}, {n}) : n \in {8, 16, 32, 64}}
=============================================================================
