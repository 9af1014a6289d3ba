-------------------------------- MODULE MCSlot ------------------------------
EXTENDS Slot, CardKinds

Named(suffix)  == [ok |-> TRUE, infnoise |-> TRUE, suffix |-> suffix]
Other(suffix)  == [ok |-> TRUE, infnoise |-> FALSE, suffix |-> suffix]
Failed(suffix) == [Named(suffix) EXCEPT !.ok = FALSE]

(* infnoise10, infnoise2, tty1, infnoise, infnoise1a; two names of one     *)
(* number, and an entry that cannot be read before them; a number beyond   *)
(* MaxIndex.                                                               *)
SomeDirs == {<<Named(<<1, 0>>), Named(<<2>>), Other(<<1>>), Named(<<>>), Named(<<1, 10>>)>>,
             <<Failed(<<1>>), Named(<<3>>), Named(<<0, 3>>), Named(<<0>>)>>,
             <<Named(<<4>>), Named(<<9, 9>>), Named(<<1>>)>>}
=============================================================================
