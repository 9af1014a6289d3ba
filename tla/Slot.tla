-------------------------------- MODULE Slot --------------------------------
(***************************************************************************)
(* A slot of the pool (pool.rs): SlotKind says whether a smart card or an  *)
(* infnoise node is behind it, and Slot::read dispatches on what it holds. *)
(*                                                                         *)
(* The two sources share the variables that mean the same in both; those   *)
(* of the kind the slot does not have stand still.                         *)
(***************************************************************************)
EXTENDS Integers, Sequences

CONSTANTS
  Cards,              (* of Iso7816                                        *)
  Dirs, MaxIndex,     (* of Infnoise                                       *)
  Lens, NodeLens,     (* buffer lengths read asks of a card, of a node     *)
  MaxFaults           (* of both                                           *)

VARIABLES
  kind,                                        (* Slot.kind                *)
  live, faults, calm, pc, left, result,        (* of both                  *)
  card, inserted, sel, sel0, app, chunk,       (* of Iso7816               *)
  node, next, buffer, dir, paths               (* of Infnoise              *)

shared == <<live, faults, calm, pc, left, result>>
isoown == <<card, inserted, sel, sel0, app, chunk>>
infown == <<node, next, buffer, dir, paths>>
vars   == <<kind, shared, isoown, infown>>

Iso == INSTANCE Iso7816
Inf == INSTANCE Infnoise WITH Lens <- NodeLens

ASSUME SlotAssumption ==
  /\ Cards \subseteq Iso!CardOf
  /\ Dirs \subseteq Seq(Inf!Entry)
  /\ MaxIndex \in Nat /\ MaxFaults \in Nat /\ Lens \subseteq Nat /\ NodeLens \subseteq Nat

Init ==
  \/ /\ kind = "Iso7816" /\ Iso!Init
     /\ node = FALSE /\ next = 0 /\ buffer = <<>> /\ dir = <<>> /\ paths = <<>>
  \/ /\ kind = "Infnoise" /\ Inf!Init
     /\ card = (CHOOSE c \in Cards : TRUE) /\ inserted = FALSE /\ sel = "None" /\ sel0 = "None"
     /\ app = "None" /\ chunk = 0

(* Slot::read when SlotInner is Empty: false at once, which is also its    *)
(* answer to an error of the source.                                       *)
ReadEmpty ==
  /\ pc = "closed"
  /\ result' = IF kind = "Iso7816" THEN "Transport" ELSE "Io"
  /\ UNCHANGED <<kind, live, faults, calm, pc, left, isoown, infown>>

Step ==
  \/ kind = "Iso7816" /\ Iso!Step /\ UNCHANGED <<kind, infown>>
  \/ kind = "Infnoise" /\ Inf!Step /\ UNCHANGED <<kind, isoown>>

Next ==
  \/ kind = "Iso7816" /\ Iso!Next /\ UNCHANGED <<kind, infown>>
  \/ kind = "Infnoise" /\ Inf!Next /\ UNCHANGED <<kind, isoown>>
  \/ ReadEmpty

Spec     == Init /\ [][Next]_vars

(* A device answers in the end, with what was asked or with an error.      *)
FairSpec == Spec /\ WF_vars(Step)

Contract == INSTANCE Source WITH
  Lens   <- Lens \cup NodeLens,
  phase  <- IF pc \in {"probe", "select"} THEN "opening" ELSE pc,
  alive  <- live,
  owed   <- left,
  result <- IF result \in {"none", "Ok"} THEN result ELSE "Err"

(***************************************************************************)
(* Properties                                                              *)
(***************************************************************************)
TypeOK == IF kind = "Iso7816" THEN Iso!TypeOK ELSE Inf!TypeOK

(* Whatever is behind it, a slot is the source a pool relies on: Source.   *)
SlotSpec == Contract!Spec

(* A card that passed the 8-byte probe never fails a read afterwards, nor   *)
(* is its chunk narrowed below 8, as long as nobody disturbs it (probe_app, *)
(* iso7816::Source::read).                                                 *)
ProbedCardReads == kind = "Iso7816" => Iso!ProbedCardReads

(* The probe finds an applet exactly when there is one to find: the applet *)
(* selected when the reader was connected, or PIV, or OpenPGP, answers an  *)
(* 8-byte challenge; one that is missing or mute hides no other            *)
(* (probe_app).                                                            *)
ProbeFinds == kind = "Iso7816" => Iso!ProbeFinds

(* An infnoise read that succeeds has filled the whole buffer with bytes   *)
(* of its own, in the driver's order and none twice, however many short or *)
(* interrupted reads it took (infnoise::Source::read).                     *)
WholeBuffer == kind = "Infnoise" => Inf!WholeBuffer

(* list_paths yields every node whose entry could be read and nothing      *)
(* else, in the order of their numbers as long as these fit into 64 bits   *)
(* (infnoise::list_paths).                                                 *)
InNumericOrder == Inf!InNumericOrder

(* Every open and every read ends, also when refusals narrow the chunk to  *)
(* a size the card does not take, and when the device is gone.             *)
Busy == pc \notin {"closed", "open"}
Terminates == Busy ~> ~ Busy

(* What an open or a read has still to do: applets to select and to probe, *)
(* bytes to fill, chunks to try.                                           *)
Later(a) == CASE a = "None" -> 2 [] a = "Piv" -> 1 [] OTHER -> 0

Applets ==
  CASE pc = "probe"  -> 2 * Later(app) + 1
    [] pc = "select" -> 2 * Later(app) + 2
    [] OTHER         -> 0

Due == <<Applets, left, chunk>>

Nearer ==
  \/ Applets' < Applets
  \/ Applets' = Applets /\ left' < left
  \/ Applets' = Applets /\ left' = left /\ chunk' < chunk

(* No open and no read turns in circles: each answer and each refusal      *)
(* brings it nearer to its end, and nothing that happens to the device     *)
(* sets it back (probe_app, iso7816::Source::read, infnoise::Source::read).*)
NoCircles == [][Busy /\ Busy' => IF Step THEN Nearer ELSE UNCHANGED Due]_vars
=============================================================================
