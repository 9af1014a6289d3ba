------------------------------ MODULE Iso7816 -------------------------------
(***************************************************************************)
(* One iso7816::Source of p11rand-core (iso7816.rs): a smart card opened   *)
(* through PC/SC in shared mode, probed for an applet that answers GET     *)
(* CHALLENGE, and read in chunks whose size is learned by halving.         *)
(*                                                                         *)
(* A card is what its applets accept.  Other processes share it and may    *)
(* select another applet between two APDUs; it may be pulled and put back, *)
(* which resets the selection; an APDU may be refused or lost once.        *)
(***************************************************************************)
EXTENDS CardKinds

CONSTANTS
  Cards,       (* the cards that may sit in the reader                     *)
  Lens,        (* buffer lengths read asks for                             *)
  MaxFaults    (* bound on environment events                              *)

ProbeLe    == 8
FirstChunk_MaxLe == 255               \* mutant: start at the largest short Le
FirstChunk == 128

VARIABLES
  card,      (* the card of this reader                                    *)
  inserted,  (* whether it is in the reader                                *)
  sel,       (* the applet it has selected, by whichever process           *)
  faults,    (* environment: events spent so far                           *)
  calm,      (* history: no event since the handle was asked for           *)
  sel0,      (* history: what was selected then                            *)
  pc,        (* "closed", a stage of open, "open", or "reading"            *)
  live,      (* the Card handle still reaches the card                     *)
  app,       (* applet being probed, then Source.app                       *)
  chunk,     (* Source.max_chunk                                           *)
  left,      (* bytes of the caller's buffer not yet filled                *)
  result     (* of the last open or read                                   *)

envvars == <<card, inserted, sel, live>>
vars    == <<envvars, faults, calm, sel0, pc, app, chunk, left, result>>

Fault   == faults < MaxFaults /\ faults' = faults + 1 /\ calm' = FALSE
NoFault == UNCHANGED <<faults, calm>>

Init ==
  /\ card \in Cards /\ inserted \in BOOLEAN
  /\ sel = "None" /\ faults = 0 /\ calm = TRUE /\ sel0 = "None"
  /\ pc = "closed" /\ live = FALSE /\ app = "None"
  /\ chunk = 0 /\ left = 0 /\ result = "none"

(***************************************************************************)
(* Environment                                                             *)
(***************************************************************************)
Remove ==
  /\ inserted /\ Fault
  /\ inserted' = FALSE /\ live' = FALSE /\ sel' = "None"
  /\ UNCHANGED <<card, sel0, pc, app, chunk, left, result>>

Insert ==
  /\ ~ inserted /\ Fault
  /\ inserted' = TRUE
  /\ UNCHANGED <<card, live, sel, sel0, pc, app, chunk, left, result>>

OtherSelects(a) ==
  /\ inserted /\ a \in card.has /\ a # sel /\ Fault
  /\ sel' = a
  /\ UNCHANGED <<card, inserted, live, sel0, pc, app, chunk, left, result>>

(* try_get_challenge(n): Ok(true), Ok(false) (SW # 9000 or a short body),  *)
(* Err.                                                                    *)
Answered(n) == live /\ n \in card.le[sel] /\ NoFault
Refused(n)  == live /\ IF n \in card.le[sel] THEN Fault ELSE NoFault
Lost        == IF live THEN Fault ELSE NoFault

(***************************************************************************)
(* open: connect, then probe_app                                           *)
(***************************************************************************)
OpenFails(r) ==
  /\ pc' = "closed" /\ result' = r
  /\ live' = FALSE /\ app' = "None"

Connect ==
  /\ pc = "closed"
  /\ sel0' = sel
  /\ \/ /\ calm' = TRUE /\ UNCHANGED faults
        /\ IF inserted
           THEN pc' = "probe" /\ live' = TRUE /\ result' = "none" /\ UNCHANGED app
           ELSE OpenFails("NoCard")
     \/ Fault /\ OpenFails("Transport")
  /\ UNCHANGED <<card, inserted, sel, chunk, left>>

Opened ==
  /\ pc' = "open" /\ result' = "Ok" /\ chunk' = FirstChunk
  /\ UNCHANGED <<live, app>>

(* What probe_app turns to when an applet does not serve.                  *)
TryNext(a) ==
  /\ IF a = "OpenPgp" THEN OpenFails("Unsupported")
     ELSE /\ pc' = "select" /\ app' = (IF a = "None" THEN "Piv" ELSE "OpenPgp")
          /\ UNCHANGED <<live, result>>
  /\ UNCHANGED chunk

Probe ==
  /\ pc = "probe"
  /\ \/ Answered(ProbeLe) /\ Opened
     \/ Refused(ProbeLe) /\ TryNext(app)
     \/ Lost /\ OpenFails("Transport") /\ UNCHANGED chunk
  /\ UNCHANGED <<card, inserted, sel, sel0, left>>

Select_OrGiveUp ==                    \* mutant: return instead of continue
  /\ pc = "select"
  /\ \/ /\ live /\ app \in card.has /\ NoFault
        /\ sel' = app /\ pc' = "probe"
        /\ UNCHANGED <<live, app, result, chunk>>
     \/ /\ live /\ (IF app \in card.has THEN Fault ELSE NoFault)
        /\ OpenFails("Unsupported") /\ UNCHANGED <<sel, chunk>>
     \/ Lost /\ OpenFails("Transport") /\ UNCHANGED <<sel, chunk>>
  /\ UNCHANGED <<card, inserted, sel0, left>>

Select ==
  /\ pc = "select"
  /\ \/ /\ live /\ app \in card.has /\ NoFault
        /\ sel' = app /\ pc' = "probe"
        /\ UNCHANGED <<live, app, result, chunk>>
     \/ /\ live /\ (IF app \in card.has THEN Fault ELSE NoFault)
        /\ TryNext(app) /\ UNCHANGED sel
     \/ Lost /\ OpenFails("Transport") /\ UNCHANGED <<sel, chunk>>
  /\ UNCHANGED <<card, inserted, sel0, left>>

(***************************************************************************)
(* Source::read                                                            *)
(***************************************************************************)
BeginRead(n) ==
  /\ pc = "open"
  /\ pc' = "reading" /\ left' = n /\ result' = "none"
  /\ UNCHANGED <<envvars, faults, calm, sel0, app, chunk>>

ReadEnds(r) == pc' = "open" /\ result' = r /\ left' = 0

MayNarrow_ToZero(c) == c >= 1         \* mutant: off by one
MayNarrow(c) == c > 1
Narrowed_Same(c) == c                 \* mutant: retried with the refused size
Narrowed(c) == c \div 2

Challenge ==
  /\ pc = "reading" /\ left > 0
  /\ \/ /\ Answered(chunk)
        /\ left' = IF left < chunk THEN 0 ELSE left - chunk
        /\ UNCHANGED <<pc, chunk, result>>
     \/ /\ Refused(chunk)
        /\ IF MayNarrow(chunk)
           THEN chunk' = Narrowed(chunk) /\ UNCHANGED <<pc, left, result>>
           ELSE ReadEnds("Transport") /\ UNCHANGED chunk
     \/ Lost /\ ReadEnds("Transport") /\ UNCHANGED chunk
  /\ UNCHANGED <<envvars, sel0, app>>

ReadDone ==
  /\ pc = "reading" /\ left = 0
  /\ ReadEnds("Ok")
  /\ UNCHANGED <<envvars, faults, calm, sel0, app, chunk>>

(* The pool drops the source, and pcsc::Card disconnects with a reset if   *)
(* the handle still reaches the card; a failed open leaves it as it is.    *)
Close ==
  /\ pc = "open"
  /\ pc' = "closed" /\ live' = FALSE /\ app' = "None" /\ chunk' = 0
  /\ sel' = IF live THEN "None" ELSE sel
  /\ UNCHANGED <<card, inserted, faults, calm, sel0, left, result>>

Step == Probe \/ Select \/ Challenge \/ ReadDone
Next == \/ Step \/ Connect \/ Close \/ (\E n \in Lens : BeginRead(n))
        \/ Remove \/ Insert \/ (\E a \in App : OtherSelects(a))

Spec     == Init /\ [][Next]_vars
FairSpec == Spec /\ WF_vars(Step)

(***************************************************************************)
(* Properties                                                              *)
(***************************************************************************)
(* The chunk of an open source is one of 128, 64, ... 1: the guard of the  *)
(* read loop against max_chunk = 0 is never taken (iso7816.rs:251).        *)
Chunks == {1, 2, 4, 8, 16, 32, 64, 128}

TypeOK ==
  /\ card \in Cards /\ inserted \in BOOLEAN /\ sel \in App /\ sel0 \in App
  /\ faults \in 0 .. MaxFaults /\ calm \in BOOLEAN
  /\ pc \in {"closed", "probe", "select", "open", "reading"}
  /\ live \in BOOLEAN /\ app \in App /\ left \in Nat
  /\ chunk \in IF pc \in {"open", "reading"} THEN Chunks ELSE {0}
  /\ result \in {"none", "Ok", "NoCard", "Unsupported", "Transport"}

(* A card that passed the 8-byte probe never fails a read afterwards, nor   *)
(* is its chunk narrowed below 8, whatever Le it accepts besides, as long  *)
(* as nobody disturbs it: halving from 128 passes through 8 (probe_app,    *)
(* Source::read).                                                          *)
ProbedCardReads ==
  calm /\ pc \in {"open", "reading"} => result # "Transport" /\ chunk >= ProbeLe

(* The probe finds an applet exactly when there is one to find: the applet *)
(* selected when the reader was connected, or PIV, or OpenPGP, answers an  *)
(* 8-byte challenge; an applet that is missing or mute hides no other      *)
(* (probe_app).                                                            *)
Serves(a) == ProbeLe \in card.le[a]

ProbeFinds ==
  calm /\ inserted /\ pc \in {"closed", "open"} /\ result \in {"Ok", "Unsupported"} =>
    (result = "Ok" <=> Serves(sel0) \/ \E a \in card.has : Serves(a))

(* Every read and every open ends, also when refusals narrow the chunk to  *)
(* a size the card does not take.                                          *)
Terminates == pc \notin {"closed", "open"} ~> pc \in {"closed", "open"}

(* iso7816.rs:117-120: "halve on rejection so that fixed-Le cards land on  *)
(* 8 / 16 / 32 / 64 cleanly".                                              *)
FixedLeUsable ==
  calm /\ inserted /\ (\E n \in {8, 16, 32, 64} : \A a \in App : card.le[a] = {n})
    => result # "Unsupported"

(* iso7816.rs:22, Unsupported: "Card present, but no GET-CHALLENGE-capable *)
(* applet on default/PIV/OpenPGP", where capable is to answer the probe.   *)
UnsupportedIsTrue ==
  calm /\ result = "Unsupported" =>
    \A a \in {"None"} \cup card.has : ~ Serves(a)
=============================================================================
