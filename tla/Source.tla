------------------------------- MODULE Source -------------------------------
(***************************************************************************)
(* What a pool relies on in a slot, whichever device is behind it:         *)
(*   - a read succeeds only if the device it opened delivered every byte;  *)
(*     a dead handle never delivers again, only a read of nothing succeeds *)
(*   - nobody disturbs an open source, and its reads succeed               *)
(*   - a read that failed leaves the source open, an open that failed      *)
(*     leaves nothing                                                      *)
(***************************************************************************)
EXTENDS Naturals

CONSTANT Lens            \* buffer lengths read asks for

VARIABLES
  phase,    (* "closed", "opening", "open" or "reading"                    *)
  alive,    (* the handle reaches the device                               *)
  calm,     (* nothing happened since the source was asked for             *)
  owed,     (* bytes still to be delivered                                 *)
  result    (* of the last open or read                                    *)

vars == <<phase, alive, calm, owed, result>>

Init == phase = "closed" /\ alive = FALSE /\ calm = TRUE /\ owed = 0 /\ result = "none"

Disturb == calm' = FALSE

Begin ==
  /\ phase = "closed"
  /\ phase' = "opening" /\ alive' = TRUE /\ calm' = TRUE /\ result' = "none"
  /\ UNCHANGED owed

Opened ==
  /\ phase \in {"closed", "opening"}
  /\ phase' = "open" /\ result' = "Ok"
  /\ IF phase = "closed" THEN alive' = TRUE /\ calm' = TRUE ELSE UNCHANGED <<alive, calm>>
  /\ UNCHANGED owed

OpenFails ==
  /\ phase \in {"closed", "opening"}
  /\ phase' = "closed" /\ alive' = FALSE /\ calm' \in BOOLEAN /\ result' = "Err"
  /\ UNCHANGED owed

BeginRead(n) ==
  /\ phase = "open"
  /\ phase' = "reading" /\ owed' = n /\ result' = "none"
  /\ UNCHANGED <<alive, calm>>

Deliver ==
  /\ phase = "reading" /\ alive /\ owed > 0
  /\ owed' \in 0 .. owed - 1
  /\ UNCHANGED <<phase, alive, calm, result>>

ReadOk ==
  /\ phase = "reading" /\ owed = 0
  /\ phase' = "open" /\ result' = "Ok"
  /\ UNCHANGED <<alive, calm, owed>>

ReadErr ==
  /\ phase = "reading" /\ owed > 0 /\ Disturb
  /\ phase' = "open" /\ result' = "Err" /\ owed' = 0
  /\ UNCHANGED alive

(* Slot::read of an empty slot                                             *)
ReadNothing ==
  /\ phase = "closed" /\ result' = "Err"
  /\ UNCHANGED <<phase, alive, calm, owed>>

Close ==
  /\ phase = "open"
  /\ phase' = "closed" /\ alive' = FALSE
  /\ UNCHANGED <<calm, owed, result>>

World == Disturb /\ alive' \in {alive, FALSE} /\ UNCHANGED <<phase, owed, result>>

Next == \/ Begin \/ Opened \/ OpenFails \/ (\E n \in Lens : BeginRead(n))
        \/ Deliver \/ ReadOk \/ ReadErr \/ ReadNothing \/ Close \/ World

Spec == Init /\ [][Next]_vars
=============================================================================
