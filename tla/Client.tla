------------------------------- MODULE Client -------------------------------
(***************************************************************************)
(* What the command line tools have in common: they load the module, take  *)
(* a session on its first slot, and count SIGINT and SIGTERM; the first    *)
(* signal asks for an orderly end, a second ends the process.              *)
(*                                                                         *)
(* The module answers any call with success or an error.  A tool gives the *)
(* operators the name of the step that follows and leaves its own          *)
(* variables unchanged.                                                    *)
(***************************************************************************)
EXTENDS Naturals

VARIABLES
  pc,                    (* where main is                                  *)
  initialized, session,  (* what the tool holds of the module              *)
  installed,             (* the handlers are in place: before, a signal kills *)
  signals,               (* SIGNAL_COUNT                                   *)
  code                   (* how the process ended                          *)

modvars    == <<initialized, session>>
sigvars    == <<installed, signals>>
clientvars == <<pc, modvars, sigvars, code>>

ClientInit ==
  /\ pc = "load" /\ initialized = FALSE /\ session = FALSE
  /\ installed = FALSE /\ signals = 0 /\ code = "none"

Exit(c)    == pc' = "exited" /\ code' = c
GoTo(next) == pc' = next /\ UNCHANGED code

(* handle_signal: the default action until install_signals, then the first *)
(* is counted and the second is _exit(130).                                *)
Signal_Counts ==                      \* mutant: every signal is only counted
  /\ pc # "exited"
  /\ IF ~ installed THEN Exit("killed") /\ UNCHANGED signals
     ELSE signals < 3 /\ signals' = signals + 1 /\ UNCHANGED <<pc, code>>
  /\ UNCHANGED <<modvars, installed>>

Signal ==
  /\ pc # "exited"
  /\ IF ~ installed THEN Exit("killed") /\ UNCHANGED signals
     ELSE IF signals = 0 THEN signals' = 1 /\ UNCHANGED <<pc, code>>
     ELSE signals' = 2 /\ Exit("130")
  /\ UNCHANGED <<modvars, installed>>

(***************************************************************************)
(* Setting up: each failure undoes what was set up before it.              *)
(***************************************************************************)
Load ==
  /\ pc = "load"
  /\ GoTo("start") \/ Exit("2")
  /\ UNCHANGED <<modvars, sigvars>>

Finalized == initialized' = FALSE /\ session' = FALSE

Initialize(next) ==
  /\ pc = "start"
  /\ \/ initialized' = TRUE /\ GoTo(next)
     \/ Exit("2") /\ UNCHANGED initialized
  /\ UNCHANGED <<session, sigvars>>

(* C_GetSlotList, first for the number of slots, then for the slots; the   *)
(* second call may find fewer, and slots[0] is then the 0 it started with. *)
CountSlots ==
  /\ pc = "count"
  /\ \/ GoTo("list") /\ UNCHANGED modvars
     \/ Finalized /\ Exit("1")
  /\ UNCHANGED sigvars

ListSlots ==
  /\ pc = "list"
  /\ \/ GoTo("open") /\ UNCHANGED modvars
     \/ Finalized /\ Exit("1")
  /\ UNCHANGED sigvars

OpenSession(next) ==
  /\ pc = "open"
  /\ \/ session' = TRUE /\ GoTo(next) /\ UNCHANGED initialized
     \/ Finalized /\ Exit("1")
  /\ UNCHANGED sigvars

Connect(next) == Load \/ Initialize("count") \/ CountSlots \/ ListSlots \/ OpenSession(next)

(* signal_reset and install_signals                                        *)
Install(next) ==
  /\ pc = "install"
  /\ installed' = TRUE /\ signals' = 0 /\ GoTo(next)
  /\ UNCHANGED modvars

(* The main thread alone; everything it holds of the module is given back. *)
Close(next) ==
  /\ pc = "close"
  /\ session' = FALSE /\ GoTo(next)
  /\ UNCHANGED <<initialized, sigvars>>

Places == {"load", "start", "count", "list", "open", "install", "close", "exited"}
Codes  == {"none", "0", "1", "2", "130", "killed"}

ClientTypeOK ==
  /\ initialized \in BOOLEAN /\ session \in BOOLEAN
  /\ installed \in BOOLEAN /\ signals \in 0 .. 2 /\ code \in Codes
=============================================================================
