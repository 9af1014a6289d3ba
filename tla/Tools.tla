-------------------------------- MODULE Tools -------------------------------
(***************************************************************************)
(* A run of one of the two tools that hold a session, p11rand-seed and     *)
(* p11rand-read: what they owe the module and the user alike.              *)
(***************************************************************************)
EXTENDS Client, Integers, Sequences

CONSTANTS Request, Room, Totals       \* of Reader

ASSUME ToolsAssumption ==
  /\ Request \in Nat \ {0} /\ Room \in Nat /\ Room >= 2 * Request
  /\ Totals \subseteq Nat \cup {-1}

VARIABLES
  tool,                                           (* which program it is   *)
  no_credit, no_reseed, blob, kernel, denied,     (* of Seeder             *)
  n_total, hex, produced, exit_rv, gens, buf, rest, lines, acc, sent, eol, fd

Seed == INSTANCE Seeder
Read == INSTANCE Reader

seedown == <<no_credit, no_reseed, blob, kernel, denied>>
readown == <<n_total, hex, produced, exit_rv, gens, buf, rest, lines, acc, sent, eol, fd>>
vars    == <<tool, clientvars, seedown, readown>>

(* The variables of the program that is not run stand still.               *)
Init ==
  \/ /\ tool = "seed" /\ Seed!Init
     /\ n_total = 0 /\ hex = FALSE /\ produced = 0 /\ exit_rv = "0" /\ gens = 0 /\ buf = 0
     /\ rest = <<>> /\ lines = FALSE /\ acc = <<>> /\ sent = 0 /\ eol = FALSE /\ fd = "ok"
  \/ /\ tool = "read" /\ Read!Init
     /\ no_credit = FALSE /\ no_reseed = FALSE
     /\ blob = "zero" /\ kernel = Seed!Nothing /\ denied = FALSE

Step ==
  \/ tool = "seed" /\ Seed!Step /\ UNCHANGED <<tool, readown>>
  \/ tool = "read" /\ Read!Step /\ UNCHANGED <<tool, seedown>>

Interrupt == Signal /\ UNCHANGED <<tool, seedown, readown>>
Outlet    == tool = "read" /\ Read!Outlet /\ UNCHANGED <<tool, seedown>>
Ended     == pc = "exited" /\ UNCHANGED vars

Next == Step \/ Interrupt \/ Outlet \/ Ended

Spec == Init /\ [][Next]_vars

(* The thread runs, its sleeps end, and the module and the kernel answer.  *)
FairSpec == Spec /\ WF_vars(Step)

(***************************************************************************)
(* Properties                                                              *)
(***************************************************************************)
TypeOK == IF tool = "seed" THEN Seed!TypeOK ELSE Read!TypeOK

(* The kernel is only ever given a buffer that one successful              *)
(* C_GenerateRandom filled and that it was not given before (p11rand-seed, *)
(* main's loop).                                                           *)
FreshOnly == Seed!FreshOnly

(* Once the kernel has refused credit with EPERM the tool never asks for   *)
(* it again, although the kernel might grant it later (no_credit).         *)
DeniedForGood == [][denied /\ kernel' # kernel => ~ kernel'.credited]_vars

(* The output is the concatenation of what consecutive successful calls    *)
(* gave, cut at -n, whatever writes were short and whatever call failed    *)
(* (p11rand-read, write_full and want).                                    *)
Stream == tool = "read" => Read!Stream

(* p11rand-read exits with 0 only if stdout took every byte asked for, a   *)
(* signal came, or the reader of the pipe went away (exit_rv).             *)
SuccessIsWhole == tool = "read" => Read!SuccessIsWhole

(* A process that ends by itself leaves nothing behind: the session is     *)
(* closed, the module finalized, the buffer wiped or never used, on every  *)
(* path out of main of either tool.                                        *)
CleanExit == Seed!CleanExit /\ Read!CleanExit

(* A first signal is enough to end a tool, whatever it was doing, unless   *)
(* it is writing to a pipe that nobody reads: write_full and the flushes   *)
(* try again when a signal interrupts them (handle_signal, main's loops).  *)
StopsOnSignal == <>[](fd # "stalled") => (signals > 0 ~> pc = "exited")

(* p11rand-read.rs:31: "-n BYTES   total bytes to output".                 *)
DeliversAll == tool = "read" => Read!DeliversAll
=============================================================================
