------------------------------- MODULE Seeder -------------------------------
(***************************************************************************)
(* p11rand-seed: opens a session of the PKCS#11 module and, once every     *)
(* interval, moves one buffer of it into the kernel's random pool, as      *)
(* credited entropy where the kernel allows it.                            *)
(*                                                                         *)
(* The kernel answers any ioctl with success, EPERM or another error, and  *)
(* signals arrive between any two steps, so nothing here needs a bound.    *)
(***************************************************************************)
EXTENDS Client

VARIABLES
  no_credit, no_reseed,  (* Args                                           *)
  blob,       (* what the byte buffer holds                                *)
  kernel,     (* environment: what was last moved into the kernel          *)
  denied      (* history: credit was refused with EPERM                    *)

flags == <<no_credit, no_reseed>>
own   == <<flags, blob, kernel, denied>>
vars  == <<clientvars, own>>

(* The buffer: zeroed, left by a failed call, filled and not used yet, or  *)
(* moved into the kernel already.                                          *)
Contents == {"zero", "torn", "fresh", "used"}
Nothing  == [data |-> "none", credited |-> FALSE]

Init ==
  /\ ClientInit
  /\ no_credit \in BOOLEAN /\ no_reseed \in BOOLEAN
  /\ blob = "zero" /\ kernel = Nothing /\ denied = FALSE

Interrupt == Signal /\ UNCHANGED own
Setup     == (Connect("device") \/ Install("loop")) /\ UNCHANGED own

OpenDevice_LeavesSession ==           \* mutant: the failure forgets the session
  /\ pc = "device"
  /\ \/ GoTo("install") /\ UNCHANGED modvars
     \/ Exit("1") /\ UNCHANGED modvars
  /\ UNCHANGED <<sigvars, own>>

OpenDevice ==
  /\ pc = "device"
  /\ \/ GoTo("install") /\ UNCHANGED modvars
     \/ Finalized /\ Exit("1")
  /\ UNCHANGED <<sigvars, own>>

(***************************************************************************)
(* The loop                                                                *)
(***************************************************************************)
Loop_IgnoresSignals ==                \* mutant: while true
  /\ pc = "loop"
  /\ GoTo("generate")
  /\ UNCHANGED <<modvars, sigvars, own>>

Loop ==
  /\ pc = "loop"
  /\ GoTo(IF signals = 0 THEN "generate" ELSE "wipe")
  /\ UNCHANGED <<modvars, sigvars, own>>

Generate_FallsThrough ==              \* mutant: a failure does not skip the insertion
  /\ pc = "generate"
  /\ blob' \in {"fresh", "torn", blob}
  /\ GoTo("insert")
  /\ UNCHANGED <<modvars, sigvars, flags, kernel, denied>>

(* A failed read may have filled part of the buffer (Pool::read).          *)
Generate ==
  /\ pc = "generate"
  /\ \/ blob' = "fresh" /\ GoTo("insert")
     \/ blob' \in {blob, "torn"} /\ GoTo(IF signals > 0 THEN "wipe" ELSE "sleep")
  /\ UNCHANGED <<modvars, sigvars, flags, kernel, denied>>

Push(credit) ==
  /\ kernel' = [data |-> blob, credited |-> credit]
  /\ blob' = "used"

(* A plain write: it may fail, and the bytes are dropped then.             *)
Write ==
  /\ pc = "insert" /\ no_credit
  /\ Push(FALSE) \/ UNCHANGED <<kernel, blob>>
  /\ GoTo("sleep")
  /\ UNCHANGED <<modvars, sigvars, flags, denied>>

Credit_Forgets ==                     \* mutant: EPERM is not remembered
  /\ pc = "insert" /\ ~ no_credit
  /\ \/ /\ Push(TRUE) /\ GoTo(IF no_reseed THEN "sleep" ELSE "reseed")
        /\ UNCHANGED <<flags, denied>>
     \/ denied' = TRUE /\ Push(FALSE) /\ GoTo("sleep") /\ UNCHANGED flags
     \/ GoTo("sleep") /\ UNCHANGED <<flags, blob, kernel, denied>>
  /\ UNCHANGED <<modvars, sigvars>>

(* RNDADDENTROPY: credited; or EPERM, and from then on plain writes, the   *)
(* first of them at once; or another error.                                *)
Credit ==
  /\ pc = "insert" /\ ~ no_credit
  /\ \/ /\ Push(TRUE) /\ GoTo(IF no_reseed THEN "sleep" ELSE "reseed")
        /\ UNCHANGED <<flags, denied>>
     \/ /\ no_credit' = TRUE /\ denied' = TRUE
        /\ Push(FALSE) \/ UNCHANGED <<kernel, blob>>
        /\ GoTo("sleep") /\ UNCHANGED no_reseed
     \/ GoTo("sleep") /\ UNCHANGED <<flags, blob, kernel, denied>>
  /\ UNCHANGED <<modvars, sigvars>>

(* RNDRESEEDCRNG: EPERM turns it off for the rest of the run.              *)
Reseed ==
  /\ pc = "reseed"
  /\ no_reseed' \in {no_reseed, TRUE} /\ GoTo("sleep")
  /\ UNCHANGED <<modvars, sigvars, no_credit, blob, kernel, denied>>

(* interruptible_sleep ends with the interval or with a signal.            *)
Sleep ==
  /\ pc = "sleep"
  /\ GoTo("loop")
  /\ UNCHANGED <<modvars, sigvars, own>>

(***************************************************************************)
(* The orderly end                                                         *)
(***************************************************************************)
Wipe ==
  /\ pc = "wipe"
  /\ blob' = "zero" /\ GoTo("close")
  /\ UNCHANGED <<modvars, sigvars, flags, kernel, denied>>

CloseSession == Close("finalize") /\ UNCHANGED own

Finalize ==
  /\ pc = "finalize"
  /\ Finalized /\ Exit("0")
  /\ UNCHANGED <<sigvars, own>>

Step ==
  \/ Setup \/ OpenDevice
  \/ Loop \/ Generate \/ Write \/ Credit \/ Reseed \/ Sleep
  \/ Wipe \/ CloseSession \/ Finalize

Next == Step \/ Interrupt

Spec == Init /\ [][Next]_vars

(***************************************************************************)
(* Properties                                                              *)
(***************************************************************************)
TypeOK ==
  /\ ClientTypeOK
  /\ pc \in Places \cup {"device", "loop", "generate", "insert", "reseed", "sleep",
                         "wipe", "finalize"}
  /\ no_credit \in BOOLEAN /\ no_reseed \in BOOLEAN /\ denied \in BOOLEAN
  /\ blob \in Contents /\ kernel \in [data : Contents \cup {"none"}, credited : BOOLEAN]

(* The kernel is only ever given a buffer that one successful              *)
(* C_GenerateRandom filled and that it was not given before: neither a     *)
(* half-filled buffer nor the last one again, whatever failed in between,  *)
(* is written or counted as entropy (main's loop).                         *)
FreshOnly == kernel.data \in {"none", "fresh"}

(* Once the kernel has refused credit with EPERM the tool never asks for   *)
(* it again, although the kernel might grant it later (no_credit).         *)
DeniedForGood == [][denied /\ kernel' # kernel => ~ kernel'.credited]_vars

(* A process that ends by itself leaves nothing behind: the session is     *)
(* closed, the module finalized, the buffer wiped or never used, on every  *)
(* path out of main.                                                       *)
CleanExit ==
  code \in {"0", "1", "2"} => ~ session /\ ~ initialized /\ blob = "zero"
=============================================================================
