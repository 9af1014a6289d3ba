------------------------------- MODULE Waiter -------------------------------
(***************************************************************************)
(* p11rand-wait: polls the module until its pool can be filled, and gives  *)
(* up after a timeout or a signal.  C_Initialize, C_GetSlotList and        *)
(* C_Finalize are modelled as far as it uses them, and each query step by  *)
(* step by Fillable, so that devices, the PC/SC service, the clock and     *)
(* signals move while it is under way.                                     *)
(*                                                                         *)
(* Time is counted in ticks and only as far as it matters: from the first  *)
(* poll on, if there is a timeout.  A signal cuts no sleep short.          *)
(***************************************************************************)
EXTENDS Client, PoolConfig, FiniteSets

CONSTANTS
  Cfg, Names, MaxFaults,   (* of Fillable                                  *)
  Interval,                (* -i: ticks between two polls                  *)
  Timeouts,                (* values of -t in ticks; NoTimeout is none     *)
  MaxPoll                  (* ticks a poll takes at most                   *)

NoTimeout == 10000

ASSUME WaiterAssumption ==
  /\ Cfg \in Configs /\ Validate(Cfg)
  /\ Names \subseteq Nat /\ IsFiniteSet(Names) /\ MaxFaults \in Nat
  /\ Interval \in Nat \ {0} /\ MaxPoll \in Nat
  /\ Timeouts \subseteq 0 .. NoTimeout

VARIABLES
  dev, ctx, faults, calm,          (* of Fillable                          *)
  at, todo, usable, answer,        (* of Fillable: the call under way      *)
  ever, always,                    (* of Fillable: its histories           *)
  timeout,                         (* Args                                 *)
  elapsed,                         (* ticks since start                    *)
  busy,                            (* ticks the poll under way has taken   *)
  rv                               (* what main will return                *)

call      == <<at, todo, usable, answer>>
seen      == <<ever, always>>
queryvars == <<dev, ctx, faults, calm, call, seen>>
clock     == <<timeout, elapsed, busy>>
vars      == <<clientvars, queryvars, clock, rv>>

Query == INSTANCE Fillable WITH pc <- at

Init ==
  /\ ClientInit
  /\ Query!Idle /\ ctx = "none"
  /\ timeout \in Timeouts /\ elapsed = 0 /\ busy = 0 /\ rv = "1"

Interrupt == Signal /\ UNCHANGED <<queryvars, clock, rv>>

World == pc # "exited" /\ Query!World /\ UNCHANGED <<clientvars, clock, rv>>

Pass(ticks) == elapsed' = IF timeout = NoTimeout THEN 0 ELSE elapsed + ticks

Tick ==
  /\ pc = "poll" /\ timeout # NoTimeout /\ busy < MaxPoll
  /\ busy' = busy + 1 /\ Pass(1)
  /\ UNCHANGED <<clientvars, queryvars, timeout, rv>>

(***************************************************************************)
(* C_Initialize: the context first, then the first query                   *)
(***************************************************************************)
LoadModule == Load /\ UNCHANGED <<queryvars, clock, rv>>

GlobalInit ==
  /\ pc = "start"
  /\ \/ ctx' = (IF Cfg.iso7816_cards > 0 THEN "fresh" ELSE "none") /\ GoTo("probe")
     \/ Exit("2") /\ UNCHANGED ctx
  /\ UNCHANGED <<modvars, sigvars, dev, faults, calm, call, seen, clock, rv>>

Answered == at = "idle" /\ answer # "none"
Taken    == answer' = "none" /\ Query!Unseen /\ UNCHANGED <<dev, faults, calm, at, todo, usable>>

Ask ==
  /\ pc \in {"probe", "poll"} /\ ~ Answered
  /\ Query!Step
  /\ UNCHANGED <<clientvars, clock, rv>>

Initialized_KeepsContext ==           \* mutant: no global_shutdown
  /\ pc = "probe" /\ Answered
  /\ IF answer = "Err" THEN Exit("2") /\ UNCHANGED <<initialized, ctx>>
     ELSE initialized' = TRUE /\ GoTo("install") /\ UNCHANGED ctx
  /\ Taken
  /\ UNCHANGED <<session, sigvars, clock, rv>>

Initialized ==
  /\ pc = "probe" /\ Answered
  /\ IF answer = "Err" THEN ctx' = "none" /\ Exit("2") /\ UNCHANGED initialized
     ELSE initialized' = TRUE /\ GoTo("install") /\ UNCHANGED ctx
  /\ Taken
  /\ UNCHANGED <<session, sigvars, clock, rv>>

InstallSignals == Install("poll") /\ UNCHANGED <<queryvars, clock, rv>>

(***************************************************************************)
(* The loop.  An error of the query is a slot without a token.             *)
(***************************************************************************)
TimedOut_Late == timeout # NoTimeout /\ elapsed > timeout      \* mutant
TimedOut      == timeout # NoTimeout /\ elapsed >= timeout

GivesUp_NoSignals == TimedOut         \* mutant: signals are only counted
GivesUp == signals > 0 \/ TimedOut

Sees_Two == FALSE                     \* mutant: count > 1, and there is one slot
Sees     == answer = "true"

Judge ==
  /\ pc = "poll" /\ Answered
  /\ IF Sees THEN rv' = "0" /\ GoTo("finalize")
     ELSE rv' = rv /\ GoTo(IF GivesUp THEN "finalize" ELSE "sleep")
  /\ Taken /\ busy' = 0
  /\ UNCHANGED <<modvars, sigvars, ctx, timeout, elapsed>>

Sleep ==
  /\ pc = "sleep"
  /\ Pass(Interval) /\ GoTo("poll")
  /\ UNCHANGED <<modvars, sigvars, queryvars, timeout, busy, rv>>

Finalize ==
  /\ pc = "finalize"
  /\ Finalized /\ ctx' = "none" /\ Exit(rv)
  /\ UNCHANGED <<sigvars, dev, faults, calm, call, seen, clock, rv>>

Ended == pc = "exited" /\ UNCHANGED vars

Step ==
  \/ LoadModule \/ GlobalInit \/ Ask \/ Initialized \/ InstallSignals
  \/ Judge \/ Sleep \/ Finalize

Next == Step \/ Tick \/ World \/ Interrupt \/ Ended

Spec == Init /\ [][Next]_vars

(* The thread runs, and device operations and sleeps end.                  *)
FairSpec == Spec /\ WF_vars(Step)

(***************************************************************************)
(* Properties                                                              *)
(***************************************************************************)
TypeOK ==
  /\ ClientTypeOK /\ Query!TypeOK
  /\ pc \in Places \cup {"probe", "poll", "sleep", "finalize"}
  /\ timeout \in Timeouts /\ busy \in 0 .. MaxPoll /\ rv \in {"0", "1"}
  /\ elapsed \in Nat /\ (timeout = NoTimeout => elapsed = 0)

(* What p11rand-wait and every slot query are told is true of the time the *)
(* query took: enough cards opened and enough nodes existed in its course, *)
(* or some were missing, however they come and go (pool::fillable).        *)
Truthful == Query!Truthful

(* It gives up for a signal, or after the timeout, never before it and by  *)
(* less than an interval and a poll after it (the order of poll, test and  *)
(* sleep in main's loop).                                                  *)
PunctualTimeout ==
  code = "1" =>
    \/ signals > 0
    \/ timeout # NoTimeout /\ elapsed \in timeout .. timeout + Interval + MaxPoll - 1

(* The process gives back the PC/SC context and the module on every path   *)
(* out, also when C_Initialize fails half way.                             *)
CleanExit == code \in {"0", "1", "2"} => ~ initialized /\ ctx = "none"

(* A signal or a timeout ends it, whatever the devices do.                 *)
Ends == signals > 0 \/ timeout # NoTimeout ~> pc = "exited"

(* Without either it still ends once devices are there to stay, as long as *)
(* the PC/SC service it started with has not been restarted: errors on the *)
(* way are polled away (refresh_slot).                                     *)
EventuallySees ==
  <>[]((\A k \in Query!Kinds : Query!Enough(k)) /\ ctx # "stale") => <>(pc = "exited")
=============================================================================
