---------------------------- MODULE EntropyChain ----------------------------
(***************************************************************************)
(* What a Pool promises its caller, without devices, workers or rebinding. *)
(*                                                                         *)
(* A chain is opened at S_0.  A call of read delivers whole rounds; a      *)
(* round is made of fresh entropy only, in the documented order, and moves *)
(* the chain on exactly once.  A call that fails may have delivered some   *)
(* rounds, but never part of one, and leaves the chain where the last      *)
(* delivered round put it.  A call that succeeds has filled the buffer.    *)
(*                                                                         *)
(* Raw passthrough promises less: a call that fails may have overwritten   *)
(* part of the buffer with bytes of a read that did not end.  One that     *)
(* succeeds leaves nothing of these: the buffer is one read of one source. *)
(***************************************************************************)
EXTENDS Entropy

CONSTANTS Cfg, Lens

VARIABLES
  open,      (* the pool exists                                            *)
  chain,     (* its chain value                                            *)
  last,      (* the last attempt whose fetches were used                   *)
  owed,      (* bytes of the caller's buffer not yet delivered             *)
  out,       (* what the buffer of the call under way, or the last, holds  *)
  result     (* "pending" while a call is under way                        *)

chainvars == <<open, chain, last, owed, out, result>>

Failures == {"NotEnoughSources", "Resource", "ReadFailure"}

Init ==
  /\ ~ open /\ chain = Zero /\ last = 0
  /\ owed = 0 /\ out = <<>> /\ result = "Ok"

(* A call begins: open on a closed pool, read on an open one.              *)
CallOpen ==
  /\ ~ open /\ result # "pending"
  /\ result' = "pending"
  /\ UNCHANGED <<open, chain, last, owed, out>>

CallRead ==
  /\ open /\ result # "pending"
  /\ result' = "pending"
  /\ owed' \in Lens /\ out' = <<>>
  /\ UNCHANGED <<open, chain, last>>

Opened ==
  /\ ~ open /\ result = "pending"
  /\ open' /\ chain' = Zero /\ result' = "Ok"
  /\ UNCHANGED <<last, owed, out>>

(* One chained round: both digests cover the same entropy and the same     *)
(* previous state, under different separators.                             *)
Emit(a, e) ==
  /\ UseChain(Cfg)
  /\ open /\ result = "pending" /\ owed > 0
  /\ a > last /\ RoundEntropy(Cfg, a, e)
  /\ chain' = <<SepState, chain, e>>
  /\ out' = Append(out, [data |-> <<SepOut, chain, e>>, bytes |-> LowerOf(owed, RoundBytes)])
  /\ owed' = owed - LowerOf(owed, RoundBytes)
  /\ last' = a
  /\ UNCHANGED <<open, result>>

EmitRound ==
  /\ chain' # Zero
  /\ LET e == Absorbed(chain') IN e # <<>> /\ Emit(e[1].att, e)

(* Raw passthrough delivers the whole buffer from one read.                *)
EmitRaw ==
  /\ ~ UseChain(Cfg)
  /\ open /\ result = "pending"
  /\ \E f \in {out'[p].data : p \in DOMAIN out'} :
       /\ f.att > last /\ f.slot = 0 /\ f.name # NoName
       /\ last' = f.att
       /\ out' = <<[data |-> f, bytes |-> owed]>>
  /\ owed' = 0
  /\ result' = "Ok"
  /\ UNCHANGED <<open, chain>>

Succeed ==
  /\ open /\ result = "pending" /\ owed = 0
  /\ result' = "Ok"
  /\ UNCHANGED <<open, chain, last, owed, out>>

(* Raw passthrough: a read that failed half way has written to the buffer, *)
(* fewer bytes than were asked for and none that was delivered before.     *)
Spill ==
  /\ ~ UseChain(Cfg)
  /\ open /\ result = "pending"
  /\ out' # <<>>
  /\ LET f == out'[1].data
         k == out'[1].bytes
     IN  /\ f.att > last /\ f.slot = 0 /\ f.name # NoName
         /\ k \in 1 .. owed - 1
         /\ out' = Overwrite(out, f, k)

Tear == Spill /\ UNCHANGED <<open, chain, last, owed, result>>

Fail ==
  /\ result = "pending"
  /\ result' \in Failures
  /\ Spill \/ UNCHANGED out
  /\ UNCHANGED <<open, chain, last, owed>>

Close ==
  /\ open /\ result # "pending"
  /\ ~ open' /\ chain' = Zero
  /\ UNCHANGED <<last, owed, out, result>>

Next == \/ CallOpen \/ CallRead \/ Opened \/ Succeed \/ Fail \/ Close
        \/ EmitRound \/ EmitRaw \/ Tear

Spec == Init /\ [][Next]_chainvars
=============================================================================
