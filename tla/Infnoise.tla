------------------------------ MODULE Infnoise ------------------------------
(***************************************************************************)
(* One infnoise::Source of p11rand-core (infnoise.rs), a character node    *)
(* under /dev, and the enumeration of these nodes.                         *)
(*                                                                         *)
(* The driver hands out a stream of bytes that never repeats, numbered     *)
(* here from 1 at each call of read.  It answers with fewer bytes than     *)
(* asked for, may be interrupted, other processes read the same node, and  *)
(* the device may be unplugged, which a handle does not survive.           *)
(***************************************************************************)
EXTENDS Integers, FiniteSets, Sequences

CONSTANTS
  Dirs,        (* what read_dir("/dev") may yield, in its order            *)
  MaxIndex,    (* the largest u64                                          *)
  Lens,        (* buffer lengths read asks for                             *)
  MaxFaults    (* bound on environment events                              *)

(* An entry: whether reading it succeeds, whether its name begins with     *)
(* "infnoise", and the bytes that follow, where 10 stands for any that is  *)
(* no digit.                                                               *)
Entry == [ok : BOOLEAN, infnoise : BOOLEAN, suffix : Seq(0 .. 10)]

VARIABLES
  node,      (* environment: the node exists                               *)
  live,      (* the file still reaches the device                          *)
  next,      (* environment: bytes the driver has handed out               *)
  faults,    (* environment: events spent so far                           *)
  calm,      (* history: no event since the handle was asked for           *)
  pc,        (* "closed", "open" or "reading"                              *)
  buffer,    (* the caller's buffer: which byte of the stream is where     *)
  left,      (* how much of it is not yet filled                           *)
  result,    (* of the last open or read                                   *)
  dir, paths (* of the last list_paths                                     *)

source == <<node, live, next, faults, calm, pc, buffer, left, result>>
vars   == <<source, dir, paths>>

Fault   == faults < MaxFaults /\ faults' = faults + 1 /\ calm' = FALSE
NoFault == UNCHANGED <<faults, calm>>

Init ==
  /\ node \in BOOLEAN /\ live = FALSE /\ next = 0
  /\ faults = 0 /\ calm = TRUE
  /\ pc = "closed" /\ buffer = <<>> /\ left = 0 /\ result = "none"
  /\ dir = <<>> /\ paths = <<>>

(***************************************************************************)
(* list_paths                                                              *)
(***************************************************************************)
(* An entry that cannot be read is passed over (entries.flatten).          *)
IsNode(e) ==
  /\ e.ok /\ e.infnoise
  /\ e.suffix # <<>> /\ \A j \in DOMAIN e.suffix : e.suffix[j] < 10

Value(s) ==
  LET upto[n \in 0 .. Len(s)] == IF n = 0 THEN 0 ELSE 10 * upto[n - 1] + s[n]
  IN  upto[Len(s)]
Index(e) == IF Value(e.suffix) <= MaxIndex THEN Value(e.suffix) ELSE 0

Before_AsText(e, f) ==                \* mutant: infnoise10 before infnoise2
  \E j \in DOMAIN f.suffix :
    /\ \A i \in 1 .. j - 1 : i \in DOMAIN e.suffix /\ e.suffix[i] = f.suffix[i]
    /\ j \in DOMAIN e.suffix => e.suffix[j] < f.suffix[j]
Before(e, f) == Index(e) < Index(f)

Nodes(d) == {j \in DOMAIN d : IsNode(d[j])}

(* sort_by_key is stable: where a node goes is decided by those before it. *)
Place(d, j) ==
  Cardinality({i \in Nodes(d) : Before(d[i], d[j]) \/ (~ Before(d[j], d[i]) /\ i <= j)})

Sorted(d) ==
  [k \in 1 .. Cardinality(Nodes(d)) |-> d[CHOOSE j \in Nodes(d) : Place(d, j) = k]]

(* Pool::open and rebind ask for the names before they open one.           *)
List(d) ==
  /\ pc = "closed"
  /\ dir' = d /\ paths' = Sorted(d)
  /\ UNCHANGED source

(***************************************************************************)
(* Environment                                                             *)
(***************************************************************************)
Unplug ==
  /\ node /\ Fault
  /\ node' = FALSE /\ live' = FALSE
  /\ UNCHANGED <<next, pc, buffer, left, result, dir, paths>>

Plug ==
  /\ ~ node /\ Fault
  /\ node' = TRUE
  /\ UNCHANGED <<live, next, pc, buffer, left, result, dir, paths>>

OtherReads ==
  /\ node /\ pc = "reading" /\ Fault
  /\ next' = next + 1
  /\ UNCHANGED <<node, live, pc, buffer, left, result, dir, paths>>

(***************************************************************************)
(* open and Source::read                                                   *)
(***************************************************************************)
Open ==
  /\ pc = "closed"
  /\ \/ /\ calm' = TRUE /\ UNCHANGED faults
        /\ IF node THEN pc' = "open" /\ live' = TRUE /\ result' = "Ok"
           ELSE result' = "NoDevice" /\ UNCHANGED <<pc, live>>
     \/ Fault /\ result' = "NoDevice" /\ UNCHANGED <<pc, live>>
  /\ UNCHANGED <<node, next, buffer, left, dir, paths>>

BeginRead(n) ==
  /\ pc = "open"
  /\ pc' = "reading" /\ left' = n /\ result' = "none"
  /\ buffer' = [j \in 1 .. n |-> 0] /\ next' = 0
  /\ UNCHANGED <<node, live, faults, calm, dir, paths>>

Take_FromStart(k) ==                  \* mutant: buf is not moved on
  /\ next' = next + k
  /\ buffer' = [j \in DOMAIN buffer |-> IF j <= k THEN next + j ELSE buffer[j]]
  /\ left' = left - k

(* read(2) put k bytes at the start of what is left.                       *)
Take(k) ==
  LET done == Len(buffer) - left IN
    /\ next' = next + k
    /\ buffer' = [j \in DOMAIN buffer |->
                    IF j \in done + 1 .. done + k THEN next + j - done ELSE buffer[j]]
    /\ left' = left - k

ReadSome ==
  /\ pc = "reading" /\ left > 0 /\ live
  /\ \E k \in 1 .. left : Take(k)
  /\ NoFault
  /\ UNCHANGED <<node, live, pc, result, dir, paths>>

Interrupted ==
  /\ pc = "reading" /\ left > 0 /\ Fault
  /\ UNCHANGED <<node, live, next, pc, buffer, left, result, dir, paths>>

ReadEnds(r) == pc' = "open" /\ result' = r /\ left' = 0 /\ buffer' = buffer

(* End of file or an error.                                                *)
ReadFails ==
  /\ pc = "reading" /\ left > 0
  /\ IF live THEN Fault ELSE NoFault
  /\ ReadEnds("Io")
  /\ UNCHANGED <<node, live, next, dir, paths>>

ReadDone_AtOnce ==                    \* mutant: a short read is an answer
  /\ pc = "reading" /\ (left = 0 \/ next > 0)
  /\ ReadEnds("Ok")
  /\ UNCHANGED <<node, live, next, faults, calm, dir, paths>>

ReadDone ==
  /\ pc = "reading" /\ left = 0
  /\ ReadEnds("Ok")
  /\ UNCHANGED <<node, live, next, faults, calm, dir, paths>>

(* The pool drops the source and the file with it.                         *)
Close ==
  /\ pc = "open"
  /\ pc' = "closed" /\ live' = FALSE /\ buffer' = <<>> /\ next' = 0
  /\ UNCHANGED <<node, faults, calm, left, result, dir, paths>>

Step == ReadSome \/ ReadFails \/ ReadDone
Next == \/ Step \/ Interrupted \/ Open \/ Close \/ (\E n \in Lens : BeginRead(n))
        \/ (\E d \in Dirs : List(d)) \/ Unplug \/ Plug \/ OtherReads

Spec == Init /\ [][Next]_vars

(***************************************************************************)
(* Properties                                                              *)
(***************************************************************************)
TypeOK ==
  /\ node \in BOOLEAN /\ live \in BOOLEAN /\ next \in Nat
  /\ faults \in 0 .. MaxFaults /\ calm \in BOOLEAN
  /\ pc \in {"closed", "open", "reading"} /\ (live => node)
  /\ buffer \in Seq(0 .. next) /\ left \in 0 .. Len(buffer)
  /\ result \in {"none", "Ok", "NoDevice", "Io"}
  /\ dir \in Dirs \cup {<<>>}          \* of paths, see InNumericOrder

(* A read that succeeds has filled the whole buffer with bytes of its own, *)
(* in the order the driver gave them and none of them twice, however many  *)
(* short or interrupted reads it took (Source::read).                      *)
WholeBuffer ==
  pc = "open" /\ result = "Ok" =>
    /\ \A j \in DOMAIN buffer : buffer[j] > 0
    /\ \A i, j \in DOMAIN buffer : i < j => buffer[i] < buffer[j]

(* list_paths yields every node whose entry could be read and nothing      *)
(* else, in the order of their numbers as long as these fit into 64 bits;  *)
(* one that does not fit comes with the number 0.                          *)
InNumericOrder ==
  /\ Len(paths) = Cardinality(Nodes(dir))
  /\ \A j \in Nodes(dir) : \E i \in DOMAIN paths : paths[i] = dir[j]
  /\ \A i, j \in DOMAIN paths : i < j =>
       \/ Value(paths[i].suffix) <= Value(paths[j].suffix)
       \/ Value(paths[i].suffix) > MaxIndex
=============================================================================
