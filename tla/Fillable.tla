------------------------------ MODULE Fillable ------------------------------
(***************************************************************************)
(* pool::fillable: can a pool be opened right now?  Every slot query of    *)
(* the PKCS#11 module and the wait tool rest on its answer.                *)
(*                                                                         *)
(* Cards are counted by opening them one by one (each is closed again at   *)
(* once), infnoise nodes by their names alone.  Devices come and go        *)
(* between two of its steps, and the PC/SC service may be restarted, which *)
(* the process's context does not survive.  What a call can be blamed for  *)
(* is therefore judged by all that was there between its first step and    *)
(* its last, which two history variables keep.                             *)
(***************************************************************************)
EXTENDS PoolConfig, FiniteSets

CONSTANTS
  Cfg,         (* the configuration                                        *)
  Names,       (* device names of either kind, ordered as enumerated       *)
  MaxFaults    (* bound on environment changes and failures                *)

VARIABLES
  dev,      (* environment: what each name stands for right now            *)
  ctx,      (* the PC/SC context: "none", "fresh", or of a service that is gone *)
  faults,   (* environment: events spent so far                            *)
  calm,     (* history: no event since the call began                      *)
  pc,       (* "idle", or the branch the call is in                        *)
  todo,     (* readers the loop has still to try                           *)
  usable,   (* readers that opened                                         *)
  answer,   (* of the last call: Ok(true), Ok(false) or Err                *)
  ever,     (* history: of a kind, what was there at some moment of the call *)
  always    (* history: what was there, and could be listed, at every one  *)

call == <<pc, todo, usable, answer>>
seen == <<ever, always>>
vars == <<dev, ctx, faults, calm, call, seen>>

Kinds    == {KindOf(Cfg, i) : i \in Slots(Cfg)}
DevState == {"absent", "mute", "usable"}
Listed(k) == {n \in Names : dev[k][n] # "absent"}
Needed(k) == Cardinality({i \in Slots(Cfg) : KindOf(Cfg, i) = k})

(* What is there for a query: cards that open and nodes that exist.        *)
There(k) ==
  IF k = "Iso7816" THEN {n \in Names : ctx = "fresh" /\ dev[k][n] = "usable"} ELSE Listed(k)

Unseen  == ever' = [k \in Kinds |-> {}] /\ always' = ever'
Watched ==
  IF pc = "idle" THEN UNCHANGED seen
  ELSE /\ ever' = [k \in Kinds |-> ever[k] \cup There(k)']
       /\ always' = [k \in Kinds |-> always[k] \cap There(k)']

Fault   == faults < MaxFaults /\ faults' = faults + 1 /\ calm' = FALSE
NoFault == UNCHANGED <<faults, calm>>

Answer(a) == answer' = a /\ pc' = "idle" /\ todo' = {} /\ usable' = 0

Idle ==
  /\ dev \in [Kinds -> [Names -> DevState]]
  /\ faults = 0 /\ calm = TRUE
  /\ pc = "idle" /\ todo = {} /\ usable = 0 /\ answer = "none"
  /\ ever = [k \in Kinds |-> {}] /\ always = ever

Init == Idle /\ ctx = "fresh"

Change(k, n, s) ==
  /\ dev[k][n] # s
  /\ Fault
  /\ dev' = [dev EXCEPT ![k][n] = s]
  /\ UNCHANGED <<ctx, call>>
  /\ Watched

Restart ==
  /\ ctx = "fresh"
  /\ Fault
  /\ ctx' = "stale"
  /\ UNCHANGED <<dev, call>>
  /\ Watched

Begin ==
  /\ pc = "idle"
  /\ calm' = TRUE /\ answer' = "none"
  /\ pc' = IF Cfg.iso7816_cards > 0 THEN "list" ELSE "count"
  /\ ever' = [k \in Kinds |-> There(k)] /\ always' = ever'
  /\ UNCHANGED <<dev, ctx, faults, todo, usable>>

(* list_readers: the readers, or an error.  An error of the first of its   *)
(* two queries, which a stale context always meets, is answered as no      *)
(* readers.                                                                *)
Readers(names) ==
  /\ todo' = names
  /\ pc' = "try" /\ UNCHANGED <<usable, answer>>

ListReaders ==
  /\ pc = "list"
  /\ \/ ctx = "fresh" /\ Readers(Listed("Iso7816")) /\ NoFault /\ UNCHANGED always
     \/ /\ ctx # "none" /\ Readers({}) /\ (IF ctx = "stale" THEN NoFault ELSE Fault)
        /\ always' = [always EXCEPT !["Iso7816"] = {}]
     \/ Answer("Err") /\ (IF ctx = "none" THEN NoFault ELSE Fault) /\ UNCHANGED always
  /\ UNCHANGED <<dev, ctx, ever>>

TryReader_ByName(n) ==                \* mutant: a reader with no card counts
  /\ pc = "try" /\ usable < Cfg.iso7816_cards
  /\ n \in todo /\ \A m \in todo : n <= m
  /\ todo' = todo \ {n}
  /\ usable' = usable + 1
  /\ UNCHANGED <<dev, ctx, faults, calm, pc, answer, seen>>

TryReader(n) ==
  /\ pc = "try" /\ usable < Cfg.iso7816_cards
  /\ n \in todo /\ \A m \in todo : n <= m
  /\ todo' = todo \ {n}
  /\ usable' = IF ctx = "fresh" /\ dev["Iso7816"][n] = "usable" THEN usable + 1 ELSE usable
  /\ UNCHANGED <<dev, ctx, faults, calm, pc, answer, seen>>

(* "try" is over: enough readers opened, or none is left.                  *)
Counted ==
  /\ pc = "try"
  /\ usable >= Cfg.iso7816_cards \/ todo = {}
  /\ IF usable < Cfg.iso7816_cards THEN Answer("false")
     ELSE /\ pc' = "count" /\ todo' = {} /\ UNCHANGED <<usable, answer>>
  /\ UNCHANGED <<dev, ctx, faults, calm, seen>>

CountPaths_Skipped ==                 \* mutant: cards are enough
  /\ pc = "count"
  /\ NoFault /\ Answer("true")
  /\ UNCHANGED <<dev, ctx, seen>>

CountPaths ==
  /\ pc = "count"
  /\ IF Cfg.infnoise_devices > 0
     THEN \/ /\ NoFault
             /\ IF Cardinality(Listed("Infnoise")) < Cfg.infnoise_devices
                THEN Answer("false") ELSE Answer("true")
          \/ Fault /\ Answer("Err")
     ELSE NoFault /\ Answer("true")
  /\ UNCHANGED <<dev, ctx, seen>>

Step == Begin \/ ListReaders \/ (\E n \in Names : TryReader(n)) \/ Counted \/ CountPaths

World == Restart \/ \E k \in Kinds, n \in Names, s \in DevState : Change(k, n, s)

Next == Step \/ World

Spec == Init /\ [][Next]_vars

(***************************************************************************)
(* Properties                                                              *)
(***************************************************************************)
Enough(k)  == Cardinality({n \in Names : dev[k][n] = "usable"}) >= Needed(k)
Opening(k) == Enough(k) /\ (k = "Iso7816" => ctx = "fresh")

TypeOK ==
  /\ dev \in [Kinds -> [Names -> DevState]] /\ ctx \in {"none", "fresh", "stale"}
  /\ faults \in 0 .. MaxFaults /\ calm \in BOOLEAN
  /\ pc \in {"idle", "list", "try", "count"} /\ todo \subseteq Names
  /\ usable \in 0 .. Cfg.iso7816_cards
  /\ answer \in {"none", "true", "false", "Err"}
  /\ ever \in [Kinds -> SUBSET Names] /\ always \in [Kinds -> SUBSET Names]

(* Whatever is plugged, unplugged or restarted while the query runs: true  *)
(* means that as many different cards as are needed opened in its course   *)
(* and as many nodes existed in it; false means that at some moment some   *)
(* of them were missing or could not be listed, so that devices which are  *)
(* there all along are never overlooked; and an error is no idle one.      *)
Truthful ==
  pc = "idle" =>
    /\ answer = "true" => \A k \in Kinds : Cardinality(ever[k]) >= Needed(k)
    /\ answer = "false" => \E k \in Kinds : Cardinality(always[k]) < Needed(k)
    /\ answer = "Err" => ~ calm

(* p11rand-wait.rs:4: the pool is fillable when "all configured N+M        *)
(* devices are present and respond".                                       *)
AllRespond ==
  pc = "idle" /\ calm /\ answer = "true" => \A k \in Kinds : Opening(k)
=============================================================================
