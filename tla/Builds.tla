------------------------------- MODULE Builds -------------------------------
(***************************************************************************)
(* A build of the library: some configuration is given to the build        *)
(* script, valid or not, and the next build is given another.              *)
(***************************************************************************)
EXTENDS PoolConfig

CONSTANT Given      (* the configurations builds are given                 *)

ASSUME BuildsAssumption == Given \subseteq Configs

VARIABLE cfg

Init == cfg \in Given
Next == cfg' \in Given
Spec == Init /\ [][Next]_cfg

(***************************************************************************)
(* What makes a configuration a sound one                                  *)
(***************************************************************************)
(* build.rs and Config::validate accept the same configurations, and the   *)
(* build log names the mode Pool::read will be in.                         *)
BuildAgrees ==
  /\ BuildAccepts(cfg) <=> Validate(cfg)
  /\ Validate(cfg) => (BuildUseChain(cfg) <=> UseChain(cfg))

(* Bytes bypass the SHA3 chain exactly when a round would be one fetch of  *)
(* one source (use_chain, slot_ticks): whoever asks for oversampling or a  *)
(* second source gets the chain, and nobody else.                          *)
RawIffOneFetch ==
  Validate(cfg) =>
    (~ UseChain(cfg) <=> \A i, j \in Slots(cfg) : i = j /\ SlotTicks(cfg, i) = 1)

(* The round loop runs exactly as long as some slot owes a fetch: every    *)
(* slot contributes to its first tick and the last tick is never empty.    *)
TicksTight ==
  Validate(cfg) =>
    /\ \A i \in Slots(cfg) : SlotTicks(cfg, i) \in 1 .. MaxTicks(cfg)
    /\ \E i \in Slots(cfg) : SlotTicks(cfg, i) = MaxTicks(cfg)
=============================================================================
