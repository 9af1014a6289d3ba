----------------------------- MODULE SlotProofs -----------------------------
(***************************************************************************)
(* Proofs about Slot, for all cards, all buffer lengths and any number of  *)
(* events: its invariants, and that it is the Source a pool relies on.     *)
(***************************************************************************)
EXTENDS Slot, SequenceTheorems, FiniteSetTheorems, WellFoundedInduction, TLAPS

(***************************************************************************)
(* The inductive invariant.  An undisturbed handle reaches its device, and *)
(* an undisturbed card still has the applet selected that answered the     *)
(* probe, whose length halving cannot step over.                           *)
(***************************************************************************)
Reached == calm /\ pc # "closed" => live

CardInv ==
  /\ Iso!TypeOK /\ Reached
  /\ calm /\ pc \in {"open", "reading"} =>
       result # "Transport" /\ chunk >= 8 /\ 8 \in card.le[sel]

(* What has been read so far is a prefix of the buffer.                    *)
Done == Len(buffer) - left

Gathered ==
  /\ \A j \in DOMAIN buffer : j <= Done => buffer[j] \in 1 .. next
  /\ \A i, j \in DOMAIN buffer : i < j /\ j <= Done => buffer[i] < buffer[j]

NodeInv ==
  /\ Inf!TypeOK /\ Reached
  /\ pc = "closed" => ~ live /\ buffer = <<>>
  /\ pc # "reading" => left = 0
  /\ pc = "reading" \/ (pc = "open" /\ result = "Ok") => Gathered

IInv ==
  /\ kind \in {"Iso7816", "Infnoise"}
  /\ kind = "Iso7816" => CardInv
  /\ kind = "Infnoise" => NodeInv

LEMMA Bounds ==
  /\ MaxFaults \in Nat /\ Lens \subseteq Nat /\ NodeLens \subseteq Nat
  /\ 0 \in 0 .. MaxFaults
  BY SlotAssumption

LEMMA InitIInv == Init => IInv
<1> SUFFICES ASSUME Init PROVE IInv
  OBVIOUS
<1>1. CASE kind = "Iso7816" /\ Iso!Init
  <2>1. Iso!TypeOK
    BY <1>1, Bounds DEF Iso!Init, Iso!TypeOK, Iso!App
  <2> QED
    BY <1>1, <2>1 DEF IInv, CardInv, Reached, Iso!Init
<1>2. CASE kind = "Infnoise" /\ Inf!Init
  <2>1. buffer \in Seq(0 .. next) /\ left \in 0 .. Len(buffer)
    BY <1>2 DEF Inf!Init
  <2>2. node \in BOOLEAN /\ live \in BOOLEAN /\ next \in Nat /\ (live => node)
    BY <1>2 DEF Inf!Init
  <2>3. faults \in 0 .. MaxFaults /\ calm \in BOOLEAN
    BY <1>2, Bounds DEF Inf!Init
  <2>4. /\ pc \in {"closed", "open", "reading"}
        /\ result \in {"none", "Ok", "NoDevice", "Io"} /\ dir \in Dirs \cup {<<>>}
    BY <1>2 DEF Inf!Init
  <2>5. Inf!TypeOK
    BY <2>1, <2>2, <2>3, <2>4 DEF Inf!TypeOK
  <2> QED
    BY <1>2, <2>5 DEF IInv, NodeInv, Reached, Inf!Init
<1> QED
  BY <1>1, <1>2 DEF Init

(***************************************************************************)
(* The card                                                                *)
(***************************************************************************)
LEMMA Halving ==
  ASSUME NEW c \in Iso!Chunks
  PROVE  /\ c \in Nat /\ c >= 1
         /\ c > 1 => c \div 2 \in Iso!Chunks
         /\ c >= 8 /\ c # 8 => c > 1 /\ c \div 2 >= 8
  BY DEF Iso!Chunks

LEMMA CardEnv ==
  ASSUME CardInv, Iso!Remove \/ Iso!Insert \/ (\E a \in Iso!App : Iso!OtherSelects(a))
  PROVE  CardInv' /\ (pc = "closed" => pc' = "closed")
<1>1. faults' \in 0 .. MaxFaults /\ calm' = FALSE
  <2>1. faults < MaxFaults /\ faults' = faults + 1 /\ calm' = FALSE
    BY DEF Iso!Remove, Iso!Insert, Iso!OtherSelects, Iso!Fault
  <2>2. faults \in 0 .. MaxFaults
    BY DEF CardInv, Iso!TypeOK
  <2> QED
    BY <2>1, <2>2, Bounds
<1>2. Iso!TypeOK'
  <2>1. UNCHANGED <<card, sel0, pc, app, chunk, left, result>>
    BY DEF Iso!Remove, Iso!Insert, Iso!OtherSelects
  <2>2. /\ inserted' \in BOOLEAN /\ live' \in BOOLEAN /\ sel' \in Iso!App
    <3>1. /\ inserted \in BOOLEAN /\ live \in BOOLEAN /\ sel \in Iso!App /\ "None" \in Iso!App
      BY DEF CardInv, Iso!TypeOK, Iso!App
    <3> QED
      BY <3>1 DEF Iso!Remove, Iso!Insert, Iso!OtherSelects
  <2> QED
    BY <1>1, <2>1, <2>2 DEF CardInv, Iso!TypeOK, Iso!App
<1> QED
  BY <1>1, <1>2 DEF CardInv, Reached, Iso!Remove, Iso!Insert, Iso!OtherSelects

(* What is left to show when the card, the reader and the buffer are the   *)
(* same after a step.                                                      *)
LEMMA CardStays ==
  ASSUME CardInv, UNCHANGED <<card, inserted>>,
         faults' \in 0 .. MaxFaults, calm' \in BOOLEAN,
         sel' \in Iso!App, sel0' \in Iso!App, app' \in Iso!App,
         live' \in BOOLEAN, left' \in Nat,
         pc' \in {"closed", "probe", "select", "open", "reading"},
         result' \in {"none", "Ok", "NoCard", "Unsupported", "Transport"},
         pc' \in {"open", "reading"} => chunk' \in Iso!Chunks,
         pc' \notin {"open", "reading"} => chunk' = 0,
         calm' /\ pc' # "closed" => live',
         calm' /\ pc' \in {"open", "reading"} =>
           result' # "Transport" /\ chunk' >= 8 /\ 8 \in card.le[sel']
  PROVE  CardInv'
<1>1. card' \in Cards /\ inserted' \in BOOLEAN
  BY DEF CardInv, Iso!TypeOK
<1>2. chunk' \in IF pc' \in {"open", "reading"} THEN Iso!Chunks ELSE {0}
  OBVIOUS
<1>3. Iso!TypeOK'
  BY <1>1, <1>2 DEF Iso!TypeOK
<1>4. Reached'
  BY DEF Reached
<1>5. card' = card
  OBVIOUS
<1> QED
  BY <1>3, <1>4, <1>5 DEF CardInv

LEMMA CardType ==
  ASSUME CardInv
  PROVE  /\ card \in Cards /\ inserted \in BOOLEAN /\ sel \in Iso!App /\ sel0 \in Iso!App
         /\ faults \in 0 .. MaxFaults /\ calm \in BOOLEAN
         /\ pc \in {"closed", "probe", "select", "open", "reading"}
         /\ live \in BOOLEAN /\ app \in Iso!App /\ left \in Nat
         /\ result \in {"none", "Ok", "NoCard", "Unsupported", "Transport"}
         /\ pc \in {"open", "reading"} => chunk \in Iso!Chunks
         /\ pc \notin {"open", "reading"} => chunk = 0
         /\ calm /\ pc # "closed" => live
         /\ calm /\ pc \in {"open", "reading"} =>
              result # "Transport" /\ chunk >= 8 /\ 8 \in card.le[sel]
  BY DEF CardInv, Iso!TypeOK, Reached

(* What becomes of faults and calm.                                        *)
Counted == faults' \in 0 .. MaxFaults /\ (calm' = TRUE \/ calm' = FALSE) /\ (calm' => calm)

LEMMA Counts ==
  ASSUME faults \in 0 .. MaxFaults, calm \in BOOLEAN
  PROVE  /\ Iso!Fault => Counted /\ ~ calm'
         /\ Iso!NoFault => Counted
         /\ Counted => calm' \in BOOLEAN
<1>1. ASSUME Iso!Fault PROVE Counted /\ ~ calm'
  <2>1. faults' \in 0 .. MaxFaults
    BY <1>1, Bounds DEF Iso!Fault
  <2> QED
    BY <1>1, <2>1 DEF Iso!Fault, Counted
<1>2. ASSUME Iso!NoFault PROVE Counted
  <2>1. faults' = faults /\ calm' = calm
    BY <1>2 DEF Iso!NoFault
  <2> QED
    BY <2>1 DEF Counted
<1> QED
  BY <1>1, <1>2 DEF Counted

(* Faults and calm after an APDU that was answered, refused or lost.       *)
LEMMA Exchange ==
  ASSUME faults \in 0 .. MaxFaults, calm \in BOOLEAN, live \in BOOLEAN,
         NEW n, Iso!Answered(n) \/ Iso!Refused(n) \/ Iso!Lost
  PROVE  /\ Counted
         /\ Iso!Answered(n) => live /\ n \in card.le[sel]
         /\ calm' /\ Iso!Refused(n) => n \notin card.le[sel]
         /\ Iso!Lost => ~ calm' \/ ~ live
<1>1. Counted
  BY Counts DEF Iso!Answered, Iso!Refused, Iso!Lost
<1>2. Iso!Answered(n) => live /\ n \in card.le[sel]
  BY DEF Iso!Answered
<1>3. calm' /\ Iso!Refused(n) => n \notin card.le[sel]
  BY DEF Iso!Refused, Iso!Fault
<1>4. Iso!Lost => ~ calm' \/ ~ live
  BY DEF Iso!Lost, Iso!Fault
<1> QED
  BY <1>1, <1>2, <1>3, <1>4

LEMMA CardConnects == ASSUME CardInv, Iso!Connect PROVE CardInv'
<1>1. /\ faults' \in 0 .. MaxFaults /\ calm' \in BOOLEAN
  <2>1. CASE calm' = TRUE /\ UNCHANGED faults
    BY <2>1, CardType
  <2>2. CASE Iso!Fault
    BY <2>2, CardType, Counts DEF Counted
  <2> QED
    BY <2>1, <2>2 DEF Iso!Connect
<1>2. /\ UNCHANGED <<card, inserted>> /\ sel' \in Iso!App /\ sel0' \in Iso!App
      /\ left' \in Nat /\ chunk' = 0
  BY CardType DEF Iso!Connect
<1>3. /\ pc' \in {"closed", "probe"} /\ (pc' = "probe" => live')
      /\ result' \in {"none", "NoCard", "Transport"}
      /\ live' \in BOOLEAN /\ app' \in Iso!App
  BY CardType DEF Iso!Connect, Iso!OpenFails, Iso!App
<1> QED
  BY <1>1, <1>2, <1>3, CardStays

LEMMA CardProbed == ASSUME CardInv, Iso!Probe PROVE CardInv'
<1>1. /\ faults' \in 0 .. MaxFaults /\ calm' \in BOOLEAN /\ (calm' => calm)
      /\ Iso!Answered(8) => live /\ 8 \in card.le[sel]
  BY CardType, Exchange, Counts DEF Counted, Iso!Probe, Iso!ProbeLe
<1>2. /\ UNCHANGED <<card, inserted>> /\ sel' = sel /\ sel' \in Iso!App /\ sel0' \in Iso!App
      /\ left' \in Nat /\ pc = "probe" /\ chunk = 0 /\ (calm => live)
  BY CardType DEF Iso!Probe
<1>3. CASE Iso!Answered(8) /\ Iso!Opened
  <2>1. /\ pc' = "open" /\ result' = "Ok" /\ chunk' = 128 /\ live' = live /\ app' = app
    BY <1>3 DEF Iso!Opened, Iso!FirstChunk
  <2> QED
    BY <1>1, <1>2, <1>3, <2>1, CardType, CardStays DEF Iso!Chunks
<1>4. CASE Iso!TryNext(app) \/ (Iso!OpenFails("Transport") /\ UNCHANGED chunk)
  <2>1. /\ chunk' = 0
        /\ pc' \in {"closed", "select"} /\ (pc' = "select" => live' = live)
        /\ result' \in {"none", "Ok", "NoCard", "Unsupported", "Transport"}
        /\ live' \in BOOLEAN /\ app' \in Iso!App
    BY <1>2, <1>4, CardType DEF Iso!TryNext, Iso!OpenFails, Iso!App
  <2> QED
    BY <1>1, <1>2, <2>1, CardStays
<1> QED
  BY <1>3, <1>4 DEF Iso!Probe, Iso!ProbeLe

LEMMA CardSelected == ASSUME CardInv, Iso!Select PROVE CardInv'
<1>1. /\ faults' \in 0 .. MaxFaults /\ calm' \in BOOLEAN /\ (calm' => calm)
  <2>1. Counted
    BY CardType, Counts DEF Iso!Select, Iso!Lost
  <2> QED
    BY <2>1, CardType, Counts DEF Counted
<1>2. /\ UNCHANGED <<card, inserted>> /\ sel0' \in Iso!App
      /\ left' \in Nat /\ pc = "select" /\ chunk = 0 /\ (calm => live)
  BY CardType DEF Iso!Select
<1>3. /\ chunk' = 0 /\ sel' \in Iso!App
      /\ pc' \in {"closed", "select", "probe"} /\ (pc' # "closed" => live' = live)
      /\ result' \in {"none", "Ok", "NoCard", "Unsupported", "Transport"}
      /\ live' \in BOOLEAN /\ app' \in Iso!App
  BY <1>2, CardType DEF Iso!Select, Iso!TryNext, Iso!OpenFails, Iso!App
<1> QED
  BY <1>1, <1>2, <1>3, CardStays

(* The one step that needs the length of the probe: a refusal without an   *)
(* event is of another length than 8, so halving stays at 8 or above.      *)
LEMMA CardChallenged == ASSUME CardInv, Iso!Challenge PROVE CardInv'
<1>1. chunk \in Iso!Chunks /\ left \in Nat /\ left > 0 /\ pc = "reading" /\ (calm => live)
  BY CardType DEF Iso!Challenge
<1>2. /\ chunk \in Nat /\ chunk >= 1
      /\ chunk > 1 => chunk \div 2 \in Iso!Chunks
      /\ chunk >= 8 /\ chunk # 8 => chunk > 1 /\ chunk \div 2 >= 8
  BY <1>1, Halving
<1>3. /\ faults' \in 0 .. MaxFaults /\ calm' \in BOOLEAN /\ (calm' => calm)
      /\ calm' /\ Iso!Refused(chunk) => chunk \notin card.le[sel]
      /\ Iso!Lost => ~ calm' \/ ~ live
  BY CardType, Exchange, Counts DEF Iso!Challenge, Counted
<1>4. /\ UNCHANGED <<card, inserted>> /\ sel' = sel /\ live' = live /\ app' = app /\ sel0' = sel0
      /\ live' \in BOOLEAN /\ sel' \in Iso!App /\ sel0' \in Iso!App /\ app' \in Iso!App
  BY CardType DEF Iso!Challenge, Iso!envvars
<1>5. calm => result # "Transport" /\ chunk >= 8 /\ 8 \in card.le[sel]
  BY <1>1, CardType
<1>6. result \in {"none", "Ok", "NoCard", "Unsupported", "Transport"}
  BY CardType
<1>7. CASE /\ left' = (IF left < chunk THEN 0 ELSE left - chunk)
           /\ UNCHANGED <<pc, chunk, result>>
  <2>1. left' \in Nat
    BY <1>1, <1>2, <1>7
  <2> QED
    BY <1>1, <1>3, <1>4, <1>5, <1>6, <1>7, <2>1, CardStays
<1>8. CASE Iso!Refused(chunk) /\ chunk > 1 /\ chunk' = chunk \div 2 /\ UNCHANGED <<pc, left, result>>
  <2>1. chunk' \in Iso!Chunks /\ (calm' => chunk' >= 8)
    BY <1>2, <1>3, <1>5, <1>8
  <2> QED
    BY <1>1, <1>3, <1>4, <1>5, <1>6, <1>8, <2>1, CardStays
<1>9. CASE /\ Iso!Lost \/ (Iso!Refused(chunk) /\ ~ chunk > 1)
           /\ Iso!ReadEnds("Transport") /\ UNCHANGED chunk
  <2>1. ~ calm'
    BY <1>1, <1>2, <1>3, <1>5, <1>9
  <2>2. pc' = "open" /\ result' = "Transport" /\ left' = 0 /\ chunk' = chunk
    BY <1>9 DEF Iso!ReadEnds
  <2> QED
    BY <1>1, <1>3, <1>4, <2>1, <2>2, CardStays
<1> QED
  BY <1>7, <1>8, <1>9 DEF Iso!Challenge, Iso!MayNarrow, Iso!Narrowed

LEMMA CardCalls ==
  ASSUME CardInv, Iso!ReadDone \/ Iso!Close \/ (\E n \in Lens : Iso!BeginRead(n))
  PROVE  CardInv'
<1>1. CASE Iso!ReadDone
  BY <1>1, CardType, CardStays DEF Iso!ReadDone, Iso!ReadEnds, Iso!envvars
<1>2. CASE Iso!Close
  BY <1>2, CardType, CardStays DEF Iso!Close, Iso!App
<1>3. ASSUME NEW n \in Lens, Iso!BeginRead(n) PROVE CardInv'
  BY <1>3, Bounds, CardType, CardStays DEF Iso!BeginRead, Iso!envvars
<1> QED
  BY <1>1, <1>2, <1>3

LEMMA CardNext ==
  ASSUME CardInv, Iso!Next
  PROVE  CardInv'
  BY CardEnv, CardConnects, CardProbed, CardSelected, CardChallenged, CardCalls
  DEF Iso!Next, Iso!Step

(***************************************************************************)
(* The node                                                                *)
(***************************************************************************)
LEMMA Widened ==
  ASSUME NEW m \in Nat, NEW n \in Nat, m <= n, NEW s \in Seq(0 .. m)
  PROVE  s \in Seq(0 .. n)
<1>1. DOMAIN s = 1 .. Len(s) /\ Len(s) \in Nat /\ s \in [1 .. Len(s) -> 0 .. m]
  BY LenProperties
<1>2. s \in [1 .. Len(s) -> 0 .. n]
  BY <1>1
<1> QED
  BY <1>1, <1>2, SeqDef

LEMMA NodeType ==
  ASSUME NodeInv
  PROVE  /\ node \in BOOLEAN /\ live \in BOOLEAN /\ next \in Nat /\ (live => node)
         /\ faults \in 0 .. MaxFaults /\ calm \in BOOLEAN
         /\ pc \in {"closed", "open", "reading"}
         /\ buffer \in Seq(0 .. next) /\ left \in 0 .. Len(buffer)
         /\ Len(buffer) \in Nat /\ DOMAIN buffer = 1 .. Len(buffer)
         /\ result \in {"none", "Ok", "NoDevice", "Io"} /\ dir \in Dirs \cup {<<>>}
         /\ calm /\ pc # "closed" => live
         /\ pc = "closed" => ~ live /\ buffer = <<>>
         /\ pc # "reading" => left = 0
<1>1. Inf!TypeOK
  BY DEF NodeInv
<1>2. Len(buffer) \in Nat /\ DOMAIN buffer = 1 .. Len(buffer)
  BY <1>1, LenProperties DEF Inf!TypeOK
<1> QED
  BY <1>1, <1>2 DEF NodeInv, Reached, Inf!TypeOK

(* What is left to show for a step: that it keeps the types, and the part  *)
(* of the buffer that was read.                                            *)
LEMMA NodeStays ==
  ASSUME node' \in BOOLEAN, live' \in BOOLEAN, next' \in Nat, live' => node',
         faults' \in 0 .. MaxFaults, calm' \in BOOLEAN,
         pc' \in {"closed", "open", "reading"},
         buffer' \in Seq(0 .. next'), left' \in 0 .. Len(buffer'),
         result' \in {"none", "Ok", "NoDevice", "Io"}, dir' \in Dirs \cup {<<>>},
         calm' /\ pc' # "closed" => live',
         pc' = "closed" => ~ live' /\ buffer' = <<>>,
         pc' # "reading" => left' = 0,
         pc' = "reading" \/ (pc' = "open" /\ result' = "Ok") => Gathered'
  PROVE  NodeInv'
  BY DEF NodeInv, Inf!TypeOK, Reached

LEMMA NodeCounts ==
  ASSUME NodeInv
  PROVE  /\ Inf!Fault => faults' \in 0 .. MaxFaults /\ calm' = FALSE
         /\ Inf!NoFault => faults' \in 0 .. MaxFaults /\ calm' = calm
         /\ UNCHANGED <<faults, calm>> => faults' \in 0 .. MaxFaults /\ calm' \in BOOLEAN
<1>1. ASSUME Inf!Fault PROVE faults' \in 0 .. MaxFaults /\ calm' = FALSE
  <2>1. faults < MaxFaults /\ faults' = faults + 1
    BY <1>1 DEF Inf!Fault
  <2>2. faults' \in 0 .. MaxFaults
    BY <2>1, NodeType, Bounds
  <2> QED
    BY <1>1, <2>2 DEF Inf!Fault
<1>2. ASSUME UNCHANGED <<faults, calm>>
      PROVE  faults' \in 0 .. MaxFaults /\ calm' = calm /\ calm' \in BOOLEAN
  <2>1. faults' = faults /\ calm' = calm
    BY <1>2
  <2> QED
    BY <2>1, NodeType
<1> QED
  BY <1>1, <1>2 DEF Inf!NoFault

LEMMA NodeEnv ==
  ASSUME NodeInv,
         \/ Inf!Unplug \/ Inf!Plug \/ Inf!OtherReads \/ Inf!Interrupted
         \/ (\E d \in Dirs : Inf!List(d))
  PROVE  NodeInv'
<1>1. /\ UNCHANGED <<pc, buffer, left, result>>
      /\ faults' \in 0 .. MaxFaults /\ calm' \in BOOLEAN /\ (calm' => calm)
      /\ live' \in {live, FALSE} /\ (calm' => live' = live)
  <2>1. CASE Inf!Fault /\ UNCHANGED <<pc, buffer, left, result>> /\ live' \in {live, FALSE}
    BY <2>1, NodeCounts
  <2>2. CASE \E d \in Dirs : Inf!List(d)
    BY <2>2, NodeCounts DEF Inf!List, Inf!source
  <2> QED
    BY <2>1, <2>2 DEF Inf!Unplug, Inf!Plug, Inf!OtherReads, Inf!Interrupted
<1>2. node' \in BOOLEAN /\ (live' => node') /\ live' \in BOOLEAN
  <2>1. \/ node' = node /\ live' = live
        \/ node' = FALSE /\ live' = FALSE
        \/ node' = TRUE /\ live' = live
    BY DEF Inf!Unplug, Inf!Plug, Inf!OtherReads, Inf!Interrupted, Inf!List, Inf!source
  <2>2. node \in BOOLEAN /\ live \in BOOLEAN /\ (live => node)
    BY NodeType
  <2>3. CASE node' = node /\ live' = live
    BY <2>2, <2>3, Zenon
  <2>4. CASE live' = FALSE /\ (node' = FALSE \/ node' = TRUE)
    BY <2>4, Zenon
  <2>5. CASE node' = TRUE /\ live' = live
    BY <2>2, <2>5, Zenon
  <2> QED
    BY <2>1, <2>3, <2>4, <2>5
<1>3. next' \in Nat /\ next <= next'
  BY NodeType
  DEF Inf!Unplug, Inf!Plug, Inf!OtherReads, Inf!Interrupted, Inf!List, Inf!source
<1>4. dir' \in Dirs \cup {<<>>}
  BY NodeType
  DEF Inf!Unplug, Inf!Plug, Inf!OtherReads, Inf!Interrupted, Inf!List
<1>5. buffer' \in Seq(0 .. next')
  BY <1>1, <1>3, NodeType, Widened
<1>6. ASSUME pc' = "reading" \/ (pc' = "open" /\ result' = "Ok") PROVE Gathered'
  <2>1. Gathered
    BY <1>1, <1>6 DEF NodeInv
  <2>2. \A j \in DOMAIN buffer : j <= Done => buffer[j] \in 1 .. next'
    BY <1>3, <2>1, NodeType DEF Gathered
  <2>3. buffer' = buffer /\ Done' = Done
    BY <1>1 DEF Done
  <2>4. \A i, j \in DOMAIN buffer : i < j /\ j <= Done => buffer[i] < buffer[j]
    BY <2>1 DEF Gathered
  <2> QED
    BY <2>2, <2>3, <2>4 DEF Gathered
<1>7. /\ pc' \in {"closed", "open", "reading"} /\ left' \in 0 .. Len(buffer')
      /\ result' \in {"none", "Ok", "NoDevice", "Io"}
      /\ pc' = "closed" => buffer' = <<>>
      /\ pc' # "reading" => left' = 0
  BY <1>1, NodeType
<1>8. /\ calm' /\ pc' # "closed" => live'
      /\ pc' = "closed" => ~ live'
  <2>1. /\ calm /\ pc # "closed" => live
        /\ pc = "closed" => ~ live
    BY NodeType
  <2>2. pc' = pc /\ (calm' => calm) /\ (calm' => (live => live')) /\ (live' => live)
    <3>1. ASSUME live' PROVE live
      BY <1>1, <3>1
    <3>2. ASSUME calm', live PROVE live'
      BY <1>1, <3>2
    <3> QED
      BY <1>1, <3>1, <3>2
  <2> QED
    BY <2>1, <2>2
<1> QED
  BY <1>1, <1>2, <1>3, <1>4, <1>5, <1>6, <1>7, <1>8, NodeStays

LEMMA NodeTakes ==
  ASSUME NodeInv, pc = "reading", NEW k \in 1 .. left, Inf!Take(k)
  PROVE  /\ next' \in Nat /\ buffer' \in Seq(0 .. next') /\ left' \in 0 .. Len(buffer')
         /\ Gathered'
<1> DEFINE new == [j \in DOMAIN buffer |->
                     IF j \in Done + 1 .. Done + k THEN next + j - Done ELSE buffer[j]]
<1>1. /\ next' = next + k /\ buffer' = new /\ left' = left - k
  BY DEF Inf!Take, Done
<1>2. /\ next \in Nat /\ k \in Nat /\ k >= 1 /\ left \in Nat /\ k <= left
      /\ Len(buffer) \in Nat /\ left <= Len(buffer) /\ DOMAIN buffer = 1 .. Len(buffer)
      /\ Done \in Nat /\ Done + k <= Len(buffer) /\ Done = Len(buffer) - left
  BY NodeType DEF Done
<1>3. \A j \in 1 .. Len(buffer) : buffer[j] \in 0 .. next
  BY <1>2, NodeType, ElementOfSeq
<1>4. \A j \in 1 .. Len(buffer) : new[j] \in 0 .. next + k
  BY <1>2, <1>3
<1>5. new \in [1 .. Len(buffer) -> 0 .. next + k]
  BY <1>2, <1>4
<1>6. new \in Seq(0 .. next + k) /\ Len(new) = Len(buffer)
  <2>1. new \in Seq(0 .. next + k)
    BY <1>2, <1>5, SeqDef
  <2> QED
    BY <1>2, <1>5, <2>1, LenProperties
<1>7. Gathered
  BY DEF NodeInv
<1>8. Done' = Done + k
  <2>1. Done' = Len(new) - (left - k)
    BY <1>1 DEF Done
  <2> HIDE DEF new
  <2> QED
    BY <1>2, <1>6, <2>1
<1>9. \A j \in 1 .. Len(buffer) : j <= Done + k => new[j] \in 1 .. next + k
  <2> SUFFICES ASSUME NEW j \in 1 .. Len(buffer), j <= Done + k
               PROVE  new[j] \in 1 .. next + k
    OBVIOUS
  <2>1. CASE j <= Done
    <3>1. buffer[j] \in 1 .. next
      BY <1>2, <1>7, <2>1 DEF Gathered
    <3>2. new[j] = buffer[j]
      BY <1>2, <2>1
    <3> QED
      BY <1>2, <3>1, <3>2
  <2>2. CASE j > Done
    <3>1. new[j] = next + j - Done
      BY <1>2, <2>2
    <3> QED
      BY <1>2, <2>2, <3>1
  <2> QED
    BY <1>2, <2>1, <2>2
<1>10. \A i, j \in 1 .. Len(buffer) : i < j /\ j <= Done + k => new[i] < new[j]
  <2> SUFFICES ASSUME NEW i \in 1 .. Len(buffer), NEW j \in 1 .. Len(buffer),
                      i < j, j <= Done + k
               PROVE  new[i] < new[j]
    OBVIOUS
  <2>1. CASE j <= Done
    <3>1. buffer[i] < buffer[j]
      BY <1>2, <1>7, <2>1 DEF Gathered
    <3>2. new[i] = buffer[i] /\ new[j] = buffer[j]
      BY <1>2, <2>1
    <3> QED
      BY <3>1, <3>2
  <2>2. CASE i <= Done /\ j > Done
    <3>1. buffer[i] \in 1 .. next
      BY <1>2, <1>7, <2>2 DEF Gathered
    <3>2. new[i] = buffer[i] /\ new[j] = next + j - Done
      BY <1>2, <2>2
    <3> QED
      BY <1>2, <2>2, <3>1, <3>2
  <2>3. CASE i > Done
    <3>1. new[i] = next + i - Done /\ new[j] = next + j - Done
      BY <1>2, <2>3
    <3> QED
      BY <1>2, <3>1
  <2> QED
    BY <1>2, <2>1, <2>2, <2>3
<1>11. DOMAIN new = 1 .. Len(buffer)
  BY <1>2
<1> HIDE DEF new
<1>12. /\ next' \in Nat /\ buffer' \in Seq(0 .. next') /\ left' \in 0 .. Len(buffer')
  BY <1>1, <1>2, <1>6
<1>13. Gathered'
  BY <1>1, <1>8, <1>9, <1>10, <1>11 DEF Gathered
<1> QED
  BY <1>12, <1>13

LEMMA NodeCalls ==
  ASSUME NodeInv, Inf!Open \/ Inf!Close \/ (\E n \in NodeLens : Inf!BeginRead(n))
  PROVE  NodeInv'
<1>1. CASE Inf!Open
  <2>1. /\ UNCHANGED <<node, next, buffer, left, dir>> /\ pc = "closed"
        /\ ~ live /\ buffer = <<>> /\ left = 0
    BY <1>1, NodeType DEF Inf!Open
  <2>2. /\ faults' \in 0 .. MaxFaults /\ calm' \in BOOLEAN
    <3>1. CASE calm' = TRUE /\ UNCHANGED faults
      BY <3>1, NodeType
    <3>2. CASE Inf!Fault
      BY <3>2, NodeCounts
    <3> QED
      BY <1>1, <3>1, <3>2 DEF Inf!Open
  <2>3. /\ \/ node /\ pc' = "open" /\ live' = TRUE
           \/ pc' = "closed" /\ live' = FALSE
        /\ result' \in {"Ok", "NoDevice"}
    BY <1>1, <2>1, NodeType DEF Inf!Open
  <2>4. Gathered'
    BY <2>1 DEF Gathered
  <2> QED
    BY <2>1, <2>2, <2>3, <2>4, NodeType, NodeStays
<1>2. CASE Inf!Close
  <2>1. /\ UNCHANGED <<node, faults, calm, left, result, dir>> /\ left = 0
        /\ pc' = "closed" /\ live' = FALSE /\ buffer' = <<>> /\ next' = 0
    BY <1>2, NodeType DEF Inf!Close
  <2>2. buffer' \in Seq(0 .. next') /\ Len(buffer') = 0
    BY <2>1
  <2>3. faults' \in 0 .. MaxFaults /\ calm' \in BOOLEAN
    BY <2>1, NodeType
  <2>4. /\ node' \in BOOLEAN /\ live' \in BOOLEAN /\ next' \in Nat /\ dir' \in Dirs \cup {<<>>}
        /\ left' = 0 /\ left' \in 0 .. Len(buffer')
        /\ result' \in {"none", "Ok", "NoDevice", "Io"}
    <3>1. node \in BOOLEAN /\ dir \in Dirs \cup {<<>>} /\ result \in {"none", "Ok", "NoDevice", "Io"}
      BY NodeType
    <3>2. left' = 0 /\ left' \in 0 .. Len(buffer') /\ next' \in Nat
      BY <2>1, <2>2
    <3>3. node' \in BOOLEAN /\ live' \in BOOLEAN
      BY <2>1, <3>1, Zenon
    <3> QED
      BY <2>1, <3>1, <3>2, <3>3
  <2> QED
    BY <2>1, <2>2, <2>3, <2>4, NodeStays
<1>3. ASSUME NEW n \in NodeLens, Inf!BeginRead(n) PROVE NodeInv'
  <2>1. /\ UNCHANGED <<node, live, faults, calm, dir>> /\ n \in Nat /\ pc = "open"
        /\ pc' = "reading" /\ left' = n /\ result' = "none"
        /\ buffer' = [j \in 1 .. n |-> 0] /\ next' = 0
    BY <1>3, Bounds DEF Inf!BeginRead
  <2>2. buffer' \in [1 .. n -> 0 .. 0]
    BY <2>1
  <2>3. buffer' \in Seq(0 .. next') /\ Len(buffer') = n
    BY <2>1, <2>2, SeqDef, LenProperties
  <2>4. Done' = 0 /\ DOMAIN buffer' = 1 .. n
    BY <2>1, <2>3 DEF Done
  <2>5. Gathered'
    BY <2>1, <2>4 DEF Gathered
  <2>6. faults' \in 0 .. MaxFaults /\ calm' \in BOOLEAN
    BY <2>1, NodeType
  <2> QED
    BY <2>1, <2>3, <2>5, <2>6, NodeType, NodeStays
<1> QED
  BY <1>1, <1>2, <1>3

LEMMA NodeReads ==
  ASSUME NodeInv, Inf!Step
  PROVE  NodeInv'
<1>1. CASE Inf!ReadSome
  <2>1. /\ UNCHANGED <<node, live, pc, result, dir>> /\ pc = "reading" /\ Inf!NoFault
    BY <1>1 DEF Inf!ReadSome
  <2>2. PICK k \in 1 .. left : Inf!Take(k)
    BY <1>1 DEF Inf!ReadSome
  <2>3. /\ next' \in Nat /\ buffer' \in Seq(0 .. next') /\ left' \in 0 .. Len(buffer')
        /\ Gathered'
    BY <2>1, <2>2, NodeTakes
  <2>4. faults' \in 0 .. MaxFaults /\ calm' = calm
    BY <2>1, NodeCounts
  <2> QED
    BY <2>1, <2>3, <2>4, NodeType, NodeStays
<1>2. CASE Inf!ReadFails
  <2>1. /\ UNCHANGED <<node, live, next, dir>> /\ buffer' = buffer /\ left' = 0
        /\ pc = "reading" /\ pc' = "open" /\ result' = "Io"
    BY <1>2 DEF Inf!ReadFails, Inf!ReadEnds
  <2>2. faults' \in 0 .. MaxFaults /\ calm' \in BOOLEAN /\ (calm' => live)
    <3>1. CASE Inf!Fault
      BY <3>1, NodeCounts
    <3>2. CASE ~ live /\ Inf!NoFault
      <4>1. ~ calm /\ calm' = calm /\ faults' \in 0 .. MaxFaults /\ calm \in BOOLEAN
        BY <2>1, <3>2, NodeType, NodeCounts
      <4> QED
        BY <4>1
    <3>3. Inf!Fault \/ (~ live /\ Inf!NoFault)
      BY <1>2, NodeType DEF Inf!ReadFails
    <3> QED
      BY <3>1, <3>2, <3>3
  <2> QED
    BY <2>1, <2>2, NodeType, NodeStays
<1>3. CASE Inf!ReadDone
  <2>1. /\ UNCHANGED <<node, live, next, faults, calm, dir>> /\ buffer' = buffer
        /\ left' = 0 /\ left = 0
        /\ pc = "reading" /\ pc' = "open" /\ result' = "Ok"
    BY <1>3 DEF Inf!ReadDone, Inf!ReadEnds
  <2>2. faults' \in 0 .. MaxFaults /\ calm' \in BOOLEAN
    BY <2>1, NodeType
  <2>3. Gathered
    BY <2>1 DEF NodeInv
  <2>4. Done' = Done
    BY <2>1 DEF Done
  <2>5. Gathered'
    BY <2>1, <2>3, <2>4 DEF Gathered
  <2> QED
    BY <2>1, <2>2, <2>5, NodeType, NodeStays
<1> QED
  BY <1>1, <1>2, <1>3 DEF Inf!Step

LEMMA NodeNext ==
  ASSUME NodeInv, Inf!Next
  PROVE  NodeInv'
  BY NodeEnv, NodeCalls, NodeReads DEF Inf!Next

(***************************************************************************)
(* The slot                                                                *)
(***************************************************************************)
LEMMA EmptyReads ==
  ASSUME IInv, ReadEmpty
  PROVE  IInv'
<1>1. CASE kind = "Iso7816"
  <2>1. /\ UNCHANGED <<kind, live, faults, calm, pc, left, card, inserted, sel, sel0, app, chunk>>
        /\ pc = "closed" /\ result' = "Transport"
    BY <1>1 DEF ReadEmpty, isoown
  <2>2. CardInv
    BY <1>1 DEF IInv
  <2>3. CardInv'
    BY <2>1, <2>2, CardType, CardStays
  <2> QED
    BY <1>1, <2>1, <2>3 DEF IInv
<1>2. CASE kind = "Infnoise"
  <2>1. /\ UNCHANGED <<kind, live, faults, calm, pc, left, node, next, buffer, dir, paths>>
        /\ pc = "closed" /\ result' = "Io"
    BY <1>2 DEF ReadEmpty, infown
  <2>2. NodeInv
    BY <1>2 DEF IInv
  <2>3. /\ faults' \in 0 .. MaxFaults /\ calm' \in BOOLEAN /\ node' \in BOOLEAN
        /\ live' \in BOOLEAN /\ (live' => node') /\ next' \in Nat
        /\ buffer' \in Seq(0 .. next') /\ left' \in 0 .. Len(buffer')
        /\ pc' = "closed" /\ ~ live' /\ buffer' = <<>> /\ left' = 0
        /\ dir' \in Dirs \cup {<<>>}
    BY <2>1, <2>2, NodeType
  <2>4. NodeInv'
    BY <2>1, <2>3, NodeStays
  <2> QED
    BY <1>2, <2>1, <2>4 DEF IInv
<1> QED
  BY <1>1, <1>2 DEF IInv

LEMMA StutterIInv ==
  ASSUME IInv, UNCHANGED vars
  PROVE  IInv'
<1>1. CASE kind = "Iso7816"
  <2>1. kind' = kind /\ UNCHANGED <<shared, isoown>>
    BY DEF vars
  <2>2. CardInv
    BY <1>1 DEF IInv
  <2>3. CardInv'
    BY <2>1, <2>2 DEF CardInv, Iso!TypeOK, Reached, shared, isoown
  <2> QED
    BY <1>1, <2>1, <2>3 DEF IInv
<1>2. CASE kind = "Infnoise"
  <2>1. kind' = kind /\ UNCHANGED <<shared, infown>>
    BY DEF vars
  <2>2. NodeInv
    BY <1>2 DEF IInv
  <2>3. NodeInv'
    BY <2>1, <2>2 DEF NodeInv, Inf!TypeOK, Reached, Gathered, Done, shared, infown
  <2> QED
    BY <1>2, <2>1, <2>3 DEF IInv
<1> QED
  BY <1>1, <1>2 DEF IInv

LEMMA NextIInv ==
  ASSUME IInv, [Next]_vars
  PROVE  IInv'
<1>1. CASE kind = "Iso7816" /\ Iso!Next /\ UNCHANGED <<kind, infown>>
  <2>1. CardInv /\ kind' = kind
    BY <1>1 DEF IInv
  <2>2. CardInv'
    BY <1>1, <2>1, CardNext
  <2> QED
    BY <1>1, <2>1, <2>2 DEF IInv
<1>2. CASE kind = "Infnoise" /\ Inf!Next /\ UNCHANGED <<kind, isoown>>
  <2>1. NodeInv /\ kind' = kind
    BY <1>2 DEF IInv
  <2>2. NodeInv'
    BY <1>2, <2>1, NodeNext
  <2> QED
    BY <1>2, <2>1, <2>2 DEF IInv
<1> QED
  BY <1>1, <1>2, EmptyReads, StutterIInv DEF Next

THEOREM Invariance == Spec => []IInv
<1>1. Init => IInv
  BY InitIInv
<1>2. IInv /\ [Next]_vars => IInv'
  BY NextIInv
<1> QED
  BY <1>1, <1>2, PTL DEF Spec

(* The types of both sources.                                              *)
THEOREM TypeCorrect == Spec => []TypeOK
<1>1. IInv => TypeOK
  BY DEF IInv, CardInv, NodeInv, TypeOK
<1> QED
  BY <1>1, Invariance, PTL

(* A card that passed the probe never fails an undisturbed read, nor is    *)
(* its chunk narrowed below the 8 bytes of the probe.                      *)
THEOREM ProbedCardsRead == Spec => []ProbedCardReads
<1>1. IInv => ProbedCardReads
  BY DEF IInv, CardInv, ProbedCardReads, Iso!ProbedCardReads, Iso!ProbeLe
<1> QED
  BY <1>1, Invariance, PTL

(***************************************************************************)
(* The search for an applet.  What was tried before the applet of the      *)
(* moment is mute, and a card that is open serves.                         *)
(***************************************************************************)
Serving   == Iso!Serves(sel0) \/ \E a \in card.has : Iso!Serves(a)
Passed(a) ==
  /\ a # "None" => ~ Iso!Serves(sel0)
  /\ a = "OpenPgp" /\ "Piv" \in card.has => ~ Iso!Serves("Piv")

Search ==
  /\ card.has \subseteq {"Piv", "OpenPgp"} /\ app \in {"None", "Piv", "OpenPgp"}
  /\ pc = "closed" => app = "None"
  /\ calm =>
       /\ pc = "probe" => /\ Passed(app)
                          /\ app = "None" => sel = sel0
                          /\ app # "None" => sel = app /\ app \in card.has
       /\ pc = "select" => Passed(app) /\ app # "None"
       /\ pc \in {"open", "reading"} => Serving /\ result # "Unsupported"
       /\ pc = "closed" /\ result = "Ok" => Serving
       /\ pc = "closed" /\ result = "Unsupported" => ~ Serving

(* An applet that does not answer: the search goes on, or is over.         *)
LEMMA SearchGoesOn ==
  ASSUME Search, pc \in {"probe", "select"}, Iso!TryNext(app), UNCHANGED <<card, sel0>>, calm' => calm,
         calm' /\ pc = "probe" => ~ Iso!Serves(sel),
         calm' /\ pc = "select" => app \notin card.has
  PROVE  Search'
<1>1. UNCHANGED <<card, sel0>>
  OBVIOUS
<1>2. CASE app = "OpenPgp"
  <2>1. pc' = "closed" /\ result' = "Unsupported" /\ app' = "None"
    BY <1>2 DEF Iso!TryNext, Iso!OpenFails
  <2>2. calm' => ~ Serving
    <3>1. ASSUME calm' PROVE ~ Iso!Serves(sel0) /\ ("Piv" \in card.has => ~ Iso!Serves("Piv"))
      BY <1>2, <3>1 DEF Search, Passed
    <3>2. ASSUME calm' PROVE "OpenPgp" \in card.has => ~ Iso!Serves("OpenPgp")
      BY <1>2, <3>2 DEF Search
    <3> QED
      BY <3>1, <3>2 DEF Search, Serving
  <2>3. calm' => ~ Serving'
    BY <1>1, <2>2 DEF Serving, Iso!Serves
  <2> QED
    BY <1>1, <2>1, <2>3 DEF Search
<1>3. CASE app # "OpenPgp"
  <2>1. pc' = "select" /\ app' = (IF app = "None" THEN "Piv" ELSE "OpenPgp")
    BY <1>3 DEF Iso!TryNext
  <2>2. ASSUME calm' PROVE Passed(app')
    <3>1. CASE app = "None"
      <4>1. app' = "Piv" /\ ~ Iso!Serves(sel0)
        BY <2>1, <2>2, <3>1 DEF Search
      <4> QED
        BY <4>1 DEF Passed
    <3>2. CASE app = "Piv"
      <4>1. app' = "OpenPgp" /\ ~ Iso!Serves(sel0)
        BY <2>1, <2>2, <3>2 DEF Search, Passed
      <4>2. "Piv" \in card.has => ~ Iso!Serves("Piv")
        BY <2>2, <3>2 DEF Search
      <4> QED
        BY <4>1, <4>2 DEF Passed
    <3> QED
      BY <1>3, <3>1, <3>2 DEF Search
  <2>3. calm' => Passed(app)'
    BY <1>1, <2>2 DEF Passed, Iso!Serves
  <2> QED
    BY <1>1, <2>1, <2>3 DEF Search
<1> QED
  BY <1>2, <1>3

(* Steps that leave what was found alone.                                  *)
LEMMA SearchRests ==
  ASSUME Search, UNCHANGED <<card, sel0>>, calm' => calm,
         \/ UNCHANGED <<pc, sel, app, result>>
         \/ pc \in {"open", "reading"} /\ pc' \in {"open", "reading"} /\ app' = app
            /\ result' # "Unsupported"
         \/ pc = "open" /\ pc' = "closed" /\ app' = "None" /\ result' = result
         \/ pc' = "closed" /\ app' = "None" /\ result' \in {"Transport", "NoCard"}
         \/ ~ calm' /\ (pc' = "closed" => app' = "None") /\ app' \in {"None", "Piv", "OpenPgp"}
  PROVE  Search'
<1>1. /\ card' = card /\ (Serving <=> Serving') /\ (Passed(app) /\ app' = app => Passed(app)')
  BY DEF Serving, Passed, Iso!Serves
<1> QED
  BY <1>1 DEF Search

LEMMA SearchProbes == ASSUME Search, CardInv, Iso!Probe PROVE Search'
<1>0. pc = "probe" /\ UNCHANGED <<card, sel, sel0>> /\ calm \in BOOLEAN
  BY CardType DEF Iso!Probe
<1>1. CASE Iso!Answered(Iso!ProbeLe) /\ Iso!Opened
  <2>1. /\ pc' = "open" /\ result' = "Ok" /\ app' = app /\ calm' = calm /\ Iso!Serves(sel)
    BY <1>1 DEF Iso!Answered, Iso!Opened, Iso!NoFault, Iso!Serves
  <2>2. calm => Serving
    BY <1>0, <2>1 DEF Search, Serving
  <2>3. calm' => Serving'
    BY <1>0, <2>1, <2>2 DEF Serving, Iso!Serves
  <2> QED
    BY <1>0, <2>1, <2>3 DEF Search
<1>2. CASE Iso!Refused(Iso!ProbeLe) /\ Iso!TryNext(app)
  <2>1. (calm' => calm) /\ (calm' => ~ Iso!Serves(sel))
    BY <1>2 DEF Iso!Refused, Iso!Fault, Iso!NoFault, Iso!Serves
  <2> QED
    BY <1>0, <1>2, <2>1, SearchGoesOn
<1>3. CASE Iso!Lost /\ Iso!OpenFails("Transport")
  BY <1>0, <1>3, SearchRests DEF Iso!Lost, Iso!Fault, Iso!NoFault, Iso!OpenFails
<1> QED
  BY <1>1, <1>2, <1>3 DEF Iso!Probe

LEMMA SearchSelects == ASSUME Search, CardInv, Iso!Select PROVE Search'
<1>0. pc = "select" /\ UNCHANGED <<card, sel0>> /\ calm \in BOOLEAN
  BY CardType DEF Iso!Select
<1>1. CASE live /\ app \in card.has /\ Iso!NoFault /\ sel' = app /\ pc' = "probe"
           /\ UNCHANGED <<live, app, result, chunk>>
  <2>1. Passed(app) => Passed(app)'
    BY <1>0, <1>1 DEF Passed, Iso!Serves
  <2> QED
    BY <1>0, <1>1, <2>1 DEF Search, Iso!NoFault
<1>2. CASE live /\ (IF app \in card.has THEN Iso!Fault ELSE Iso!NoFault) /\ Iso!TryNext(app)
  <2>1. (calm' => calm) /\ (calm' => app \notin card.has)
    BY <1>2 DEF Iso!Fault, Iso!NoFault
  <2> QED
    BY <1>0, <1>2, <2>1, SearchGoesOn
<1>3. CASE Iso!Lost /\ Iso!OpenFails("Transport")
  BY <1>0, <1>3, SearchRests DEF Iso!Lost, Iso!Fault, Iso!NoFault, Iso!OpenFails
<1> QED
  BY <1>1, <1>2, <1>3 DEF Iso!Select

LEMMA SearchConnects == ASSUME Search, CardInv, Iso!Connect PROVE Search'
<1>0. pc = "closed" /\ card' = card /\ sel' = sel /\ sel0' = sel /\ app = "None"
  BY DEF Iso!Connect, Search
<1>1. CASE pc' = "probe" /\ UNCHANGED app
  <2>1. Passed("None")'
    BY DEF Passed
  <2> QED
    BY <1>0, <1>1, <2>1 DEF Search, Passed
<1>2. CASE pc' = "closed" /\ app' = "None" /\ result' \in {"NoCard", "Transport"}
  BY <1>0, <1>2 DEF Search
<1> QED
  BY <1>1, <1>2 DEF Iso!Connect, Iso!OpenFails

LEMMA SearchNext == ASSUME Search, CardInv, Iso!Next PROVE Search'
<1>1. CASE Iso!Remove \/ Iso!Insert \/ (\E a \in Iso!App : Iso!OtherSelects(a))
  <2>1. calm' = FALSE /\ UNCHANGED <<card, sel0, pc, app>>
    BY <1>1 DEF Iso!Remove, Iso!Insert, Iso!OtherSelects, Iso!Fault
  <2> QED
    BY <2>1, SearchRests DEF Search
<1>2. CASE Iso!Challenge
  <2>1. /\ UNCHANGED <<card, sel0, app>> /\ pc = "reading" /\ (calm' => calm)
        /\ pc' \in {"reading", "open"} /\ result' \in {result, "Transport"}
    BY <1>2 DEF Iso!Challenge, Iso!envvars, Iso!Answered, Iso!Refused, Iso!Lost, Iso!Fault,
       Iso!NoFault, Iso!ReadEnds
  <2> QED
    BY <2>1, SearchRests DEF Search
<1>3. CASE Iso!ReadDone \/ Iso!Close \/ (\E n \in Lens : Iso!BeginRead(n))
  <2>1. /\ UNCHANGED <<card, sel0, calm>>
        /\ \/ pc \in {"open", "reading"} /\ pc' \in {"open", "reading"} /\ app' = app
              /\ result' # "Unsupported"
           \/ pc = "open" /\ pc' = "closed" /\ app' = "None" /\ result' = result
    BY <1>3 DEF Iso!ReadDone, Iso!Close, Iso!BeginRead, Iso!ReadEnds, Iso!envvars
  <2> QED
    BY <2>1, SearchRests
<1> QED
  BY <1>1, <1>2, <1>3, SearchProbes, SearchSelects, SearchConnects DEF Iso!Next, Iso!Step

LEMMA SearchSteps ==
  ASSUME IInv, kind = "Iso7816" => Search, [Next]_vars
  PROVE  kind' = "Iso7816" => Search'
<1>1. CASE kind = "Iso7816" /\ Iso!Next /\ UNCHANGED <<kind, infown>>
  BY <1>1, SearchNext DEF IInv
<1>2. CASE ReadEmpty \/ UNCHANGED vars
  <2>1. /\ UNCHANGED <<kind, card, sel0, calm, pc, sel, app>>
        /\ result' = result \/ (kind = "Iso7816" => pc = "closed" /\ result' = "Transport")
    BY <1>2 DEF ReadEmpty, vars, shared, isoown
  <2> QED
    BY <2>1, SearchRests DEF Search
<1>3. CASE kind = "Infnoise" /\ Inf!Next /\ UNCHANGED <<kind, isoown>>
  BY <1>3
<1> QED
  BY <1>1, <1>2, <1>3 DEF Next

LEMMA SearchInit == ASSUME Init, kind = "Iso7816" PROVE Search
<1>1. Iso!Init
  BY DEF Init
<1>2. card \in Iso!CardOf
  BY <1>1, SlotAssumption DEF Iso!Init
<1> QED
  BY <1>1, <1>2 DEF Iso!Init, Search, Iso!CardOf, Iso!App

(* The probe of an undisturbed card finds an applet exactly when the one   *)
(* selected at the start, PIV or OpenPGP answers an 8-byte challenge.      *)
THEOREM SearchComplete == Spec => []ProbeFinds
<1>1. ASSUME kind = "Iso7816", Search PROVE Iso!ProbeFinds
  BY <1>1 DEF Search, Serving, Iso!ProbeFinds
<1>2. (kind = "Iso7816" => Search) => ProbeFinds
  BY <1>1 DEF ProbeFinds
<1>3. Init => (kind = "Iso7816" => Search)
  BY SearchInit
<1>4. IInv /\ (kind = "Iso7816" => Search) /\ [Next]_vars => (kind = "Iso7816" => Search)'
  BY SearchSteps
<1> QED
  BY <1>2, <1>3, <1>4, Invariance, PTL DEF Spec

(* A successful infnoise read has filled the whole buffer with bytes of    *)
(* its own, in the driver's order and none twice.                          *)
THEOREM BuffersWhole == Spec => []WholeBuffer
<1>1. ASSUME IInv, kind = "Infnoise", pc = "open", result = "Ok"
      PROVE  /\ \A j \in DOMAIN buffer : buffer[j] > 0
             /\ \A i, j \in DOMAIN buffer : i < j => buffer[i] < buffer[j]
  <2>1. NodeInv
    BY <1>1 DEF IInv
  <2>2. Gathered /\ left = 0 /\ DOMAIN buffer = 1 .. Len(buffer) /\ Len(buffer) \in Nat /\ next \in Nat
    BY <1>1, <2>1, NodeType DEF NodeInv
  <2>3. \A j \in DOMAIN buffer : j <= Done
    BY <2>2 DEF Done
  <2> QED
    BY <2>2, <2>3 DEF Gathered
<1>2. IInv => WholeBuffer
  BY <1>1 DEF WholeBuffer, Inf!WholeBuffer
<1> QED
  BY <1>2, Invariance, PTL

(***************************************************************************)
(* The slot implements Source: each abstract step, by what it needs of a   *)
(* concrete one.                                                           *)
(***************************************************************************)
Phase   == IF pc \in {"probe", "select"} THEN "opening" ELSE pc
Outcome == IF result \in {"none", "Ok"} THEN result ELSE "Err"

AbsStep == [Contract!Next]_(Contract!vars)

LEMMA AbsStutter ==
  ASSUME UNCHANGED <<Phase, live, calm, left, Outcome>>
  PROVE  AbsStep
  BY DEF AbsStep, Contract!vars, Phase, Outcome

LEMMA AbsWorld ==
  ASSUME calm' = FALSE, live' = live \/ live' = FALSE, UNCHANGED <<Phase, left, Outcome>>
  PROVE  AbsStep
<1>1. live' \in {live, FALSE}
  OBVIOUS
<1>2. Contract!World
  BY <1>1 DEF Contract!World, Contract!Disturb, Phase, Outcome
<1> QED
  BY <1>2 DEF AbsStep, Contract!Next

LEMMA AbsQuiet ==
  ASSUME UNCHANGED calm \/ calm' = FALSE, UNCHANGED <<Phase, live, left, Outcome>>
  PROVE  AbsStep
  BY AbsStutter, AbsWorld

LEMMA AbsBegin ==
  ASSUME pc = "closed", pc' = "probe", live' = TRUE, calm' = TRUE, result' = "none",
         left' = left
  PROVE  AbsStep
<1>1. Contract!Begin
  BY DEF Contract!Begin
<1> QED
  BY <1>1 DEF AbsStep, Contract!Next

LEMMA AbsOpened ==
  ASSUME \/ pc = "closed" /\ live' = TRUE /\ calm' = TRUE
         \/ pc \in {"probe", "select"} /\ UNCHANGED <<live, calm>>,
         pc' = "open", result' = "Ok", left' = left
  PROVE  AbsStep
<1>1. Contract!Opened
  BY DEF Contract!Opened
<1> QED
  BY <1>1 DEF AbsStep, Contract!Next

LEMMA AbsOpenFails ==
  ASSUME pc \in {"closed", "probe", "select"}, pc' = "closed", live' = FALSE,
         calm' \in BOOLEAN, result' \notin {"none", "Ok"}, left' = left
  PROVE  AbsStep
<1>1. Contract!OpenFails
  BY DEF Contract!OpenFails
<1> QED
  BY <1>1 DEF AbsStep, Contract!Next

LEMMA AbsBeginRead ==
  ASSUME NEW n \in Lens \cup NodeLens,
         pc = "open", pc' = "reading", left' = n, result' = "none", UNCHANGED <<live, calm>>
  PROVE  AbsStep
<1>1. Contract!BeginRead(n)
  BY DEF Contract!BeginRead
<1> QED
  BY <1>1 DEF AbsStep, Contract!Next

LEMMA AbsDeliver ==
  ASSUME pc = "reading", live, left > 0, left' \in 0 .. left - 1,
         UNCHANGED <<pc, live, calm, result>>
  PROVE  AbsStep
<1>1. Contract!Deliver
  BY DEF Contract!Deliver
<1> QED
  BY <1>1 DEF AbsStep, Contract!Next

LEMMA AbsReadEnds ==
  ASSUME pc = "reading", pc' = "open", left' = 0, live' = live,
         \/ left = 0 /\ result' = "Ok" /\ calm' = calm
         \/ left > 0 /\ result' \notin {"none", "Ok"} /\ calm' = FALSE
  PROVE  AbsStep
<1>1. CASE left = 0 /\ result' = "Ok" /\ calm' = calm
  <2>1. Contract!ReadOk
    BY <1>1 DEF Contract!ReadOk
  <2> QED
    BY <2>1 DEF AbsStep, Contract!Next
<1>2. CASE left > 0 /\ result' \notin {"none", "Ok"} /\ calm' = FALSE
  <2>1. Contract!ReadErr
    BY <1>2 DEF Contract!ReadErr, Contract!Disturb
  <2> QED
    BY <2>1 DEF AbsStep, Contract!Next
<1> QED
  BY <1>1, <1>2

LEMMA AbsClose ==
  ASSUME pc = "open", pc' = "closed", live' = FALSE, UNCHANGED <<calm, left, result>>
  PROVE  AbsStep
<1>1. Contract!Close
  BY DEF Contract!Close
<1> QED
  BY <1>1 DEF AbsStep, Contract!Next

LEMMA AbsReadNothing ==
  ASSUME pc = "closed", result' \notin {"none", "Ok"}, UNCHANGED <<pc, live, calm, left>>
  PROVE  AbsStep
<1>1. Contract!ReadNothing
  BY DEF Contract!ReadNothing
<1> QED
  BY <1>1 DEF AbsStep, Contract!Next

(***************************************************************************)
(* Which of them each step of a card, and of a node, is.                   *)
(***************************************************************************)
LEMMA CardImplements ==
  ASSUME CardInv, Iso!Next, CardInv'
  PROVE  AbsStep
<1>0. /\ left \in Nat /\ calm \in BOOLEAN /\ calm' \in BOOLEAN /\ (calm' = FALSE \/ calm' = TRUE)
  BY CardType DEF CardInv, Iso!TypeOK
<1>1. CASE Iso!Remove \/ Iso!Insert \/ (\E a \in Iso!App : Iso!OtherSelects(a))
  <2>1. /\ calm' = FALSE /\ (live' = live \/ live' = FALSE)
        /\ UNCHANGED <<pc, left, result>>
    BY <1>1 DEF Iso!Remove, Iso!Insert, Iso!OtherSelects, Iso!Fault
  <2> QED
    BY <2>1, AbsWorld DEF Phase, Outcome
<1>2. CASE Iso!Connect
  BY <1>0, <1>2, AbsBegin, AbsOpenFails DEF Iso!Connect, Iso!OpenFails
<1>3. CASE Iso!Probe
  <2>1. CASE Iso!Answered(8) /\ Iso!Opened
    BY <1>3, <2>1, AbsOpened DEF Iso!Probe, Iso!Answered, Iso!NoFault, Iso!Opened
  <2>2. CASE \/ Iso!Refused(8) /\ Iso!TryNext(app)
             \/ Iso!Lost /\ Iso!OpenFails("Transport")
    <3>1. pc = "probe" /\ left' = left
      BY <1>3 DEF Iso!Probe
    <3>2. CASE \E r \in {"Unsupported", "Transport"} : Iso!OpenFails(r)
      BY <1>0, <3>1, <3>2, AbsOpenFails DEF Iso!OpenFails
    <3>3. CASE pc' = "select" /\ UNCHANGED <<live, result>> /\ Iso!Refused(8)
      <4>1. UNCHANGED calm \/ calm' = FALSE
        BY <3>3 DEF Iso!Refused, Iso!Fault, Iso!NoFault
      <4> QED
        BY <3>1, <3>3, <4>1, AbsQuiet DEF Phase, Outcome
    <3> QED
      BY <2>2, <3>2, <3>3 DEF Iso!TryNext
  <2> QED
    BY <1>3, <2>1, <2>2 DEF Iso!Probe, Iso!ProbeLe
<1>4. CASE Iso!Select
  <2>1. pc = "select" /\ left' = left
    BY <1>4 DEF Iso!Select
  <2>2. CASE \E r \in {"Unsupported", "Transport"} : Iso!OpenFails(r)
    BY <1>0, <2>1, <2>2, AbsOpenFails DEF Iso!OpenFails
  <2>3. CASE /\ pc' \in {"probe", "select"} /\ UNCHANGED <<live, result>>
             /\ Iso!Fault \/ Iso!NoFault
    <3>1. UNCHANGED calm \/ calm' = FALSE
      BY <2>3 DEF Iso!Fault, Iso!NoFault
    <3> QED
      BY <2>1, <2>3, <3>1, AbsQuiet DEF Phase, Outcome
  <2> QED
    BY <1>4, <2>2, <2>3 DEF Iso!Select, Iso!TryNext
<1>5. CASE Iso!Challenge
  <2>1. /\ pc = "reading" /\ left > 0 /\ live' = live
        /\ chunk \in Nat /\ chunk >= 1 /\ (calm => live /\ chunk >= 8 /\ 8 \in card.le[sel])
    BY <1>5, CardType, Halving DEF Iso!Challenge, Iso!envvars
  <2>2. /\ Counted
        /\ Iso!Answered(chunk) => live
        /\ calm' /\ Iso!Refused(chunk) => chunk \notin card.le[sel]
        /\ Iso!Lost => ~ calm' \/ ~ live
    BY <1>5, CardType, Exchange DEF Iso!Challenge
  <2>3. CASE /\ Iso!Answered(chunk) /\ left' = (IF left < chunk THEN 0 ELSE left - chunk)
             /\ UNCHANGED <<pc, chunk, result>>
    <3>1. left' \in 0 .. left - 1
      BY <1>0, <2>1, <2>3
    <3> QED
      BY <2>1, <2>3, <3>1, AbsDeliver DEF Iso!Answered, Iso!NoFault
  <2>4. CASE Iso!Refused(chunk) /\ UNCHANGED <<pc, left, result>>
    <3>1. UNCHANGED calm \/ calm' = FALSE
      BY <2>4 DEF Iso!Refused, Iso!Fault, Iso!NoFault
    <3> QED
      BY <2>1, <2>4, <3>1, AbsQuiet DEF Phase, Outcome
  <2>5. CASE /\ Iso!Lost \/ (Iso!Refused(chunk) /\ ~ chunk > 1)
             /\ Iso!ReadEnds("Transport")
    <3>1. ~ calm'
      BY <2>1, <2>2, <2>5 DEF Counted
    <3> QED
      BY <1>0, <2>1, <2>5, <3>1, AbsReadEnds DEF Iso!ReadEnds
  <2> QED
    BY <1>5, <2>3, <2>4, <2>5 DEF Iso!Challenge, Iso!MayNarrow
<1>6. CASE Iso!ReadDone
  BY <1>6, AbsReadEnds DEF Iso!ReadDone, Iso!ReadEnds, Iso!envvars
<1>7. CASE Iso!Close
  BY <1>7, AbsClose DEF Iso!Close
<1>8. ASSUME NEW n \in Lens, Iso!BeginRead(n) PROVE AbsStep
  BY <1>8, AbsBeginRead DEF Iso!BeginRead, Iso!envvars
<1> QED
  BY <1>1, <1>2, <1>3, <1>4, <1>5, <1>6, <1>7, <1>8 DEF Iso!Next, Iso!Step

LEMMA NodeImplements ==
  ASSUME NodeInv, Inf!Next, NodeInv'
  PROVE  AbsStep
<1>0. /\ left \in Nat /\ calm \in BOOLEAN /\ calm' \in BOOLEAN /\ (calm' = FALSE \/ calm' = TRUE)
      /\ (live = FALSE \/ live = TRUE)
  <2>1. calm' \in BOOLEAN
    BY DEF NodeInv, Inf!TypeOK
  <2> QED
    BY <2>1, NodeType
<1>1. CASE Inf!Unplug \/ Inf!Plug \/ Inf!OtherReads \/ Inf!Interrupted
  <2>1. /\ calm' = FALSE /\ (live' = live \/ live' = FALSE)
        /\ UNCHANGED <<pc, left, result>>
    BY <1>1 DEF Inf!Unplug, Inf!Plug, Inf!OtherReads, Inf!Interrupted, Inf!Fault
  <2> QED
    BY <2>1, AbsWorld DEF Phase, Outcome
<1>2. CASE \E d \in Dirs : Inf!List(d)
  BY <1>2, AbsStutter DEF Inf!List, Inf!source, Phase, Outcome
<1>3. CASE Inf!Open
  <2>1. pc = "closed" /\ ~ live /\ left' = left
    BY <1>3, NodeType DEF Inf!Open
  <2>2. CASE pc' = "open" /\ live' = TRUE /\ calm' = TRUE /\ result' = "Ok"
    BY <2>1, <2>2, AbsOpened
  <2>3. CASE pc' = pc /\ live' = live /\ result' = "NoDevice"
    <3>1. live' = FALSE
      BY <1>0, <2>1, <2>3
    <3> QED
      BY <1>0, <2>1, <2>3, <3>1, AbsOpenFails
  <2> QED
    BY <1>3, <2>2, <2>3 DEF Inf!Open
<1>4. CASE Inf!Close
  BY <1>4, AbsClose DEF Inf!Close
<1>5. ASSUME NEW n \in NodeLens, Inf!BeginRead(n) PROVE AbsStep
  BY <1>5, AbsBeginRead DEF Inf!BeginRead
<1>6. CASE Inf!ReadSome
  <2>1. PICK k \in 1 .. left : Inf!Take(k)
    BY <1>6 DEF Inf!ReadSome
  <2>2. left' \in 0 .. left - 1
    BY <1>0, <2>1 DEF Inf!Take
  <2>3. pc = "reading" /\ live /\ left > 0 /\ UNCHANGED <<pc, live, calm, result>>
    BY <1>6 DEF Inf!ReadSome, Inf!NoFault
  <2> QED
    BY <2>2, <2>3, AbsDeliver
<1>7. CASE Inf!ReadFails
  <2>1. /\ pc = "reading" /\ pc' = "open" /\ left > 0 /\ left' = 0 /\ live' = live
        /\ result' = "Io"
    BY <1>7 DEF Inf!ReadFails, Inf!ReadEnds
  <2>2. calm' = FALSE
    <3>1. CASE Inf!Fault
      BY <3>1 DEF Inf!Fault
    <3>2. CASE ~ live /\ Inf!NoFault
      <4>1. ~ calm /\ calm' = calm
        BY <2>1, <3>2, NodeType DEF Inf!NoFault
      <4> QED
        BY <1>0, <4>1
    <3> QED
      BY <1>7, <3>1, <3>2 DEF Inf!ReadFails
  <2> QED
    BY <2>1, <2>2, AbsReadEnds
<1>8. CASE Inf!ReadDone
  BY <1>8, AbsReadEnds DEF Inf!ReadDone, Inf!ReadEnds
<1> QED
  BY <1>1, <1>2, <1>3, <1>4, <1>5, <1>6, <1>7, <1>8 DEF Inf!Next, Inf!Step

LEMMA SlotImplements ==
  ASSUME IInv, IInv', [Next]_vars
  PROVE  AbsStep
<1>1. CASE kind = "Iso7816" /\ Iso!Next /\ UNCHANGED <<kind, infown>>
  <2>1. CardInv /\ CardInv'
    BY <1>1 DEF IInv
  <2> QED
    BY <1>1, <2>1, CardImplements
<1>2. CASE kind = "Infnoise" /\ Inf!Next /\ UNCHANGED <<kind, isoown>>
  <2>1. NodeInv /\ NodeInv'
    BY <1>2 DEF IInv
  <2> QED
    BY <1>2, <2>1, NodeImplements
<1>3. CASE ReadEmpty
  BY <1>3, AbsReadNothing DEF ReadEmpty
<1>4. CASE UNCHANGED vars
  BY <1>4, AbsStutter DEF vars, shared, Phase, Outcome
<1> QED
  BY <1>1, <1>2, <1>3, <1>4 DEF Next

(* Whatever is behind it, a slot is the source a pool relies on: it        *)
(* succeeds only with every byte, and fails an open handle only if         *)
(* something disturbed it.                                                 *)
THEOREM Refinement == Spec => SlotSpec
<1>1. Init => Contract!Init
  BY DEF Init, Iso!Init, Inf!Init, Contract!Init
<1>2. IInv /\ IInv' /\ [Next]_vars => [Contract!Next]_(Contract!vars)
  BY SlotImplements DEF AbsStep
<1> QED
  BY <1>1, <1>2, Invariance, PTL DEF Spec, SlotSpec, Contract!Spec

(***************************************************************************)
(* The enumeration of the nodes, for a directory of any entries.  Numbers  *)
(* are read digit by digit, so what is said of them needs an induction: a  *)
(* first prefix that is no number cannot be.                               *)
(***************************************************************************)
(* A set of numbers that is not empty has a least one.                     *)
LEMMA LeastNat ==
  ASSUME NEW T \in SUBSET Nat, T # {}
  PROVE  \E m \in T : \A n \in T : m <= n
<1>1. PICK m \in T : \A n \in T : ~ (<<n, m>> \in OpToRel(<, Nat))
  <2>1. IsWellFoundedOn(OpToRel(<, Nat), Nat)
    BY NatLessThanWellFounded, Zenon
  <2> QED
    BY <2>1, WFMin, Zenon
<1>2. ASSUME NEW n \in T PROVE m <= n
  <2>1. m \in Nat /\ n \in Nat
    OBVIOUS
  <2>2. n < m => <<n, m>> \in OpToRel(<, Nat)
    BY <2>1 DEF OpToRel
  <2>3. ~ (n < m)
    BY <1>1, <2>2
  <2> QED
    BY <2>1, <2>3
<1> QED
  BY <1>2

(* Decimal digits make a number: the digits so far are one, and one more   *)
(* makes another.                                                          *)
LEMMA Counting ==
  ASSUME NEW s \in Seq(0 .. 10)
  PROVE  \E g \in [0 .. Len(s) -> Nat] :
           g = [n \in 0 .. Len(s) |-> IF n = 0 THEN 0 ELSE 10 * g[n - 1] + s[n]]
<1> DEFINE Upto(g, m) == \A n \in 0 .. m : g[n] = IF n = 0 THEN 0 ELSE 10 * g[n - 1] + s[n]
           Good(m) == \E g \in [0 .. m -> Nat] : Upto(g, m)
           Bad == {m \in 0 .. Len(s) : ~ Good(m)}
<1>1. Len(s) \in Nat /\ \A n \in 1 .. Len(s) : s[n] \in 0 .. 10
  BY LenProperties
<1>2. Good(0)
  <2>1. [n \in 0 .. 0 |-> 0] \in [0 .. 0 -> Nat] /\ Upto([n \in 0 .. 0 |-> 0], 0)
    OBVIOUS
  <2> QED
    BY <2>1
<1>3. ASSUME NEW m \in 1 .. Len(s), Good(m - 1) PROVE Good(m)
  <2>1. PICK g \in [0 .. m - 1 -> Nat] : Upto(g, m - 1)
    BY <1>3
  <2> DEFINE h == [n \in 0 .. m |-> IF n = m THEN 10 * g[m - 1] + s[m] ELSE g[n]]
  <2>2. m \in Nat /\ m >= 1 /\ g[m - 1] \in Nat /\ s[m] \in Nat
    <3>1. m \in Nat /\ m >= 1 /\ m - 1 \in 0 .. m - 1 /\ s[m] \in 0 .. 10
      BY <1>1
    <3>2. g[m - 1] \in Nat
      BY <3>1
    <3> QED
      BY <3>1, <3>2
  <2>3. h \in [0 .. m -> Nat]
    BY <2>2
  <2>4. h[m] = 10 * h[m - 1] + s[m]
    BY <2>2
  <2>5. ASSUME NEW n \in 0 .. m - 1
        PROVE  h[n] = IF n = 0 THEN 0 ELSE 10 * h[n - 1] + s[n]
    <3>1. n \in 0 .. m /\ n # m /\ (n # 0 => n - 1 \in 0 .. m /\ n - 1 # m)
      BY <2>2
    <3> QED
      BY <2>1, <3>1
  <2>6. Upto(h, m)
    <3>1. \A n \in 0 .. m : n = m \/ n \in 0 .. m - 1
      BY <2>2
    <3> HIDE DEF h
    <3> QED
      BY <2>2, <2>4, <2>5, <3>1
  <2> QED
    BY <2>3, <2>6
<1>4. Bad = {}
  <2> SUFFICES ASSUME Bad # {} PROVE FALSE
    OBVIOUS
  <2>1. Bad \in SUBSET Nat
    BY <1>1
  <2> HIDE DEF Good
  <2>2. PICK m \in Bad : \A n \in Bad : m <= n
    BY <2>1, LeastNat
  <2>3. m # 0 /\ m \in 1 .. Len(s)
    BY <1>1, <1>2, <2>2
  <2>4. m - 1 \notin Bad /\ m - 1 \in 0 .. Len(s)
    BY <1>1, <2>2, <2>3
  <2> QED
    BY <1>3, <2>2, <2>3, <2>4
<1>5. PICK g \in [0 .. Len(s) -> Nat] : Upto(g, Len(s))
  BY <1>1, <1>4
<1> QED
  BY <1>5

LEMMA ValueType ==
  ASSUME NEW s \in Seq(0 .. 10)
  PROVE  Inf!Value(s) \in Nat
<1> DEFINE Rec(g) == g = [n \in 0 .. Len(s) |-> IF n = 0 THEN 0 ELSE 10 * g[n - 1] + s[n]]
           f == CHOOSE g : Rec(g)
           Bad == {m \in 0 .. Len(s) : f[m] \notin Nat}
<1>1. Len(s) \in Nat /\ \A n \in 1 .. Len(s) : s[n] \in 0 .. 10
  BY LenProperties
<1>2. Rec(f)
  <2>1. \E g : Rec(g)
    BY Counting
  <2> QED
    BY <2>1
<1>3. \A n \in 0 .. Len(s) : f[n] = IF n = 0 THEN 0 ELSE 10 * f[n - 1] + s[n]
  BY <1>2
<1>4. Inf!Value(s) = f[Len(s)]
  BY DEF Inf!Value
<1> HIDE DEF f
<1>5. Bad = {}
  <2> SUFFICES ASSUME Bad # {} PROVE FALSE
    OBVIOUS
  <2>1. Bad \in SUBSET Nat
    BY <1>1
  <2>2. PICK m \in Bad : \A n \in Bad : m <= n
    BY <2>1, LeastNat
  <2>3. m # 0 /\ m \in 1 .. Len(s)
    BY <1>1, <1>3, <2>2
  <2>4. m - 1 \notin Bad /\ m - 1 \in 0 .. Len(s)
    BY <1>1, <2>2, <2>3
  <2>5. f[m - 1] \in Nat /\ s[m] \in 0 .. 10 /\ f[m] = 10 * f[m - 1] + s[m]
    BY <1>1, <1>3, <2>3, <2>4
  <2>6. \A a \in Nat, d \in 0 .. 10 : 10 * a + d \in Nat
    OBVIOUS
  <2>7. f[m] \in Nat
    BY <2>5, <2>6, Zenon
  <2> QED
    BY <2>2, <2>7
<1> QED
  BY <1>1, <1>4, <1>5

(* How many of S come no later than each, if x is the key.                 *)
Ranking(S, x) ==
  [j \in S |-> Cardinality({i \in S : x[i] < x[j] \/ (~ x[j] < x[i] /\ i <= j)})]

(* A stable sort gives every element a place of its own, and leaves no     *)
(* place out.                                                              *)
LEMMA Ranks ==
  ASSUME NEW S \in SUBSET Nat, IsFiniteSet(S), NEW x \in [S -> Nat],
         NEW r, r = Ranking(S, x)
  PROVE  /\ r \in Bijection(S, 1 .. Cardinality(S))
         /\ \A i, j \in S : r[i] < r[j] => x[i] <= x[j]
<1> DEFINE Upto(j) == {i \in S : x[i] < x[j] \/ (~ x[j] < x[i] /\ i <= j)}
           n == Cardinality(S)
<1>1. \A j \in S : r[j] = Cardinality(Upto(j))
  BY DEF Ranking
<1>2. n \in Nat
  BY FS_CardinalityType
<1>3. ASSUME NEW j \in S
      PROVE  IsFiniteSet(Upto(j)) /\ Cardinality(Upto(j)) \in 1 .. n
  <2>1. Upto(j) \in SUBSET S /\ j \in Upto(j)
    OBVIOUS
  <2> HIDE DEF Upto
  <2>2. IsFiniteSet(Upto(j)) /\ Cardinality(Upto(j)) <= n
    BY <2>1, FS_Subset
  <2>3. Cardinality(Upto(j)) \in Nat /\ Cardinality(Upto(j)) # 0
    BY <2>1, <2>2, FS_CardinalityType, FS_EmptySet
  <2> QED
    BY <1>2, <2>2, <2>3
<1>4. ASSUME NEW i \in S, NEW j \in S, i # j, x[i] < x[j] \/ (x[i] = x[j] /\ i < j)
      PROVE  Cardinality(Upto(i)) < Cardinality(Upto(j))
  <2>1. x[i] \in Nat /\ x[j] \in Nat /\ i \in Nat /\ j \in Nat
    OBVIOUS
  <2>2. ASSUME NEW e \in Upto(i) PROVE e \in Upto(j)
    <3>1. e \in S /\ e \in Nat /\ x[e] \in Nat
      OBVIOUS
    <3>2. x[e] < x[i] \/ (~ x[i] < x[e] /\ e <= i)
      BY <2>2
    <3>3. x[e] < x[j] \/ (~ x[j] < x[e] /\ e <= j)
      BY <1>4, <2>1, <3>1, <3>2
    <3> QED
      BY <3>1, <3>3
  <2>3. j \in Upto(j) /\ j \notin Upto(i)
    <3>1. ~ (x[j] < x[i] \/ (~ x[i] < x[j] /\ j <= i))
      BY <1>4, <2>1
    <3> QED
      BY <3>1
  <2> HIDE DEF Upto
  <2>4. Upto(i) \in SUBSET Upto(j) /\ Upto(i) # Upto(j)
    BY <2>2, <2>3
  <2>5. Cardinality(Upto(i)) <= Cardinality(Upto(j)) /\ Cardinality(Upto(i)) # Cardinality(Upto(j))
    BY <1>3, <2>4, FS_Subset
  <2> QED
    BY <1>3, <2>5
<1>5. \A i, j \in S : i # j =>
        \/ x[i] < x[j] \/ (x[i] = x[j] /\ i < j)
        \/ x[j] < x[i] \/ (x[j] = x[i] /\ j < i)
  <2>1. \A i \in S : i \in Nat /\ x[i] \in Nat
    OBVIOUS
  <2> QED
    BY <2>1
<1> HIDE DEF Upto, n
<1>6. r \in [S -> 1 .. n]
  <2>1. DOMAIN r = S /\ r = [j \in DOMAIN r |-> r[j]]
    BY DEF Ranking
  <2> QED
    BY <1>1, <1>3, <2>1
<1>7. ASSUME NEW i \in S, NEW j \in S, r[i] = r[j] PROVE i = j
  BY <1>1, <1>2, <1>3, <1>4, <1>5, <1>7
<1>8. ASSUME NEW i \in S, NEW j \in S, r[i] < r[j] PROVE x[i] <= x[j]
  <2>1. i # j /\ ~ r[j] < r[i] /\ x[i] \in Nat /\ x[j] \in Nat
    BY <1>2, <1>6, <1>8
  <2>2. r[i] = Cardinality(Upto(i)) /\ r[j] = Cardinality(Upto(j))
    BY <1>1
  <2>3. ~ (x[j] < x[i] \/ (x[j] = x[i] /\ j < i))
    BY <1>4, <2>1, <2>2
  <2> QED
    BY <2>1, <2>3
<1>9. r \in Bijection(S, 1 .. n)
  <2>1. r \in Injection(S, 1 .. n)
    BY <1>6, <1>7 DEF Injection, IsInjective
  <2>2. IsFiniteSet(1 .. n) /\ Cardinality(1 .. n) = n
    BY <1>2, FS_Interval
  <2>3. r \in Surjection(S, 1 .. n)
    BY <2>1, <2>2, FS_Injection DEF n
  <2> QED
    BY <2>1, <2>3 DEF Bijection
<1> QED
  BY <1>8, <1>9 DEF n

(* Infnoise counts as every module does.                                   *)
LEMMA SameCount == \A S : Inf!Cardinality(S) = Cardinality(S)
  BY DEF Inf!Cardinality, Cardinality, Inf!IsFiniteSet, IsFiniteSet

(* What list_paths makes of any directory.                                 *)
LEMMA SortedInOrder ==
  ASSUME NEW d \in Seq(Inf!Entry), NEW p, p = Inf!Sorted(d)
  PROVE  /\ Len(p) = Cardinality(Inf!Nodes(d))
         /\ \A j \in Inf!Nodes(d) : \E i \in DOMAIN p : p[i] = d[j]
         /\ \A i, j \in DOMAIN p : i < j =>
              \/ Inf!Value(p[i].suffix) <= Inf!Value(p[j].suffix)
              \/ Inf!Value(p[i].suffix) > MaxIndex
<1> DEFINE S == Inf!Nodes(d)
           n == Cardinality(S)
           x == [j \in S |-> Inf!Index(d[j])]
           r == Ranking(S, x)
           at(k) == CHOOSE j \in S : Inf!Place(d, j) = k
<1>1. DOMAIN d = 1 .. Len(d) /\ Len(d) \in Nat /\ \A j \in DOMAIN d : d[j] \in Inf!Entry
  BY LenProperties
<1>2. S \in SUBSET Nat /\ IsFiniteSet(S) /\ S \in SUBSET DOMAIN d
  <2>1. S \in SUBSET DOMAIN d
    BY DEF Inf!Nodes
  <2>2. IsFiniteSet(DOMAIN d)
    BY <1>1, FS_Interval
  <2> QED
    BY <1>1, <2>1, <2>2, FS_Subset
<1>3. ASSUME NEW e \in Inf!Entry
      PROVE  /\ Inf!Value(e.suffix) \in Nat /\ Inf!Index(e) \in Nat
             /\ Inf!Index(e) <= Inf!Value(e.suffix)
             /\ Inf!Value(e.suffix) <= MaxIndex => Inf!Index(e) = Inf!Value(e.suffix)
  <2>1. e.suffix \in Seq(0 .. 10)
    BY DEF Inf!Entry
  <2>2. Inf!Value(e.suffix) \in Nat
    BY <2>1, ValueType
  <2> QED
    BY <2>2 DEF Inf!Index
<1>4. x \in [S -> Nat]
  BY <1>1, <1>2, <1>3
<1>5. ASSUME NEW j \in S PROVE r[j] = Inf!Place(d, j)
  <2> DEFINE A == {i \in S : x[i] < x[j] \/ (~ x[j] < x[i] /\ i <= j)}
             B == {i \in S : Inf!Before(d[i], d[j]) \/ (~ Inf!Before(d[j], d[i]) /\ i <= j)}
  <2>1. \A i \in S : x[i] = Inf!Index(d[i])
    OBVIOUS
  <2>2. r[j] = Cardinality(A)
    BY DEF Ranking
  <2>3. Inf!Place(d, j) = Cardinality(B)
    BY SameCount DEF Inf!Place
  <2> HIDE DEF x, S
  <2>4. A = B
    BY <2>1 DEF Inf!Before
  <2> QED
    BY <2>2, <2>3, <2>4
<1>6. p = [k \in 1 .. n |-> d[at(k)]]
  <2>1. Inf!Cardinality(S) = n
    BY SameCount
  <2> QED
    BY <2>1, Zenon DEF Inf!Sorted
<1>7. n \in Nat
  BY <1>2, FS_CardinalityType
<1>8. \A j \in S : x[j] = Inf!Index(d[j]) /\ d[j] \in Inf!Entry
  BY <1>1, <1>2
<1> HIDE DEF S, x
<1>9. /\ r \in [S -> 1 .. n]
      /\ \A i, j \in S : r[i] = r[j] => i = j
      /\ \A i, j \in S : r[i] < r[j] => x[i] <= x[j]
      /\ \A k \in 1 .. n : \E j \in S : r[j] = k
  <2>1. r = Ranking(S, x)
    OBVIOUS
  <2>2. S \in SUBSET Nat /\ IsFiniteSet(S)
    BY <1>2
  <2> HIDE DEF r
  <2>3. r \in Bijection(S, 1 .. n) /\ \A i, j \in S : r[i] < r[j] => x[i] <= x[j]
    BY <1>4, <2>1, <2>2, Ranks
  <2> QED
    BY <2>3 DEF Bijection, Injection, IsInjective, Surjection
<1> HIDE DEF r, n
<1>10. ASSUME NEW k \in 1 .. n PROVE at(k) \in S /\ r[at(k)] = k
  <2>1. \E j \in S : Inf!Place(d, j) = k
    BY <1>5, <1>9
  <2>2. at(k) \in S /\ Inf!Place(d, at(k)) = k
    BY <2>1
  <2> QED
    BY <1>5, <2>2
<1> HIDE DEF at
<1>11. Len(p) = n /\ DOMAIN p = 1 .. n
  <2>1. p \in Seq(Inf!Entry)
    <3>1. p \in [1 .. n -> Inf!Entry]
      BY <1>6, <1>8, <1>10
    <3> QED
      BY <1>7, <3>1, SeqDef
  <2>2. DOMAIN p = 1 .. n
    BY <1>6
  <2> QED
    BY <1>7, <2>1, <2>2, LenProperties
<1>12. ASSUME NEW j \in S PROVE \E i \in DOMAIN p : p[i] = d[j]
  <2>1. r[j] \in 1 .. n
    BY <1>9
  <2>2. at(r[j]) = j
    BY <1>9, <1>10, <2>1
  <2> QED
    BY <1>6, <1>11, <2>1, <2>2
<1>13. ASSUME NEW i \in DOMAIN p, NEW j \in DOMAIN p, i < j
       PROVE  \/ Inf!Value(p[i].suffix) <= Inf!Value(p[j].suffix)
              \/ Inf!Value(p[i].suffix) > MaxIndex
  <2>1. /\ p[i] = d[at(i)] /\ at(i) \in S /\ r[at(i)] = i
        /\ p[j] = d[at(j)] /\ at(j) \in S /\ r[at(j)] = j
    BY <1>6, <1>10, <1>11
  <2>2. x[at(i)] <= x[at(j)]
    BY <1>9, <1>13, <2>1
  <2>3. /\ Inf!Index(p[i]) <= Inf!Index(p[j])
        /\ p[i] \in Inf!Entry /\ p[j] \in Inf!Entry
    BY <1>8, <2>1, <2>2
  <2>4. /\ Inf!Value(p[i].suffix) \in Nat /\ Inf!Value(p[j].suffix) \in Nat
        /\ Inf!Index(p[j]) <= Inf!Value(p[j].suffix) /\ Inf!Index(p[j]) \in Nat
        /\ Inf!Value(p[i].suffix) <= MaxIndex => Inf!Index(p[i]) = Inf!Value(p[i].suffix)
    BY <1>3, <2>3
  <2> QED
    BY <2>3, <2>4, SlotAssumption
<1> QED
  BY <1>11, <1>12, <1>13 DEF S, n

(* The list of the last call is always that of its directory.              *)
Enumerated ==
  /\ dir \in Dirs \cup {<<>>}
  /\ paths = Inf!Sorted(dir)

LEMMA InitEnumerated == Init => Enumerated
<1> SUFFICES ASSUME Init PROVE Enumerated
  OBVIOUS
<1>1. dir = <<>> /\ paths = <<>>
  BY DEF Init, Inf!Init
<1>2. Inf!Nodes(<<>>) = {}
  BY DEF Inf!Nodes
<1>3. Inf!Sorted(<<>>) = <<>>
  <2>1. Inf!Cardinality(Inf!Nodes(<<>>)) = 0
    BY <1>2, SameCount, FS_EmptySet
  <2>2. Inf!Sorted(<<>>) \in Seq({}) /\ Len(Inf!Sorted(<<>>)) = 0
    <3> DEFINE f == Inf!Sorted(<<>>)
    <3>1. DOMAIN f = 1 .. 0 /\ f = [k \in DOMAIN f |-> f[k]]
      BY <2>1 DEF Inf!Sorted
    <3> HIDE DEF f
    <3>2. f \in [1 .. 0 -> {}]
      BY <3>1
    <3>3. f \in Seq({})
      BY <3>2, SeqDef
    <3> QED
      BY <3>1, <3>3, LenProperties DEF f
  <2> QED
    BY <2>2, EmptySeq
<1> QED
  BY <1>1, <1>3 DEF Enumerated

LEMMA StepsEnumerate == ASSUME Enumerated, [Next]_vars PROVE Enumerated'
<1>1. CASE UNCHANGED <<dir, paths>>
  BY <1>1 DEF Enumerated
<1>2. ASSUME NEW d \in Dirs, Inf!List(d) PROVE Enumerated'
  BY <1>2 DEF Enumerated, Inf!List
<1>3. Next => UNCHANGED <<dir, paths>> \/ \E d \in Dirs : Inf!List(d)
  <2>1. Inf!Next => UNCHANGED <<dir, paths>> \/ \E d \in Dirs : Inf!List(d)
    BY DEF Inf!Next, Inf!Step, Inf!ReadSome, Inf!ReadFails, Inf!ReadDone, Inf!Interrupted,
       Inf!Open, Inf!Close, Inf!BeginRead, Inf!Unplug, Inf!Plug, Inf!OtherReads
  <2> QED
    BY <2>1 DEF Next, ReadEmpty, infown
<1> QED
  BY <1>1, <1>2, <1>3 DEF vars, infown

(* Every node is listed, once, and in the order of their numbers, whatever *)
(* else is in the directory and in whatever order it comes.                *)
THEOREM ListedInOrder == Spec => []InNumericOrder
<1>1. Enumerated => InNumericOrder
  <2> SUFFICES ASSUME Enumerated PROVE InNumericOrder
    OBVIOUS
  <2>1. dir \in Seq(Inf!Entry)
    <3>1. <<>> \in Seq(Inf!Entry)
      BY EmptySeq
    <3>2. Dirs \subseteq Seq(Inf!Entry)
      BY SlotAssumption
    <3> QED
      BY <3>1, <3>2 DEF Enumerated
  <2>2. paths = Inf!Sorted(dir)
    BY DEF Enumerated
  <2>3. /\ Len(paths) = Cardinality(Inf!Nodes(dir))
        /\ \A j \in Inf!Nodes(dir) : \E i \in DOMAIN paths : paths[i] = dir[j]
        /\ \A i, j \in DOMAIN paths : i < j =>
              \/ Inf!Value(paths[i].suffix) <= Inf!Value(paths[j].suffix)
              \/ Inf!Value(paths[i].suffix) > MaxIndex
    BY <2>1, <2>2, SortedInOrder
  <2> QED
    BY <2>3, SameCount DEF InNumericOrder, Inf!InNumericOrder
<1>2. Enumerated /\ [Next]_vars => Enumerated'
  BY StepsEnumerate
<1> QED
  BY <1>1, <1>2, InitEnumerated, PTL DEF Spec
(***************************************************************************)
(* No circles.  Probing goes down the applets, reading down the bytes, and *)
(* where no byte came, down the chunks.                                    *)
(***************************************************************************)
(* What brings an open nearer: the selection of the applet to probe, or    *)
(* the turn to the next applet.                                            *)
LEMMA ProbingNearer ==
  ASSUME pc \in {"probe", "select"}, app \in Iso!App, pc' \in {"probe", "select"},
         \/ pc = "select" /\ pc' = "probe" /\ app' = app
         \/ Iso!TryNext(app)
  PROVE  Nearer
<1>1. CASE pc = "select" /\ pc' = "probe" /\ app' = app
  BY <1>1 DEF Nearer, Applets, Later, Iso!App
<1>2. CASE Iso!TryNext(app)
  <2>1. app # "OpenPgp" /\ pc' = "select" /\ app' = (IF app = "None" THEN "Piv" ELSE "OpenPgp")
    BY <1>2 DEF Iso!TryNext, Iso!OpenFails
  <2>2. Later(app') + 1 = Later(app) /\ Later(app) \in 1 .. 2 /\ Later(app') \in Nat
    BY <2>1 DEF Later, Iso!App
  <2>3. Applets' = 2 * Later(app') + 2
    BY <2>1 DEF Applets, Later
  <2>4. Applets \in {2 * Later(app) + 1, 2 * Later(app) + 2}
    BY <2>2 DEF Applets
  <2> QED
    BY <2>2, <2>3, <2>4 DEF Nearer
<1> QED
  BY <1>1, <1>2

LEMMA CardNearer ==
  ASSUME CardInv, Iso!Step, Busy, Busy'
  PROVE  Nearer
<1>1. /\ app \in Iso!App /\ left \in Nat
      /\ pc = "reading" => chunk \in Iso!Chunks
  BY CardType
<1>2. CASE Iso!Probe
  <2>1. pc = "probe" /\ Iso!TryNext(app)
    BY <1>2 DEF Iso!Probe, Iso!Opened, Iso!OpenFails, Busy
  <2>2. pc' = "select"
    BY <2>1 DEF Iso!TryNext, Iso!OpenFails, Busy
  <2> QED
    BY <1>1, <2>1, <2>2, ProbingNearer
<1>3. CASE Iso!Select
  <2>1. pc = "select" /\ ((pc' = "probe" /\ app' = app) \/ Iso!TryNext(app))
    BY <1>3 DEF Iso!Select, Iso!OpenFails, Busy
  <2>2. pc' \in {"probe", "select"}
    BY <2>1 DEF Iso!TryNext, Iso!OpenFails, Busy
  <2> QED
    BY <1>1, <2>1, <2>2, ProbingNearer
<1>4. CASE Iso!Challenge
  <2>1. pc = "reading" /\ left > 0 /\ chunk \in Nat /\ chunk >= 1 /\ Applets = 0
    BY <1>1, <1>4, Halving DEF Iso!Challenge, Applets
  <2>2. CASE Iso!Answered(chunk) /\ left' = (IF left < chunk THEN 0 ELSE left - chunk)
                /\ UNCHANGED <<pc, chunk, result>>
    <3>1. left' < left
      BY <1>1, <2>1, <2>2
    <3>2. Applets' = Applets
      BY <2>1, <2>2 DEF Applets
    <3> QED
      BY <3>1, <3>2 DEF Nearer
  <2>3. CASE chunk > 1 /\ chunk' = chunk \div 2 /\ UNCHANGED <<pc, left, result>>
    <3>1. chunk' < chunk
      BY <1>1, <2>1, <2>3 DEF Iso!Chunks
    <3>2. Applets' = Applets
      BY <2>1, <2>3 DEF Applets
    <3> QED
      BY <2>3, <3>1, <3>2 DEF Nearer
  <2> QED
    BY <1>4, <2>2, <2>3
       DEF Iso!Challenge, Iso!ReadEnds, Iso!MayNarrow, Iso!Narrowed, Busy
<1>5. CASE Iso!ReadDone
  BY <1>5 DEF Iso!ReadDone, Iso!ReadEnds, Busy
<1> QED
  BY <1>2, <1>3, <1>4, <1>5 DEF Iso!Step

LEMMA NodeNearer ==
  ASSUME NodeInv, Inf!Step, Busy, Busy'
  PROVE  Nearer
<1>1. left \in Nat
  BY NodeType
<1>2. CASE Inf!ReadSome
  <2>1. pc = "reading" /\ pc' = "reading"
    BY <1>2 DEF Inf!ReadSome
  <2>2. PICK k \in 1 .. left : Inf!Take(k)
    BY <1>2 DEF Inf!ReadSome
  <2>3. left' < left
    BY <1>1, <2>2 DEF Inf!Take
  <2> QED
    BY <2>1, <2>3 DEF Nearer, Applets
<1>3. CASE Inf!ReadFails \/ Inf!ReadDone
  BY <1>3 DEF Inf!ReadFails, Inf!ReadDone, Inf!ReadEnds, Busy
<1> QED
  BY <1>2, <1>3 DEF Inf!Step

(* What is not a step of the call leaves it where it is.                   *)
LEMMA OthersWait ==
  ASSUME Next, ~ Step, Busy
  PROVE  UNCHANGED Due
<1>1. \/ /\ \/ Iso!Connect \/ Iso!Close \/ \E n \in Lens : Iso!BeginRead(n)
            \/ Iso!Remove \/ Iso!Insert \/ \E a \in Iso!App : Iso!OtherSelects(a)
      \/ /\ \/ Inf!Interrupted \/ Inf!Open \/ Inf!Close \/ \E n \in NodeLens : Inf!BeginRead(n)
            \/ \E d \in Dirs : Inf!List(d)
            \/ Inf!Unplug \/ Inf!Plug \/ Inf!OtherReads
         /\ UNCHANGED isoown
      \/ ReadEmpty
  BY DEF Next, Step, Iso!Next, Inf!Next
<1>2. UNCHANGED <<pc, app, left, chunk>>
  BY <1>1 DEF Busy, ReadEmpty, isoown, Iso!Connect, Iso!Close, Iso!BeginRead, Iso!Remove,
     Iso!Insert, Iso!OtherSelects, Inf!Interrupted, Inf!Open, Inf!Close, Inf!BeginRead,
     Inf!List, Inf!Unplug, Inf!Plug, Inf!OtherReads
<1> QED
  BY <1>2 DEF Due, Applets, Later

(* Nothing an open or a read of a slot meets sends it in a circle: what is *)
(* left to do gets less with each answer and each refusal, and nothing     *)
(* that happens to the device adds to it.                                  *)
THEOREM ReadsEnd == Spec => NoCircles
<1>1. ASSUME IInv, Next, Busy, Busy'
      PROVE  IF Step THEN Nearer ELSE UNCHANGED Due
  BY <1>1, CardNearer, NodeNearer, OthersWait DEF IInv, Step
<1>2. IInv /\ [Next]_vars => [Busy /\ Busy' => IF Step THEN Nearer ELSE UNCHANGED Due]_vars
  BY <1>1
<1> QED
  BY <1>2, Invariance, PTL DEF Spec, NoCircles
=============================================================================
