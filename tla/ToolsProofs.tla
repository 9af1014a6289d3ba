----------------------------- MODULE ToolsProofs -----------------------------
(***************************************************************************)
(* Proofs about Tools, for every buffer size, every line buffer that takes *)
(* a request and every value of -n: what the two tools leave behind, what  *)
(* the kernel is given, and when p11rand-read may claim success.           *)
(***************************************************************************)
EXTENDS Tools, SequenceTheorems, TLAPS

(***************************************************************************)
(* p11rand-seed.  The buffer is zero until the loop and after the wipe,    *)
(* and fresh when it is about to be inserted.                              *)
(***************************************************************************)
SeedPlaces ==
  {"load", "start", "count", "list", "open", "install", "close", "exited",
   "device", "loop", "generate", "insert", "reseed", "sleep", "wipe", "finalize"}

SeedInv ==
  /\ pc \in SeedPlaces
  /\ pc \in {"load", "start"} => ~ initialized /\ ~ session
  /\ pc \in {"load", "start", "count", "list", "open", "device", "install", "close", "finalize"}
       => blob = "zero"
  /\ pc = "insert" => blob = "fresh"
  /\ pc = "exited" <=> code # "none"
  /\ Seed!FreshOnly /\ Seed!CleanExit
  /\ denied => no_credit

LEMMA SeedInit == ASSUME Seed!Init PROVE SeedInv
  BY DEF Seed!Init, Seed!ClientInit, SeedInv, SeedPlaces, Seed!FreshOnly, Seed!CleanExit, Seed!Nothing

LEMMA SeedSets == ASSUME SeedInv, Seed!Setup PROVE SeedInv'
<1>1. UNCHANGED <<no_credit, no_reseed, blob, kernel, denied>>
  BY DEF Seed!Setup, Seed!own, Seed!flags
<1>2. SeedPlaces' = SeedPlaces
  BY DEF SeedPlaces
<1>3. CASE Seed!Load \/ Seed!Initialize("count")
  BY <1>1, <1>3 DEF SeedInv, SeedPlaces, Seed!FreshOnly, Seed!CleanExit,
     Seed!Load, Seed!Initialize, Seed!GoTo, Seed!Exit, Seed!modvars
<1>4. CASE Seed!CountSlots \/ Seed!ListSlots
  BY <1>1, <1>4 DEF SeedInv, SeedPlaces, Seed!FreshOnly, Seed!CleanExit,
     Seed!CountSlots, Seed!ListSlots, Seed!GoTo, Seed!Exit, Seed!Finalized, Seed!modvars
<1>5. CASE Seed!OpenSession("device") \/ Seed!Install("loop")
  BY <1>1, <1>5 DEF SeedInv, SeedPlaces, Seed!FreshOnly, Seed!CleanExit,
     Seed!OpenSession, Seed!Install, Seed!GoTo, Seed!Exit, Seed!Finalized, Seed!modvars
<1> QED
  BY <1>3, <1>4, <1>5 DEF Seed!Setup, Seed!Connect

LEMMA SeedLoops ==
  ASSUME SeedInv, \/ Seed!OpenDevice \/ Seed!Loop \/ Seed!Generate \/ Seed!Reseed \/ Seed!Sleep
  PROVE  SeedInv'
<1>1. CASE Seed!OpenDevice
  BY <1>1 DEF SeedInv, SeedPlaces, Seed!FreshOnly, Seed!CleanExit, Seed!OpenDevice,
     Seed!GoTo, Seed!Exit, Seed!Finalized, Seed!modvars, Seed!own, Seed!flags
<1>2. CASE Seed!Loop \/ Seed!Sleep
  BY <1>2 DEF SeedInv, SeedPlaces, Seed!FreshOnly, Seed!CleanExit, Seed!Loop, Seed!Sleep,
     Seed!GoTo, Seed!modvars, Seed!own, Seed!flags
<1>3. CASE Seed!Generate
  BY <1>3 DEF SeedInv, SeedPlaces, Seed!FreshOnly, Seed!CleanExit, Seed!Generate,
     Seed!GoTo, Seed!modvars, Seed!flags
<1>4. CASE Seed!Reseed
  BY <1>4 DEF SeedInv, SeedPlaces, Seed!FreshOnly, Seed!CleanExit, Seed!Reseed,
     Seed!GoTo, Seed!modvars
<1> QED
  BY <1>1, <1>2, <1>3, <1>4

(* What the kernel is given is the buffer, and it is fresh.                *)
LEMMA SeedPushes ==
  ASSUME NEW c, Seed!Push(c)
  PROVE  kernel'.data = blob /\ kernel'.credited = c /\ blob' = "used"
  BY DEF Seed!Push

LEMMA SeedInserts ==
  ASSUME SeedInv, Seed!Write \/ Seed!Credit
  PROVE  SeedInv' /\ (denied /\ kernel' # kernel => ~ kernel'.credited)
<1>1. pc = "insert" /\ blob = "fresh" /\ code = "none" /\ (denied => no_credit)
  BY DEF SeedInv, Seed!Write, Seed!Credit
<1>2. CASE Seed!Write
  <2>1. kernel' = kernel \/ (kernel'.data = blob /\ kernel'.credited = FALSE)
    BY <1>2, SeedPushes DEF Seed!Write
  <2>2. pc' = "sleep" /\ UNCHANGED <<code, initialized, session, no_credit, denied>>
    BY <1>2 DEF Seed!Write, Seed!GoTo, Seed!modvars, Seed!flags
  <2> QED
    BY <1>1, <2>1, <2>2 DEF SeedInv, SeedPlaces, Seed!FreshOnly, Seed!CleanExit
<1>3. CASE Seed!Credit
  <2>1. ~ denied
    BY <1>1, <1>3 DEF Seed!Credit
  <2>2. kernel' = kernel \/ kernel'.data = blob
    BY <1>3, SeedPushes DEF Seed!Credit
  <2>3. /\ pc' \in {"sleep", "reseed"} /\ UNCHANGED <<code, initialized, session>>
        /\ UNCHANGED <<denied, no_credit>> \/ (denied' = TRUE /\ no_credit' = TRUE)
    BY <1>3 DEF Seed!Credit, Seed!GoTo, Seed!modvars, Seed!flags
  <2> QED
    BY <1>1, <2>1, <2>2, <2>3 DEF SeedInv, SeedPlaces, Seed!FreshOnly, Seed!CleanExit
<1> QED
  BY <1>2, <1>3

LEMMA SeedEnds ==
  ASSUME SeedInv, Seed!Wipe \/ Seed!CloseSession \/ Seed!Finalize
  PROVE  SeedInv'
  BY DEF SeedInv, SeedPlaces, Seed!FreshOnly, Seed!CleanExit, Seed!Wipe, Seed!CloseSession,
     Seed!Close, Seed!Finalize, Seed!Finalized, Seed!GoTo, Seed!Exit, Seed!modvars, Seed!own,
     Seed!flags

LEMMA SeedSteps ==
  ASSUME SeedInv, Seed!Step
  PROVE  SeedInv' /\ (denied /\ kernel' # kernel => ~ kernel'.credited)
<1>1. CASE Seed!Write \/ Seed!Credit
  BY <1>1, SeedInserts
<1>2. ASSUME ~ (Seed!Write \/ Seed!Credit)
      PROVE  SeedInv' /\ kernel' = kernel
  <2>1. SeedInv'
    BY <1>2, SeedSets, SeedLoops, SeedEnds DEF Seed!Step
  <2>2. kernel' = kernel
    BY <1>2 DEF Seed!Step, Seed!Setup, Seed!OpenDevice, Seed!Loop, Seed!Generate, Seed!Reseed,
       Seed!Sleep, Seed!Wipe, Seed!CloseSession, Seed!Finalize, Seed!own
  <2> QED
    BY <2>1, <2>2
<1> QED
  BY <1>1, <1>2

LEMMA SeedInterrupted ==
  ASSUME SeedInv, Signal, UNCHANGED seedown
  PROVE  SeedInv'
<1>1. CASE UNCHANGED <<pc, code, initialized, session>>
  BY <1>1 DEF SeedInv, SeedPlaces, Seed!FreshOnly, Seed!CleanExit, seedown
<1>2. CASE pc' = "exited" /\ code' \in {"killed", "130"}
  BY <1>2 DEF SeedInv, SeedPlaces, Seed!FreshOnly, Seed!CleanExit, seedown
<1> QED
  BY <1>1, <1>2 DEF Signal, Exit, modvars

(***************************************************************************)
(* p11rand-read.  What stdout took is counted against produced; on the way *)
(* out either everything was taken or there is an excuse.                  *)
(***************************************************************************)
Beginning == {"load", "start", "count", "list", "open", "install"}
Looping   == {"loop", "generate", "write"}
Ending    == {"newline", "make_room", "push", "close", "finalize", "wipe", "exit"}

Chars   == Int \X (Nat \ {0})       \* and the newline is <<0, 0>>
Excused == signals > 0 \/ fd = "closed" \/ exit_rv = "1"
All     == n_total >= 0 /\ Read!Digits = n_total * Read!Width

ReadTypes ==
  /\ n_total \in Totals /\ hex \in BOOLEAN /\ produced \in Nat /\ exit_rv \in {"0", "1"}
  /\ gens \in Nat /\ buf \in Int /\ lines \in BOOLEAN /\ eol \in BOOLEAN
  /\ rest \in Seq(Chars) /\ acc \in Seq(Int \X Int) /\ sent \in 0 .. Len(acc)
  /\ Read!Held <= Room /\ Len(rest) <= Read!Whole
  /\ fd \in {"ok", "stalled", "full", "closed"}

Counts ==
  /\ pc \in Beginning \cup Looping \cup {"newline", "make_room"} => acc \in Seq(Chars)
  /\ pc \in Beginning \cup {"loop", "generate"} => Len(acc) = produced * Read!Width
  /\ pc = "write" => Len(acc) + Len(rest) = (produced + Read!Want) * Read!Width
  /\ pc \in {"generate", "write"} => n_total < 0 \/ produced < n_total
  /\ n_total >= 0 => produced <= n_total
  /\ pc \in Ending => Excused \/ All

Clean ==
  /\ pc \in {"load", "start", "wipe", "exit"} => ~ initialized /\ ~ session
  /\ pc \in Beginning \cup {"exit"} => buf = 0
  /\ pc = "exited" <=> code # "none"
  /\ Read!CleanExit /\ Read!SuccessIsWhole

ReadInv ==
  /\ pc \in Beginning \cup Looping \cup Ending \cup {"exited"}
  /\ signals \in Nat
  /\ ReadTypes /\ Counts /\ Clean

LEMMA Times ==
  ASSUME NEW w \in {1, 2}, NEW a \in Nat, NEW b \in Nat
  PROVE  /\ a * w \in Nat /\ (a + b) * w = a * w + b * w
         /\ a <= b => a * w <= b * w
         /\ b * w <= a * w => b <= a /\ (a - b) * w = a * w - b * w
<1>1. CASE w = 1
  BY <1>1
<1>2. CASE w = 2
  BY <1>2
<1> QED
  BY <1>1, <1>2

LEMMA Constants ==
  /\ Request \in Nat \ {0} /\ Room \in Nat /\ Room >= 2 * Request
  /\ \A t \in Totals : t \in Int /\ (t >= 0 \/ t = -1)
  BY ToolsAssumption

LEMMA Widths ==
  ASSUME hex \in BOOLEAN
  PROVE  /\ Read!Width \in {1, 2} /\ Read!Whole = Request * Read!Width
         /\ Read!Whole \in Nat \ {0} /\ Read!Whole <= Room
<1>1. Read!Width \in {1, 2}
  BY DEF Read!Width
<1>2. Read!Whole = Request * Read!Width
  BY DEF Read!Whole
<1>3. CASE Read!Width = 1
  BY <1>2, <1>3, Constants
<1>4. CASE Read!Width = 2
  BY <1>2, <1>4, Constants
<1> QED
  BY <1>1, <1>2, <1>3, <1>4

LEMMA Wants ==
  ASSUME n_total \in Totals, produced \in Nat, n_total < 0 \/ produced < n_total
  PROVE  /\ Read!Want \in 1 .. Request
         /\ n_total >= 0 => produced + Read!Want <= n_total
  BY Constants DEF Read!Want

(* A sequence that does not end with the newline is all digits.            *)
LEMMA NoNewLine ==
  ASSUME NEW s \in Seq(Chars), s # <<>>
  PROVE  s[Len(s)] # Read!NewLine
<1> DEFINE S == Chars
<1> HIDE DEF S
<1>1. s \in Seq(S) /\ s # <<>>
  BY DEF S
<1>2. Len(s) \in 1 .. Len(s) /\ s[Len(s)] \in S
  BY <1>1, LenProperties, ElementOfSeq, EmptySeq
<1> QED
  BY <1>2 DEF S, Chars, Read!NewLine

LEMMA AllDigits ==
  ASSUME acc \in Seq(Chars)
  PROVE  Read!Digits = Len(acc)
  BY NoNewLine DEF Read!Digits

LEMMA AllDigitsThen ==
  ASSUME acc' \in Seq(Chars)
  PROVE  Read!Digits' = Len(acc')
  BY NoNewLine DEF Read!Digits

LEMMA ReadInit == ASSUME Read!Init PROVE ReadInv
<1>1. ReadTypes
  <2>1. /\ n_total \in Totals /\ hex \in BOOLEAN /\ produced = 0 /\ exit_rv = "0" /\ gens = 0
        /\ buf = 0 /\ rest = <<>> /\ lines = FALSE /\ acc = <<>> /\ sent = 0 /\ eol = FALSE
        /\ fd = "ok"
    BY DEF Read!Init
  <2>2. Len(acc) = 0 /\ Len(rest) = 0 /\ Read!Held = 0
    BY <2>1 DEF Read!Held
  <2>3. Read!Held <= Room /\ Len(rest) <= Read!Whole /\ sent \in 0 .. Len(acc)
    BY <2>1, <2>2, Constants, Widths
  <2>4. rest \in Seq(Chars) /\ acc \in Seq(Int \X Int)
    BY <2>1
  <2>5. lines \in BOOLEAN /\ eol \in BOOLEAN
    BY <2>1
  <2>6. /\ exit_rv \in {"0", "1"} /\ produced \in Nat /\ gens \in Nat /\ buf \in Int
        /\ fd \in {"ok", "stalled", "full", "closed"}
    BY <2>1
  <2> QED
    BY <2>1, <2>3, <2>4, <2>5, <2>6 DEF ReadTypes
<1>2. Counts
  <2>1. Read!Width \in {1, 2}
    BY Widths DEF Read!Init
  <2>2. 0 * Read!Width = 0 /\ Len(acc) = 0
    BY <2>1 DEF Read!Init
  <2>3. acc \in Seq(Chars) /\ pc = "load" /\ produced = 0 /\ n_total \in Totals
    BY DEF Read!Init, Read!ClientInit
  <2> QED
    BY <2>2, <2>3, Constants DEF Counts, Beginning, Looping, Ending
<1>3. Clean
  BY DEF Read!Init, Read!ClientInit, Clean, Beginning, Read!CleanExit, Read!SuccessIsWhole
<1> QED
  BY <1>1, <1>2, <1>3 DEF Read!Init, Read!ClientInit, ReadInv, Beginning

(* The data stand still.                                                   *)
LEMMA DataStay ==
  ASSUME UNCHANGED <<n_total, hex, produced, exit_rv, gens, buf, rest, lines, acc, sent, eol>>
  PROVE  /\ ReadTypes /\ fd' \in {"ok", "stalled", "full", "closed"} => ReadTypes'
         /\ Read!Width' = Read!Width /\ Read!Want' = Read!Want /\ Read!Digits' = Read!Digits
         /\ All' = All /\ Read!Whole' = Read!Whole
<1>1. Read!Width' = Read!Width /\ Read!Want' = Read!Want /\ Read!Digits' = Read!Digits
  BY DEF Read!Width, Read!Want, Read!Digits
<1>2. Read!Whole' = Read!Whole /\ Read!Held' = Read!Held
  BY <1>1 DEF Read!Whole, Read!Held
<1>3. All' = All
  BY <1>1 DEF All
<1>4. ASSUME ReadTypes, fd' \in {"ok", "stalled", "full", "closed"} PROVE ReadTypes'
  BY <1>1, <1>2, <1>4 DEF ReadTypes, Chars
<1> QED
  BY <1>1, <1>2, <1>3, <1>4

LEMMA ReadSets == ASSUME ReadInv, Read!Setup PROVE ReadInv'
<1>1. /\ UNCHANGED <<n_total, hex, produced, exit_rv, gens, buf, rest, lines, acc, sent, eol, fd>>
      /\ signals' \in {signals, 0}
  BY DEF Read!Setup, Read!own, Read!main, Read!args, Read!chunk, Read!stdout, Read!Connect,
     Read!Load, Read!Initialize, Read!CountSlots, Read!ListSlots, Read!OpenSession, Read!Install,
     Read!sigvars
<1>2. pc \in Beginning
  BY DEF Read!Setup, Read!Connect, Read!Load, Read!Initialize, Read!CountSlots, Read!ListSlots,
     Read!OpenSession, Read!Install, Beginning
<1>3. \/ pc' \in Beginning /\ code' = code
      \/ pc' = "loop" /\ code' = code
      \/ pc' = "exited" /\ code' \in {"1", "2"}
  BY DEF Read!Setup, Read!Connect, Read!Load, Read!Initialize, Read!CountSlots, Read!ListSlots,
     Read!OpenSession, Read!Install, Read!GoTo, Read!Exit, Beginning
<1>4. ReadTypes'
  BY <1>1, DataStay DEF ReadInv, ReadTypes
<1>5. Counts'
  BY <1>1, <1>2, <1>3, DataStay DEF ReadInv, Counts, Beginning, Looping, Ending
<1>6. Clean'
  <2>1. /\ pc' \in {"load", "start"} => ~ initialized' /\ ~ session'
        /\ code' \in {"1", "2"} => ~ initialized' /\ ~ session'
    BY <1>2 DEF ReadInv, Clean, Beginning, Read!CleanExit, Read!Setup, Read!Connect, Read!Load,
       Read!Initialize, Read!CountSlots, Read!ListSlots, Read!OpenSession, Read!Install,
       Read!GoTo, Read!Exit, Read!Finalized, Read!modvars
  <2>2. buf = 0 /\ code = "none" /\ code' # "0"
    BY <1>2, <1>3 DEF ReadInv, Clean, Beginning
  <2> QED
    BY <1>1, <1>3, <2>1, <2>2 DEF Clean, Beginning, Read!CleanExit, Read!SuccessIsWhole
<1>7. /\ pc' \in Beginning \cup Looping \cup Ending \cup {"exited"} /\ signals' \in Nat
  BY <1>1, <1>3 DEF ReadInv, Beginning, Looping, Ending
<1> QED
  BY <1>4, <1>5, <1>6, <1>7 DEF ReadInv

(* A step on the way, neither at the beginning nor into the exit.          *)
LEMMA CleanStays ==
  ASSUME ReadInv, pc \notin Beginning, pc' \notin Beginning, pc # "exited", pc' # "exited",
         code' = code,
         pc' \in {"wipe", "exit"} => (pc = pc' /\ UNCHANGED <<initialized, session>>)
                                     \/ (~ initialized' /\ ~ session'),
         pc' = "exit" => buf' = 0
  PROVE  Clean'
<1>1. code = "none"
  BY DEF ReadInv, Clean
<1>2. pc' \in {"load", "start", "wipe", "exit"} => ~ initialized' /\ ~ session'
  BY DEF ReadInv, Clean, Beginning
<1> QED
  BY <1>1, <1>2 DEF Clean, Beginning, Read!CleanExit, Read!SuccessIsWhole

LEMMA Leaves ==
  ASSUME Read!Leave
  PROVE  pc' \in {"newline", "close"} /\ code' = code
  BY DEF Read!Leave, Read!GoTo

LEMMA ReadLoops == ASSUME ReadInv, Read!Loop PROVE ReadInv'
<1>1. /\ UNCHANGED <<initialized, session, installed, signals, n_total, hex, exit_rv, rest, lines, eol, fd>>
      /\ pc = "loop" /\ pc' \in {"generate", "newline", "close"} /\ code' = code
  BY Leaves DEF Read!Loop, Read!GoTo, Read!modvars, Read!sigvars, Read!args, Read!chunk
<1>2. /\ hex \in BOOLEAN /\ produced \in Nat /\ gens \in Nat /\ buf \in Int
      /\ acc \in Seq(Chars) /\ sent \in 0 .. Len(acc) /\ Len(acc) = produced * Read!Width
      /\ Len(acc) \in Nat /\ Read!Held <= Room /\ n_total \in Totals
      /\ n_total >= 0 => produced <= n_total
  BY <1>1, LenProperties DEF ReadInv, ReadTypes, Counts, Looping
<1>3. /\ Read!Width \in {1, 2} /\ Read!Whole = Request * Read!Width /\ Read!Whole \in Nat
      /\ Read!Width' = Read!Width /\ Read!Whole' = Read!Whole
  <2>1. Read!Width' = Read!Width
    BY <1>1 DEF Read!Width
  <2> QED
    BY <1>2, <2>1, Widths DEF Read!Whole
<1>4. /\ acc' \in Seq(Chars) /\ sent' \in 0 .. Len(acc') /\ Read!Held' <= Room
      /\ produced' \in Nat /\ Len(acc') = produced' * Read!Width
      /\ gens' \in Nat /\ buf' \in Int
      /\ n_total >= 0 => UNCHANGED <<acc, produced>>
  <2>1. CASE UNCHANGED <<acc, sent, gens, produced, buf>>
    BY <1>2, <2>1 DEF Read!Held
  <2>2. CASE /\ n_total < 0 /\ gens > 1 /\ sent >= Read!Whole
             /\ acc'  = [j \in 1 .. Len(acc) - Read!Whole |->
                           <<acc[j + Read!Whole][1] - 1, acc[j + Read!Whole][2]>>]
             /\ sent' = sent - Read!Whole /\ gens' = gens - 1 /\ produced' = produced - Request
             /\ buf'  = IF buf > 0 THEN buf - 1 ELSE buf
    <3> DEFINE W == Read!Whole
               n == Len(acc) - W
    <3>1. W \in Nat /\ n \in Nat /\ n + W = Len(acc)
      <4>1. W \in Nat /\ sent >= W
        BY <1>3, <2>2
      <4>2. sent \in 0 .. Len(acc) /\ Len(acc) \in Nat
        BY <1>2
      <4> HIDE DEF W
      <4> QED
        BY <4>1, <4>2
    <3>2. \A j \in 1 .. n : <<acc[j + W][1] - 1, acc[j + W][2]>> \in Chars
      <4> SUFFICES ASSUME NEW j \in 1 .. n
                   PROVE  <<acc[j + W][1] - 1, acc[j + W][2]>> \in Chars
        OBVIOUS
      <4>1. acc[j + W] \in Chars
        BY <1>2, <3>1, ElementOfSeq
      <4> QED
        BY <4>1 DEF Chars
    <3>3. acc' \in [1 .. n -> Chars]
      BY <2>2, <3>2
    <3>4. acc' \in Seq(Chars) /\ Len(acc') = n
      <4> HIDE DEF n
      <4>1. acc' \in Seq(Chars)
        BY <3>1, <3>3, SeqDef
      <4>2. DOMAIN acc' = 1 .. n /\ DOMAIN acc' = 1 .. Len(acc') /\ Len(acc') \in Nat
        BY <3>3, <4>1, LenProperties
      <4> QED
        BY <3>1, <4>1, <4>2
    <3>5. produced' \in Nat /\ Len(acc') = produced' * Read!Width
      <4>1. Request * Read!Width <= produced * Read!Width
        BY <1>2, <1>3, <3>1
      <4>2. /\ Request <= produced
            /\ (produced - Request) * Read!Width = produced * Read!Width - Request * Read!Width
        BY <1>2, <1>3, <4>1, Times, Constants
      <4> QED
        BY <1>2, <1>3, <2>2, <3>1, <3>4, <4>2, Constants
    <3>6. sent' \in 0 .. Len(acc') /\ Read!Held' <= Room
      BY <1>2, <2>2, <3>1, <3>4 DEF Read!Held
    <3>7. gens' \in Nat /\ buf' \in Int /\ ~ n_total >= 0
      BY <1>2, <2>2, Constants
    <3> QED
      BY <3>4, <3>5, <3>6, <3>7
  <2> QED
    BY <2>1, <2>2 DEF Read!Loop, Read!Forget
<1>5. ReadTypes'
  <2>1. acc' \in Seq(Int \X Int)
    BY <1>4, SeqDef DEF Chars
  <2> QED
    BY <1>1, <1>3, <1>4, <2>1 DEF ReadInv, ReadTypes, Chars
<1>6. n_total >= 0 => produced' <= n_total
  BY <1>2, <1>4
<1>7. pc' = "generate" => n_total < 0 \/ produced' < n_total
  BY <1>1, <1>4, Leaves, <1>2, Constants DEF Read!Loop, Read!GoTo
<1>8. pc' \in Ending => Excused' \/ All'
  <2> SUFFICES ASSUME pc' # "generate", signals = 0 PROVE All'
    BY <1>1 DEF Excused, ReadInv, Ending
  <2>1. n_total >= 0 /\ produced >= n_total
    BY <1>2, Constants DEF Read!Loop, Read!GoTo
  <2>2. produced = n_total /\ acc' = acc
    BY <1>2, <1>4, <2>1, Constants
  <2>3. Read!Digits = n_total * Read!Width
    BY <1>2, <2>2, AllDigits
  <2>4. Read!Digits' = Read!Digits
    BY <2>2 DEF Read!Digits
  <2> QED
    BY <1>1, <1>3, <2>1, <2>3, <2>4 DEF All
<1>9. Counts'
  BY <1>1, <1>3, <1>4, <1>6, <1>7, <1>8 DEF Counts, Beginning, Looping, Ending
<1>10. Clean'
  BY <1>1, CleanStays DEF Beginning
<1> QED
  BY <1>1, <1>5, <1>9, <1>10 DEF ReadInv, Looping, Ending

LEMMA Texts ==
  ASSUME NEW g \in Nat, NEW want \in Nat, hex \in BOOLEAN
  PROVE  /\ Read!Text(g, want) \in Seq(Chars)
         /\ Len(Read!Text(g, want)) = want * Read!Width
<1> DEFINE n == want * Read!Width
           t == [k \in 1 .. n |-> <<g, k>>]
<1>1. n \in Nat
  BY Widths, Times
<1>2. Read!Text(g, want) = t
  BY DEF Read!Text
<1>3. t \in [1 .. n -> Chars]
  BY <1>1 DEF Chars
<1> HIDE DEF t, n
<1>4. t \in Seq(Chars)
  BY <1>1, <1>3, SeqDef
<1>5. DOMAIN t = 1 .. n /\ DOMAIN t = 1 .. Len(t) /\ Len(t) \in Nat
  BY <1>3, <1>4, LenProperties
<1>6. Len(t) = n
  BY <1>1, <1>5
<1> QED
  BY <1>2, <1>4, <1>6 DEF n

LEMMA ReadGenerates == ASSUME ReadInv, Read!Generate PROVE ReadInv'
<1>1. /\ UNCHANGED <<initialized, session, installed, signals, n_total, hex, produced,
                     acc, sent, eol, fd>>
      /\ pc = "generate" /\ pc' \in {"write", "newline", "close"} /\ code' = code
  BY Leaves DEF Read!Generate, Read!GoTo, Read!modvars, Read!sigvars, Read!args, Read!stdout
<1>2. /\ hex \in BOOLEAN /\ produced \in Nat /\ gens \in Nat /\ buf \in Int
      /\ acc \in Seq(Chars) /\ sent \in 0 .. Len(acc) /\ Len(acc) = produced * Read!Width
      /\ Len(acc) \in Nat /\ Read!Held <= Room /\ n_total \in Totals
      /\ (n_total < 0 \/ produced < n_total) /\ (n_total >= 0 => produced <= n_total)
      /\ rest \in Seq(Chars) /\ Len(rest) <= Read!Whole /\ lines \in BOOLEAN
      /\ exit_rv \in {"0", "1"}
  BY <1>1, LenProperties DEF ReadInv, ReadTypes, Counts, Looping
<1>3. /\ Read!Width \in {1, 2} /\ Read!Whole = Request * Read!Width /\ Read!Whole \in Nat
      /\ UNCHANGED <<Read!Width, Read!Whole, Read!Want, Read!Held, Read!Digits>>
  <2>1. UNCHANGED <<Read!Width, Read!Want, Read!Held, Read!Digits>>
    BY <1>1 DEF Read!Width, Read!Want, Read!Held, Read!Digits
  <2> QED
    BY <1>2, <2>1, Widths DEF Read!Whole
<1>4. Read!Want \in 1 .. Request
  BY <1>2, Wants
<1>5. /\ rest' \in Seq(Chars) /\ Len(rest') <= Read!Whole /\ lines' \in BOOLEAN
      /\ pc' = "write" => Len(acc) + Len(rest') = (produced + Read!Want) * Read!Width
  <2>1. CASE rest' = Read!Text(gens + 1, Read!Want) /\ lines' \in (IF hex THEN {FALSE} ELSE BOOLEAN)
    <3>1. /\ rest' \in Seq(Chars) /\ Len(rest') = Read!Want * Read!Width
      BY <1>2, <1>4, <2>1, Constants, Texts
    <3>2. /\ Read!Want * Read!Width <= Request * Read!Width
          /\ (produced + Read!Want) * Read!Width = produced * Read!Width + Read!Want * Read!Width
      BY <1>2, <1>3, <1>4, Constants, Times
    <3>3. lines' \in BOOLEAN
      BY <2>1
    <3> QED
      BY <1>2, <1>3, <3>1, <3>2, <3>3
  <2>2. CASE UNCHANGED <<rest, lines>> /\ pc' # "write"
    BY <1>2, <2>2
  <2> QED
    BY <2>1, <2>2, Leaves DEF Read!Generate, Read!chunk
<1>6. gens' \in Nat /\ buf' \in Int /\ exit_rv' \in {"0", "1"}
  <2>1. CASE gens' = gens + 1 /\ buf' = gens + 1 /\ UNCHANGED exit_rv
    BY <1>2, <2>1
  <2>2. CASE buf' \in {buf, -1} /\ exit_rv' \in {exit_rv, "1"} /\ UNCHANGED gens
    BY <1>2, <2>2
  <2>3. exit_rv' = (IF signals > 0 THEN exit_rv ELSE "1") => exit_rv' \in {exit_rv, "1"}
    OBVIOUS
  <2> QED
    BY <2>1, <2>2, <2>3 DEF Read!Generate
<1>7. ReadTypes'
  BY <1>1, <1>3, <1>5, <1>6 DEF ReadInv, ReadTypes, Chars
<1>8. pc' \in Ending => Excused'
  <2> SUFFICES ASSUME pc' # "write" PROVE Excused'
    BY DEF Ending
  <2>1. CASE signals > 0
    BY <1>1, <2>1 DEF Excused
  <2>2. CASE ~ signals > 0
    BY <2>2 DEF Read!Generate, Read!GoTo, Excused
  <2> QED
    BY <2>1, <2>2
<1>9. Counts'
  BY <1>1, <1>2, <1>3, <1>5, <1>8 DEF Counts, Beginning, Looping, Ending
<1>10. Clean'
  BY <1>1, CleanStays DEF Beginning
<1> QED
  BY <1>1, <1>7, <1>9, <1>10 DEF ReadInv, Looping, Ending

(* What holds while a chunk is being written.                              *)
LEMMA Writing ==
  ASSUME ReadInv, pc = "write"
  PROVE  /\ hex \in BOOLEAN /\ produced \in Nat /\ Room \in Nat
         /\ acc \in Seq(Chars) /\ sent \in 0 .. Len(acc) /\ Len(acc) \in Nat
         /\ rest \in Seq(Chars) /\ Len(rest) \in Nat /\ Len(rest) <= Room
         /\ Len(acc) + Len(rest) = (produced + Read!Want) * Read!Width
         /\ Read!Held = Len(acc) - sent /\ Read!Held <= Room
         /\ (n_total < 0 \/ produced < n_total) /\ n_total \in Totals
         /\ Read!Want \in 1 .. Request
         /\ n_total >= 0 => produced + Read!Want <= n_total
<1>1. ReadTypes /\ Counts
  BY DEF ReadInv
<1>2. /\ hex \in BOOLEAN /\ produced \in Nat /\ n_total \in Totals
      /\ acc \in Seq(Chars) /\ sent \in 0 .. Len(acc)
      /\ rest \in Seq(Chars) /\ Len(rest) <= Read!Whole /\ Read!Held <= Room
      /\ Len(acc) + Len(rest) = (produced + Read!Want) * Read!Width
      /\ (n_total < 0 \/ produced < n_total)
  BY <1>1 DEF ReadTypes, Counts, Looping
<1>3. Len(acc) \in Nat /\ Len(rest) \in Nat
  BY <1>2, LenProperties
<1>4. Read!Whole <= Room /\ Read!Whole \in Nat /\ Room \in Nat
  BY <1>2, Widths, Constants
<1>5. /\ Read!Want \in 1 .. Request
      /\ n_total >= 0 => produced + Read!Want <= n_total
  BY <1>2, Wants
<1>6. Len(rest) <= Room
  BY <1>2, <1>3, <1>4
<1> QED
  BY <1>2, <1>3, <1>4, <1>5, <1>6 DEF Read!Held

(* A write goes on: so many characters were taken, the others are left.    *)
LEMMA WriteGoesOn ==
  ASSUME ReadInv, pc = "write",
         UNCHANGED <<initialized, session, installed, signals, n_total, hex, exit_rv, gens, buf, fd>>,
         code' = code, lines' \in BOOLEAN, eol' \in BOOLEAN,
         rest' \in Seq(Chars), acc' \in Seq(Chars), sent' \in 0 .. Len(acc'),
         Len(acc') + Len(rest') = Len(acc) + Len(rest), Len(rest') <= Len(rest),
         Len(acc') - sent' <= Room,
         \/ pc' = "write" /\ produced' = produced
         \/ pc' = "loop" /\ produced' = produced + Read!Want /\ Len(rest') = 0
  PROVE  ReadInv'
<1>1. Len(acc') \in Nat /\ Len(rest') \in Nat
  BY LenProperties
<1>2. /\ UNCHANGED <<Read!Width, Read!Whole>>
      /\ produced' = produced => Read!Want' = Read!Want
  BY DEF Read!Width, Read!Whole, Read!Want
<1>3. produced' \in Nat /\ (n_total >= 0 => produced' <= n_total)
      /\ (pc' = "write" => n_total < 0 \/ produced' < n_total)
  <2>1. /\ produced \in Nat /\ (n_total < 0 \/ produced < n_total) /\ n_total \in Int
        /\ Read!Want \in Nat /\ (n_total >= 0 => produced + Read!Want <= n_total)
    <3>1. Read!Want \in 1 .. Request /\ n_total \in Totals
      BY Writing
    <3>2. Read!Want \in Nat /\ n_total \in Int
      BY <3>1, Constants
    <3> QED
      BY <3>2, Writing
  <2>2. CASE pc' = "write" /\ produced' = produced
    BY <2>1, <2>2
  <2>3. CASE pc' = "loop" /\ produced' = produced + Read!Want
    BY <2>1, <2>3
  <2> QED
    BY <2>2, <2>3
<1>4. ReadTypes'
  <2>1. acc' \in Seq(Int \X Int)
    BY SeqDef DEF Chars
  <2>2. Read!Held' <= Room /\ Len(rest') <= Read!Whole'
    <3>1. Len(rest) <= Read!Whole /\ Read!Whole \in Nat
      BY Writing, Widths DEF ReadInv, ReadTypes
    <3>2. Read!Held' <= Room
      BY DEF Read!Held
    <3> QED
      BY <1>1, <1>2, <3>1, <3>2, Writing
  <2> QED
    BY <1>3, <2>1, <2>2 DEF ReadInv, ReadTypes, Chars
<1>5. Counts'
  <2>1. CASE pc' = "write" /\ produced' = produced
    BY <1>1, <1>2, <1>3, <2>1, Writing DEF Counts, Beginning, Looping, Ending
  <2>2. CASE pc' = "loop" /\ produced' = produced + Read!Want /\ Len(rest') = 0
    <3>1. Len(acc') = produced' * Read!Width
      BY <1>1, <2>2, Writing
    <3> QED
      BY <1>2, <1>3, <2>2, <3>1 DEF Counts, Beginning, Looping, Ending
  <2> QED
    BY <2>1, <2>2
<1>6. Clean'
  BY CleanStays DEF Beginning
<1> QED
  BY <1>4, <1>5, <1>6 DEF ReadInv, Looping

LEMMA ReadCollects == ASSUME ReadInv, Read!Collect PROVE ReadInv'
<1> DEFINE S == Chars
<1>1. /\ UNCHANGED <<initialized, session, installed, signals, n_total, hex, exit_rv, gens, buf,
                     lines, sent, fd>>
      /\ pc = "write" /\ pc' = "loop" /\ code' = code /\ produced' = produced + Read!Want
      /\ acc' = acc \o rest /\ rest' = <<>> /\ eol' = FALSE /\ ~ Read!MustFlush
  BY DEF Read!Collect, Read!Written, Read!GoTo, Read!modvars, Read!sigvars, Read!args
<1> HIDE DEF S
<1>2. acc \in Seq(S) /\ rest \in Seq(S)
  BY <1>1, Writing DEF S
<1>3. acc \o rest \in Seq(S) /\ Len(acc \o rest) = Len(acc) + Len(rest)
  BY <1>2, ConcatProperties
<1>4. Len(acc) + Len(rest) - sent <= Room /\ sent \in 0 .. Len(acc) + Len(rest)
  BY <1>1, Writing DEF Read!MustFlush
<1>5. rest' \in Seq(Chars) /\ Len(rest') = 0 /\ lines' \in BOOLEAN /\ eol' \in BOOLEAN
  <2>1. lines \in BOOLEAN
    BY DEF ReadInv, ReadTypes
  <2>2. rest' \in Seq(Chars) /\ Len(rest') = 0
    BY <1>1
  <2> QED
    BY <1>1, <2>1, <2>2
<1>6. acc' \in Seq(Chars) /\ Len(acc') = Len(acc) + Len(rest) /\ Len(rest) \in Nat
  BY <1>1, <1>3, Writing DEF S
<1> QED
  BY <1>1, <1>4, <1>5, <1>6, WriteGoesOn

LEMMA ReadFlushes == ASSUME ReadInv, Read!Flush PROVE ReadInv'
<1>1. /\ UNCHANGED <<pc, initialized, session, installed, signals, n_total, hex, exit_rv, gens, buf,
                     lines, eol, acc, rest, produced, fd, code>>
      /\ pc = "write" /\ sent' \in sent + 1 .. Len(acc)
  BY DEF Read!Flush, Read!clientvars, Read!main, Read!chunk, Read!modvars, Read!sigvars, Read!args
<1>2. lines \in BOOLEAN /\ eol \in BOOLEAN
  BY DEF ReadInv, ReadTypes
<1>3. /\ sent' \in 0 .. Len(acc') /\ Len(acc') - sent' <= Room
      /\ Len(acc') + Len(rest') = Len(acc) + Len(rest) /\ Len(rest') <= Len(rest)
  BY <1>1, Writing
<1>4. rest' \in Seq(Chars) /\ acc' \in Seq(Chars)
  BY <1>1, Writing
<1>5. lines' \in BOOLEAN /\ eol' \in BOOLEAN
  BY <1>1, <1>2
<1> QED
  BY <1>1, <1>3, <1>4, <1>5, WriteGoesOn

(* Cutting a sequence in two.                                              *)
LEMMA Cuts ==
  ASSUME NEW S, NEW s \in Seq(S), NEW r \in Seq(S), NEW t \in 0 .. Len(r)
  PROVE  /\ s \o SubSeq(r, 1, t) \in Seq(S) /\ Len(s \o SubSeq(r, 1, t)) = Len(s) + t
         /\ SubSeq(r, t + 1, Len(r)) \in Seq(S) /\ Len(SubSeq(r, t + 1, Len(r))) = Len(r) - t
<1>1. Len(r) \in Nat /\ Len(s) \in Nat
  BY LenProperties
<1>2. SubSeq(r, 1, t) \in Seq(S) /\ Len(SubSeq(r, 1, t)) = t
  BY <1>1, SubSeqProperties
<1>3. SubSeq(r, t + 1, Len(r)) \in Seq(S) /\ Len(SubSeq(r, t + 1, Len(r))) = Len(r) - t
  BY <1>1, SubSeqProperties
<1>4. s \o SubSeq(r, 1, t) \in Seq(S) /\ Len(s \o SubSeq(r, 1, t)) = Len(s) + t
  BY <1>2, ConcatProperties
<1> QED
  BY <1>3, <1>4

LEMMA ReadPasses == ASSUME ReadInv, Read!Direct PROVE ReadInv'
<1>1. /\ UNCHANGED <<initialized, session, installed, signals, n_total, hex, exit_rv, gens, buf, fd>>
      /\ pc = "write" /\ Read!Held = 0
  BY DEF Read!Direct, Read!modvars, Read!sigvars, Read!args
<1>20. PICK i \in 1 .. Len(rest) : \E f \in 1 .. i :
        LET taken == IF f = i THEN Len(rest) ELSE i IN
          /\ acc' = acc \o SubSeq(rest, 1, taken) /\ sent' = sent + f
          /\ rest' = SubSeq(rest, taken + 1, Len(rest))
          /\ eol' = (f < i) /\ lines' = FALSE
          /\ IF taken = Len(rest) THEN Read!Written ELSE UNCHANGED <<pc, code, produced>>
  BY DEF Read!Direct
<1>2. PICK f \in 1 .. i :
        LET taken == IF f = i THEN Len(rest) ELSE i IN
          /\ acc' = acc \o SubSeq(rest, 1, taken) /\ sent' = sent + f
          /\ rest' = SubSeq(rest, taken + 1, Len(rest))
          /\ eol' = (f < i) /\ lines' = FALSE
          /\ IF taken = Len(rest) THEN Read!Written ELSE UNCHANGED <<pc, code, produced>>
  BY <1>20
<1> DEFINE taken == IF f = i THEN Len(rest) ELSE i
<1>3. /\ acc' = acc \o SubSeq(rest, 1, taken) /\ sent' = sent + f
      /\ rest' = SubSeq(rest, taken + 1, Len(rest))
      /\ eol' = (f < i) /\ lines' = FALSE
      /\ IF taken = Len(rest) THEN Read!Written ELSE UNCHANGED <<pc, code, produced>>
  BY <1>2
<1>4. /\ taken \in 0 .. Len(rest) /\ f <= taken /\ f \in Nat /\ Len(rest) \in Nat
  BY <1>1, Writing
<1> HIDE DEF taken
<1>5. /\ acc' \in Seq(Chars) /\ Len(acc') = Len(acc) + taken
      /\ rest' \in Seq(Chars) /\ Len(rest') = Len(rest) - taken
  <2> DEFINE S == Chars
  <2> HIDE DEF S
  <2>1. acc \in Seq(S) /\ rest \in Seq(S)
    BY <1>1, Writing DEF S
  <2>2. /\ acc' \in Seq(S) /\ Len(acc') = Len(acc) + taken
        /\ rest' \in Seq(S) /\ Len(rest') = Len(rest) - taken
    <3>1. /\ acc \o SubSeq(rest, 1, taken) \in Seq(S)
          /\ Len(acc \o SubSeq(rest, 1, taken)) = Len(acc) + taken
          /\ SubSeq(rest, taken + 1, Len(rest)) \in Seq(S)
          /\ Len(SubSeq(rest, taken + 1, Len(rest))) = Len(rest) - taken
      BY <1>4, <2>1, Cuts
    <3>2. /\ acc' = acc \o SubSeq(rest, 1, taken)
          /\ rest' = SubSeq(rest, taken + 1, Len(rest))
      BY <1>3
    <3> QED
      BY <3>1, <3>2
  <2> QED
    BY <2>2 DEF S
<1>6. /\ sent' \in 0 .. Len(acc') /\ Len(acc') - sent' <= Room
      /\ Len(acc') + Len(rest') = Len(acc) + Len(rest) /\ Len(rest') <= Len(rest)
  <2>1. sent' = sent + f /\ sent = Len(acc) /\ Len(acc) \in Nat
    BY <1>1, <1>3, Writing
  <2>2. Len(rest) <= Room /\ Room \in Nat
    BY <1>1, Writing
  <2> QED
    BY <1>4, <1>5, <2>1, <2>2
<1>7. lines' \in BOOLEAN /\ eol' \in BOOLEAN
  <2>1. eol' = (f < i) /\ lines' = FALSE
    BY <1>3
  <2>2. (f < i) \in BOOLEAN
    OBVIOUS
  <2> QED
    BY <2>1, <2>2, Zenon
<1>8. /\ code' = code
      /\ \/ pc' = "write" /\ produced' = produced
         \/ pc' = "loop" /\ produced' = produced + Read!Want /\ Len(rest') = 0
  BY <1>1, <1>3, <1>4, <1>5 DEF Read!Written, Read!GoTo
<1> QED
  BY <1>1, <1>5, <1>6, <1>7, <1>8, WriteGoesOn

LEMMA ReadWriteFails == ASSUME ReadInv, Read!WriteFails PROVE ReadInv'
<1>1. /\ UNCHANGED <<initialized, session, installed, signals, n_total, hex, produced, gens, buf,
                     acc, sent, eol, fd>>
      /\ pc = "write" /\ pc' \in {"newline", "close"} /\ code' = code
      /\ rest' = <<>> /\ lines' = FALSE
      /\ exit_rv' = IF fd = "closed" THEN exit_rv ELSE "1"
  BY Leaves DEF Read!WriteFails, Read!modvars, Read!sigvars, Read!args, Read!stdout
<1>2. Excused'
  BY <1>1 DEF Excused
<1>3. /\ UNCHANGED <<Read!Width, Read!Whole, Read!Held>>
  BY <1>1 DEF Read!Width, Read!Whole, Read!Held
<1>4. ReadTypes'
  <2>1. rest' \in Seq(Chars) /\ Len(rest') = 0
    BY <1>1
  <2>2. Read!Whole \in Nat /\ exit_rv' \in {"0", "1"} /\ lines' \in BOOLEAN
    BY <1>1, Widths DEF ReadInv, ReadTypes
  <2> QED
    BY <1>1, <1>3, <2>1, <2>2 DEF ReadInv, ReadTypes, Chars
<1>5. Counts'
  <2>1. acc' \in Seq(Chars) /\ (n_total' >= 0 => produced' <= n_total')
    BY <1>1, Writing, Constants DEF ReadInv, Counts
  <2> QED
    BY <1>1, <1>2, <2>1 DEF Counts, Beginning, Looping, Ending
<1>6. Clean'
  BY <1>1, CleanStays DEF Beginning
<1> QED
  BY <1>1, <1>4, <1>5, <1>6 DEF ReadInv, Ending

(***************************************************************************)
(* p11rand-read, after the loop                                            *)
(***************************************************************************)
(* What leaves the line buffer was counted before.                         *)
LEMMA SentOnly ==
  ASSUME ReadInv, sent' \in sent .. Len(acc),
         UNCHANGED <<n_total, hex, produced, exit_rv, gens, buf, rest, lines, acc, eol, fd>>
  PROVE  /\ ReadTypes' /\ UNCHANGED <<Read!Width, Read!Want, Read!Digits>> /\ All' = All
<1>1. UNCHANGED <<Read!Width, Read!Want, Read!Digits, Read!Whole>>
  BY DEF Read!Width, Read!Want, Read!Digits, Read!Whole
<1>2. /\ acc \in Seq(Int \X Int) /\ sent \in 0 .. Len(acc) /\ Read!Held <= Room
  BY DEF ReadInv, ReadTypes
<1>3. Len(acc) \in Nat
  BY <1>2, LenProperties
<1>4. sent' \in 0 .. Len(acc') /\ Read!Held' <= Room
  BY <1>2, <1>3, Constants DEF Read!Held
<1>5. ReadTypes'
  BY <1>1, <1>4 DEF ReadInv, ReadTypes, Chars
<1> QED
  BY <1>1, <1>5 DEF All

LEMMA ReadDrains ==
  ASSUME ReadInv,
         Read!Drain("make_room", Read!GoTo("newline")) \/ Read!Drain("push", Read!GoTo("close"))
  PROVE  ReadInv'
<1>1. /\ UNCHANGED <<initialized, session, installed, signals, n_total, hex, produced, exit_rv,
                     gens, buf, rest, lines, acc, eol, fd>>
      /\ code' = code
      /\ \/ pc = "make_room" /\ pc' \in {"make_room", "newline", "close"}
         \/ pc = "push" /\ pc' \in {"push", "close"}
      /\ sent' = sent \/ sent' \in sent + 1 .. Len(acc)
  BY DEF Read!Drain, Read!GoTo, Read!modvars, Read!sigvars, Read!main, Read!args, Read!chunk
<1>2. acc \in Seq(Int \X Int) /\ sent \in 0 .. Len(acc)
  BY DEF ReadInv, ReadTypes
<1>3. sent' \in sent .. Len(acc)
  BY <1>1, <1>2, LenProperties
<1>4. ReadTypes' /\ UNCHANGED <<Read!Width, Read!Want, Read!Digits>> /\ All' = All
  BY <1>1, <1>3, SentOnly
<1>5. Counts'
  BY <1>1, <1>4 DEF ReadInv, Counts, Excused, Beginning, Looping, Ending
<1>6. Clean'
  BY <1>1, CleanStays DEF Beginning
<1> QED
  BY <1>1, <1>4, <1>5, <1>6 DEF ReadInv, Ending

(* The runtime flushes what is left and the process ends with exit_rv.     *)
LEMMA ReadExits ==
  ASSUME ReadInv, Read!Drain("exit", Read!Exit(exit_rv))
  PROVE  ReadInv'
<1>1. /\ UNCHANGED <<initialized, session, installed, signals, n_total, hex, produced, exit_rv,
                     gens, buf, rest, lines, acc, eol, fd>>
      /\ pc = "exit"
      /\ (pc' = "exit" /\ code' = code) \/ (pc' = "exited" /\ code' = exit_rv)
      /\ sent' = sent \/ sent' \in sent + 1 .. Len(acc)
  BY DEF Read!Drain, Read!Exit, Read!modvars, Read!sigvars, Read!main, Read!args, Read!chunk
<1>2. acc \in Seq(Int \X Int) /\ sent \in 0 .. Len(acc) /\ exit_rv \in {"0", "1"}
  BY DEF ReadInv, ReadTypes
<1>3. sent' \in sent .. Len(acc)
  BY <1>1, <1>2, LenProperties
<1>4. ReadTypes' /\ UNCHANGED <<Read!Width, Read!Want, Read!Digits>> /\ All' = All
  BY <1>1, <1>3, SentOnly
<1>5. Counts'
  BY <1>1, <1>4 DEF ReadInv, Counts, Excused, Beginning, Looping, Ending
<1>6. ~ initialized /\ ~ session /\ buf = 0 /\ code = "none" /\ (Excused \/ All)
  BY <1>1 DEF ReadInv, Clean, Counts, Ending
<1>7. code' = "0" => signals' > 0 \/ fd' = "closed" \/ Read!Digits' = n_total' * Read!Width'
  BY <1>1, <1>4, <1>6 DEF Excused, All
<1>8. Clean'
  BY <1>1, <1>2, <1>6, <1>7 DEF Clean, Beginning, Read!CleanExit, Read!SuccessIsWhole
<1> QED
  BY <1>1, <1>4, <1>5, <1>8 DEF ReadInv, Ending

(* The newline is none of the digits.                                      *)
LEMMA ReadEndsLine == ASSUME ReadInv, Read!EndLine PROVE ReadInv'
<1>1. /\ UNCHANGED <<initialized, session, installed, signals, n_total, hex, produced, exit_rv,
                     gens, buf, rest, lines, eol, fd>>
      /\ pc = "newline" /\ pc' \in {"close", "push", "make_room"} /\ code' = code
      /\ \/ /\ acc' = Append(acc, Read!NewLine) /\ pc' # "make_room"
            /\ (Read!Held = 0 /\ sent' = sent + 1) \/ (Read!Held < Room /\ sent' = sent)
         \/ UNCHANGED <<acc, sent>>
  BY Constants
  DEF Read!EndLine, Read!GoTo, Read!modvars, Read!sigvars, Read!main, Read!args, Read!chunk
<1>2. /\ acc \in Seq(Chars) /\ sent \in 0 .. Len(acc) /\ Read!Held <= Room
      /\ Len(acc) \in Nat /\ Room \in Nat /\ Room >= 1
      /\ Read!Held = Len(acc) - sent /\ (Excused \/ All)
      /\ (n_total >= 0 => produced <= n_total)
  BY <1>1, Constants, LenProperties DEF ReadInv, ReadTypes, Counts, Ending, Read!Held
<1>3. /\ UNCHANGED <<Read!Width, Read!Whole>>
  BY <1>1 DEF Read!Width, Read!Whole
<1>4. CASE UNCHANGED <<acc, sent>>
  <2>1. ReadTypes' /\ UNCHANGED <<Read!Width, Read!Want, Read!Digits>> /\ All' = All
    BY <1>1, <1>2, <1>4, SentOnly
  <2>2. Counts'
    BY <1>1, <1>2, <1>4, <2>1 DEF Counts, Excused, Beginning, Looping, Ending
  <2>3. Clean'
    BY <1>1, CleanStays DEF Beginning
  <2> QED
    BY <1>1, <2>1, <2>2, <2>3 DEF ReadInv, Ending
<1>5. CASE /\ acc' = Append(acc, Read!NewLine) /\ pc' # "make_room"
           /\ (Read!Held = 0 /\ sent' = sent + 1) \/ (Read!Held < Room /\ sent' = sent)
  <2>1. /\ acc' \in Seq(Int \X Int) /\ Len(acc') = Len(acc) + 1
        /\ acc'[Len(acc) + 1] = Read!NewLine
    <3> DEFINE S == Int \X Int
    <3>1. acc \in Seq(S) /\ Read!NewLine \in S
      BY <1>2, SeqDef DEF Chars, Read!NewLine
    <3> HIDE DEF S
    <3>2. acc' \in Seq(S) /\ Len(acc') = Len(acc) + 1 /\ acc'[Len(acc) + 1] = Read!NewLine
      BY <1>5, <3>1, AppendProperties
    <3> QED
      BY <3>2 DEF S
  <2>2. Read!Digits' = Len(acc) /\ Read!Digits = Len(acc)
    <3>1. acc' # <<>>
      BY <1>2, <2>1
    <3>2. acc'[Len(acc')] = Read!NewLine
      BY <2>1
    <3> QED
      BY <1>2, <2>1, <3>1, <3>2, AllDigits DEF Read!Digits
  <2>3. sent' \in 0 .. Len(acc') /\ Read!Held' <= Room
    BY <1>2, <1>5, <2>1 DEF Read!Held
  <2>4. ReadTypes'
    BY <1>1, <1>3, <2>1, <2>3 DEF ReadInv, ReadTypes, Chars
  <2>5. Excused' \/ All'
    BY <1>1, <1>2, <1>3, <2>2 DEF Excused, All
  <2>6. Counts'
    BY <1>1, <1>2, <1>5, <2>5 DEF Counts, Beginning, Looping, Ending
  <2>7. Clean'
    BY <1>1, CleanStays DEF Beginning
  <2> QED
    BY <1>1, <2>4, <2>6, <2>7 DEF ReadInv, Ending
<1> QED
  BY <1>1, <1>4, <1>5

LEMMA ReadCloses ==
  ASSUME ReadInv, Read!CloseSession \/ Read!Finalize \/ Read!Wipe
  PROVE  ReadInv'
<1>1. /\ UNCHANGED <<installed, signals, n_total, hex, produced, exit_rv,
                     gens, rest, lines, acc, sent, eol, fd>>
      /\ code' = code
      /\ \/ pc = "close" /\ pc' = "finalize" /\ buf' = buf
         \/ pc = "finalize" /\ pc' = "wipe" /\ ~ initialized' /\ ~ session' /\ buf' = buf
         \/ pc = "wipe" /\ pc' = "exit" /\ UNCHANGED <<initialized, session>> /\ buf' = 0
  BY DEF Read!CloseSession, Read!Close, Read!Finalize, Read!Finalized, Read!Wipe, Read!GoTo,
     Read!modvars, Read!sigvars, Read!own, Read!main, Read!args, Read!chunk, Read!stdout
<1>2. UNCHANGED <<Read!Width, Read!Want, Read!Digits, Read!Whole, Read!Held>>
  BY <1>1 DEF Read!Width, Read!Want, Read!Digits, Read!Whole, Read!Held
<1>3. buf' \in Int
  BY <1>1 DEF ReadInv, ReadTypes
<1>4. ReadTypes'
  BY <1>1, <1>2, <1>3 DEF ReadInv, ReadTypes, Chars
<1>5. Counts'
  BY <1>1, <1>2 DEF ReadInv, Counts, Excused, All, Beginning, Looping, Ending
<1>6. Clean'
  <2>1. pc = "wipe" => ~ initialized /\ ~ session
    BY DEF ReadInv, Clean
  <2> QED
    BY <1>1, <2>1, CleanStays DEF Beginning
<1> QED
  BY <1>1, <1>4, <1>5, <1>6 DEF ReadInv, Ending

(***************************************************************************)
(* p11rand-read: signals, and what stdout leads to                         *)
(***************************************************************************)
LEMMA ReadInterrupted == ASSUME ReadInv, Signal, UNCHANGED readown PROVE ReadInv'
<1>1. /\ UNCHANGED <<n_total, hex, produced, exit_rv, gens, buf, rest, lines, acc, sent, eol, fd>>
      /\ UNCHANGED <<initialized, session>> /\ pc # "exited"
      /\ \/ UNCHANGED <<pc, code>> /\ signals' \in {signals, 1} /\ (signals' = 1 => signals = 0)
         \/ pc' = "exited" /\ code' \in {"killed", "130"} /\ signals' \in {signals, 2}
  BY DEF Signal, Exit, modvars, readown
<1>2. ReadTypes' /\ UNCHANGED <<Read!Width, Read!Want, Read!Digits>> /\ All' = All
  BY <1>1, DataStay DEF ReadInv, ReadTypes
<1>3. signals' \in Nat /\ (pc' # "exited" /\ signals > 0 => signals' > 0)
  BY <1>1 DEF ReadInv
<1>4. Counts'
  BY <1>1, <1>2, <1>3 DEF ReadInv, Counts, Excused, Beginning, Looping, Ending
<1>5. code = "none"
  BY <1>1 DEF ReadInv, Clean
<1>6. Clean'
  BY <1>1, <1>5 DEF ReadInv, Clean, Beginning, Read!CleanExit, Read!SuccessIsWhole
<1> QED
  BY <1>1, <1>2, <1>3, <1>4, <1>6 DEF ReadInv

LEMMA ReadOutlet == ASSUME ReadInv, Read!Outlet PROVE ReadInv'
<1>1. /\ UNCHANGED <<n_total, hex, produced, exit_rv, gens, buf, rest, lines, acc, sent, eol>>
      /\ UNCHANGED <<pc, initialized, session, signals, code>> /\ pc # "exited"
      /\ fd # "closed" /\ fd' \in {"ok", "stalled", "full", "closed"}
  BY DEF Read!Outlet, Read!clientvars, Read!modvars, Read!sigvars, Read!main, Read!args,
     Read!chunk, Read!stdout
<1>2. ReadTypes' /\ UNCHANGED <<Read!Width, Read!Want, Read!Digits>> /\ All' = All
  BY <1>1, DataStay DEF ReadInv
<1>3. Counts'
  BY <1>1, <1>2 DEF ReadInv, Counts, Excused, Beginning, Looping, Ending
<1>4. code = "none"
  BY <1>1 DEF ReadInv, Clean
<1>5. Clean'
  BY <1>1, <1>4 DEF ReadInv, Clean, Beginning, Read!CleanExit, Read!SuccessIsWhole
<1> QED
  BY <1>1, <1>2, <1>3, <1>5 DEF ReadInv

LEMMA ReadSteps == ASSUME ReadInv, Read!Step PROVE ReadInv'
  BY ReadSets, ReadLoops, ReadGenerates, ReadCollects, ReadFlushes, ReadPasses, ReadWriteFails,
     ReadDrains, ReadExits, ReadEndsLine, ReadCloses
  DEF Read!Step, Read!AfterLoop

(***************************************************************************)
(* p11rand-read: the order of the stream.  The j-th character belongs to   *)
(* the call that quotient and remainder by the size of a call say.         *)
(***************************************************************************)
Pos(w, j) == <<((j - 1) \div w) + 1, ((j - 1) % w) + 1>>

InOrder ==
  /\ \A j \in 1 .. Read!Digits : acc[j] = Pos(Read!Whole, j)
  /\ n_total >= 0 => Read!Digits <= n_total * Read!Width
  /\ pc = "write" =>
       /\ \A k \in 1 .. Len(rest) : rest[k] = Pos(Read!Whole, Len(acc) + k)
       /\ gens >= 1 /\ produced = (gens - 1) * Request
  /\ pc \in Beginning \cup {"loop", "generate"} =>
       produced = gens * Request \/ (n_total >= 0 /\ produced = n_total)

LEMMA Divides ==
  ASSUME NEW w \in Nat \ {0}, NEW q \in Nat, NEW r \in 0 .. w - 1
  PROVE  (q * w + r) \div w = q /\ (q * w + r) % w = r
  OBVIOUS

LEMMA Quotients ==
  ASSUME NEW w \in Nat \ {0}, NEW x \in Nat
  PROVE  /\ x \div w \in Nat
         /\ (x + w) \div w = (x \div w) + 1
         /\ (x + w) % w = x % w
<1>1. x \div w \in Nat /\ x % w \in 0 .. w - 1
  OBVIOUS
<1>2. x = (x \div w) * w + (x % w)
  OBVIOUS
<1> DEFINE q == x \div w
           r == x % w
<1>3. q \in Nat /\ r \in 0 .. w - 1 /\ x = q * w + r
  BY <1>1, <1>2
<1> HIDE DEF q, r
<1>4. x + w = (q + 1) * w + r
  BY <1>3
<1>5. (x + w) \div w = q + 1 /\ (x + w) % w = r
  BY <1>3, <1>4, Divides
<1> QED
  BY <1>1, <1>5 DEF q, r

(* The k-th character of call g stands behind those of the calls before.   *)
LEMMA Placed ==
  ASSUME NEW w \in Nat \ {0}, NEW g \in Nat, NEW k \in 1 .. w
  PROVE  Pos(w, g * w + k) = <<g + 1, k>>
<1>1. (g * w + (k - 1)) \div w = g /\ (g * w + (k - 1)) % w = k - 1
  BY Divides
<1>2. g * w + k - 1 = g * w + (k - 1)
  OBVIOUS
<1> QED
  BY <1>1, <1>2 DEF Pos

(* Without the first call every character belongs to the call before.      *)
LEMMA Renumbered ==
  ASSUME NEW w \in Nat \ {0}, NEW j \in Nat \ {0}
  PROVE  Pos(w, j) = <<Pos(w, j + w)[1] - 1, Pos(w, j + w)[2]>>
<1> DEFINE x == j - 1
<1>1. x \in Nat /\ j + w - 1 = x + w
  OBVIOUS
<1>2. Pos(w, j) = <<(x \div w) + 1, (x % w) + 1>>
  BY DEF Pos
<1>3. Pos(w, j + w) = <<((x + w) \div w) + 1, ((x + w) % w) + 1>>
  BY <1>1 DEF Pos
<1> HIDE DEF x
<1>4. /\ x \div w \in Nat /\ (x + w) \div w = (x \div w) + 1 /\ (x + w) % w = x % w
  BY <1>1, Quotients
<1> QED
  BY <1>2, <1>3, <1>4

LEMMA InitInOrder == ASSUME Read!Init PROVE InOrder
<1>1. Read!Digits = 0 /\ produced = 0 /\ gens = 0 /\ pc = "load" /\ n_total \in Totals
  BY DEF Read!Init, Read!ClientInit, Read!Digits
<1>2. Read!Width \in {1, 2}
  BY Widths DEF Read!Init
<1>3. n_total >= 0 => Read!Digits <= n_total * Read!Width
  BY <1>1, <1>2, Constants
<1>4. gens * Request = 0
  BY <1>1, Constants
<1> QED
  BY <1>1, <1>3, <1>4 DEF InOrder

(* The output is the same, and the loop was not entered.                   *)
LEMMA OrderStays ==
  ASSUME InOrder, UNCHANGED <<n_total, hex, acc>>,
         \/ pc' \notin Beginning \cup {"loop", "generate", "write"}
         \/ UNCHANGED <<rest, gens, produced>> /\ (pc = pc')
         \/ /\ UNCHANGED <<gens, produced>> /\ pc' # "write"
            /\ pc \in Beginning \cup {"loop", "generate"}
  PROVE  InOrder'
<1>1. UNCHANGED <<Read!Digits, Read!Width, Read!Whole>>
  BY DEF Read!Digits, Read!Width, Read!Whole
<1>3. /\ \A j \in 1 .. Read!Digits' : acc'[j] = Pos(Read!Whole', j)
      /\ n_total' >= 0 => Read!Digits' <= n_total' * Read!Width'
  BY <1>1 DEF InOrder
<1>4. pc' = "write" => /\ \A k \in 1 .. Len(rest') : rest'[k] = Pos(Read!Whole', Len(acc') + k)
                       /\ gens' >= 1 /\ produced' = (gens' - 1) * Request
  BY <1>1 DEF InOrder
<1>5. pc' \in Beginning \cup {"loop", "generate"} =>
        produced' = gens' * Request \/ (n_total' >= 0 /\ produced' = n_total')
  BY DEF InOrder, Beginning
<1> QED
  BY <1>3, <1>4, <1>5 DEF InOrder, Beginning

LEMMA OrderLoops == ASSUME ReadInv, InOrder, Read!Loop PROVE InOrder'
<1>1. /\ UNCHANGED <<n_total, hex>> /\ pc = "loop" /\ pc' \in {"generate", "newline", "close"}
      /\ hex \in BOOLEAN /\ acc \in Seq(Chars) /\ Len(acc) \in Nat /\ gens \in Nat
      /\ Len(acc) = produced * Read!Width /\ produced \in Nat /\ sent \in 0 .. Len(acc)
  BY Leaves, LenProperties
  DEF Read!Loop, Read!GoTo, Read!args, ReadInv, ReadTypes, Counts, Looping
<1>2. CASE UNCHANGED <<acc, sent, gens, produced, buf>>
  BY <1>1, <1>2, OrderStays DEF Beginning
<1>3. CASE /\ n_total < 0 /\ gens > 1 /\ sent >= Read!Whole
           /\ acc'  = [j \in 1 .. Len(acc) - Read!Whole |->
                         <<acc[j + Read!Whole][1] - 1, acc[j + Read!Whole][2]>>]
           /\ sent' = sent - Read!Whole /\ gens' = gens - 1 /\ produced' = produced - Request
  <2> DEFINE w == Read!Whole
             n == Len(acc) - w
  <2>1. w \in Nat \ {0} /\ n \in Nat /\ n + w = Len(acc) /\ Read!Whole' = w
    BY <1>1, <1>3, Widths DEF Read!Whole, Read!Width
  <2>2. \A j \in 1 .. Len(acc) : acc[j] = Pos(w, j)
    BY <1>1, AllDigits DEF InOrder
  <2>3. acc' = [j \in 1 .. n |-> <<acc[j + w][1] - 1, acc[j + w][2]>>]
    BY <1>3
  <2> HIDE DEF w, n
  <2>4. \A j \in 1 .. n : acc'[j] = Pos(w, j)
    <3> SUFFICES ASSUME NEW j \in 1 .. n PROVE acc'[j] = Pos(w, j)
      OBVIOUS
    <3>1. acc[j + w] = Pos(w, j + w)
      BY <2>1, <2>2
    <3>2. acc'[j] = <<acc[j + w][1] - 1, acc[j + w][2]>>
      BY <2>3
    <3>3. j \in Nat \ {0} /\ w \in Nat \ {0}
      BY <2>1
    <3>4. Pos(w, j) = <<Pos(w, j + w)[1] - 1, Pos(w, j + w)[2]>>
      BY <3>3, Renumbered
    <3> QED
      BY <3>1, <3>2, <3>4
  <2>5. Read!Digits' <= n /\ Read!Digits' \in Int
    <3>1. ReadInv'
      BY ReadLoops
    <3>2. acc' \in Seq(Chars) \/ pc' = "close"
      BY <1>1, <3>1 DEF ReadInv, Counts, Looping
    <3>3. Len(acc') = n
      <4>1. acc' \in Seq(Int \X Int)
        BY <3>1 DEF ReadInv, ReadTypes
      <4>2. DOMAIN acc' = 1 .. n /\ DOMAIN acc' = 1 .. Len(acc') /\ Len(acc') \in Nat
        BY <2>3, <4>1, LenProperties
      <4> QED
        BY <2>1, <4>2
    <3> QED
      BY <2>1, <3>3 DEF Read!Digits
  <2>6. \A j \in 1 .. Read!Digits' : acc'[j] = Pos(Read!Whole', j)
    BY <2>1, <2>4, <2>5
  <2>7. ~ (n_total' >= 0)
    BY <1>1, <1>3, Constants DEF ReadInv, ReadTypes
  <2>8. produced' = gens' * Request
    <3>1. produced = gens * Request
      BY <1>1, <1>3 DEF InOrder
    <3>2. (gens - 1) * Request = gens * Request - Request
      BY <1>1, Constants
    <3> QED
      BY <1>3, <3>1, <3>2
  <2> QED
    BY <1>1, <2>6, <2>7, <2>8 DEF InOrder, Beginning
<1> QED
  BY <1>2, <1>3 DEF Read!Loop, Read!Forget

LEMMA OrderGenerates == ASSUME ReadInv, InOrder, Read!Generate PROVE InOrder'
<1>1. /\ UNCHANGED <<n_total, hex, produced, acc>> /\ pc = "generate"
      /\ pc' \in {"write", "newline", "close"}
      /\ hex \in BOOLEAN /\ gens \in Nat /\ produced \in Nat /\ n_total \in Totals
      /\ Len(acc) = produced * Read!Width /\ (n_total < 0 \/ produced < n_total)
      /\ Len(acc) \in Nat
  BY Leaves, LenProperties
  DEF Read!Generate, Read!GoTo, Read!args, Read!stdout, ReadInv, ReadTypes, Counts, Looping
<1>2. CASE pc' # "write"
  BY <1>1, <1>2, OrderStays DEF Beginning
<1>3. CASE pc' = "write"
  <2>1. gens' = gens + 1 /\ rest' = Read!Text(gens + 1, Read!Want)
    BY <1>3, Leaves DEF Read!Generate
  <2>2. produced = gens * Request
    BY <1>1, Constants DEF InOrder
  <2>3. Read!Whole = Request * Read!Width /\ Read!Whole \in Nat \ {0} /\ Read!Width \in {1, 2}
    BY <1>1, Widths
  <2>4. Len(acc) = gens * Read!Whole
    <3>1. CASE Read!Width = 1
      BY <1>1, <2>2, <2>3, <3>1, Constants
    <3>2. CASE Read!Width = 2
      <4>1. Len(acc) = (gens * Request) * 2 /\ Read!Whole = Request * 2
        BY <1>1, <2>2, <2>3, <3>2
      <4>2. (gens * Request) * 2 = gens * (Request * 2)
        BY <1>1, Constants
      <4> QED
        BY <4>1, <4>2
    <3> QED
      BY <2>3, <3>1, <3>2
  <2>5. /\ Len(rest') = Read!Want * Read!Width /\ Len(rest') <= Read!Whole /\ Len(rest') \in Nat
        /\ \A k \in 1 .. Len(rest') : rest'[k] = <<gens + 1, k>>
    <3>1. Read!Want \in 1 .. Request /\ Read!Want \in Nat
      BY <1>1, Wants, Constants
    <3>2. Len(rest') = Read!Want * Read!Width
      BY <1>1, <2>1, <3>1, Texts
    <3>3. Read!Want * Read!Width \in Nat /\ Read!Want * Read!Width <= Request * Read!Width
      BY <2>3, <3>1, Times, Constants
    <3>4. \A k \in 1 .. Read!Want * Read!Width : rest'[k] = <<gens + 1, k>>
      BY <2>1 DEF Read!Text
    <3> QED
      BY <2>3, <3>2, <3>3, <3>4
  <2>6. \A k \in 1 .. Len(rest') : rest'[k] = Pos(Read!Whole, Len(acc) + k)
    <3> SUFFICES ASSUME NEW k \in 1 .. Len(rest')
                 PROVE  rest'[k] = Pos(Read!Whole, Len(acc) + k)
      OBVIOUS
    <3>1. k \in 1 .. Read!Whole
      BY <2>3, <2>5
    <3>2. Pos(Read!Whole, gens * Read!Whole + k) = <<gens + 1, k>>
      BY <1>1, <2>3, <3>1, Placed
    <3> QED
      BY <2>4, <2>5, <3>2
  <2>7. UNCHANGED <<Read!Digits, Read!Width, Read!Whole>>
    BY <1>1 DEF Read!Digits, Read!Width, Read!Whole
  <2>8. /\ \A j \in 1 .. Read!Digits' : acc'[j] = Pos(Read!Whole', j)
        /\ n_total' >= 0 => Read!Digits' <= n_total' * Read!Width'
    BY <1>1, <2>7 DEF InOrder
  <2>9. gens' >= 1 /\ produced' = (gens' - 1) * Request
    BY <1>1, <2>1, <2>2
  <2>10. \A k \in 1 .. Len(rest') : rest'[k] = Pos(Read!Whole', Len(acc') + k)
    BY <1>1, <2>6, <2>7
  <2> QED
    BY <1>3, <2>8, <2>9, <2>10 DEF InOrder, Beginning
<1> QED
  BY <1>2, <1>3

(* Of the characters to write the first t are appended to the output.      *)
LEMMA OrderWrites ==
  ASSUME ReadInv, InOrder, ReadInv', pc = "write", UNCHANGED <<n_total, hex, gens>>,
         NEW t \in 0 .. Len(rest),
         Len(acc') = Len(acc) + t, Len(rest') = Len(rest) - t,
         \A j \in 1 .. Len(acc) : acc'[j] = acc[j],
         \A k \in 1 .. t : acc'[Len(acc) + k] = rest[k],
         \A k \in 1 .. Len(rest) - t : rest'[k] = rest[t + k],
         \/ pc' = "write" /\ produced' = produced
         \/ pc' = "loop" /\ produced' = produced + Read!Want
  PROVE  InOrder'
<1>1. /\ Len(acc) \in Nat /\ Len(rest) \in Nat /\ acc \in Seq(Chars) /\ n_total \in Totals
      /\ hex \in BOOLEAN /\ gens \in Nat /\ produced \in Nat
      /\ Len(acc) + Len(rest) = (produced + Read!Want) * Read!Width
      /\ Read!Want \in 1 .. Request /\ (n_total >= 0 => produced + Read!Want <= n_total)
      /\ (n_total < 0 \/ produced < n_total)
  BY Writing DEF ReadInv, ReadTypes
<1>2. Read!Digits = Len(acc) /\ Read!Digits' = Len(acc')
  <2>1. acc' \in Seq(Chars)
    BY DEF ReadInv, Counts, Looping
  <2> QED
    BY <1>1, <2>1, AllDigits, AllDigitsThen
<1>3. UNCHANGED <<Read!Width, Read!Whole>>
  BY DEF Read!Width, Read!Whole
<1> DEFINE w == Read!Whole
<1>4. /\ \A j \in 1 .. Len(acc) : acc[j] = Pos(w, j)
      /\ \A k \in 1 .. Len(rest) : rest[k] = Pos(w, Len(acc) + k)
      /\ gens >= 1 /\ produced = (gens - 1) * Request
  BY <1>2 DEF InOrder
<1> HIDE DEF w
<1>5. \A j \in 1 .. Len(acc') : acc'[j] = Pos(w, j)
  <2> SUFFICES ASSUME NEW j \in 1 .. Len(acc') PROVE acc'[j] = Pos(w, j)
    OBVIOUS
  <2>1. CASE j <= Len(acc)
    <3>1. j \in 1 .. Len(acc)
      BY <1>1, <2>1
    <3>2. acc'[j] = acc[j] /\ acc[j] = Pos(w, j)
      BY <1>4, <3>1
    <3> QED
      BY <3>2
  <2>2. CASE j > Len(acc)
    <3> DEFINE k == j - Len(acc)
    <3>1. k \in 1 .. t /\ k \in 1 .. Len(rest) /\ j = Len(acc) + k
      BY <1>1, <2>2
    <3> HIDE DEF k
    <3> QED
      BY <1>4, <3>1
  <2>3. j \in Int /\ Len(acc) \in Int
    BY <1>1
  <2> QED
    BY <2>1, <2>2, <2>3
<1>6. \A k \in 1 .. Len(rest') : rest'[k] = Pos(w, Len(acc') + k)
  <2> SUFFICES ASSUME NEW k \in 1 .. Len(rest') PROVE rest'[k] = Pos(w, Len(acc') + k)
    OBVIOUS
  <2>0. k \in 1 .. Len(rest) - t
    BY <1>1
  <2>1. rest'[k] = rest[t + k] /\ t + k \in 1 .. Len(rest) /\ Len(acc) + (t + k) = Len(acc') + k
    <3>1. rest'[k] = rest[t + k]
      BY <1>1, <2>0
    <3>2. t + k \in 1 .. Len(rest)
      BY <1>1, <2>0
    <3>3. Len(acc) + (t + k) = Len(acc') + k
      BY <1>1, <2>0
    <3> QED
      BY <3>1, <3>2, <3>3
  <2>2. rest[t + k] = Pos(w, Len(acc) + (t + k))
    BY <1>4, <2>1
  <2> QED
    BY <2>1, <2>2
<1>7. n_total >= 0 => Len(acc') <= n_total * Read!Width
  <2> SUFFICES ASSUME n_total >= 0 PROVE Len(acc') <= n_total * Read!Width
    OBVIOUS
  <2>1. produced + Read!Want \in Nat /\ n_total \in Nat /\ Read!Width \in {1, 2}
    BY <1>1, Widths, Constants
  <2>2. (produced + Read!Want) * Read!Width <= n_total * Read!Width
    BY <1>1, <2>1, Times
  <2>3. Len(acc') <= (produced + Read!Want) * Read!Width
    BY <1>1
  <2>4. n_total * Read!Width \in Nat /\ (produced + Read!Want) * Read!Width \in Nat
    BY <2>1, Times
  <2> QED
    BY <1>1, <2>2, <2>3, <2>4
<1>8. pc' = "loop" => produced' = gens' * Request \/ (n_total >= 0 /\ produced' = n_total)
  <2> SUFFICES ASSUME pc' = "loop"
               PROVE  produced' = gens * Request \/ (n_total >= 0 /\ produced' = n_total)
    OBVIOUS
  <2>1. Read!Want = Request \/ (n_total >= 0 /\ Read!Want = n_total - produced)
    BY DEF Read!Want
  <2>2. (gens - 1) * Request + Request = gens * Request
    BY <1>1, Constants
  <2>3. CASE Read!Want = Request
    <3>1. produced' = produced + Request
      BY <2>3
    <3>2. produced = (gens - 1) * Request
      BY <1>4
    <3> QED
      BY <2>2, <3>1, <3>2
  <2>4. CASE n_total >= 0 /\ Read!Want = n_total - produced
    <3>1. n_total \in Nat /\ produced' = produced + (n_total - produced)
      BY <1>1, <2>4, Constants
    <3>2. produced' = n_total
      BY <1>1, <3>1
    <3> QED
      BY <2>4, <3>2
  <2> QED
    BY <2>1, <2>3, <2>4
<1> QED
  BY <1>2, <1>3, <1>4, <1>5, <1>6, <1>7, <1>8 DEF InOrder, Beginning, w

LEMMA Joined ==
  ASSUME NEW S, NEW s \in Seq(S), NEW r \in Seq(S), NEW t \in 0 .. Len(r)
  PROVE  /\ \A j \in 1 .. Len(s) : (s \o SubSeq(r, 1, t))[j] = s[j]
         /\ \A k \in 1 .. t : (s \o SubSeq(r, 1, t))[Len(s) + k] = r[k]
         /\ \A k \in 1 .. Len(r) - t : SubSeq(r, t + 1, Len(r))[k] = r[t + k]
<1>1. Len(r) \in Nat /\ Len(s) \in Nat
  BY LenProperties
<1>2. /\ SubSeq(r, 1, t) \in Seq(S) /\ Len(SubSeq(r, 1, t)) = t
      /\ \A k \in 1 .. t : SubSeq(r, 1, t)[k] = r[k]
  BY <1>1, SubSeqProperties
<1>3. \A k \in 1 .. Len(r) - t : SubSeq(r, t + 1, Len(r))[k] = r[t + k]
  BY <1>1, SubSeqProperties
<1> DEFINE q == SubSeq(r, 1, t)
<1>4. q \in Seq(S) /\ Len(q) = t /\ \A k \in 1 .. t : q[k] = r[k]
  BY <1>2
<1> HIDE DEF q
<1>5. \A j \in 1 .. Len(s) + Len(q) :
        (s \o q)[j] = IF j <= Len(s) THEN s[j] ELSE q[j - Len(s)]
  BY <1>4, ConcatProperties
<1>6. \A j \in 1 .. Len(s) : (s \o q)[j] = s[j]
  BY <1>1, <1>4, <1>5
<1>7. \A k \in 1 .. t : (s \o q)[Len(s) + k] = r[k]
  <2> SUFFICES ASSUME NEW k \in 1 .. t PROVE (s \o q)[Len(s) + k] = r[k]
    OBVIOUS
  <2>1. Len(s) + k \in 1 .. Len(s) + Len(q) /\ ~ (Len(s) + k <= Len(s)) /\ Len(s) + k - Len(s) = k
    BY <1>1, <1>4
  <2> QED
    BY <1>4, <1>5, <2>1
<1> QED
  BY <1>3, <1>6, <1>7 DEF q

LEMMA OrderCollects == ASSUME ReadInv, InOrder, Read!Collect PROVE InOrder'
<1> DEFINE S == Chars
           t == Len(rest)
<1>1. /\ UNCHANGED <<n_total, hex, gens>> /\ pc = "write" /\ pc' = "loop"
      /\ produced' = produced + Read!Want /\ acc' = acc \o rest /\ rest' = <<>>
  BY DEF Read!Collect, Read!Written, Read!GoTo, Read!args
<1>2. ReadInv'
  BY ReadCollects
<1>3. acc \in Seq(S) /\ rest \in Seq(S) /\ Len(acc) \in Nat /\ t \in Nat
  BY <1>1, Writing
<1> HIDE DEF S, t
<1>4. SubSeq(rest, 1, t) = rest
  <2>1. SubSeq(rest, 1, Len(rest)) = rest
    BY <1>3
  <2> QED
    BY <2>1 DEF t
<1>5. t \in 0 .. Len(rest) /\ Len(rest) - t = 0
  BY <1>3 DEF t
<1>6. /\ Len(acc \o rest) = Len(acc) + t
      /\ \A j \in 1 .. Len(acc) : (acc \o rest)[j] = acc[j]
      /\ \A k \in 1 .. t : (acc \o rest)[Len(acc) + k] = rest[k]
  <2> DEFINE a == acc \o SubSeq(rest, 1, t)
  <2>1. Len(a) = Len(acc) + t
    BY <1>3, <1>5, Cuts
  <2>2. /\ \A j \in 1 .. Len(acc) : a[j] = acc[j]
        /\ \A k \in 1 .. t : a[Len(acc) + k] = rest[k]
    BY <1>3, <1>5, Joined
  <2>3. a = acc \o rest
    BY <1>4
  <2> HIDE DEF a
  <2> QED
    BY <2>1, <2>2, <2>3
<1>7. Len(rest') = Len(rest) - t /\ \A k \in 1 .. Len(rest) - t : rest'[k] = rest[t + k]
  BY <1>1, <1>5
<1> QED
  BY <1>1, <1>2, <1>5, <1>6, <1>7, OrderWrites

LEMMA OrderPasses == ASSUME ReadInv, InOrder, Read!Direct PROVE InOrder'
<1>1. /\ UNCHANGED <<n_total, hex, gens>> /\ pc = "write"
  BY DEF Read!Direct, Read!args
<1>2. ReadInv'
  BY ReadPasses
<1>3. \E t \in 0 .. Len(rest) :
        /\ acc' = acc \o SubSeq(rest, 1, t) /\ rest' = SubSeq(rest, t + 1, Len(rest))
        /\ IF t = Len(rest) THEN Read!Written ELSE UNCHANGED <<pc, code, produced>>
  <2>1. PICK i \in 1 .. Len(rest) : \E f \in 1 .. i :
          LET taken == IF f = i THEN Len(rest) ELSE i IN
            /\ acc' = acc \o SubSeq(rest, 1, taken) /\ rest' = SubSeq(rest, taken + 1, Len(rest))
            /\ IF taken = Len(rest) THEN Read!Written ELSE UNCHANGED <<pc, code, produced>>
    BY DEF Read!Direct
  <2>2. PICK f \in 1 .. i :
          LET taken == IF f = i THEN Len(rest) ELSE i IN
            /\ acc' = acc \o SubSeq(rest, 1, taken) /\ rest' = SubSeq(rest, taken + 1, Len(rest))
            /\ IF taken = Len(rest) THEN Read!Written ELSE UNCHANGED <<pc, code, produced>>
    BY <2>1
  <2>3. Len(rest) \in Nat
    BY <1>1, Writing
  <2>4. CASE f = i
    <3>1. Len(rest) \in 0 .. Len(rest)
      BY <2>3
    <3> QED
      BY <2>2, <2>4, <3>1
  <2>5. CASE f # i
    <3>1. i \in 0 .. Len(rest)
      BY <2>3
    <3> QED
      BY <2>2, <2>5, <3>1
  <2> QED
    BY <2>4, <2>5
<1>4. PICK t \in 0 .. Len(rest) :
        /\ acc' = acc \o SubSeq(rest, 1, t) /\ rest' = SubSeq(rest, t + 1, Len(rest))
        /\ IF t = Len(rest) THEN Read!Written ELSE UNCHANGED <<pc, code, produced>>
  BY <1>3
<1>5. /\ \/ pc' = "write" /\ produced' = produced
         \/ pc' = "loop" /\ produced' = produced + Read!Want
  BY <1>1, <1>4 DEF Read!Written, Read!GoTo
<1>6. /\ Len(acc') = Len(acc) + t /\ Len(rest') = Len(rest) - t
      /\ \A j \in 1 .. Len(acc) : acc'[j] = acc[j]
      /\ \A k \in 1 .. t : acc'[Len(acc) + k] = rest[k]
      /\ \A k \in 1 .. Len(rest) - t : rest'[k] = rest[t + k]
  <2> DEFINE S == Chars
             a == acc \o SubSeq(rest, 1, t)
             r == SubSeq(rest, t + 1, Len(rest))
  <2>1. acc \in Seq(S) /\ rest \in Seq(S) /\ acc' = a /\ rest' = r
    BY <1>1, <1>4, Writing
  <2> HIDE DEF S
  <2>2. /\ Len(a) = Len(acc) + t /\ Len(r) = Len(rest) - t
    BY <2>1, Cuts
  <2>3. /\ \A j \in 1 .. Len(acc) : a[j] = acc[j]
        /\ \A k \in 1 .. t : a[Len(acc) + k] = rest[k]
        /\ \A k \in 1 .. Len(rest) - t : r[k] = rest[t + k]
    BY <2>1, Joined
  <2> HIDE DEF a, r
  <2> QED
    BY <2>1, <2>2, <2>3
<1> QED
  BY <1>1, <1>2, <1>5, <1>6, OrderWrites

LEMMA OrderEndsLine == ASSUME ReadInv, InOrder, Read!EndLine PROVE InOrder'
<1>1. /\ UNCHANGED <<n_total, hex>> /\ pc = "newline" /\ pc' \in {"close", "push", "make_room"}
      /\ acc' = Append(acc, Read!NewLine) \/ UNCHANGED acc
  BY DEF Read!EndLine, Read!GoTo, Read!main, Read!args
<1>2. CASE UNCHANGED acc
  BY <1>1, <1>2, OrderStays DEF Beginning
<1>3. CASE acc' = Append(acc, Read!NewLine)
  <2>1. acc \in Seq(Chars) /\ Len(acc) \in Nat
    BY <1>1, LenProperties DEF ReadInv, Counts
  <2>2. Read!Digits = Len(acc)
    BY <2>1, AllDigits
  <2>3. /\ Len(acc') = Len(acc) + 1 /\ acc'[Len(acc) + 1] = Read!NewLine /\ acc' # <<>>
        /\ \A j \in 1 .. Len(acc) : acc'[j] = acc[j]
    <3> DEFINE S == Int \X Int
    <3>1. acc \in Seq(S) /\ Read!NewLine \in S
      BY <2>1, SeqDef DEF Chars, Read!NewLine
    <3> HIDE DEF S
    <3> QED
      BY <1>3, <2>1, <3>1, AppendProperties
  <2>4. Read!Digits' = Len(acc)
    BY <2>1, <2>3 DEF Read!Digits
  <2>5. UNCHANGED <<Read!Width, Read!Whole>>
    BY <1>1 DEF Read!Width, Read!Whole
  <2> QED
    BY <1>1, <2>2, <2>3, <2>4, <2>5 DEF InOrder, Beginning
<1> QED
  BY <1>1, <1>2, <1>3

LEMMA OrderRests ==
  ASSUME ReadInv, InOrder,
         \/ Read!Setup \/ Read!Flush \/ Read!WriteFails
         \/ Read!Drain("make_room", Read!GoTo("newline")) \/ Read!Drain("push", Read!GoTo("close"))
         \/ Read!Drain("exit", Read!Exit(exit_rv))
         \/ Read!CloseSession \/ Read!Finalize \/ Read!Wipe
  PROVE  InOrder'
<1>1. CASE Read!Setup
  <2>1. UNCHANGED <<n_total, hex, acc, gens, produced>>
    BY <1>1 DEF Read!Setup, Read!own, Read!main, Read!args, Read!stdout
  <2>2. pc \in Beginning /\ pc' # "write"
    BY <1>1 DEF Read!Setup, Read!Connect, Read!Load, Read!Initialize, Read!CountSlots,
       Read!ListSlots, Read!OpenSession, Read!Install, Read!GoTo, Read!Exit, Beginning
  <2> QED
    BY <2>1, <2>2, OrderStays
<1>2. CASE Read!Flush
  BY <1>2, OrderStays DEF Read!Flush, Read!main, Read!args, Read!chunk, Read!clientvars
<1>3. CASE Read!WriteFails
  BY <1>3, Leaves, OrderStays DEF Read!WriteFails, Read!args, Read!stdout, Beginning
<1>4. CASE \/ Read!Drain("make_room", Read!GoTo("newline")) \/ Read!Drain("push", Read!GoTo("close"))
           \/ Read!Drain("exit", Read!Exit(exit_rv))
  BY <1>4, OrderStays DEF Read!Drain, Read!GoTo, Read!Exit, Read!main, Read!args, Beginning
<1>5. CASE Read!CloseSession \/ Read!Finalize \/ Read!Wipe
  BY <1>5, OrderStays DEF Read!CloseSession, Read!Close, Read!Finalize, Read!Wipe, Read!GoTo,
     Read!own, Read!main, Read!args, Read!stdout, Beginning
<1> QED
  BY <1>1, <1>2, <1>3, <1>4, <1>5

LEMMA OrderSteps == ASSUME ReadInv, InOrder, Read!Step PROVE InOrder'
  BY OrderLoops, OrderGenerates, OrderCollects, OrderPasses, OrderEndsLine, OrderRests
  DEF Read!Step, Read!AfterLoop

(***************************************************************************)
(* Either tool                                                             *)
(***************************************************************************)
(* The types of what both tools keep of the module and of signals.         *)
Becomes(new, old) == new = old \/ new = TRUE \/ new = FALSE

LEMMA ClientStays ==
  ASSUME ClientTypeOK, Becomes(initialized', initialized), Becomes(session', session),
         Becomes(installed', installed), signals' = signals \/ signals' \in 0 .. 2,
         code' = code \/ code' \in Codes
  PROVE  ClientTypeOK'
<1>1. /\ initialized \in BOOLEAN /\ session \in BOOLEAN /\ installed \in BOOLEAN
      /\ signals \in 0 .. 2 /\ code \in Codes
  BY DEF ClientTypeOK
<1>2. initialized' \in BOOLEAN
  BY <1>1, Zenon DEF Becomes
<1>3. session' \in BOOLEAN
  BY <1>1, Zenon DEF Becomes
<1>4. installed' \in BOOLEAN
  BY <1>1, Zenon DEF Becomes
<1>5. signals' \in 0 .. 2 /\ code' \in Codes
  BY <1>1 DEF Codes
<1> QED
  BY <1>2, <1>3, <1>4, <1>5 DEF ClientTypeOK, Codes

LEMMA SignalTypes == ASSUME ClientTypeOK, Signal PROVE ClientTypeOK'
<1>1. /\ UNCHANGED <<initialized, session, installed>>
      /\ signals' = signals \/ signals' \in 0 .. 2
      /\ code' = code \/ code' \in Codes
  BY DEF Signal, Exit, modvars, Codes
<1> QED
  BY <1>1, ClientStays DEF Becomes

LEMMA SeedTypes ==
  ASSUME Seed!TypeOK, SeedInv, SeedInv', Seed!Step
  PROVE  Seed!TypeOK'
<1>1. ClientTypeOK'
  <2>1. ClientTypeOK
    BY DEF Seed!TypeOK, Seed!ClientTypeOK, Seed!Codes, ClientTypeOK, Codes
  <2>2. Becomes(initialized', initialized) /\ Becomes(session', session) /\ Becomes(installed', installed)
    <3>1. CASE Seed!Setup
      BY <3>1 DEF Becomes, Seed!Setup, Seed!Connect, Seed!Load, Seed!Initialize,
         Seed!CountSlots, Seed!ListSlots, Seed!OpenSession, Seed!Install, Seed!Finalized,
         Seed!modvars, Seed!sigvars
    <3>2. CASE Seed!OpenDevice \/ Seed!CloseSession \/ Seed!Finalize
      BY <3>2 DEF Becomes, Seed!OpenDevice, Seed!CloseSession, Seed!Close, Seed!Finalize,
         Seed!Finalized, Seed!modvars, Seed!sigvars
    <3>3. ASSUME ~ Seed!Setup, ~ (Seed!OpenDevice \/ Seed!CloseSession \/ Seed!Finalize)
          PROVE  UNCHANGED <<initialized, session, installed>>
      BY <3>3 DEF Seed!Step, Seed!Loop, Seed!Generate, Seed!Write, Seed!Credit, Seed!Reseed,
         Seed!Sleep, Seed!Wipe, Seed!modvars, Seed!sigvars
    <3>4. CASE UNCHANGED <<initialized, session, installed>>
      <4>1. initialized' = initialized /\ session' = session /\ installed' = installed
        BY <3>4
      <4> QED
        BY <4>1, Zenon DEF Becomes
    <3> QED
      BY <3>1, <3>2, <3>3, <3>4, Zenon
  <2>3. signals' = signals \/ signals' = 0
    <3>1. CASE Seed!Setup
      BY <3>1 DEF Seed!Setup, Seed!Connect, Seed!Load, Seed!Initialize, Seed!CountSlots,
         Seed!ListSlots, Seed!OpenSession, Seed!Install, Seed!sigvars
    <3>2. ASSUME ~ Seed!Setup PROVE signals' = signals
      BY <3>2 DEF Seed!Step, Seed!OpenDevice, Seed!Loop, Seed!Generate, Seed!Write, Seed!Credit,
         Seed!Reseed, Seed!Sleep, Seed!Wipe, Seed!CloseSession, Seed!Close, Seed!Finalize,
         Seed!sigvars
    <3> QED
      BY <3>1, <3>2
  <2>4. code' = code \/ code' \in {"0", "1", "2"}
    <3>1. CASE Seed!Setup
      BY <3>1 DEF Seed!Setup, Seed!Connect, Seed!Load, Seed!Initialize, Seed!CountSlots,
         Seed!ListSlots, Seed!OpenSession, Seed!Install, Seed!GoTo, Seed!Exit
    <3>2. CASE ~ Seed!Setup
      BY <3>2 DEF Seed!Step, Seed!OpenDevice, Seed!Loop, Seed!Generate, Seed!Write, Seed!Credit,
         Seed!Reseed, Seed!Sleep, Seed!Wipe, Seed!CloseSession, Seed!Close, Seed!Finalize,
         Seed!GoTo, Seed!Exit
    <3> QED
      BY <3>1, <3>2
  <2> QED
    BY <2>1, <2>2, <2>3, <2>4, ClientStays DEF Codes
<1>2. no_credit' \in BOOLEAN /\ no_reseed' \in BOOLEAN /\ denied' \in BOOLEAN
  <2>1. no_credit \in BOOLEAN /\ no_reseed \in BOOLEAN /\ denied \in BOOLEAN
    BY DEF Seed!TypeOK
  <2>2. /\ no_credit' = no_credit \/ no_credit' = TRUE
        /\ no_reseed' = no_reseed \/ no_reseed' = TRUE
        /\ denied' = denied \/ denied' = TRUE
    BY DEF Seed!Step, Seed!Setup, Seed!OpenDevice, Seed!Loop, Seed!Generate, Seed!Write,
       Seed!Credit, Seed!Reseed, Seed!Sleep, Seed!Wipe, Seed!CloseSession, Seed!Finalize,
       Seed!own, Seed!flags
  <2> QED
    BY <2>1, <2>2, Zenon
<1>3. blob' \in Seed!Contents
  BY DEF Seed!TypeOK, Seed!Contents, Seed!Step, Seed!Setup, Seed!OpenDevice, Seed!Loop,
     Seed!Generate, Seed!Write, Seed!Push, Seed!Credit, Seed!Reseed, Seed!Sleep, Seed!Wipe,
     Seed!CloseSession, Seed!Finalize, Seed!own
<1>4. kernel' \in [data : Seed!Contents \cup {"none"}, credited : BOOLEAN]
  <2>1. /\ kernel \in [data : Seed!Contents \cup {"none"}, credited : BOOLEAN]
        /\ blob \in Seed!Contents
    BY DEF Seed!TypeOK
  <2>2. kernel' = kernel \/ \E c \in BOOLEAN : kernel' = [data |-> blob, credited |-> c]
    BY DEF Seed!Step, Seed!Setup, Seed!OpenDevice, Seed!Loop, Seed!Generate, Seed!Write,
       Seed!Push, Seed!Credit, Seed!Reseed, Seed!Sleep, Seed!Wipe, Seed!CloseSession,
       Seed!Finalize, Seed!own
  <2> QED
    BY <2>1, <2>2
<1> QED
  BY <1>1, <1>2, <1>3, <1>4
  DEF Seed!TypeOK, Seed!ClientTypeOK, Seed!Codes, Seed!Places, ClientTypeOK, Codes, SeedInv, SeedPlaces

LEMMA ReadClientTypes ==
  ASSUME ClientTypeOK, Read!Step, exit_rv \in {"0", "1"}
  PROVE  ClientTypeOK'
<1>1. Becomes(initialized', initialized) /\ Becomes(session', session) /\ Becomes(installed', installed)
  <2>1. CASE Read!Setup
    BY <2>1 DEF Becomes, Read!Setup, Read!Connect, Read!Load, Read!Initialize,
       Read!CountSlots, Read!ListSlots, Read!OpenSession, Read!Install, Read!Finalized,
       Read!modvars, Read!sigvars
  <2>2. CASE Read!CloseSession \/ Read!Finalize
    BY <2>2 DEF Becomes, Read!CloseSession, Read!Close, Read!Finalize, Read!Finalized,
       Read!modvars, Read!sigvars
  <2>3. ASSUME ~ Read!Setup, ~ (Read!CloseSession \/ Read!Finalize)
        PROVE  UNCHANGED <<initialized, session, installed>>
    BY <2>3 DEF Read!Step, Read!Loop, Read!Generate, Read!Collect, Read!Flush, Read!Direct,
       Read!WriteFails, Read!AfterLoop, Read!Drain, Read!EndLine, Read!Wipe,
       Read!modvars, Read!sigvars, Read!clientvars
  <2>4. CASE UNCHANGED <<initialized, session, installed>>
    <3>1. initialized' = initialized /\ session' = session /\ installed' = installed
      BY <2>4
    <3> QED
      BY <3>1, Zenon DEF Becomes
  <2> QED
    BY <2>1, <2>2, <2>3, <2>4, Zenon
<1>2. signals' = signals \/ signals' = 0
  <2>1. CASE Read!Setup
    BY <2>1 DEF Read!Setup, Read!Connect, Read!Load, Read!Initialize, Read!CountSlots,
       Read!ListSlots, Read!OpenSession, Read!Install, Read!sigvars
  <2>2. ASSUME ~ Read!Setup PROVE signals' = signals
    BY <2>2 DEF Read!Step, Read!Loop, Read!Generate, Read!Collect, Read!Flush, Read!Direct,
       Read!WriteFails, Read!AfterLoop, Read!Drain, Read!EndLine, Read!CloseSession, Read!Close,
       Read!Finalize, Read!Wipe, Read!sigvars, Read!clientvars
  <2> QED
    BY <2>1, <2>2
<1>3. code' = code \/ code' \in {"0", "1", "2"}
  <2>1. CASE Read!Setup
    BY <2>1 DEF Read!Setup, Read!Connect, Read!Load, Read!Initialize, Read!CountSlots,
       Read!ListSlots, Read!OpenSession, Read!Install, Read!GoTo, Read!Exit
  <2>2. ASSUME ~ Read!Setup PROVE code' = code \/ code' = exit_rv
    BY <2>2, Leaves DEF Read!Step, Read!Loop, Read!Generate, Read!Collect, Read!Written,
       Read!Flush, Read!Direct, Read!WriteFails, Read!AfterLoop, Read!Drain, Read!EndLine,
       Read!CloseSession, Read!Close, Read!Finalize, Read!Wipe, Read!GoTo, Read!Exit,
       Read!clientvars
  <2> QED
    BY <2>1, <2>2
<1> QED
  BY <1>1, <1>2, <1>3, ClientStays DEF Codes

IInv ==
  /\ tool \in {"seed", "read"}
  /\ tool = "seed" => SeedInv /\ buf = 0
  /\ tool = "read" => ReadInv /\ InOrder /\ blob = "zero" /\ kernel.data = "none"

(* The types, stated apart because they need the invariant.                *)
Typed ==
  /\ ClientTypeOK
  /\ tool = "seed" => Seed!TypeOK

LEMMA InitTyped == ASSUME Init PROVE Typed
<1>1. /\ initialized = FALSE /\ session = FALSE /\ installed = FALSE
      /\ signals = 0 /\ code = "none" /\ pc = "load"
  BY DEF Init, Seed!Init, Read!Init, Seed!ClientInit, Read!ClientInit
<1>2. ClientTypeOK
  <2>1. initialized \in BOOLEAN /\ session \in BOOLEAN /\ installed \in BOOLEAN
    BY <1>1, Zenon
  <2>2. signals \in 0 .. 2 /\ code \in Codes
    BY <1>1 DEF Codes
  <2> QED
    BY <2>1, <2>2 DEF ClientTypeOK, Codes
<1>3. ASSUME tool = "seed" PROVE Seed!TypeOK
  <2>1. /\ no_credit \in BOOLEAN /\ no_reseed \in BOOLEAN
        /\ denied = FALSE /\ blob = "zero" /\ kernel = [data |-> "none", credited |-> FALSE]
    <3>1. Seed!Init
      BY <1>3 DEF Init
    <3> QED
      BY <3>1, Zenon DEF Seed!Init, Seed!Nothing
  <2>2. kernel \in [data : Seed!Contents \cup {"none"}, credited : BOOLEAN]
    BY <2>1
  <2> QED
    BY <1>1, <1>2, <2>1, <2>2 DEF Seed!TypeOK, Seed!ClientTypeOK, Seed!Codes, Seed!Places,
       Seed!Contents, ClientTypeOK, Codes
<1> QED
  BY <1>2, <1>3 DEF Typed

LEMMA NextTyped == ASSUME IInv, IInv', Typed, [Next]_vars PROVE Typed'
<1>1. CASE tool = "seed" /\ Seed!Step /\ UNCHANGED <<tool, readown>>
  <2>1. Seed!TypeOK'
    BY <1>1, SeedTypes DEF IInv, Typed
  <2> QED
    BY <1>1, <2>1 DEF Typed, Seed!TypeOK, Seed!ClientTypeOK, Seed!Codes, ClientTypeOK, Codes
<1>2. CASE tool = "read" /\ Read!Step /\ UNCHANGED <<tool, seedown>>
  <2>1. exit_rv \in {"0", "1"}
    BY <1>2 DEF IInv, ReadInv, ReadTypes
  <2> QED
    BY <1>2, <2>1, ReadClientTypes DEF Typed
<1>3. CASE Interrupt
  <2>1. ClientTypeOK'
    BY <1>3, SignalTypes DEF Interrupt, Typed
  <2>2. ASSUME tool = "seed" PROVE Seed!TypeOK'
    <3>1. UNCHANGED <<no_credit, no_reseed, blob, kernel, denied>>
      BY <1>3 DEF Interrupt, seedown
    <3>2. pc' = pc \/ pc' = "exited"
      BY <1>3 DEF Interrupt, Signal, Exit
    <3> QED
      BY <2>1, <2>2, <3>1, <3>2 DEF Typed, Seed!TypeOK, Seed!ClientTypeOK, Seed!Codes,
         ClientTypeOK, Codes, Seed!Places, Seed!Contents
  <2> QED
    BY <1>3, <2>1, <2>2 DEF Interrupt, Typed
<1>4. CASE Outlet \/ Ended \/ UNCHANGED vars
  <2>1. UNCHANGED <<tool, clientvars, seedown>>
    BY <1>4 DEF Outlet, Read!Outlet, Read!clientvars, Read!modvars, Read!sigvars, clientvars,
       modvars, sigvars, Ended, vars
  <2> QED
    BY <2>1 DEF Typed, ClientTypeOK, Codes, Seed!TypeOK, Seed!ClientTypeOK, Seed!Codes,
       Seed!Places, Seed!Contents, clientvars, modvars, sigvars, seedown
<1> QED
  BY <1>1, <1>2, <1>3, <1>4 DEF Next, Step

LEMMA InitIInv == Init => IInv
<1>1. ASSUME tool = "seed", Seed!Init, buf = 0 PROVE IInv
  BY <1>1, SeedInit DEF IInv
<1>2. ASSUME tool = "read", Read!Init, blob = "zero", kernel = Seed!Nothing PROVE IInv
  BY <1>2, ReadInit, InitInOrder DEF IInv, Seed!Nothing
<1> QED
  BY <1>1, <1>2 DEF Init

LEMMA NextIInv ==
  ASSUME IInv, [Next]_vars
  PROVE  IInv' /\ (denied /\ kernel' # kernel => ~ kernel'.credited)
<1>1. CASE tool = "seed" /\ Seed!Step /\ UNCHANGED <<tool, readown>>
  <2>1. SeedInv' /\ (denied /\ kernel' # kernel => ~ kernel'.credited)
    BY <1>1, SeedSteps DEF IInv
  <2> QED
    BY <1>1, <2>1 DEF IInv, readown
<1>2. CASE tool = "read" /\ (Read!Step \/ Read!Outlet) /\ UNCHANGED <<tool, seedown>>
  <2>1. ReadInv' /\ InOrder'
    <3>0. ReadInv /\ InOrder
      BY <1>2 DEF IInv
    <3>1. ReadInv'
      BY <1>2, ReadSteps, ReadOutlet DEF IInv
    <3>2. CASE Read!Step
      BY <3>0, <3>1, <3>2, OrderSteps
    <3>3. CASE Read!Outlet
      <4>1. UNCHANGED <<n_total, hex, acc, rest, gens, produced, pc>>
        BY <3>3 DEF Read!Outlet, Read!clientvars, Read!main, Read!args, Read!chunk, Read!stdout
      <4> QED
        BY <3>0, <3>1, <4>1, OrderStays
    <3> QED
      BY <1>2, <3>1, <3>2, <3>3
  <2> QED
    BY <1>2, <2>1 DEF IInv, seedown
<1>3. CASE Interrupt
  <2>1. Signal /\ UNCHANGED <<tool, seedown, readown>>
    BY <1>3 DEF Interrupt
  <2>2. CASE tool = "seed"
    BY <2>1, <2>2, SeedInterrupted DEF IInv, seedown, readown
  <2>3. CASE tool = "read"
    <3>1. ReadInv'
      BY <2>1, <2>3, ReadInterrupted DEF IInv
    <3>2. /\ UNCHANGED <<n_total, hex, acc, rest, gens, produced>>
          /\ pc' = pc \/ pc' = "exited"
      BY <2>1 DEF Signal, Exit, readown
    <3>3. InOrder'
      BY <2>3, <3>2, OrderStays DEF IInv, Beginning
    <3> QED
      BY <2>1, <2>3, <3>1, <3>3 DEF IInv, seedown
  <2> QED
    BY <2>2, <2>3 DEF IInv
<1>4. CASE UNCHANGED vars
  <2>1. UNCHANGED <<tool, clientvars, seedown, readown>>
    BY <1>4 DEF vars
  <2>2. CASE tool = "seed"
    <3>1. SeedInv'
      BY <2>1, <2>2 DEF IInv, SeedInv, SeedPlaces, Seed!FreshOnly, Seed!CleanExit, clientvars,
         modvars, seedown
    <3> QED
      BY <2>1, <2>2, <3>1 DEF IInv, seedown, readown
  <2>3. CASE tool = "read"
    <3>1. /\ UNCHANGED <<n_total, hex, produced, exit_rv, gens, buf, rest, lines, acc, sent, eol, fd>>
          /\ UNCHANGED <<pc, code, initialized, session, signals>>
      BY <2>1 DEF clientvars, modvars, sigvars, readown
    <3>2. ReadInv
      BY <2>3 DEF IInv
    <3>3. ReadTypes' /\ UNCHANGED <<Read!Width, Read!Want, Read!Digits>> /\ All' = All
      BY <3>1, <3>2, DataStay DEF ReadInv, ReadTypes
    <3>4. Counts'
      BY <3>1, <3>2, <3>3 DEF ReadInv, Counts, Excused, Beginning, Looping, Ending
    <3>5. Clean'
      BY <3>1, <3>2, <3>3 DEF ReadInv, Clean, Beginning, Read!CleanExit, Read!SuccessIsWhole
    <3>6. ReadInv'
      BY <3>1, <3>2, <3>3, <3>4, <3>5 DEF ReadInv
    <3>7. InOrder'
      BY <2>3, <3>1, OrderStays DEF IInv
    <3> QED
      BY <2>1, <2>3, <3>6, <3>7 DEF IInv, seedown
  <2> QED
    BY <2>2, <2>3 DEF IInv
<1> QED
  BY <1>1, <1>2, <1>3, <1>4 DEF Next, Step, Outlet, Ended

THEOREM Invariance == Spec => []IInv
<1>1. Init => IInv
  BY InitIInv
<1>2. IInv /\ [Next]_vars => IInv'
  BY NextIInv
<1> QED
  BY <1>1, <1>2, PTL DEF Spec

(* Every variable of the tool that runs keeps its type; stdout's line      *)
(* buffer never holds more than fits.                                      *)
THEOREM TypeCorrect == Spec => []TypeOK
<1>1. Init => Typed
  BY InitTyped
<1>2. IInv /\ IInv' /\ Typed /\ [Next]_vars => Typed'
  BY NextTyped
<1>3. ASSUME IInv, Typed, tool = "read" PROVE Read!TypeOK
  <2>1. ReadTypes /\ ClientTypeOK /\ Read!Held <= Room
        /\ pc \in Beginning \cup Looping \cup Ending \cup {"exited"}
    BY <1>3 DEF IInv, ReadInv, ReadTypes, Typed
  <2>2. rest \in Seq(Int \X Int)
    BY <2>1 DEF ReadTypes, Chars
  <2> QED
    BY <2>1, <2>2 DEF ReadTypes, Read!TypeOK, Read!ClientTypeOK, Read!Codes, ClientTypeOK, Codes,
       Read!Places, Beginning, Looping, Ending
<1>4. IInv /\ Typed => TypeOK
  BY <1>3 DEF IInv, Typed, TypeOK
<1> QED
  BY <1>1, <1>2, <1>4, Invariance, PTL DEF Spec

(* The kernel is only given buffers that one successful call filled, each  *)
(* of them once (p11rand-seed).                                            *)
THEOREM KernelGetsFresh == Spec => []FreshOnly
<1>1. IInv => FreshOnly
  BY DEF IInv, SeedInv, FreshOnly, Seed!FreshOnly
<1> QED
  BY <1>1, Invariance, PTL

(* Once refused with EPERM, credit is never claimed again (p11rand-seed).  *)
THEOREM CreditStaysDenied == Spec => DeniedForGood
<1>1. IInv /\ [Next]_vars => [denied /\ kernel' # kernel => ~ kernel'.credited]_vars
  BY NextIInv
<1> QED
  BY <1>1, Invariance, PTL DEF Spec, DeniedForGood

(* Success without a signal or a closed pipe means that stdout took every  *)
(* byte asked for (p11rand-read).                                          *)
THEOREM SuccessMeansWhole == Spec => []SuccessIsWhole
<1>1. IInv => SuccessIsWhole
  BY DEF IInv, ReadInv, Clean, SuccessIsWhole
<1> QED
  BY <1>1, Invariance, PTL

(* A tool that ends by itself gives back the session and the module, and   *)
(* leaves no random bytes in its buffer.                                   *)
THEOREM ExitsClean == Spec => []CleanExit
<1>1. ASSUME IInv PROVE CleanExit
  <2>1. CASE tool = "seed"
    BY <1>1, <2>1 DEF IInv, SeedInv, CleanExit, Seed!CleanExit, Read!CleanExit
  <2>2. CASE tool = "read"
    BY <1>1, <2>2 DEF IInv, ReadInv, Clean, CleanExit, Seed!CleanExit, Read!CleanExit
  <2> QED
    BY <1>1, <2>1, <2>2 DEF IInv
<1> QED
  BY <1>1, Invariance, PTL

(* The output is what consecutive successful calls gave, no byte lost,     *)
(* repeated or out of order, and no more than -n (p11rand-read).           *)
THEOREM StreamInOrder == Spec => []Stream
<1>1. ASSUME IInv, tool = "read" PROVE Read!Stream
  BY <1>1 DEF IInv, InOrder, Pos, Read!Stream
<1>2. IInv => Stream
  BY <1>1 DEF Stream
<1> QED
  BY <1>2, Invariance, PTL
=============================================================================
