------------------------------- MODULE Reader -------------------------------
(***************************************************************************)
(* p11rand-read: copies random bytes of the module to standard output, n   *)
(* of them or an endless stream, raw or as hex digits.                     *)
(*                                                                         *)
(* Rust's stdout is a line buffer: text without a newline byte is only     *)
(* collected while it fits, so the tool learns of a broken output late or, *)
(* in the flush the runtime makes after main, never.  What stdout leads to *)
(* may stall, be closed by its reader, or be full, and recover.            *)
(***************************************************************************)
EXTENDS Client, Integers, Sequences

CONSTANTS
  Request,   (* bytes of a C_GenerateRandom call: 256 in the code          *)
  Room,      (* characters of stdout's line buffer: 1024                   *)
  Totals     (* values of -n; -1 is the endless stream                     *)

VARIABLES
  n_total, hex,  (* Args                                                   *)
  produced,      (* bytes handed to stdout with success                    *)
  exit_rv,       (* what main will return                                  *)
  gens,          (* C_GenerateRandom calls that succeeded                  *)
  buf,           (* the call that filled the buffer; 0: zeroed; -1: torn   *)
  rest,          (* characters of this chunk not yet taken by stdout       *)
  lines,         (* a newline byte is among them                           *)
  acc,           (* external: characters stdout took, in order             *)
  sent,          (* external: how many of them left the line buffer        *)
  eol,           (* external: the line buffer ends with a newline byte     *)
  fd             (* environment: what stdout leads to                      *)

args   == <<n_total, hex>>
main   == <<args, produced, exit_rv, gens, buf>>
chunk  == <<rest, lines>>
stdout == <<acc, sent, eol>>
own    == <<main, chunk, stdout, fd>>
vars   == <<clientvars, own>>

NewLine == <<0, 0>>
Width   == IF hex THEN 2 ELSE 1
Whole   == Request * Width
Text(g, want) == [k \in 1 .. want * Width |-> <<g, k>>]
Held    == Len(acc) - sent

Init ==
  /\ ClientInit
  /\ n_total \in Totals /\ hex \in BOOLEAN
  /\ produced = 0 /\ exit_rv = "0" /\ gens = 0 /\ buf = 0
  /\ rest = <<>> /\ lines = FALSE
  /\ acc = <<>> /\ sent = 0 /\ eol = FALSE /\ fd = "ok"

Interrupt == Signal /\ UNCHANGED own

(* A pipe fills up and is read on, a disk fills and is cleared; a reader   *)
(* that closed its end does not come back.                                 *)
Outlet ==
  /\ pc # "exited" /\ fd # "closed"
  /\ fd' \in {"ok", "stalled", "full", "closed"} \ {fd}
  /\ UNCHANGED <<clientvars, main, chunk, stdout>>

Broken == fd \in {"closed", "full"}
Setup  == (Connect("install") \/ Install("loop")) /\ UNCHANGED own

(***************************************************************************)
(* The loop                                                                *)
(***************************************************************************)
Leave == GoTo(IF hex /\ produced > 0 THEN "newline" ELSE "close")

(* No code, but what makes an endless stream a finite number of states:    *)
(* once all that the first call gave is out and another has followed, the  *)
(* calls are renumbered and the first is forgotten.                        *)
Forget ==
  IF n_total < 0 /\ gens > 1 /\ sent >= Whole
  THEN /\ acc'  = [j \in 1 .. Len(acc) - Whole |-> <<acc[j + Whole][1] - 1, acc[j + Whole][2]>>]
       /\ sent' = sent - Whole /\ gens' = gens - 1 /\ produced' = produced - Request
       /\ buf'  = IF buf > 0 THEN buf - 1 ELSE buf
  ELSE UNCHANGED <<acc, sent, gens, produced, buf>>

Loop ==
  /\ pc = "loop"
  /\ IF signals = 0 /\ (n_total < 0 \/ produced < n_total) THEN GoTo("generate") ELSE Leave
  /\ Forget
  /\ UNCHANGED <<modvars, sigvars, args, exit_rv, chunk, eol, fd>>

Want == IF n_total >= 0 /\ Request > n_total - produced THEN n_total - produced ELSE Request

Generate_FailsQuietly ==              \* mutant: exit_rv is not set
  /\ pc = "generate"
  /\ \/ /\ gens' = gens + 1 /\ buf' = gens + 1
        /\ IF signals > 0 THEN Leave /\ UNCHANGED chunk
           ELSE /\ rest' = Text(gens + 1, Want) /\ lines' \in (IF hex THEN {FALSE} ELSE BOOLEAN)
                /\ GoTo("write")
     \/ buf' \in {buf, -1} /\ Leave /\ UNCHANGED <<gens, chunk>>
  /\ UNCHANGED <<modvars, sigvars, args, produced, exit_rv, stdout, fd>>

Generate ==
  /\ pc = "generate"
  /\ \/ /\ gens' = gens + 1 /\ buf' = gens + 1 /\ UNCHANGED exit_rv
        /\ IF signals > 0 THEN Leave /\ UNCHANGED chunk
           ELSE /\ rest' = Text(gens + 1, Want) /\ lines' \in (IF hex THEN {FALSE} ELSE BOOLEAN)
                /\ GoTo("write")
     \/ /\ buf' \in {buf, -1} /\ Leave
        /\ exit_rv' = IF signals > 0 THEN exit_rv ELSE "1"
        /\ UNCHANGED <<gens, chunk>>
  /\ UNCHANGED <<modvars, sigvars, args, produced, stdout, fd>>

(***************************************************************************)
(* write_full on the line buffer.  Interrupted is answered by trying       *)
(* again, so a signal does not end a write to a stalled pipe.              *)
(***************************************************************************)
MustFlush ==
  Held > 0 /\ (lines \/ eol \/ Held + Len(rest) > Room)

Written == produced' = produced + Want /\ GoTo("loop")

Collect ==
  /\ pc = "write" /\ ~ lines /\ ~ MustFlush
  /\ acc' = acc \o rest /\ rest' = <<>> /\ eol' = FALSE /\ Written
  /\ UNCHANGED <<modvars, sigvars, args, exit_rv, gens, buf, lines, sent, fd>>

Flush ==
  /\ pc = "write" /\ MustFlush /\ fd = "ok"
  /\ sent' \in sent + 1 .. Len(acc)
  /\ UNCHANGED <<clientvars, main, chunk, acc, eol, fd>>

(* A line goes past the empty buffer: of the characters up to the last     *)
(* newline, at i, the first f are written; what follows them is collected, *)
(* up to the newline if that is still to be written.                       *)
Direct_Restarts ==                    \* mutant: a short write begins again
  /\ pc = "write" /\ lines /\ Held = 0 /\ fd = "ok"
  /\ \E i \in 1 .. Len(rest) : \E f \in 1 .. i :
       LET taken == IF f = i THEN Len(rest) ELSE i IN
         /\ acc' = acc \o SubSeq(rest, 1, taken) /\ sent' = sent + f
         /\ eol' = (f < i) /\ lines' = FALSE
         /\ IF taken = Len(rest) THEN rest' = <<>> /\ Written
            ELSE UNCHANGED <<rest, pc, code, produced>>
  /\ UNCHANGED <<modvars, sigvars, args, exit_rv, gens, buf, fd>>

Direct ==
  /\ pc = "write" /\ lines /\ Held = 0 /\ fd = "ok"
  /\ \E i \in 1 .. Len(rest) : \E f \in 1 .. i :
       LET taken == IF f = i THEN Len(rest) ELSE i IN
         /\ acc' = acc \o SubSeq(rest, 1, taken) /\ sent' = sent + f
         /\ rest' = SubSeq(rest, taken + 1, Len(rest))
         /\ eol' = (f < i) /\ lines' = FALSE
         /\ IF taken = Len(rest) THEN Written ELSE UNCHANGED <<pc, code, produced>>
  /\ UNCHANGED <<modvars, sigvars, args, exit_rv, gens, buf, fd>>

(* A broken pipe ends the loop with success, any other error with 1.       *)
WriteFails ==
  /\ pc = "write" /\ (lines \/ MustFlush) /\ Broken
  /\ rest' = <<>> /\ lines' = FALSE /\ Leave
  /\ exit_rv' = IF fd = "closed" THEN exit_rv ELSE "1"
  /\ UNCHANGED <<modvars, sigvars, args, produced, gens, buf, stdout, fd>>

(***************************************************************************)
(* The end.  Errors are ignored from here on.                              *)
(***************************************************************************)
(* A flush on the way from one place to the next.                          *)
Drain(from, next) ==
  /\ pc = from
  /\ \/ Held > 0 /\ fd = "ok" /\ sent' \in sent + 1 .. Len(acc) /\ UNCHANGED <<pc, code>>
     \/ Held = 0 /\ next /\ UNCHANGED sent
     \/ Held > 0 /\ Broken /\ (IF from = "exit" THEN next ELSE GoTo("close")) /\ UNCHANGED sent
  /\ UNCHANGED <<modvars, sigvars, main, chunk, acc, eol, fd>>

(* The newline after hex digits: straight out, or by way of the buffer.    *)
EndLine ==
  /\ pc = "newline"
  /\ \/ Held = 0 /\ fd = "ok" /\ acc' = Append(acc, NewLine) /\ sent' = sent + 1 /\ GoTo("close")
     \/ Held = 0 /\ Broken /\ GoTo("close") /\ UNCHANGED <<acc, sent>>
     \/ Held \in 1 .. Room - 1 /\ acc' = Append(acc, NewLine) /\ GoTo("push") /\ UNCHANGED sent
     \/ Held = Room /\ GoTo("make_room") /\ UNCHANGED <<acc, sent>>
  /\ UNCHANGED <<modvars, sigvars, main, chunk, eol, fd>>

CloseSession == Close("finalize") /\ UNCHANGED own

Finalize ==
  /\ pc = "finalize"
  /\ Finalized /\ GoTo("wipe")
  /\ UNCHANGED <<sigvars, own>>

Wipe ==
  /\ pc = "wipe"
  /\ buf' = 0 /\ GoTo("exit")
  /\ UNCHANGED <<modvars, sigvars, args, produced, exit_rv, gens, chunk, stdout, fd>>

AfterLoop ==
  \/ Drain("make_room", GoTo("newline")) \/ EndLine \/ Drain("push", GoTo("close"))
  \/ CloseSession \/ Finalize \/ Wipe
  \/ Drain("exit", Exit(exit_rv))     \* the runtime, after main

Step ==
  \/ Setup \/ Loop \/ Generate
  \/ Collect \/ Flush \/ Direct \/ WriteFails
  \/ AfterLoop

Next == Step \/ Interrupt \/ Outlet

Spec == Init /\ [][Next]_vars

(***************************************************************************)
(* Properties                                                              *)
(***************************************************************************)
TypeOK ==
  /\ ClientTypeOK
  /\ pc \in Places \cup {"loop", "generate", "write", "make_room", "newline", "push",
                         "finalize", "wipe", "exit"}
  /\ n_total \in Totals /\ hex \in BOOLEAN /\ produced \in Nat /\ exit_rv \in {"0", "1"}
  /\ gens \in Nat /\ buf \in Int /\ lines \in BOOLEAN /\ eol \in BOOLEAN
  /\ rest \in Seq(Int \X Int) /\ acc \in Seq(Int \X Int) /\ sent \in 0 .. Len(acc)
  /\ Held <= Room /\ fd \in {"ok", "stalled", "full", "closed"}

(* The characters of the output without the closing newline.               *)
Digits == IF acc # <<>> /\ acc[Len(acc)] = NewLine THEN Len(acc) - 1 ELSE Len(acc)

(* What stdout took is what consecutive successful calls gave, no byte     *)
(* lost, repeated or out of order, and never more than -n asked for,       *)
(* whatever writes were short and whatever call failed (write_full, want). *)
Stream ==
  /\ \A j \in 1 .. Digits :
       acc[j] = <<((j - 1) \div Whole) + 1, ((j - 1) % Whole) + 1>>
  /\ n_total >= 0 => Digits <= n_total * Width

(* Success without a signal or a closed pipe means that stdout took every  *)
(* byte that was asked for (exit_rv).                                      *)
SuccessIsWhole ==
  code = "0" => signals > 0 \/ fd = "closed" \/ Digits = n_total * Width

(* Main leaves nothing behind, whichever way the loop ended.               *)
CleanExit == code \in {"0", "1", "2"} => ~ session /\ ~ initialized /\ buf = 0

(* p11rand-read.rs:31: "-n BYTES   total bytes to output".                 *)
DeliversAll ==
  code = "0" => signals > 0 \/ fd = "closed" \/ sent >= n_total * Width
=============================================================================
