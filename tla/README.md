# A TLA+ verification of pkcs11-rand

pkcs11-rand is a PKCS#11 module whose only service is `C_GenerateRandom`. A
session owns a *pool* of entropy sources (smart cards behind PC/SC, Infinite
Noise nodes under `/dev`); each round of output hashes fresh bytes of every
source into a SHA3-256 chain. Five small programs use the module.

The modules here are translated from the Rust source. Paths below are relative
to `src/crates/`.

## 1. Inventory

| component | state it keeps | operations | who calls it |
|---|---|---|---|
| configuration (`p11rand-core/src/pool.rs`, `p11rand/build.rs`) | constants baked in | `validate`, `use_chain`, `slot_ticks`, `max_ticks`, and a second copy of them in the build script | everything |
| entropy pool (`pool.rs`) | `slots` (name and source of each), `state` (chain value) | `open`, `read`, `do_round_chain`, `rebind`, `drop` | the PKCS#11 module, one pool per session |
| fillable (`pool.rs`) | none | `fillable` | every slot query, hence the wait tool |
| smart card source (`iso7816.rs`) | `max_chunk`, the chosen applet, the card handle; process-wide PC/SC context with a count | `open`/`probe_app`, `Source::read`, `list_readers`, `global_init`/`global_shutdown` | pool, fillable, module |
| infnoise source (`infnoise.rs`) | a file | `list_paths`, `open`, `read` | pool, fillable |
| PKCS#11 module (`p11rand/src/lib.rs`) | `initialized`, `slots`, `sessions` behind one mutex | the `C_` functions | any thread of any application |
| interface tables (`lib.rs:539-1064`) | none | constant tables, stubs | loaders |
| p11rand-seed | the buffer, `no_credit`, `no_reseed`, the signal count | main loop, signal handler | the administrator, the kernel |
| p11rand-read | the buffer, `produced`, `exit_rv`; Rust's line buffer of stdout | main loop, `write_full`, `write_hex` | scripts, through pipes |
| p11rand-wait | the time since start, `rv` | main loop | systemd units, scripts |
| p11rand-list, -test | none | main | people |
| debug log, `flake.nix`, Cargo files | none at run time | | |

How they interact: a thread calls a `C_` function; the function takes the mutex
and keeps it while it probes devices (`fillable`), opens a pool or reads from
one. A read of a pool forks one worker per source and tick, joins them, absorbs
what they fetched in slot order, and rebinds a slot whose fetch failed. Devices
are shared with the rest of the machine: they come, go and fall silent between
any two steps, and another process may select another applet on a card.

What is hard here:

* concurrency: parallel workers in a pool (`pool.rs:418-445`), threads at the
  mutex, a card shared with other processes, signals;
* failure half way: a fetch fails in a round that has already absorbed others
  (`pool.rs:456-470`), a later round of a read fails, `C_Initialize` fails
  after it took the PC/SC context, a read leaves a torn buffer to the seeder;
* stale knowledge: lists of names taken before devices changed, names that
  slots keep after their device died, the count of the first loop of
  `C_GetSlotList` used by the second, the applet a card was left with;
* boundaries: per-kind quotas, the last chunk of a buffer, halving a chunk,
  handle = index + 1, empty reads, a full table;
* timeouts: p11rand-wait polls, looks at the clock, sleeps; a poll takes time too;
* output that is taken late or never: short writes, a stalled or closed pipe, a
  full disk, and a line buffer between the tool and all of them;
* the PC/SC service restarts under a process that keeps its context;
* things that must end: rebind and read loops, the mutex, a tool after a signal.

What makes each component correct:

* configuration: the two copies agree; bytes bypass the chain only if there is
  nothing to mix; the round loop is exactly long enough;
* pool: an output round holds exactly the documented fetches, all of them made
  for it, in order, from different devices; a failed round leaves no trace;
  enough working devices mean success;
* fillable: true means that enough cards opened and enough nodes existed while it
  looked, false that at some moment some were missing;
* card source: a card that passed the probe can be read; the probe finds an
  applet if there is one;
* module: it behaves like an atomic table of handles, and gives back what it
  took;
* infnoise source: a read that succeeds is the whole buffer, in the driver's
  order; nodes are listed in the order of their numbers;
* both kinds of source: what the pool relies on (`Source`);
* seeder: only whole new buffers reach the kernel; every exit cleans up;
* reader: the output has no gap, and exit code 0 means it is complete;
* wait: it gives up on time, and sees the pool when it is there.

## 2. Modules

| module | models | notes |
|---|---|---|
| `PoolConfig` | configuration | operators on a configuration record; `BuildAccepts`, `BuildUseChain` are the build script's copy |
| `Builds` | the configurations a build is given | its properties say what is true of every one of them |
| `Entropy` | symbolic bytes | a fetch is a record (attempt, tick, slot, device), a digest the tuple of what was hashed, so SHA3-256 is taken as injective; `RoundEntropy` is the comment of `do_round_chain` as a predicate |
| `EntropyChain` | what a pool promises | abstract: rounds are emitted or the call fails; no devices, workers, rebinding. In raw passthrough a call that fails may leave a torn buffer (`Spill`, `Tear`), one that succeeds may not |
| `Pool` | entropy pool | implements `EntropyChain` under `open <- IsOpen, chain <- state, last <- used, owed <- buf` |
| `Fillable` | `pool::fillable` with `list_readers` and the PC/SC context | reader by reader |
| `CardKinds` | what a card is | the lengths each applet answers |
| `Iso7816` | smart card source | open, probe, read |
| `Infnoise` | infnoise source | open, read loop, `list_paths` |
| `Source` | what a pool relies on in a slot | abstract: opened, delivering, disturbed |
| `Slot` | `Slot` of `pool.rs` | composes `Iso7816` and `Infnoise` by kind; implements `Source` |
| `Cryptoki` | what the module promises | abstract: each call takes effect at one moment, on a table handle -> thread |
| `Provider` | PKCS#11 module | implements `Cryptoki`; its devices answer any way they like |
| `Client` | what the tools share | loading, setting up a session, signals |
| `Seeder` | p11rand-seed | extends `Client` |
| `Reader` | p11rand-read with stdout's line buffer | extends `Client` |
| `Tools` | a run of either of these two | composes `Seeder` and `Reader` |
| `Waiter` | p11rand-wait | extends `Client`, composes `Fillable` as the query under way |
| `ConfigProofs` | theorems about `Builds` | |
| `PoolProofs`, `PoolRounds` | theorems about `Pool`: names, types, and that enough devices are enough; rounds, that it implements `EntropyChain`, and that no call turns in circles | |
| `ProviderProofs`, `ProviderRefines` | theorems about `Provider`: its invariant, and that it implements `Cryptoki` | |
| `SlotProofs` | theorems about `Slot`: cards, nodes, the listing of nodes, and that both sources implement `Source` and never turn in circles | |
| `ToolsProofs` | theorems about `Tools`: p11rand-seed and p11rand-read | |
| `WaiterProofs` | theorems about `Waiter`: its types, its clock, its exits, the answers of `Fillable` | |
| `MC...` | constants and configurations for TLC | |

State and actions follow the code. In `Pool`, `slots`, `state`, `buf`, `tick`,
`scratch`, `hOut`, `hState` are the fields and locals of the same names (`t`
is `tick`, `i` is `idx`), `pc` says where the caller's thread is, `pending` is the
set of workers not yet finished. `Worker(i)` may run in any order; `Join` waits
for all of them; `Absorb`, `Recover` and `ChainRetry` are the index loop;
`Commit` is the only step that writes `state`. `dev` is what each device name
stands for at the moment: absent, enumerated but not opening, or usable. A
handle whose device changed is Dead, and a slot that was closed is Empty.
`att`, `used` and `calm` are history variables and no guard reads them, except
that a fetch is stamped with `att`. `out` is what the caller's buffer holds, chunk
by chunk: whole rounds with the chain; in a raw build the bytes of one read, or,
after a read that failed half way, some bytes of that read over what was there
before (`RawSpill`, `Overwrite`): `Slot::read` gets the caller's buffer itself
(`pool.rs:372`) and fills it piece by piece (`iso7816.rs:263-271`,
`infnoise.rs:103-105`).

In `Provider`, a step is what runs between two pieces of device work under the
mutex: `Entering` actions take the mutex and do the checks, `Inside` actions
are the answer of a piece of device work and what the function does with it.
`holder` is the mutex. Sessions remember the thread that opened them (`by`),
which is what a handle is mapped to in `Cryptoki`. `th[t].k` is the one local
a function keeps across device work: the free index of `C_OpenSession`, the
count of `C_GetSlotList`, the index of `C_GenerateRandom`. Null pointers and
missing flags are the second alternative of `Call`. `refs` is the count of
users of the PC/SC context in `iso7816.rs`.

In `Slot`, the two sources share the variables that mean the same in both (`pc`,
`live`, `left`, `result`), `kind` says which of them it is. In `Iso7816`,
`chunk` is `max_chunk`, `app` the applet being probed and then chosen, `sel` the
one the card has selected, by whichever process. Closing a slot drops its `pcsc::Card`,
which resets the card to its default application (`Close`); a failed probe leaves
the card as it is (`OpenFails`). In `Infnoise`, `buffer` says
which byte of the driver's stream is in which place of the caller's buffer, so
a gap, a repetition or a byte that was never written shows. `dir` is a listing
of `/dev`, `paths` what `list_paths` makes of it; an entry that could not be read is
in the listing and is dropped (`entries.flatten()`).

In the tools, `pc` is the place in `main`, and `Signal` is the handler, which
may run between any two steps: it kills before `install_signals`, then counts, and ends the
process at the second. In `Seeder`, the buffer is zero, torn, fresh or used, and
`kernel` is what was last moved into the kernel's pool. The environment may
answer every call of the module and every ioctl in every way, so the state space is finite
without a bound.

In `Reader`, a character is <<g, k>>: the k-th one of the g-th call that
succeeded. `rest` is what `write_full` has still to write of this chunk, `acc`
what stdout took, the first `sent` of it has left the line buffer. Rust's
`LineWriter` is external and modelled by what it does to a chunk: without a
newline byte it is collected if it fits (`Collect`), else what is held is flushed
first (`Flush`); with one, everything up to the last newline goes out directly and may be
written short (`Direct`). Whether raw bytes contain a newline byte is a choice,
hex digits never do. `fd` is what stdout leads to: working, stalled (a pipe
nobody reads), full, or closed. At the end, `make_room`, `newline` and `push` are
the newline after hex digits, and `exit` the runtime's flush after `main`. In the
endless stream, `Forget` renumbers the calls when a whole one is out, so that a
stream of any length is a finite loop of states; no code corresponds to it.

In `Waiter`, each query (the one in `C_Initialize` and one per poll) runs step by
step as `Fillable`, whose `pc` is `at` here, so devices, pcscd, the clock and
signals move while it is under way. Time is counted in ticks from the first poll
on: a `Sleep` takes `Interval`, a poll up to `MaxPoll`. `ctx` is the PC/SC context:
after `Restart` it is stale, and only C_Finalize would help. Two history variables,
`ever` and `always`, keep which cards would have opened and which nodes existed at some
moment, and at every moment, of the query: what its answer is judged by.

## 3. Runs

| run | asks | states |
|---|---|---|
| `pool_config` | 324 configurations: `BuildAgrees`, `RawIffOneFetch`, `TicksTight` | 324 |
| `pool_cards` | two cards, two ticks, three readers: `DistinctNames`, `TickDistinct`, `CalmSucceeds`, `ChainSpec`, `NoCircles`, `Terminates` | 326 k |
| `pool_mixed` | one card, one infnoise with twice the quota, the same names in both kinds: `CalmSucceeds`, `ChainSpec` | 322 k |
| `pool_raw` | the default build, with torn buffers: `CalmSucceeds`, `ChainSpec` | 39 k |
| `slot` | six kinds of card, a node: `ProbedCardReads`, `ProbeFinds`, `WholeBuffer`, `InNumericOrder`, `SlotSpec`, `NoCircles`, `Terminates` | 15.4 k |
| `wait` | two cards and a node, with and without a timeout: `Truthful`, `PunctualTimeout`, `CleanExit`, `Ends`, `EventuallySees` | 732 k |
| `tools` | `FreshOnly`, `DeniedForGood`, `Stream`, `SuccessIsWhole`, `CleanExit`, `StopsOnSignal` | 43.9 k |
| `fillable_respond` | violated: `AllRespond` | |
| `iso7816_fixed`, `iso7816_applet` | violated: `FixedLeUsable`, `UnsupportedIsTrue` | |
| `reader_output` | violated: `DeliversAll` | |
| `provider` | `Balanced`, `NoOverrun`, `ApiSpec`, `Released` | 360 k |

Each module's `TypeOK` is checked by one of these runs. For each property of
a passing run there is a mutant of a definition, defined just before it under
the name `<definition>_<what is wrong>`, which violates it; the mutants are not
part of the specifications.

Four runs end in a violation, on purpose: the code does something other than
a comment or the usage text says.

* `fillable_respond`: an infnoise node that exists and does not open counts as
  a source (`pool.rs:228-233`), though p11rand-wait reports "all configured
  N+M devices are present and respond" (`p11rand-wait.rs:4-6`).
* `iso7816_fixed`: a card with a fixed Le of 16, 32 or 64 fails the 8-byte
  probe (`iso7816.rs:184`), though the comment on `max_chunk` says the halving
  makes such cards work (`iso7816.rs:118-120`).
* `iso7816_applet`: a card whose default application answers GET CHALLENGE is
  `Unsupported` once another applet has been selected on it (`iso7816.rs:230`),
  though `Unsupported` is said to mean that none of default, PIV and OpenPGP
  answers (`iso7816.rs:22`).
* `reader_output`: `p11rand-read -x -n 32 module.so > /dev/full` exits with 0
  though nothing was written. The text stays in stdout's line buffer, `main`
  returns without a flush (`p11rand-read.rs:240`), and the runtime drops the error
  of its own. The usage text says "-n BYTES   total bytes to output"
  (`p11rand-read.rs:31`). What does hold is `SuccessIsWhole`: stdout took it all.

### Bounds, and why they are enough

* `Names`: three readers for two card slots, so that one slot can be rebound to
  a spare device, or to the one the other slot let go, or find none. Two names
  for each kind when there is one slot of each.
* `MaxFaults` (environment events in a behaviour; 3, 2 and 4 in the pool runs):
  three let both slots lose their device and a rebind fail as well.
* `MaxCalls` (calls of read; 2 or 3): a call after a failed call sees what the
  failure left behind.
* `Lens`: a buffer of 33 or 40 bytes needs two rounds and a cut last chunk, 0 is
  the empty read. In the raw run 3 bytes: one torn read can be longer or shorter than
  the next.
* `Slot`: lengths of none, one and several chunks; three events; six cards that
  differ in what they answer; node reads of 0, 1 and 3 bytes, where three is
  enough for two short reads. `MaxIndex` (the largest u64; 50) is small so that a number beyond it is
  in the listings, with two names of one number and names that are no nodes.
* `Tools`: `Request` is 3 bytes and `Room` 12 characters: 256 and 1024 in the code,
  the same ratio, so a line buffer is full after four raw or two hex chunks.
  `Totals`: the endless stream, less than a call, a cut second call, three calls.
  Three characters are the fewest with a first, a middle and a last one.
* `Waiter`: two cards of two readers and a node; two events (a device goes and comes
  back, or two devices); a timeout of 3 ticks with an interval of 2, so that it ends between two polls
  and on one; a poll as long as the interval; `NoTimeout` (10000) marks none.
* `Provider`: two threads and two sessions are the smallest table that two
  threads can fill, fight over and find full; nothing else is bounded.
* the configurations of the pool runs are the three shapes of the algorithm:
  raw, several sources of one kind with oversampling, both kinds with different
  quotas.

### Fairness

`Pool`, `Slot`: weak fairness of the steps of a call under way. The thread is
not suspended for ever, and a device operation ends, with an answer or an error:
PC/SC and the infnoise driver time out. Nothing is assumed of the environment or
of the caller. `Provider`: weak fairness of device work under the mutex, which
the runs above justify; entering is not fair, since `std::sync::Mutex` promises
no order, so what is shown is that nobody keeps the mutex, not that each
thread gets it.

`Tools`, `Waiter`: weak fairness of main's steps; the module and the kernel answer,
sleeps end. The output is not assumed fair, a pipe may be stalled for
ever, and `StopsOnSignal` says so: `write_full` and the flushes try again when a
signal interrupts them, so one signal ends p11rand-read only if the output is
not stalled for ever (a second one ends it always). `EventuallySees` has a
condition as well: the PC/SC context is not stale. After a restart of pcscd
p11rand-wait polls with a dead context, is answered "no readers" each time, and never
sees the pool come back. `Ends` has none: a timeout or a signal is enough.

Three hazards lie outside these assumptions and no passing property catches them: a
device that never answers, which keeps the mutex (`Released`, `Terminates` assume that
device work ends); a stalled output (`StopsOnSignal` excludes it: without the condition it fails,
against `p11rand-read.rs:9-10`, where the first signal is said to end the tool); and a stale context (`EventuallySees` excludes it). `Truthful`
takes the "false" of a stale context as true: no reader could be listed.

## 4. Proofs

`PoolProofs` proves, for every configuration that validates, every finite set of
names and every value of the bounds:

* `TypeCorrect == Spec => []TypeOK`. The invariant `TypeInv` adds that `idx` is a
  slot wherever the code indexes with it and that a slot has a name exactly
  when it holds a source.
* `NeverTwice == Spec => []DistinctNames`. The inductive invariant `NamesInv`
  adds what makes opening work: while a scan of names is going on, a name still
  to be tried is taken by no slot below `idx` of that kind (the loop of `open`
  passes each name once) and slots from `idx` on are empty; while rebinding,
  the slot being rebound has no name.

* `EnoughSucceeds == Spec => []CalmSucceeds`: while nothing happens, as many usable
  devices as slots are enough for every open and every read, whatever bindings
  earlier failures left behind. A call under way that fails would have tried
  every name in vain. `CalmInv` adds to `NamesInv` that, in an undisturbed call with enough
  devices, each usable device passed over is held by another slot of the kind
  (`Accounted`). With no name left to try, that puts all of them into one slot
  fewer than the configuration has, which is one too few (`Fewer`,
  `NoneLeft`: the pigeonhole principle, over names and slots of any number).

The proof has one step per action; `vars`-preserving facts of the helpers
(`Return`, `Rebind`, `Fault`) are lemmas.

`PoolRounds` builds on it and proves what a caller gets:

* `DifferentSources == Spec => []TickDistinct`.
* `ImplementsChain == Spec => ChainSpec`: `Commit` is the abstract `EmitRound`, a raw
  read that succeeds is `EmitRaw`, errors are `Fail`, and workers, joins, rebinding
  and changes of devices are stutters. In a raw build the first read, if it fails, is `Tear` or a
  stutter and the retry, if it fails, a `Fail` with `Spill`: what a caller may
  rely on after an error is the state of the pool, not the buffer (`RawFresh`,
  `OverwriteHead`, `RawSpillMaps`).

The argument is about `Part(e, s, tk, ix, a)`: `e` is the round entropy of attempt
`a` up to, and without, the fetch of slot `ix` in tick `tk`, and the fetches of
this tick are from the devices that the slots `s` still have. Lemmas without
state say how a part grows: it is empty at (0, 0), a slot past its quota is
skipped, the fetch of the next slot is appended, a tick ends, and a part that
reaches the end of the last tick is a whole round (`PartEmpty`, `PartSkip`,
`PartAppend`, `PartNextTick`, `PartWhole`). `PartFrame` is why rebinding is harmless: the
slots before `idx` keep their device until the tick is over, and `NamesInv` keeps
the device chosen for `idx` different from theirs.
The inductive invariant `RoundInv` joins three facts: `NamesInv`; `FlowInv` (a
result is pending exactly during a call, the attempt is not yet used, `hState` is
zero outside a round); and `RoundOK`: both hash contexts hold the same part
after their separators and the old state, and what a worker left for a slot not
yet absorbed is of this tick and from the device its slot still has (a slot being
rebound has nothing there, or a stale fetch would be mixed in).

* `CallsEnd == Spec => NoCircles`. `Due` is what a call has still to do: bytes of the
  buffer, ticks of the round, slots of the tick, turns at the slot, in this order. While the
  devices stay as they are, each step of a call lowers it in the order of
  dictionaries, and a change of the devices does not touch it. All four numbers
  are naturals, so no sequence of failures, rebinds and changes of devices
  keeps a call going for ever. It is the safety half of `Terminates`, for every configuration; what
  TLC adds is that a call under way always has a step to take.

The only assumption of both modules is `PoolAssumption`: the configuration is
valid, names are naturals in a finite set, bounds are naturals.

`ProviderProofs` and `ProviderRefines` prove, for any set of threads, any
positive size of the session table, and with or without cards:

* `Inductive == Spec => []IInv`. `IInv` says what the mutex is for: a thread that
  is at a piece of device work still has what it checked when it entered. A
  thread opening a pool has an index whose entry is free (`C_OpenSession` chose
  it before `Pool::open`), one reading has an open session, one listing has the
  count of the slots as they still are, one initializing holds the PC/SC context
  of a module not yet initialized (`StageOK`). None of this is inductive without
  the last conjunct of `TypeOK`: the thread at device work is the one that holds
  the mutex.
* `TypeCorrect`, `ContextBalanced == Spec => []Balanced` and
  `ListFits == Spec => []NoOverrun` follow from it.
* `ImplementsCryptoki == Spec => ApiSpec`. An answer (`Reply`) is the moment the
  abstract call takes effect, device work (`Hold`) and entering are stutters;
  there is a lemma per kind of call (`...Steps`), each of which derives the guard
  of the abstract action from `Verdict` or from `StageOK`.

A step of `Provider` either answers or goes on to device work, and both leave the
other threads alone, so the lemmas per action only speak of the thread that
moves and of the shared state (`AfterReply`, `AfterHold`). The only assumption is
`ProviderAssumption`: the table has an entry, and the mark for "no thread" is
no thread.

`ConfigProofs` proves the three properties of `Builds` for every set of configurations
with fields of the right types, where the run tries 324: `BuildIsConfig`, `RawIsOneFetch`,
`LoopIsTight`. The steps that need the division by 32 are in one lemma
(`Fetches`), the rest is arithmetic on four numbers.

`SlotProofs` proves, for every set of cards, every length and any number of
events:

* `TypeCorrect`, `ProbedCardsRead`, `BuffersWhole`. The invariant `IInv` is `CardInv` or
  `NodeInv`, whichever the slot is. Both hold `Reached`: a handle that nobody
  disturbed reaches its device. `CardInv` adds that an undisturbed open card
  still answers 8 bytes and that the chunk is not below 8; it is inductive since halving one
  of 128, 64, ..., 16 gives no less than 8, and 8 is answered (`Halving`). `NodeInv` adds
  `Gathered`: the part of the buffer that is done holds bytes already handed out, in rising order.
* `SearchComplete == Spec => []ProbeFinds`, from the invariant `Search`: what was
  passed on the way to the applet of the moment is mute (`Passed`), and what is
  open serves.
* `Refinement == Spec => SlotSpec`: each step of either source is a step of `Source`
  or a stutter (`CardImplements`, `NodeImplements`, one lemma per abstract action).

* `ListedInOrder == Spec => []InNumericOrder`. The number of a node is read digit by
  digit. That it is a number needs an induction, made by the least
  counterexample: `NatLessThanWellFounded` and `WFMin` give a first prefix whose value is
  none (`LeastNat`, `ValueType`). The place of a node in the list is its rank, and
  ranks are a bijection onto 1 .. n that respects the order (`Ranking`, `Ranks`,
  `SortedInOrder`), so nothing is lost or listed twice.
* `ReadsEnd == Spec => NoCircles`: each answer and each refusal leaves fewer applets to
  try, fewer bytes to fill, or as many bytes and a smaller chunk; nothing else that
  happens touches these three. `CardInv` is needed for the chunk, which is above zero.

Assumed is `SlotAssumption`: cards and listings have their types, bounds are
naturals.

`ToolsProofs` proves, for every size of a call, every line buffer that holds two
calls or more (`ToolsAssumption`), and every `-n`:

* `KernelGetsFresh`, `CreditStaysDenied`, from `SeedInv`: at "insert" the buffer is
  fresh, and a refused credit has set `no_credit`.
* `SuccessMeansWhole`, `ExitsClean`, from `ReadInv`: how many characters stdout has taken
  at each place in `main` (`Counts`) and what is still held at each (`Clean`).
* `StreamInOrder`, from `InOrder`: the character at place j of the output and of
  the rest of the chunk is `Pos(j)`, the quotient and the remainder of j - 1 by the length of a call. A
  short write moves the border between the two sequences and nothing else; `Forget`
  shifts quotients by one. This needs a cut last call to be the last one, which is
  in `Counts`.
* `TypeCorrect`, from `Typed` and the above.

`WaiterProofs` proves, for every configuration, any number of readers, every interval
and timeout (`WaiterAssumption`):

* `GivesUpOnTime`, `ExitsClean`. `ClockInv` says that the tool sleeps only before the
  timeout, so that a poll begins less than one interval after it; `EndInv` why it is at
  "finalize".
* `AnswersTruthful == Spec => []Truthful`, whatever devices and pcscd do meanwhile.
  `QueryInv` says that, of the readers tried so far, no more are counted than would have opened at
  some moment of the query and no fewer than would have opened at every one (`Tried`); when the loop ends, early or not, this speaks of all
  readers. There is a lemma per step of the query and one for the world (`BeginAnswers`, ...,
  `WorldAnswers`).

* `TypeCorrect`. `Typed` adds to `ClockInv` and `EndInv` what the tool holds of the
  module and the state of the query, whose count never passes the number of cards asked for
  (`QueryTyped`).

Only model-checked: liveness (`Terminates` of `Pool` and of `Slot`, `Released`,
`StopsOnSignal`, `Ends`, `EventuallySees`), which with ENABLED is out of the prover's reach.
For `Terminates` the variants above are proved, and what is left to TLC is that a
call under way can always step. Every invariant, action property and refinement
of a passing run is a theorem.

What a function computes from its whole input is proved where a least
counterexample can be written with sets, as for `Value`. The induction theorems
that take the statement as a parameter cannot be used with these provers. No
module here declares a RECURSIVE operator, so that each may be proved about.

## 5. Not modelled, and why

* The contents of info structures, labels, slot names, logging: text.
* The interface tables and stubs (`lib.rs:539-1064`): constants.
* APDU encoding, `read_atr`: byte layout with no state.
* SHA3-256 itself: taken as injective. Entropy estimates: not a matter of
  behaviours.
* `C_GenerateRandom` with a null buffer and length 0 (`lib.rs:505`): a slice from
  a null pointer is outside a model of values.
* Parsing of options; among the values let through are `-t nan` and `-t inf` of
  p11rand-seed, which panic (`p11rand-seed.rs:87`, 141), and `-t nan` of p11rand-wait, which waits for
  ever (`p11rand-wait.rs:47`). A tick is never a NaN.
* The hex digits in the temporary buffer of `write_hex` (`p11rand-read.rs:92`): what
  `CleanExit` says of wiping is about `main`'s buffer, the one `p11rand-read.rs:238-239` wipes.
* p11rand-list, p11rand-test: straight-line programs that print what the module answers.

## 6. Plan

In this order:

1. `PoolConfig`, `Entropy`, `EntropyChain`, `Pool`: done, the core.
2. `PoolProofs`, `PoolRounds`: type correctness, `DistinctNames`, `TickDistinct`,
   `ChainSpec`: done.
3. `Cryptoki`, `Provider`, `ProviderProofs`, `ProviderRefines`: done.
4. `Fillable`, `Iso7816`, `Infnoise`, composed as `Slot` and refined to `Source`;
   `SlotProofs`: done.
5. `Client`, `Seeder`, `Reader`, composed as `Tools`; `ToolsProofs`: done.
6. `Waiter` over `Fillable`, with a PC/SC service that restarts; `WaiterProofs`,
   `ConfigProofs`: done.
7. `CalmSucceeds`, the listing of nodes, the types of `Waiter` and the configurations as
   theorems; variants for the calls of `Pool` and `Slot`: done.
8. Left: variants for the tools (`Waiter`, `Reader`) and for `Provider`; `Pool` with
   a `Source` in each slot, instead of its own `dev`; p11rand-list and p11rand-test
   if they ever keep state.
