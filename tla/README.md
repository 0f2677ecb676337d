# Verification of sysprims-pty

TLA+ models of the process-lifecycle code of `sysprims-pty`, a fork of
portable-pty. The fork adds a *contained* spawn: the child is placed in a session
(Unix) or a Job (Windows) of its own before its program runs, and an error after
the child was created never loses it. TLC checks the models on small instances;
TLAPS proves the main safety results for every value of the constants. Paths below
are relative to the repository's crate directory (`src/lib.rs` etc. are
`src/src/...` in `PROJECT.json`).

## 1. Inventory

| component | state | operations | hard behaviour | what makes it correct |
|---|---|---|---|---|
| **Exact-child recovery** `lib.rs:85-378` | command channel, `pending` flag, the worker's `Option<child>` | prepare, attach, `recover()`, drop; worker loop, SIGHUP/grace/SIGKILL | two threads, timeouts that leave stale commands queued, drop in the middle, signals refused, waits that fail, an exit code that reads as "running", a worker that unwinds | the child always has exactly one owner; `true` and a lowered flag mean "reaped"; after the drop the child is reaped and the thread ends, unless the child is out of reach |
| **Unix spawn** `unix.rs:26-72, 156-181, 232-475` | descriptors with and without close-on-exec, the forked child, std's error pipe | `openpty`, `spawn_command`, `spawn_contained_command`; the child's `pre_exec` | fork of a multi-threaded program: the child inherits other threads' descriptors and a held allocator lock | programs run only in their own session; guards and errors are truthful; every spawn returns |
| **Child handles** `lib.rs:484-515, 642-822`, `win/mod.rs:49-143` | pid or handle, cached status | `try_wait`, `wait`, `kill`, `clone_killer` | killer and owner on two threads, pid reuse, ignored SIGHUP, exit code 259 | a status is final, a successful `kill` kills, `wait` returns |
| **Pseudo console** `win/conpty.rs`, `win/psuedocon.rs`, `win/mod.rs:25-47` | `Mutex<Inner>` (console, size, writer), the suspended child, its Job | `resize`, `get_size`, `take_writer`, both spawns | suspend counts other processes can change, partial failure with the mutex held, poisoning, `u16`→`i16` | nothing that the crate alone resumes runs outside its Job; size and console agree; the mutex comes back |
| **Windows future** `win/mod.rs:145-169` | handle table of the process, waiter threads | `poll`, waker | a raw handle value used after it was closed | never ready too early, no handle leaked, completes |
| **Unix streams** `unix.rs:74-110, 441-564` | `took_writer`, the ends of the pty, the line discipline's input | `try_clone_reader`, `take_writer`, write, read, drop | newline + VEOF on drop, full queues, mode changes in between, hang-up | input, then end of file; readers end; the drop returns |
| **Contract of a contained spawn** `lib.rs:48-83, 523-536` | child, boundary, answer | `spawn_contained_command` of both platforms | every stage may fail, the child may die, be suspended or be resumed by others at any moment | what runs is contained, a resolved child is gone, each answer says the truth about the child |
| **CommandBuilder** `cmdbuilder.rs:1-660` | map of variables keyed by folded name, arguments, directory | `new*`, `arg`, `env*`, `cwd`, `as_command`, `environment_block`, `current_directory`, `search_path` | sequential; process, registry, password database and the caller's calls compete for the same names; parent searches, child executes | the child sees what the calls said, and runs what a shell in its place would as long as PATH is set |
| **Command line** `cmdbuilder.rs:663-737` | the quoted command line | `cmdline`, `append_quoted` | backslashes before quotes | the program sees the caller's arguments |
| **Serial tty** `serial.rs` | one shared port | open, clone, read, write, `wait` | no process; readers compete, Windows lets reads and writes take turns, the device goes away and comes back | nothing ends while the device is there, everything ends when it goes |
| Traits and plain types, build and release scripts, examples | - | - | - | not modelled |

How they interact. `CommandBuilder` describes a program; a `SlavePty` spawns it and
returns either a child handle (legacy) or a guard of the `sysprims-timeout` crate
(contained). A contained spawn first starts the recovery worker; if it fails after
the child exists, the child is sent through the channel to the worker and the
`ContainedPtySpawnError` keeps the other end. On Windows all of that, the first
two-second recovery attempt included, runs with the pty's mutex held, so it
delays `resize` on other threads. Reader, writer and child hold ends of the pty
independently; the last one to close decides when the others see the end.

The hazards, each at its line and with the properties that watch it, are in
`PROJECT.json` under `hazards`.

## 2. Modules

| module | models | checked by | proved in |
|---|---|---|---|
| `OsProcess` | one operating-system process behind its exact handle: alive, dying, exited, reaped, or lost (collected elsewhere) | extended by the two below | - |
| `ExactChildCustody` | the abstract promise of recovery: owned until reaped, `true` only then | refinement target | - |
| `FailedChildRecovery` | controller thread, channel, worker thread, `kill` with its grace polls | 3 runs | `FailedChildRecoveryProofs` |
| `UnixSpawn` | concurrent spawns: parent steps, fork, child steps, error pipe | 3 runs | `UnixSpawnProofs` |
| `ContainedSpawn` | the abstract contract: what the answer of a contained spawn tells about the child | refinement target of `UnixSpawn` and `ConPty` | `UnixSpawnProofs`, `ConPtyProofs` |
| `ChildHandle` | owner and split-off killer of a legacy child, both platforms | 1 run | `ChildHandleProofs` |
| `ConPty` | pseudo console, mutex, contained spawn with Job and resume | 1 run | `ConPtyProofs` |
| `WinFuture` | `poll`, the waiter threads and the handle table | 1 run | `WinFutureProofs` |
| `UnixPty` | writer, readers, ends, line discipline | 1 run | `UnixPtyProofs` |
| `SerialTty` | a serial port: ends, child, readers, writer, device | 1 run | `SerialTtyProofs` |
| `CommandLine` | operators: quoting, and the reference argument parser | extended by the next | `CommandBuilderProofs` |
| `CommandBuilder` | the builder's calls, the base environment, the conversions and what the started child gets, both platforms | 1 run | `CommandBuilderProofs` |

Each `MC...` module only names model values and small sets. Definitions whose name
ends in `_Something` after a definition of the same name (`Read_Short`,
`Assign_Resumes`) are *deviations*: plausible mistakes in that code, used by no
specification; substituting one for the real definition violates the property
listed beside it under `mutants`.

Correspondence of state. In `FailedChildRecovery`, `queue` is the `mpsc` channel,
`pending` the `AtomicBool`, `held` the worker's `child.is_some()`, `cpc`/`wpc` the
threads' program counters, `reply` the per-attempt response channel (a late answer
to an attempt that timed out is lost because its receiver is gone). In `UnixSpawn`
each thread `t` has its own pty, error pipe and child; `kept` and `pipes` are the
part of the child's descriptor table that matters; `lockAtFork` is the child's copy
of a lock that another thread held. In `ConPty`, `mutex`/`poisoned` are the
`Mutex<Inner>`, `size` is `Inner.size` (a `u16`), `console` the `COORD`'s `i16`,
`suspends` the kernel's suspend count, `foreign` the part of it that another
process holds. `broken`, in `ConPty` and in `ContainedSpawn`, is a history variable:
the calls that were let down from outside, because a process resumed their child
unasked or the guard could not end the Job. In `FailedChildRecovery`, `code259` says
that the child ended with the exit code `STILL_ACTIVE`. In `ChildHandle`, `pid` says whom the number
names now. In `UnixPty`, `line` is the unfinished line and `ready` the lines the
program may read, an empty one being end of file, and `altered` is a history
variable: the program left canonical mode at some time. In `SerialTty`,
`holders` are the clones of the `Arc` (and the readers' duplicates) that keep the
port open, `lock` is the one I/O at a time that a synchronous Windows handle
allows. In `CommandBuilder`, `envs` is the map with its folded keys, `edits` a
history of the calls on the environment, from which the properties compute what a
name should say without the map; `command` is what the conversion hands to the
operating system and `child` what a process gets from it; paths are sequences of
names, and a value of a variable is the sequence of paths that `split_paths`
yields. `map` in `PROJECT.json` names the source lines of every definition.

Composition. `ContainedSpawn` is the seam between the parts: `UnixSpawn` and
`ConPty` implement it under the refinement mappings `ContractChild` and
`ContractAnswer` (`contained` is the session on Unix and the Job on Windows), and
an answer `failed` of the contract is where `FailedChildRecovery` starts with the
child it was given. An answer `resolved` (stage Resume) promises a child that is gone
(`lib.rs:80-81`); the contract promises nothing for a broken call, and a Unix spawn
never breaks one. `CommandBuilder` extends `CommandLine`; the panic of its path
search on Windows is an action of `ConPty` (`SearchPanics`), because it happens with
the pty's mutex held. `ChildHandle` and `FailedChildRecovery` share `OsProcess`.

Modelling decisions that matter:

* Everything outside the crate (std, libc, kernel, sysprims crates) is an action or
  operator marked external, and it may fail wherever the code checks for failure.
* Timeouts are nondeterministic: a two-second or 250 ms deadline may expire at any
  moment, also when the answer is just arriving. The only counted time is the
  number of grace polls.
* Operations that the code runs between two observable points are one step;
  `kill` is split at every system call because another thread may act in between.
* Test-only fault injection (`#[cfg(test)]`) is left out; the faults it injects
  are ordinary choices of the model.
* Another process may suspend a contained child's thread on Windows and take its own
  suspension back (`ForeignSuspend`, `ForeignResume`), and it may resume one that is not
  its own (`UnaskedResume`), so that `ResumeThread` finds a previous count of 0, 1 or
  2. `SuspendedThread::resume` takes only 1 for success (`win/mod.rs:39-42`). It calls
  itself "the sole primary-thread resume authority" (`win/mod.rs:34`): what is promised
  for a child depends on nobody else using that authority, and each property says so.
* The `PtyPair`'s master can be sent to another thread but not shared (it is not
  `Sync`): only the callers in `Masters` resize and take the writer, every caller spawns.
* Exit codes are reduced to "259" and "any other", characters to five classes,
  output to a count.
* `execvp` and a shell look a bare name up in the child's PATH, and on the system's
  standard path when PATH is not set (`Here.standard`); `search_path` does not.
* `Lower` is `map_key`'s folding, which leaves names that are not Unicode as they are.
* `CommandBuilder` is explored from six surroundings (`Scenes`) that name the
  variables, files and calls of interest; what a child makes of its command
  (execvp, the reference argument parser, the environment block's end) is external.

## 3. Runs

| run | question and bounds | result |
|---|---|---|
| `recovery_unix` | 3 `recover()` calls (one served, one stale and one fresh attempt in the channel), 5 grace polls; the child may change credentials, and it may be collected elsewhere because the program ignores SIGCHLD | one owner at any time, honest flag and answers, signals only to a pinned pid, `attach` never aborts; implements `ExactChildCustody`; after the drop the child is reaped and the thread ends unless the child got out of reach |
| `recovery_windows` | `TerminateProcess`, refused while terminating; exit code 259; `GetExitCodeProcess` may fail; `DuplicateHandle` may fail and unwind the worker | the flag stays up after an unwound worker; recovery completes unless the worker unwound or the child ended with 259 |
| `recovery_windows_discard` | same | *violates* `NeverDiscarded` (finding) |
| `unix_spawn` | one contained spawn with a controlling tty beside one legacy spawn, every interleaving of 11 parent and 9 child states, other threads holding the allocator's lock | session and error properties, `ContainedSpawn` implemented; only a legacy child stuck on the inherited lock keeps a spawn from returning |
| `unix_spawn_legacy_failure` | two legacy spawns | *violates* `FailureIsReported` (finding) |
| `unix_spawn_leak` | two contained spawns | *violates* `NoLeakedEnds` (finding) |
| `handles` | both platforms: one owner, one killer, 5 grace polls, SIGHUP ignored, credentials changed, pid recycled, status collected elsewhere, exit code 259, killers without a handle, a handle that cannot be duplicated | `kill` truthful, status final, SIGKILL never reaches a recycled pid, a blocked `wait` returns |
| `conpty` | two threads, one with the master, sizes 120 and 40000 (negative as `i16`), panicking search path, Jobs that do not end, one foreign suspension per child and any number of unasked resumes | `ContainedSpawn` implemented, failed assignments never run, agreement of sizes, mutex always released |
| `unix_pty` | two readers, two characters, a queue of one line so that the newline of the drop can block, three terminal modes changed at any time, failing `dup` | the drop returns, readers drain and end; in canonical mode end of file arrives and comes last |
| `win_future` | two handle values, two waiter threads, spurious polls, exit code 259 | ready only after the exit, no handle kept, completes unless a waiter strayed |
| `serial_tty` | both platforms: one child, two readers that compete, one writer; the device sends, changes its carrier, is unplugged and plugged in again at any time | nothing ends while the device is there, everything that waits notices the unplugging, writes return |
| `command_builder` | six surroundings, up to three calls on the builder: Unix with a good, a useless and no password entry, Windows with and without registry, and all pairs of arguments of up to 3 of {ordinary, blank, quote, backslash}: every parity of backslashes before a quote and at the end | the child's environment is `get_base_env`'s with the calls on top; it runs the file a shell in its place would run while PATH is set, and nothing by a bare name when it is not; arguments survive the round trip |

Where the code keeps its promise only under a condition, the property names the
condition instead of the model leaving the case out: `OutOfReach` in the recovery
properties, `broken` in `ConPty`, `altered` in `UnixPty`, `~code259`, `deaf` and the empty killer in
`ChildHandle`, `Stuck` in `UnixSpawn`, `[]Strayed` in `WinFuture`, `~modem` and `mute` in
`SerialTty`, `LooksUpAsAShell` and `NulFree` in `CommandBuilder`.

What such a condition exempts is not caught by the property, and `hazards` says so:
`OutOfReach` (the child refuses signals, was collected elsewhere, ended with code 259,
or the worker unwound) is where `FailedChildRecovery` does not keep
`lib.rs:306-307`.

Why these bounds are enough: threads interact pairwise (controller/worker,
owner/killer, two spawns, two callers of one mutex, two readers of one port), so
two of each exhibit every pairwise race; a third call on a builder can undo and
replace what two others did; counters are bounded just above the value at which behaviour
changes. Where a theorem exists, it covers all values anyway.

Deadlock checking is off where every actor may legitimately have finished, and each
such `.cfg` says so.

### Fairness

Threads that have begun a call go on (weak fairness on the worker, the controller's
call, the mutex holder, the waiter threads, a drop in progress). A process that was
killed with SIGKILL or `TerminateProcess` dies. In recovery, a query that could take the
status of an ended child again and again succeeds in the end (strong fairness on
`Collects`): on Windows `GetExitCodeProcess` may fail at any of the worker's queries,
each failure reads as "running" (`win/mod.rs:60-62`), and without the assumption it
could fail at all of them. In `ConPty` it is whoever holds the mutex that goes on, one
weak fairness for all callers, since at most one holds it. Never assumed: that a caller makes
another call, that a child exits by itself, that it gets killed, that a mutex is
granted fairly. One exception: in `SerialTty` reads and writes that wait for the
port on Windows get their turn again and again (strong fairness), which the kernel's
queue of requests gives, and a child in `wait` looks at the carrier line again. Two
further assumptions concern others: in `UnixPty` open readers read and
the program reads its input (`EofReachesSlave` and `DropReturns` are about such
programs; with a program that never reads, dropping the writer may block, because
`write_all` does), and in `WinFuture` an executor polls what was woken.

## 4. Proofs

| theorem | says | assumes |
|---|---|---|
| `TypeCorrect`, `CustodyInvariant`, `RecoverIsTruthful`, `FlagIsHonest`, `AttachNeverAborts`, `SignalsHitTheChild` | safety of recovery for any number of attempts and polls, both platforms, also after the worker unwound | `RecoveryAssumption` |
| `OnlyUnwindingDiscards` | one owner for the child until the worker unwinds | the same |
| `ChildNeverDiscarded`, `ImplementsCustody` | one owner always; `FailedChildRecovery` implements `ExactChildCustody` | `HandleFailure = FALSE` |
| `SpawnInvariant`, `SpawnTypes`, `OwnSession`, `FailuresAreReported` | safety of any number of concurrent contained and legacy spawns | `SpawnAssumption` |
| `ConPtyInvariant`, `ConPtyTypes`, `ContainedBeforeRunning`, `SizeIsTheConsoles` | containment (of children that nobody else resumed) and sizes for any number of callers and sizes | `ConPtyAssumption` |
| `ImplementsContract` (in `UnixSpawnProofs` and in `ConPtyProofs`) | both platforms implement `ContainedSpawn`, for any number of concurrent calls; on Windows other processes suspend and resume the children meanwhile, and the contract is void for a child resumed unasked and for one whose Job could not be ended | the module's assumption |
| `PromiseKept` (in both) | so every answer is true of the child, and, for calls not broken from outside, whatever runs after a contained spawn is contained and a resolved child is gone | the module's assumption |
| `HandleInvariant`, `KillIsTruthful`, `SigKillIsExact`, `StatusStays` | safety of child handles and killers on both platforms and for every grace period | `HandleAssumption` |
| `PtyInvariant`, `EofIsLast`, `EndOfFileIsTrue` | one writer, end of file after all that was written and after nothing else, no overflow of the kernel's queue, and no reader sees the end too early, for any number of readers and every bound | `PtyAssumption` |
| `SerialInvariant`, `OnlyUnplugEnds` | the port is open exactly while somebody holds it, I/O excludes itself, and nothing ends without a reason, for any number of children and readers | `SerialAssumption` |
| `FutureInvariant`, `ReadyIsTrue`, `NoHandleLeaks` | the future's safety for any number of handle values and waiters | `FutureAssumption` |
| `LineRoundTrips`, `RoundTrips` | the program's parser makes of a command line the arguments it was made of, for any number of arguments of any length and any characters but NUL | `CharsAssumption`; `BuilderAssumption` |
| `BuilderTypes`, `SeesEnvironment` | no variable twice under two casings; the builder and its child answer every name with what the last call said, else with the base value | `BuilderAssumption` |
| `RunsAsAShell` | with a PATH, or a program given by a path, and an absolute directory `search_path` and `execvp` together run what a shell in the child's place would, and fail only if it finds none; without a PATH a bare name is never converted | `BuilderAssumption` |

`HandleFailure = FALSE` (`DuplicateHandle` does not fail, as on Unix) is needed there: the run `recovery_windows_discard`
refutes `NeverDiscarded` without it. Where the program may ignore SIGCHLD
(`AutoReap`), `SignalsOnlyTheChild` itself makes the exception.
`BuilderAssumption` is about the surroundings: any variables, files, directories and
calls, but names of variables and the password database hold no NUL, the registry
has a name once whatever its casing, Unix has no registry, and files on Windows have
no quote or backslash in their names.

Arguments. The properties are not inductive alone, so each module has an `IInv`,
checked by TLC before it was proved; those of `CommandBuilder` (`BuilderInv`, `EnvInv`)
are in its proof module.

* *Recovery.* "One owner" needs to know where the child is while commands queue up:
  Adopt can only be the first command (`AdoptFirst`), while it waits the worker
  has served nothing (`ChannelInv`), before `attach` the worker only waits
  (`WaitingInv`), after it the flag goes down only together with the reaped
  child (`CustodyInv`), and a worker that unwinds holds the child, so that it leaves
  the flag up (`PanicInv`). A child that ended with code 259 is never reaped
  (`LooksAlive`). The step proof has one case per action; the queue lemmas
  are stated once.
* *Spawn.* The parent reads end-of-file on the error pipe; that means success only
  because a contained child keeps the pipe's write end until it runs or is dead
  (`PipeTellsAll`). This is exactly what the legacy closure breaks. Every
  thread's facts are preserved by other threads' steps (`OthersStep`) and by its
  own (one lemma per conjunct).
* *Pseudo console.* A child outside its Job still has the spawn's own suspension:
  unless somebody took it away unasked, its count is one more than what other processes
  hold (`Suspended`). A call that is not broken has ended its child before it answers
  Resume (`Resolved`). Sizes are
  equal except between the two steps of the mutex holder (`SizeInStep`), which
  needs mutual exclusion (`MutexExcludes`).
* *Future.* Only the poll under way has a handle of the child open.
* *Contract.* Each action of a platform is one step of `ContainedSpawn` or leaves its
  four variables alone; which step it is follows from the platform's `IInv`: a
  guard only for a contained child comes from the receipt (`PipeTellsAll`) on Unix
  and from `inJob` at adoption (`BeforeAnswer`) on Windows.
* *Handles.* Only a collected or discarded child gives up its pid (`PidInv`), and
  `status` stands for "collected" (`StatusInv`): `kill` reaches its SIGKILL stage
  only with an empty cache, hence with the child's own pid.
* *Unix streams.* A reader ends only when every slave end is closed and the output
  is read; without a slave end nothing can be spawned, and a child that is gone
  writes nothing (`EndsTypeOK`), so this stays true. The queue stays within its
  bound because a line is only begun when there is room for it (`RoomInv`). That end
  of file comes last needs to say where the characters are (`StreamInv`): what the
  program has read, then the lines in the queue, then the unfinished line are the
  characters written so far, in order, and the empty line of the VEOF is the last one
  in the queue.
* *Serial.* `EndsMeanUnplugged` is kept because `gone` falls only when the port is
  opened anew, which needs that nobody holds it, and the holders are counted exactly
  (`TypeOK`): a child or reader that ended still holds it.

* *Command line.* An escaped argument is followed through the parser character by
  character: after each, the parser has the characters read so far except the
  backslashes that `append_quoted` holds back as well, and these two counts agree. The
  closing quote meets an even number of backslashes. Then one argument, then all.
* *Builder.* `BuilderInv` relates the conversion to the builder it was made of, whose
  fields do not change any more; what the program sees of its arguments and which
  file it runs follows from that. For the latter the candidates of the parent and of
  the child are compared one by one: a relative directory of PATH means the same
  from the parent, which joins it to the child's directory, as from the child.
* *Environment.* `EnvInv` says of every name that the map answers what the list of
  calls says, initially what the sources say one after the other. A block is read
  back as the set of its variables, because no text is empty or holds a NUL, and a
  name has one key in the map whatever its casing.

Sequences and recursive functions are reasoned about without an induction theorem
of the library (these take an operator as a parameter): the set of the numbers up to
which a fact holds has everything, because a set of numbers that has an element has a
least one, which follows from the library's theorem that `<` on the naturals is well
founded. For this the models write their recursion as recursive functions with a
step operator (`EscapeChar`, `TakeChar`, `Merge`, `ReadBlock`).

Only model-checked: all liveness (ENABLED and fairness are out of the prover's
reach). Every invariant that a passing run checks is also proved, and so are its
action properties and refinements.

## 5. Findings and observations

Findings are runs that end in the violation of a statement found in the repository;
`PROJECT.json` quotes it.

1. A failed `DuplicateHandle` unwinds the recovery worker and drops the handle of a
   running child, which "is never ... discarded" (`win/mod.rs:52`, `lib.rs:305`).
2. `spawn_command` reports success although exec failed: the `pre_exec` closure
   closed std's error pipe (`unix.rs:280`).
3. A pty opened by another thread leaks into a contained child, because `openpty`
   and `FD_CLOEXEC` are separate calls (`unix.rs:68`).

Observations: behaviours the models contain and the properties name as exceptions.

* The comment of `environment_block` says that it "uses the current process
  environment as the base and then adds/replaces the environment that was specified
  via the `env` methods" (`cmdbuilder.rs:629-632`). The base is that of `get_base_env`,
  taken when the builder was made (`cmdbuilder.rs:208-260`): on Windows the registry's
  machine and user variables replace those of the process, and the user's PATH is
  appended to the machine's (`cmdbuilder.rs:107-187`). `ChildSeesEnvironment` states
  the code's order, so its passing contradicts the comment; in the scene `windows` a
  child has X = 1 from the registry although the process has X = 0 and nobody called
  `env`.
* Without PATH in the builder a bare name fails with "Unable to resolve the PATH"
  (`cmdbuilder.rs:461-463`), although a shell, and `execvp` in the child, would find it
  on the system's standard path. `RunsWhatAShellRuns` states both: in the scene `unix`
  "run" is on that path and is not run once PATH was removed. The default program goes
  no such way: a SHELL without a slash is looked up there by `execvp`.
* A child of a failed spawn that ends with code 259 on Windows is never reaped: both
  `try_wait`s take it for running (`win/mod.rs:55-57`), `TerminateProcess` is refused,
  `recovery_pending()` stays true and the worker's loop after the drop does not end,
  where `lib.rs:306-307` says that it keeps the child "through direct kill and reap".
* Stage Resume says that the child "was resolved through its Job" (`lib.rs:80-81`). If
  the guard cannot end the Job within its two seconds the child lives on, unowned,
  when the error is returned; its answer is not looked at (`win/conpty.rs:160`).
* `ResumeThread` takes a suspension away even when it finds a count of 2, which counts
  as a failure (`win/mod.rs:39-42`). A process that takes its own suspension back before
  the Job is ended then lets the child run for a moment, inside its Job, although "the
  child was never made runnable by this adapter" (`win/conpty.rs:158`).
* With SIGCHLD ignored the worker's SIGHUP may follow the release of the pid
  (`lib.rs:761`), and it retries every 10 ms without end, as it does for a child
  that refuses signals.
* Stage `BeforeSpawn` is also used when a child was forked and reaped by std
  (`unix.rs:381`): in the contract, `FailEarly` also accepts a child that has ended.
* A Unix killer only hangs up (`lib.rs:741`) and may outlive its pid; a Windows
  killer without a handle reports success (`lib.rs:726`).
* Exit code 259 is never seen by `try_wait`, only by `wait` (`win/mod.rs:55`), see
  above for what this does to recovery; the future polls without end for it. A waiter whose handle value was given to
  somebody else may never wake its future (`win/mod.rs:156`).
* Dropping the writer gives no end of file in raw mode (`unix.rs:550`), and a
  `take_writer` that failed uses up the writer (`unix.rs:510`).
* The program's name escapes the NUL test of the other arguments
  (`cmdbuilder.rs:674`); a NUL in the value of a Windows variable cuts it
  (`cmdbuilder.rs:633-652`), where Unix refuses to start the program. An empty
  environment gives a block of a single NUL.
* A relative `cwd` is applied twice: the parent searches relative to it, the child
  enters it and executes the path found from there (`cmdbuilder.rs:414-493, 514`).
* A program name with a "/" that does not start with "./" or "../" is looked up in
  `PATH` too (`cmdbuilder.rs:414-493`), unlike by a shell.
* `get_shell` accepts a directory or a path relative to the parent as SHELL, because
  access(X_OK) does. Removing SHELL from the builder does not remove it from the
  child (`cmdbuilder.rs:524`).
* `as_command` looks for the home directory before it looks at `cwd`, and fails when
  the password database's is not Unicode even if the caller gave a directory
  (`cmdbuilder.rs:555-570`).
* An empty or undecodable entry of PATHEXT panics (`cmdbuilder.rs:592`), with the
  pty's mutex held.
* On a serial port `kill` does nothing and `try_wait` never tells of an end; a thread
  in `wait` keeps the port open, so nobody can open it again; a device without a
  carrier line ends every `wait` after five seconds with code 1
  (`serial.rs:134-158`). Dropping its writer sends no end of file, which the trait
  announces for writers in general (`lib.rs:455-457`). On Windows a driver that
  answers reads of a lost device with nothing keeps the reader in its loop
  (`serial.rs:281`).

## 6. Not modelled

* `resize`, `get_size`, `tty_name`, termios and process-group queries of a Unix pty:
  one ioctl each, the state is the kernel's.
* The attribute list of `CreateProcessW`; reader handles of the pseudo console, pipe
  traffic and its closing, in which the code has no branch of its own.
* `as_unix_command_line` (a conversion of the `shell_words` crate), the expansion and
  decoding of registry values, the UTF-8 filter of the environment iterators, serde.
* The setters of a serial port's settings, which pass their argument to the driver.
* Whoever else holds a handle to the primary thread of a contained child on Windows may
  do worse than resume it (terminate it, change its context); only suspending, resuming
  and ending the child are modelled.
* Formatting, logging and `Downcast`; build, release scripts and examples.

## 7. Plan

Done: the modules of section 2, the contract and its refinement by both platforms,
and the safety proofs listed in section 4. Left, most important first:

1. One model of `UnixSpawn` with `FailedChildRecovery` for a single thread, so that the
   hand-over after Receipt and Adoption is inside one state machine; today the
   contract is the seam.
2. `ConPty`: closing with the last handle, reader clones, and what becomes of a
   contained child whose console is closed under it.
3. `UnixPty`: resize with SIGWINCH and the foreground group; reopening by name.
4. Proofs: in the next step the safety halves of the liveness properties, such as that
   the drain loop of the recovery worker never idles while it holds the child, and
   that a reader that waits has something open to wait for.
