----------------------------- MODULE UnixSpawn -----------------------------
(***************************************************************************)
(* Opening a pty and spawning into it on Unix (src/src/unix.rs:26-72,      *)
(* 156-181, 232-475): several threads of one program do it concurrently,   *)
(* with spawn_contained_command or with the inherited spawn_command.       *)
(*                                                                         *)
(* fork(2) copies the descriptor table and the state of the allocator's    *)
(* lock into the child. std's Command::spawn gives the child the write end *)
(* of a close-on-exec error pipe and waits for end-of-file (exec worked)   *)
(* or for an error code (the hook or exec failed); std and the kernel are  *)
(* outside the repository.                                                 *)
(***************************************************************************)
EXTENDS Integers

CONSTANTS
  Spawns,         \* one element per thread, pty and child
  Contained,      \* those that use spawn_contained_command
  ControllingTty  \* those whose CommandBuilder asks for a controlling tty

ASSUME SpawnAssumption == Contained \subseteq Spawns /\ ControllingTty \subseteq Spawns

VARIABLES
  lock,        \* another thread holds the allocator's lock
  ppc,         \* where the spawning thread is
  outcome,     \* what the caller was given: "ok" or how it failed
  kpc,         \* where the forked child is
  session,     \* the child's session: inherited, own, or own with a terminal
  failed,      \* children that got as far as reporting a hook or exec error
  message,     \* error pipes with an error code in them
  lockAtFork,  \* children whose copy of lock is held, for ever
  kept,        \* pty ends in the child that will survive exec
  pipes        \* error pipes whose write end the child holds

childVars == <<kpc, session, failed, message, lockAtFork, kept, pipes>>
vars == <<lock, ppc, outcome, childVars>>

ParentStates ==
  {"start", "opened", "master_set", "open", "prepared", "piped", "forked",
   "waiting", "receipt", "contain", "done"}

ChildStates ==
  {"none", "signals", "session", "terminal", "closefds", "exec", "report",
   "running", "dead", "reaped"}

Outcomes ==
  {"none", "ok", "NoPty", "error", "BeforeSpawn", "Receipt", "Adoption"}

Ends == Spawns \X {"master", "slave"}

Init ==
  /\ lock = FALSE
  /\ ppc = [t \in Spawns |-> "start"]
  /\ outcome = [t \in Spawns |-> "none"]
  /\ kpc = [t \in Spawns |-> "none"]
  /\ session = [t \in Spawns |-> "inherited"]
  /\ failed = {} /\ message = {} /\ lockAtFork = {}
  /\ kept = [t \in Spawns |-> {}]
  /\ pipes = [t \in Spawns |-> {}]

Step(t, from, to) == ppc[t] = from /\ ppc' = [ppc EXCEPT ![t] = to]

EndsWith(t, result) ==
  /\ ppc' = [ppc EXCEPT ![t] = "done"]
  /\ outcome' = [outcome EXCEPT ![t] = result]

\* How the two functions report a failure of std's spawn and all before it.
Early(t) == IF t \in Contained THEN "BeforeSpawn" ELSE "error"

-----------------------------------------------------------------------------
(* The spawning threads.                                                   *)

\* openpty: libc::openpty returns both ends without close-on-exec.
OpenPty(t) ==
  /\ Step(t, "start", "opened")
  /\ UNCHANGED <<lock, outcome, childVars>>

\* cloexec(master), then cloexec(slave); on failure both ends are dropped.
SetCloexec(t) ==
  /\ \/ (Step(t, "opened", "master_set") \/ Step(t, "master_set", "open"))
        /\ UNCHANGED outcome
     \/ ppc[t] \in {"opened", "master_set"} /\ EndsWith(t, "NoPty")
  /\ UNCHANGED <<lock, childVars>>

\* as_command, the acquisition hook, three dups of the slave, the recovery
\* owner: any of them may fail before a child exists.
Prepare(t) ==
  /\ \/ Step(t, "open", "prepared") /\ UNCHANGED outcome
     \/ ppc[t] = "open" /\ EndsWith(t, Early(t))
  /\ UNCHANGED <<lock, childVars>>

MakePipe(t) ==
  /\ Step(t, "prepared", "piped")
  /\ UNCHANGED <<lock, outcome, childVars>>

\* Pty ends a fork would hand on to the program: not yet close-on-exec.
Inheritable ==
  {e \in Ends: \/ ppc[e[1]] = "opened"
               \/ ppc[e[1]] = "master_set" /\ e[2] = "slave"}

\* Error pipes whose write end is open in the parent.
OpenPipes == {t \in Spawns: ppc[t] \in {"piped", "forked"}}

Fork(t) ==
  /\ \/ /\ Step(t, "piped", "forked")
        /\ kpc' = [kpc EXCEPT ![t] = "signals"]
        /\ lockAtFork' = IF lock THEN lockAtFork \cup {t} ELSE lockAtFork
        /\ kept' = [kept EXCEPT ![t] = Inheritable]
        /\ pipes' = [pipes EXCEPT ![t] = OpenPipes]
        /\ UNCHANGED outcome
     \/ /\ ppc[t] = "piped"
        /\ EndsWith(t, Early(t))
        /\ UNCHANGED <<kpc, lockAtFork, kept, pipes>>
  /\ UNCHANGED <<lock, session, failed, message>>

DropOutput(t) ==
  /\ Step(t, "forked", "waiting")
  /\ UNCHANGED <<lock, outcome, childVars>>

\* End of file on the error pipe: nobody holds its write end any more.
ReadEof(t) ==
  /\ ppc[t] = "waiting" /\ t \notin message
  /\ \A k \in Spawns: t \notin pipes[k]
  /\ IF t \in Contained
     THEN Step(t, "waiting", "receipt") /\ UNCHANGED outcome
     ELSE EndsWith(t, "ok")
  /\ UNCHANGED <<lock, childVars>>

\* Deviation: the failed child is not waited for.
ReadError_NoWait(t) ==
  /\ ppc[t] = "waiting" /\ t \in message
  /\ EndsWith(t, Early(t))
  /\ UNCHANGED <<lock, childVars>>

\* An error code: std waits for the child and returns the error.
ReadError(t) ==
  /\ ppc[t] = "waiting" /\ t \in message /\ kpc[t] = "dead"
  /\ kpc' = [kpc EXCEPT ![t] = "reaped"]
  /\ EndsWith(t, Early(t))
  /\ UNCHANGED <<lock, session, failed, message, lockAtFork, kept, pipes>>

\* Deviation: the receipt is not checked against the hook's acquisition.
IntoReceipt_Unchecked(t) ==
  /\ \/ Step(t, "receipt", "contain") /\ UNCHANGED outcome
     \/ ppc[t] = "receipt" /\ EndsWith(t, "Receipt")
  /\ UNCHANGED <<lock, childVars>>

\* into_receipt seals what the hook acquired in exactly this child; without an
\* acquisition it must fail, and it may fail anyway.
IntoReceipt(t) ==
  /\ \/ /\ session[t] # "inherited"
        /\ Step(t, "receipt", "contain")
        /\ UNCHANGED outcome
     \/ ppc[t] = "receipt" /\ EndsWith(t, "Receipt")
  /\ UNCHANGED <<lock, childVars>>

\* contain_acquired_session makes the guard or gives the child back.
Contain(t) ==
  /\ ppc[t] = "contain"
  /\ \E result \in {"ok", "Adoption"}: EndsWith(t, result)
  /\ UNCHANGED <<lock, childVars>>

\* Other threads of the program allocate and free memory.
OtherThreads ==
  /\ lock' = ~lock
  /\ UNCHANGED <<ppc, outcome, childVars>>

-----------------------------------------------------------------------------
(* The forked child.                                                       *)

Goes(k, from, to) == kpc[k] = from /\ kpc' = [kpc EXCEPT ![k] = to]

\* A hook or exec error: the child goes on to report it.
Fails(k, from) == Goes(k, from, "report")

\* The pre_exec closure starts by resetting dispositions and the signal mask.
ResetSignals(k) ==
  /\ Goes(k, "signals", "session")
  /\ UNCHANGED <<lock, ppc, outcome, session, failed, message, lockAtFork,
                 kept, pipes>>

\* Deviation: the error of the acquisition is ignored.
AcquireSession_Ignored(k) ==
  /\ Goes(k, "session", "terminal")
  /\ \E s \in {"own", "inherited"}: session' = [session EXCEPT ![k] = s]
  /\ UNCHANGED <<lock, ppc, outcome, failed, message, lockAtFork, kept, pipes>>

\* hook.acquire() or setsid().
AcquireSession(k) ==
  /\ \/ /\ Goes(k, "session", "terminal")
        /\ session' = [session EXCEPT ![k] = "own"]
     \/ Fails(k, "session") /\ UNCHANGED session
  /\ UNCHANGED <<lock, ppc, outcome, failed, message, lockAtFork, kept, pipes>>

\* Deviation: the contained hook keeps the /dev/fd traversal.
AfterTerminal_Traverses(k) == "closefds"

\* The contained hook leaves close_random_fds out.
AfterTerminal(k) == IF k \in Contained THEN "exec" ELSE "closefds"

\* TIOCSCTTY, when the command wants a controlling terminal.
TakeTerminal(k) ==
  /\ \/ /\ k \in ControllingTty
        /\ Goes(k, "terminal", AfterTerminal(k))
        /\ session' = [session EXCEPT ![k] = "terminal"]
     \/ k \in ControllingTty /\ Fails(k, "terminal") /\ UNCHANGED session
     \/ /\ k \notin ControllingTty
        /\ Goes(k, "terminal", AfterTerminal(k))
        /\ UNCHANGED session
  /\ UNCHANGED <<lock, ppc, outcome, failed, message, lockAtFork, kept, pipes>>

\* close_random_fds allocates, so it blocks for ever on an inherited lock;
\* it closes everything above 2, std's error pipe included, or (read_dir
\* failed) nothing.
CloseRandomFds(k) ==
  /\ Goes(k, "closefds", "exec")
  /\ k \notin lockAtFork
  /\ \/ kept' = [kept EXCEPT ![k] = {}] /\ pipes' = [pipes EXCEPT ![k] = {}]
     \/ UNCHANGED <<kept, pipes>>
  /\ UNCHANGED <<lock, ppc, outcome, session, failed, message, lockAtFork>>

\* Deviation: the error pipe is not close-on-exec.
Exec_KeepsPipes(k) ==
  /\ Goes(k, "exec", "running") \/ Fails(k, "exec")
  /\ UNCHANGED <<lock, ppc, outcome, session, failed, message, lockAtFork,
                 kept, pipes>>

\* umask and exec, which closes the close-on-exec descriptors.
Exec(k) ==
  /\ \/ /\ Goes(k, "exec", "running")
        /\ pipes' = [pipes EXCEPT ![k] = {}]
     \/ Fails(k, "exec") /\ UNCHANGED pipes
  /\ UNCHANGED <<lock, ppc, outcome, session, failed, message, lockAtFork, kept>>

\* Writes the error code, if the pipe is still there, and exits.
Report(k) ==
  /\ Goes(k, "report", "dead")
  /\ message' = IF k \in pipes[k] THEN message \cup {k} ELSE message
  /\ pipes' = [pipes EXCEPT ![k] = {}]
  /\ kept' = [kept EXCEPT ![k] = {}]
  /\ failed' = failed \cup {k}
  /\ UNCHANGED <<lock, ppc, outcome, session, lockAtFork>>

\* The child is killed from outside, or its program ends.
Killed(k) ==
  /\ kpc[k] \in ChildStates \ {"none", "dead", "reaped"}
  /\ kpc' = [kpc EXCEPT ![k] = "dead"]
  /\ pipes' = [pipes EXCEPT ![k] = {}]
  /\ kept' = [kept EXCEPT ![k] = {}]
  /\ UNCHANGED <<lock, ppc, outcome, session, failed, message, lockAtFork>>

-----------------------------------------------------------------------------
SpawnStep(t) ==
  \/ MakePipe(t) \/ Fork(t) \/ DropOutput(t) \/ ReadEof(t) \/ ReadError(t)
  \/ IntoReceipt(t) \/ Contain(t)

ChildStep(k) ==
  \/ ResetSignals(k) \/ AcquireSession(k) \/ TakeTerminal(k)
  \/ CloseRandomFds(k) \/ Exec(k) \/ Report(k)

Opening(t) == OpenPty(t) \/ SetCloexec(t) \/ Prepare(t)

Next ==
  \/ \E t \in Spawns: Opening(t) \/ SpawnStep(t) \/ ChildStep(t) \/ Killed(t)
  \/ OtherThreads

Spec == Init /\ [][Next]_vars

\* Threads and children run; opening, locking and killing are not assumed.
FairSpec ==
  Spec /\ \A t \in Spawns: WF_vars(SpawnStep(t)) /\ WF_vars(ChildStep(t))

-----------------------------------------------------------------------------
(* Properties.                                                             *)

ParentTypeOK ==
  /\ ppc \in [Spawns -> ParentStates]
  /\ outcome \in [Spawns -> Outcomes]

ChildTypeOK ==
  /\ kpc \in [Spawns -> ChildStates]
  /\ session \in [Spawns -> {"inherited", "own", "terminal"}]

DescriptorTypeOK ==
  /\ kept \in [Spawns -> SUBSET Ends]
  /\ pipes \in [Spawns -> SUBSET Spawns]
  /\ \A k \in Spawns: kpc[k] = "running" => pipes[k] = {}

FlagTypeOK ==
  /\ lock \in BOOLEAN
  /\ failed \subseteq Spawns /\ message \subseteq Spawns
  /\ lockAtFork \subseteq Spawns

\* Types of the variables; no program runs with an error pipe in its table.
TypeOK == ParentTypeOK /\ ChildTypeOK /\ DescriptorTypeOK /\ FlagTypeOK

BeforeFork == {"start", "opened", "master_set", "open", "prepared", "piped"}
AfterFork  == {"forked", "waiting", "receipt", "contain"}

\* A child exists from the fork on, and the caller has no answer before the
\* end.
ForkOnce(t) ==
  /\ ppc[t] \in BeforeFork => kpc[t] = "none"
  /\ ppc[t] \in AfterFork => kpc[t] \notin {"none", "reaped"}
  /\ ppc[t] # "done" => outcome[t] = "none"
  /\ outcome[t] \in {"BeforeSpawn", "error", "NoPty"} => kpc[t] \in {"none", "reaped"}
  /\ kpc[t] = "none" => t \notin failed

SessionInOrder(k) ==
  /\ kpc[k] = "terminal" => session[k] = "own"
  /\ kpc[k] \in {"closefds", "exec", "running"} =>
       session[k] = IF k \in ControllingTty THEN "terminal" ELSE "own"

\* A contained child holds its error pipe until it runs or is dead, so that
\* the parent that reads end-of-file knows that it got no further.
PipeTellsAll(t) ==
  /\ kpc[t] \in {"signals", "session", "terminal", "exec", "report"} => t \in pipes[t]
  /\ kpc[t] # "closefds"
  /\ t \in failed => t \in message
  /\ ppc[t] \in {"receipt", "contain"} \/ outcome[t] \in {"ok", "Receipt", "Adoption"} =>
       kpc[t] \in {"running", "dead"} /\ t \notin message
  /\ ppc[t] = "contain" \/ outcome[t] = "ok" => session[t] # "inherited"

\* The inductive invariant behind the properties below.
IInv ==
  /\ TypeOK
  /\ \A t \in Spawns: ForkOnce(t) /\ SessionInOrder(t)
  /\ \A t \in Contained: PipeTellsAll(t)

\* The program of a command runs only in a session of its own and, when it
\* asked for one, with the pty as controlling terminal (unix.rs:350-362).
ProgramRunsInOwnSession ==
  \A k \in Spawns: kpc[k] = "running" =>
    session[k] = IF k \in ControllingTty THEN "terminal" ELSE "own"

\* No hook or exec error the child lived to report is taken for a started
\* command.
FailureIsReported == \A t \in Spawns: outcome[t] = "ok" => t \notin failed

\* FailureIsReported for the spawns whose hook leaves the error pipe alone.
ContainedFailureIsReported == \A t \in Contained: outcome[t] = "ok" => t \notin failed

\* The contained children and the answers to their callers as the contract of
\* a contained spawn has them; NoPty answers another call. Nothing outside can
\* start a forked child, so no call is ever broken.
ChildAs(t) ==
  IF kpc[t] \in {"none", "reaped"} THEN "none"
  ELSE IF kpc[t] = "dead" THEN "gone"
  ELSE IF kpc[t] = "running" THEN "running" ELSE "quiet"

AnswerAs(t) ==
  IF outcome[t] = "ok" THEN "guard"
  ELSE IF outcome[t] = "BeforeSpawn" THEN "before"
  ELSE IF outcome[t] \in {"Receipt", "Adoption"} THEN "failed" ELSE "none"

ContractChild  == [t \in Contained |-> ChildAs(t)]
ContractAnswer == [t \in Contained |-> AnswerAs(t)]
InSession      == {t \in Contained: session[t] # "inherited"}

Contract == INSTANCE ContainedSpawn WITH
  Calls <- Contained, child <- ContractChild, contained <- InSession,
  answer <- ContractAnswer, broken <- {}

\* The contained spawn of a Unix pty keeps the contract of ContainedSpawn: the
\* command runs only in its own session, a guard is given only for a child that
\* acquired one (even if it was killed between fork and the hook), BeforeSpawn
\* leaves no process, not even a zombie, although the recovery owner is dropped
\* with it (unix.rs:379-381), and every other error has the exact child.
ContractSpec == Contract!Spec

\* "these descriptors will get closed when we execute the child process"
\* (unix.rs:64) and "are prepared with CLOEXEC" (unix.rs:363).
NoLeakedEnds == \A k \in Spawns: kpc[k] = "running" => kept[k] = {}

\* A legacy child stuck on the allocator lock it inherited.
Stuck(k) == k \in Spawns \ Contained /\ kpc[k] = "closefds" /\ k \in lockAtFork

\* Every spawn returns, whatever other threads hold at the fork; only a stuck
\* legacy child, of this spawn or of a concurrent one that inherited its error
\* pipe, can prevent it (tests/allocator_lock.rs:53).
SpawnReturns ==
  \A t \in Spawns:
    ppc[t] = "prepared" ~> ppc[t] = "done" \/ (\E k \in Spawns: Stuck(k))
=============================================================================
