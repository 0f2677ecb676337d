------------------------------- MODULE ConPty -------------------------------
(***************************************************************************)
(* One Windows pseudo console, shared by its master and slave handles      *)
(* behind one mutex, and the calls that threads make on it: the legacy and *)
(* the contained spawn, resize and take_writer                             *)
(* (src/src/win/conpty.rs, src/src/win/psuedocon.rs,                       *)
(* src/src/win/mod.rs:25-47).                                              *)
(*                                                                         *)
(* A contained child is created suspended, assigned to a Job, adopted into *)
(* a guard and resumed once, all of it with the mutex held. Another        *)
(* process, say a debugger, may suspend a child's thread for a while, or   *)
(* resume one it did not suspend: the code looks for both in               *)
(* ResumeThread's answer. The Job and the guard are sysprims crates        *)
(* outside the repository.                                                 *)
(***************************************************************************)
EXTENDS Integers

CONSTANTS
  Callers,         \* threads with a slave; each spawns one child
  Masters,         \* those that have the master, too
  NoOne,           \* no caller
  HalfWord,        \* 2^15: from here on a u16 is negative as an i16
  Sizes,           \* column counts (u16) that resize is called with
  InitialSize,
  BadPathExt,      \* PATHEXT has an empty or a non-UTF-8 entry
  TerminateFails   \* the guard may fail to end the Job

U16 == 0..(2 * HalfWord - 1)
I16 == (-HalfWord)..(HalfWord - 1)

ASSUME ConPtyAssumption ==
  /\ NoOne \notin Callers
  /\ Masters \subseteq Callers
  /\ HalfWord \in Nat \ {0, 1}
  /\ Sizes \subseteq U16
  /\ InitialSize \in 1..(HalfWord - 1)
  /\ BadPathExt \in BOOLEAN
  /\ TerminateFails \in BOOLEAN

VARIABLES
  mutex,     \* the caller that holds Mutex<Inner>, or NoOne
  poisoned,  \* a caller panicked while it held the mutex
  size,      \* Inner.size
  console,   \* the width the pseudo console has, a COORD's i16
  writable,  \* Inner.writable is still there
  pc,        \* where each caller is
  asked,     \* the size a caller's resize was called with
  outcome,   \* the last result of a caller's contained spawn
  child,     \* its child process
  suspends,  \* the suspend count of the child's primary thread
  foreign,   \* how many of these suspensions another process holds
  inJob,     \* the callers whose child is assigned to its Job
  ran,       \* the callers whose child has executed
  broken     \* the callers that were let down from outside: a process resumed
             \* their child unasked, or their guard could not end the Job

ptyVars   == <<size, console, writable>>
lockVars  == <<mutex, poisoned>>
childVars == <<child, suspends, foreign, inJob, ran, broken>>
vars == <<lockVars, ptyVars, pc, asked, outcome, childVars>>

\* The calls that wait for the mutex, and where each goes on with it.
Waiting == {"spawn", "legacy", "resize", "writer"}

Entry == [spawn |-> "create", legacy |-> "legacy_create",
          resize |-> "console", writer |-> "take"]

Locked == {"create", "assign", "adopt", "resume", "terminate", "recover",
           "legacy_create", "console", "store", "take"}

Outcomes == {"none", "ok", "BeforeSpawn", "Receipt", "Adoption", "Resume"}

\* Deviation: the width is not cut to a COORD.
AsI16_Missing(n) == n

\* The cast of a u16 to the i16 of a COORD.
AsI16(n) == IF n >= HalfWord THEN n - 2 * HalfWord ELSE n

\* The console refuses widths that are not positive.
Accepts(width) == width > 0

Init ==
  /\ mutex = NoOne /\ poisoned = FALSE
  /\ size = InitialSize /\ console = AsI16(InitialSize) /\ writable = TRUE
  /\ pc = [c \in Callers |-> "idle"]
  /\ asked = [c \in Callers |-> InitialSize]
  /\ outcome = [c \in Callers |-> "none"]
  /\ child = [c \in Callers |-> "none"]
  /\ suspends = [c \in Callers |-> 0]
  /\ foreign = [c \in Callers |-> 0]
  /\ inJob = {}
  /\ ran = {}
  /\ broken = {}

Goes(c, to) == pc' = [pc EXCEPT ![c] = to]

\* The call returns and drops its MutexGuard.
Leaves(c) == Goes(c, "idle") /\ mutex' = NoOne

\* A child that ended has no thread left to suspend.
Ended(c) ==
  /\ child' = [child EXCEPT ![c] = "ended"]
  /\ suspends' = [suspends EXCEPT ![c] = 0]
  /\ foreign' = [foreign EXCEPT ![c] = 0]

Answers(c, result) == outcome' = [outcome EXCEPT ![c] = result]

-----------------------------------------------------------------------------
(* Calls begin, and wait for the mutex.                                    *)

\* spawn_contained_command_inner prepares the Job and the recovery owner
\* before it locks. An earlier attempt may have ended before its child.
CallSpawn(c) ==
  /\ pc[c] = "idle" /\ child[c] = "none"
  /\ \/ Goes(c, "spawn") /\ Answers(c, "none")
     \/ Answers(c, "BeforeSpawn") /\ UNCHANGED pc
  /\ UNCHANGED <<lockVars, ptyVars, asked, childVars>>

CallLegacySpawn(c) ==
  /\ pc[c] = "idle"
  /\ Goes(c, "legacy")
  /\ UNCHANGED <<lockVars, ptyVars, asked, outcome, childVars>>

CallResize(c) ==
  /\ c \in Masters /\ pc[c] = "idle"
  /\ Goes(c, "resize")
  /\ \E n \in Sizes: asked' = [asked EXCEPT ![c] = n]
  /\ UNCHANGED <<lockVars, ptyVars, outcome, childVars>>

CallTakeWriter(c) ==
  /\ c \in Masters /\ pc[c] = "idle"
  /\ Goes(c, "writer")
  /\ UNCHANGED <<lockVars, ptyVars, asked, outcome, childVars>>

\* lock().unwrap() panics on a poisoned mutex.
Lock(c) ==
  /\ pc[c] \in Waiting /\ mutex = NoOne
  /\ IF poisoned
     THEN Goes(c, "panicked") /\ UNCHANGED mutex
     ELSE Goes(c, Entry[pc[c]]) /\ mutex' = c
  /\ UNCHANGED <<poisoned, ptyVars, asked, outcome, childVars>>

\* CommandBuilder::search_path panics on a PATHEXT entry it cannot use.
SearchPanics(c) ==
  /\ pc[c] \in {"create", "legacy_create"} /\ BadPathExt
  /\ Goes(c, "panicked")
  /\ mutex' = NoOne /\ poisoned' = TRUE
  /\ UNCHANGED <<ptyVars, asked, outcome, childVars>>

-----------------------------------------------------------------------------
(* The contained spawn, with the mutex held.                               *)

\* ResumeThread takes one suspension away; at zero the thread runs.
ResumeThread(c) ==
  /\ suspends' = [suspends EXCEPT ![c] = IF @ > 0 THEN @ - 1 ELSE 0]
  /\ ran' = IF suspends[c] = 1 /\ child[c] = "live" THEN ran \cup {c} ELSE ran

\* Deviation: CREATE_SUSPENDED is missing.
Create_Running(c) ==
  /\ pc[c] = "create"
  /\ Goes(c, "assign")
  /\ child' = [child EXCEPT ![c] = "live"]
  /\ ran' = ran \cup {c}
  /\ UNCHANGED <<lockVars, ptyVars, asked, outcome, suspends, foreign, inJob,
                 broken>>

\* PsuedoCon::spawn_suspended_command.
Create(c) ==
  /\ pc[c] = "create"
  /\ \/ /\ Goes(c, "assign")
        /\ child' = [child EXCEPT ![c] = "live"]
        /\ suspends' = [suspends EXCEPT ![c] = 1]
        /\ UNCHANGED <<mutex, outcome>>
     \/ /\ Leaves(c) /\ Answers(c, "BeforeSpawn")
        /\ UNCHANGED <<child, suspends>>
  /\ UNCHANGED <<poisoned, ptyVars, asked, foreign, inJob, ran, broken>>

\* Deviation: the child is resumed before it is adopted.
Assign_Resumes(c) ==
  /\ pc[c] = "assign"
  /\ \/ /\ Goes(c, "adopt")
        /\ inJob' = inJob \cup {c}
        /\ ResumeThread(c)
        /\ UNCHANGED outcome
     \/ /\ Goes(c, "recover") /\ Answers(c, "Receipt")
        /\ inJob' \in {inJob, inJob \cup {c}}
        /\ UNCHANGED <<suspends, ran>>
  /\ UNCHANGED <<lockVars, ptyVars, asked, child, foreign, broken>>

\* PreparedWindowsJob::assign_process; a failure may come after the
\* assignment, when its evidence is verified.
Assign(c) ==
  /\ pc[c] = "assign"
  /\ \/ /\ Goes(c, "adopt")
        /\ inJob' = inJob \cup {c}
        /\ UNCHANGED outcome
     \/ /\ Goes(c, "recover") /\ Answers(c, "Receipt")
        /\ inJob' \in {inJob, inJob \cup {c}}
  /\ UNCHANGED <<lockVars, ptyVars, asked, child, suspends, foreign, ran, broken>>

\* contain_acquired_windows_job makes the guard or gives the child back.
Adopt(c) ==
  /\ pc[c] = "adopt"
  /\ \/ Goes(c, "resume") /\ UNCHANGED outcome
     \/ Goes(c, "recover") /\ Answers(c, "Adoption")
  /\ UNCHANGED <<lockVars, ptyVars, asked, childVars>>

\* SuspendedThread::resume: only a previous count of 1 is success. Any other
\* is an error, though one suspension is gone, and so is a failed call. What
\* the thread of a child that ended answers is left open.
Resume(c) ==
  /\ pc[c] = "resume"
  /\ \/ /\ suspends[c] = 1 \/ child[c] = "ended"
        /\ ResumeThread(c)
        /\ Leaves(c) /\ Answers(c, "ok")
     \/ /\ \/ suspends[c] # 1 /\ ResumeThread(c)
           \/ UNCHANGED <<suspends, ran>>
        /\ Goes(c, "terminate")
        /\ UNCHANGED <<mutex, outcome>>
  /\ UNCHANGED <<poisoned, ptyVars, asked, child, foreign, inJob, broken>>

\* The guard ends the Job within two seconds; its answer is not looked at.
Terminate(c) ==
  /\ pc[c] = "terminate"
  /\ \/ Ended(c) /\ UNCHANGED broken
     \/ /\ TerminateFails /\ child[c] = "live"
        /\ broken' = broken \cup {c}
        /\ UNCHANGED <<child, suspends, foreign>>
  /\ Leaves(c) /\ Answers(c, "Resume")
  /\ UNCHANGED <<poisoned, ptyVars, asked, inJob, ran>>

\* Deviation: the first recovery attempt waits for the child without bound.
Recover_Unbounded(c) ==
  /\ pc[c] = "recover" /\ child[c] = "ended"
  /\ Leaves(c)
  /\ UNCHANGED <<poisoned, ptyVars, asked, outcome, childVars>>

\* ContainedPtySpawnError::after_spawn: one recovery attempt of two seconds,
\* successful or not, before the error is returned.
Recover(c) ==
  /\ pc[c] = "recover"
  /\ Leaves(c)
  /\ UNCHANGED <<poisoned, ptyVars, asked, outcome, childVars>>

-----------------------------------------------------------------------------
(* The other calls, with the mutex held.                                   *)

\* The legacy child is a ChildHandle; here it only needs the console.
LegacyCreate(c) ==
  /\ pc[c] = "legacy_create"
  /\ Leaves(c)
  /\ UNCHANGED <<poisoned, ptyVars, asked, outcome, childVars>>

\* The argument of a resize is gone when it returns.
Forget(c) == asked' = [asked EXCEPT ![c] = InitialSize]

\* Deviation: the new size is recorded although the console refused it.
ResizeConsole_Unchecked(c) ==
  /\ pc[c] = "console"
  /\ console' = IF Accepts(AsI16(asked[c])) THEN AsI16(asked[c]) ELSE console
  /\ Goes(c, "store")
  /\ UNCHANGED <<lockVars, size, writable, asked, outcome, childVars>>

\* Inner::resize: ResizePseudoConsole, which may fail, ...
ResizeConsole(c) ==
  /\ pc[c] = "console"
  /\ \/ /\ Accepts(AsI16(asked[c]))
        /\ console' = AsI16(asked[c])
        /\ Goes(c, "store") /\ UNCHANGED <<mutex, asked>>
     \/ Leaves(c) /\ Forget(c) /\ UNCHANGED console
  /\ UNCHANGED <<poisoned, size, writable, outcome, childVars>>

\* ... and then the size that get_size reports.
StoreSize(c) ==
  /\ pc[c] = "store"
  /\ size' = asked[c]
  /\ Leaves(c) /\ Forget(c)
  /\ UNCHANGED <<poisoned, console, writable, outcome, childVars>>

TakeWriter(c) ==
  /\ pc[c] = "take"
  /\ writable' = FALSE
  /\ Leaves(c)
  /\ UNCHANGED <<poisoned, size, console, asked, outcome, childVars>>

-----------------------------------------------------------------------------
(* The world around the pty.                                               *)

\* Another process suspends the child's thread ...
ForeignSuspend(c) ==
  /\ child[c] = "live" /\ foreign[c] = 0
  /\ suspends' = [suspends EXCEPT ![c] = @ + 1]
  /\ foreign' = [foreign EXCEPT ![c] = 1]
  /\ UNCHANGED <<lockVars, ptyVars, pc, asked, outcome, child, inJob, ran,
                 broken>>

\* ... and takes its own suspension back.
ForeignResume(c) ==
  /\ foreign[c] = 1
  /\ ResumeThread(c)
  /\ foreign' = [foreign EXCEPT ![c] = 0]
  /\ UNCHANGED <<lockVars, ptyVars, pc, asked, outcome, child, inJob, broken>>

\* Another process takes a suspension away that is not its own; the child of
\* a spawn that still holds it back runs too early.
UnaskedResume(c) ==
  /\ child[c] = "live" /\ suspends[c] > 0
  /\ ResumeThread(c)
  /\ broken' = broken \cup {c}
  /\ UNCHANGED <<lockVars, ptyVars, pc, asked, outcome, child, foreign, inJob>>

\* The child ends or is killed: by the guard's holder, the recovery worker or
\* anybody else.
ChildEnds(c) ==
  /\ child[c] = "live"
  /\ Ended(c)
  /\ UNCHANGED <<lockVars, ptyVars, pc, asked, outcome, inJob, ran, broken>>

Holder(c) ==
  \/ SearchPanics(c) \/ Create(c) \/ Assign(c) \/ Adopt(c) \/ Resume(c)
  \/ Terminate(c) \/ Recover(c)
  \/ LegacyCreate(c) \/ ResizeConsole(c) \/ StoreSize(c) \/ TakeWriter(c)

CallerStep(c) ==
  \/ CallSpawn(c) \/ CallLegacySpawn(c) \/ CallResize(c) \/ CallTakeWriter(c)
  \/ Lock(c) \/ Holder(c)
  \/ ForeignSuspend(c) \/ ForeignResume(c) \/ UnaskedResume(c) \/ ChildEnds(c)

Next == \E c \in Callers: CallerStep(c)

Spec == Init /\ [][Next]_vars

\* Whoever holds the mutex goes on; who gets it next is not fair.
FairSpec == Spec /\ WF_vars(\E c \in Callers: Holder(c))

-----------------------------------------------------------------------------
(* Properties.                                                             *)

SizeTypeOK ==
  /\ size \in U16 /\ console \in I16
  /\ asked \in [Callers -> U16]

CallTypeOK ==
  /\ mutex \in Callers \cup {NoOne}
  /\ pc \in [Callers -> Waiting \cup Locked \cup {"idle", "panicked"}]
  /\ outcome \in [Callers -> Outcomes]

ChildTypeOK ==
  /\ child \in [Callers -> {"none", "live", "ended"}]
  /\ suspends \in [Callers -> 0..2] /\ foreign \in [Callers -> 0..1]

FlagTypeOK ==
  /\ poisoned \in BOOLEAN /\ writable \in BOOLEAN
  /\ inJob \subseteq Callers /\ ran \subseteq Callers /\ broken \subseteq Callers

\* Types of the variables.
TypeOK == SizeTypeOK /\ CallTypeOK /\ ChildTypeOK /\ FlagTypeOK

\* Exactly the caller that is inside holds the mutex.
MutexExcludes == \A c \in Callers: mutex = c <=> pc[c] \in Locked

\* Between the two steps of a resize the console is ahead of Inner.size.
SizeInStep ==
  /\ \A c \in Callers: pc[c] = "store" => console = AsI16(asked[c])
  /\ (\A c \in Callers: pc[c] # "store") => console = AsI16(size)

\* Calls in which the child exists and is not given to ResumeThread yet.
Holding == {"assign", "adopt", "resume"}

\* The spawn has not taken its own suspension of the child away.
Unreleased(c) == pc[c] \in Holding \/ outcome[c] \in {"Receipt", "Adoption"}

NoChildYet(c) ==
  child[c] = "none" =>
    /\ c \notin ran \cup broken /\ foreign[c] = 0 /\ suspends[c] = 0
    /\ outcome[c] \in {"none", "BeforeSpawn"}
    /\ pc[c] \notin Holding \cup {"terminate", "recover"}

BeforeAnswer(c) ==
  /\ pc[c] \in {"spawn", "create"} \/ outcome[c] = "BeforeSpawn" => child[c] = "none"
  /\ pc[c] \in {"spawn", "create", "terminate"} \cup Holding => outcome[c] = "none"
  /\ pc[c] \in {"adopt", "resume", "terminate"} \/ outcome[c] \in {"ok", "Resume"} =>
       c \in inJob

Suspended(c) ==
  /\ suspends[c] <= 1 + foreign[c]
  /\ Unreleased(c) /\ c \notin broken =>
       c \notin ran /\ (child[c] = "live" => suspends[c] = 1 + foreign[c])
  /\ child[c] = "live" /\ c \notin inJob => Unreleased(c)

\* A child whose resume failed is ended before its caller is told.
Resolved(c) == outcome[c] = "Resume" => child[c] = "ended" \/ c \in broken

PerCaller(c) ==
  /\ NoChildYet(c) /\ BeforeAnswer(c) /\ Suspended(c) /\ Resolved(c)
  /\ c \in ran => c \in inJob \cup broken

\* The inductive invariant behind the properties below.
IInv ==
  /\ TypeOK /\ MutexExcludes /\ SizeInStep
  /\ \A c \in Callers: PerCaller(c)

\* A contained child executes nothing before it is a member of its Job
\* (conpty.rs:127-157), also while another process suspends its thread and
\* takes its own suspension back; one that resumes it unasked ends what the
\* crate calls the sole resume authority (mod.rs:34).
NeverRunsOutsideJob == ran \subseteq inJob \cup broken

\* The children and the answers as the contract of a contained spawn has them.
ChildAs(c) ==
  IF child[c] = "none" THEN "none"
  ELSE IF child[c] = "ended" THEN "gone"
  ELSE IF c \in ran THEN "running" ELSE "quiet"

AnswerAs(c) ==
  IF outcome[c] = "ok" THEN "guard"
  ELSE IF outcome[c] = "BeforeSpawn" THEN "before"
  ELSE IF outcome[c] \in {"Receipt", "Adoption"} THEN "failed"
  ELSE IF outcome[c] = "Resume" THEN "resolved" ELSE "none"

ContractChild  == [c \in Callers |-> ChildAs(c)]
ContractAnswer == [c \in Callers |-> AnswerAs(c)]

Contract == INSTANCE ContainedSpawn WITH
  Calls <- Callers, child <- ContractChild, contained <- inJob,
  answer <- ContractAnswer

\* The contained spawn of a ConPTY keeps the contract of ContainedSpawn: the
\* command starts only inside its Job and never after an error, a guard is
\* given only for a child in its Job, BeforeSpawn leaves no child and Resume
\* one that was ended through its Job. Other callers, and processes that
\* suspend the thread, cannot change that (conpty.rs:82-173); a process that
\* resumes it unasked and a guard that fails to end the Job can.
ContractSpec == Contract!Spec

\* A child whose spawn is reported as failed at its assignment or adoption
\* never executes, not even after the error was returned (conpty.rs:112-144),
\* unless a process resumes it unasked.
FailedAssignmentNeverRuns ==
  \A c \in Callers:
    outcome[c] \in {"Receipt", "Adoption"} /\ c \notin broken => c \notin ran

\* get_size tells the size the console has, refused and negative sizes
\* included, whenever it can be called (conpty.rs:59-79).
SizeAgrees == mutex = NoOne => console = AsI16(size)

\* The mutex is always given back: a spawn that fails, that panics or whose
\* child refuses to die does not block the pty for ever (conpty.rs:103-173).
LockReleased == mutex # NoOne ~> mutex = NoOne
=============================================================================
