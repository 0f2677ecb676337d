--------------------------- MODULE ContainedSpawn ---------------------------
(***************************************************************************)
(* What spawn_contained_command promises its caller on every platform      *)
(* (src/src/lib.rs:48-83, 523-536), with nothing of how: UnixSpawn and     *)
(* ConPty are shown to implement it.                                       *)
(*                                                                         *)
(* A call ends with a guard or with an error that names its stage:         *)
(*   before    BeforeSpawn: no child is left                               *)
(*   failed    Receipt or Adoption: a recovery owner has the exact child   *)
(*   resolved  Resume: the guard had it and ended it                       *)
(* A call is broken when something outside the crate took away what the    *)
(* promise rests on: another process started the child, or the guard could *)
(* not end it.                                                             *)
(***************************************************************************)
CONSTANT Calls  \* callers, each with at most one child

VARIABLES
  child,      \* "none", "quiet" (has not executed the command yet),
              \* "running" or "gone" (ended)
  contained,  \* the calls whose child is inside its boundary
  answer,     \* what the caller was told last
  broken      \* the calls that were broken from outside

contractVars == <<child, contained, answer, broken>>

Init ==
  /\ child = [c \in Calls |-> "none"]
  /\ contained = {}
  /\ answer = [c \in Calls |-> "none"]
  /\ broken = {}

Becomes(c, state) == child' = [child EXCEPT ![c] = state]
Says(c, result)   == answer' = [answer EXCEPT ![c] = result]

Create(c) ==
  /\ answer[c] = "none" /\ child[c] = "none"
  /\ Becomes(c, "quiet")
  /\ UNCHANGED <<contained, answer, broken>>

Contain(c) ==
  /\ answer[c] = "none"
  /\ child[c] \in {"quiet", "gone"} \/ (c \in broken /\ child[c] = "running")
  /\ contained' = contained \cup {c}
  /\ UNCHANGED <<child, answer, broken>>

\* The command starts only inside its boundary, and never for a caller that
\* was told it failed; for a broken call nothing is promised.
Run(c) ==
  /\ child[c] = "quiet"
  /\ c \in broken \/ (c \in contained /\ answer[c] \in {"none", "guard"})
  /\ Becomes(c, "running")
  /\ UNCHANGED <<contained, answer, broken>>

Die(c) ==
  /\ child[c] \in {"quiet", "running"}
  /\ Becomes(c, "gone")
  /\ UNCHANGED <<contained, answer, broken>>

\* Another process meddles with the child, and may start it.
Break(c) ==
  /\ child[c] \in {"quiet", "running"}
  /\ Becomes(c, child[c]) \/ Becomes(c, "running")
  /\ broken' = broken \cup {c}
  /\ UNCHANGED <<contained, answer>>

\* A guard is given for a contained child, whose first step may be this one.
Guard(c) ==
  /\ answer[c] = "none" /\ child[c] # "none" /\ c \in contained
  /\ Says(c, "guard")
  /\ Becomes(c, child[c]) \/ (child[c] = "quiet" /\ Becomes(c, "running"))
  /\ UNCHANGED <<contained, broken>>

\* A child that ended before it executed its command is waited for.
FailEarly(c) ==
  /\ answer[c] \in {"none", "before"} /\ child[c] \in {"none", "gone"}
  /\ Says(c, "before")
  /\ Becomes(c, "none")
  /\ UNCHANGED <<contained, broken>>

\* The failing step may have contained the child all the same.
FailLate(c) ==
  /\ answer[c] = "none" /\ child[c] # "none"
  /\ Says(c, "failed")
  /\ contained' \in {contained, contained \cup {c}}
  /\ UNCHANGED <<child, broken>>

\* The child is ended before the caller is told; a guard that cannot end it
\* breaks the call.
Resolve(c) ==
  /\ answer[c] = "none" /\ child[c] # "none" /\ c \in contained
  /\ Says(c, "resolved")
  /\ \/ Becomes(c, "gone") /\ UNCHANGED broken
     \/ UNCHANGED child /\ broken' = broken \cup {c}
  /\ UNCHANGED contained

\* The caller asks again after an early error.
Retry(c) ==
  /\ answer[c] = "before" /\ child[c] = "none"
  /\ Says(c, "none")
  /\ UNCHANGED <<child, contained, broken>>

Step(c) ==
  \/ Create(c) \/ Contain(c) \/ Run(c) \/ Die(c) \/ Break(c)
  \/ Guard(c) \/ FailEarly(c) \/ FailLate(c) \/ Resolve(c) \/ Retry(c)

Next == \E c \in Calls: Step(c)

Spec == Init /\ [][Next]_contractVars

-----------------------------------------------------------------------------
TypeOK ==
  /\ child \in [Calls -> {"none", "quiet", "running", "gone"}]
  /\ contained \subseteq Calls /\ broken \subseteq Calls
  /\ answer \in [Calls -> {"none", "guard", "before", "failed", "resolved"}]

\* What a caller may conclude from its answer: a guard stands for a contained
\* child, an early error for no child at all, every other error for a child
\* that exists or existed. Unless the call was broken from outside, whatever
\* runs is contained, and a resolved child is gone.
Promise ==
  \A c \in Calls:
    /\ answer[c] \in {"guard", "resolved"} => c \in contained
    /\ answer[c] = "before" => child[c] = "none"
    /\ answer[c] \in {"guard", "failed", "resolved"} => child[c] # "none"
    /\ c \notin broken =>
         /\ child[c] = "running" => c \in contained
         /\ answer[c] = "resolved" => child[c] = "gone"
=============================================================================
