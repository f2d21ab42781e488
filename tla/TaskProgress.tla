---------------------------- MODULE TaskProgress ----------------------------
(***************************************************************************)
(* What a caller of SubmitJob and WaitOnId may rely on (pkg/scrapper,      *)
(* api.go): the list of a task's items only grows, progress never exceeds  *)
(* what has been done, and a wait that ends with TRUE has once found every *)
(* item of a list that was not empty done.  It may also end with FALSE at  *)
(* any time, and progress may fall short, or back.                         *)
(*                                                                         *)
(* Nothing is said of mutexes, private copies, increments or channels:     *)
(* TaskLedger implements this specification with them.                     *)
(***************************************************************************)
EXTENDS Naturals, Sequences, Functions

CONSTANTS Tasks, Items, TaskOf

VARIABLES
    known,      \* the tasks submitted
    listed,     \* listed[t]: the items of task t reported so far
    done,       \* the items that are done, saved or failed
    count,      \* count[t]: how many of task t's items these are
    progress,   \* progress[t]: how many of them the task admits to
    covered,    \* the tasks whose wait has found all items listed done
    verdict     \* verdict[t]: the result of the wait for t

vars == <<known, listed, done, count, progress, covered, verdict>>

Init ==
    /\ known = {}
    /\ listed = [t \in Tasks |-> <<>>]
    /\ done = {}
    /\ count = [t \in Tasks |-> 0]
    /\ progress = [t \in Tasks |-> 0]
    /\ covered = {}
    /\ verdict = [t \in Tasks |-> "none"]

Submit(t) ==
    /\ t \notin known
    /\ known' = known \cup {t}
    /\ UNCHANGED <<listed, done, count, progress, covered, verdict>>

Report(i) ==
    LET t == TaskOf[i] IN
    /\ t \in known /\ i \notin Range(listed[t])
    /\ listed' = [listed EXCEPT ![t] = Append(@, i)]
    /\ UNCHANGED <<known, done, count, progress, covered, verdict>>

Finish(i) ==
    LET t == TaskOf[i] IN
    /\ i \in Range(listed[t]) \ done
    /\ done' = done \cup {i}
    /\ count' = [count EXCEPT ![t] = @ + 1]
    /\ \E n \in 1 .. count[t] + 1 : progress' = [progress EXCEPT ![t] = n]
    /\ UNCHANGED <<known, listed, covered, verdict>>

Look(t) ==
    /\ verdict[t] = "none"
    /\ listed[t] # <<>> /\ Range(listed[t]) \subseteq done
    /\ covered' = covered \cup {t}
    /\ UNCHANGED <<known, listed, done, count, progress, verdict>>

Answer(t, result) ==
    /\ verdict[t] = "none"
    /\ result = "true" => t \in covered
    /\ verdict' = [verdict EXCEPT ![t] = result]
    /\ UNCHANGED <<known, listed, done, count, progress, covered>>

Next ==
    \/ \E t \in Tasks : \/ Submit(t) \/ Look(t)
                        \/ \E result \in {"true", "false"} : Answer(t, result)
    \/ \E i \in Items : Report(i) \/ Finish(i)

Spec == Init /\ [][Next]_vars
=============================================================================
