----------------------------- MODULE AtLeastOnce -----------------------------
(***************************************************************************)
(* What the rest of the service expects of a queue of jobs: a job that is  *)
(* reported as done has had its effect, at least once; one that is given   *)
(* up has been tried often enough; and none is run, or takes effect, more  *)
(* than Most times.  There are no workers, locks or attempts here, and no  *)
(* way for a job to leave the queue other than these two.                  *)
(***************************************************************************)
EXTENDS Naturals

CONSTANTS Job, Least, Most

VARIABLES
    state,   \* absent, queued, done or failed
    runs,    \* how often the job was begun
    effects  \* how often it has taken effect

vars == <<state, runs, effects>>

Init ==
    /\ state = [j \in Job |-> "absent"]
    /\ runs = [j \in Job |-> 0]
    /\ effects = [j \in Job |-> 0]

Queue(j) ==
    /\ state[j] = "absent"
    /\ state' = [state EXCEPT ![j] = "queued"]
    /\ UNCHANGED <<runs, effects>>

Begin(j) ==
    /\ state[j] = "queued"
    /\ runs[j] < Most
    /\ runs' = [runs EXCEPT ![j] = @ + 1]
    /\ UNCHANGED <<state, effects>>

(* A run may still be going on when the job is run again, or has ended. *)
TakeEffect(j) ==
    /\ effects[j] < runs[j]
    /\ effects' = [effects EXCEPT ![j] = @ + 1]
    /\ UNCHANGED <<state, runs>>

Finish(j) ==
    /\ state[j] = "queued"
    /\ effects[j] > 0
    /\ state' = [state EXCEPT ![j] = "done"]
    /\ UNCHANGED <<runs, effects>>

GiveUp(j) ==
    /\ state[j] = "queued"
    /\ runs[j] >= Least
    /\ state' = [state EXCEPT ![j] = "failed"]
    /\ UNCHANGED <<runs, effects>>

Next ==
    \E j \in Job :
        Queue(j) \/ Begin(j) \/ TakeEffect(j) \/ Finish(j) \/ GiveUp(j)

Spec == Init /\ [][Next]_vars
=============================================================================
