------------------------------ MODULE TaskPool ------------------------------
(***************************************************************************)
(* What pkg/cmd/queue promises the callers in pkg/cmd/run.go, without its  *)
(* goroutines, locks and channel: tasks are handed in, at most slots of    *)
(* them run at a time, each at most once, and one answer is given.  The    *)
(* answer is the error of a task that failed, or nil; nil is given only    *)
(* when nothing is running, and nothing starts after it.                   *)
(*                                                                         *)
(* This is the promise the code keeps.  It is weaker than the comments of  *)
(* queue.go: see the findings of ConcurrentQueue in README.md.             *)
(***************************************************************************)
EXTENDS Integers, FiniteSets

CONSTANT Tasks        (* the tasks of one batch                            *)

VARIABLES slots,      (* how many may run at once; -1 for no limit         *)
          state,      (* what became of each task                          *)
          answer      (* what the caller was told                          *)

vars == <<slots, state, answer>>

Pending == "pending"
Nil     == "nil"

States == {"idle", "waiting", "running", "failing", "finished", "failed"}

\* Failing tasks still hold their slot until their error is delivered.
Busy == {t \in Tasks : state[t] \in {"running", "failing"}}

Init == /\ slots \in Nat \cup {-1}
        /\ state = [t \in Tasks |-> "idle"]
        /\ answer = Pending

Submit(t) == /\ state[t] = "idle"
             /\ state' = [state EXCEPT ![t] = "waiting"]
             /\ UNCHANGED <<slots, answer>>

Start(t) == /\ state[t] = "waiting"
            /\ answer # Nil
            /\ slots = -1 \/ Cardinality(Busy) < slots
            /\ state' = [state EXCEPT ![t] = "running"]
            /\ UNCHANGED <<slots, answer>>

Fail(t) == /\ state[t] = "running"
           /\ state' = [state EXCEPT ![t] = "failing"]
           /\ UNCHANGED <<slots, answer>>

Finish(t) == /\ \/ /\ state[t] = "running"
                   /\ state' = [state EXCEPT ![t] = "finished"]
                \/ /\ state[t] = "failing"
                   /\ state' = [state EXCEPT ![t] = "failed"]
             /\ UNCHANGED <<slots, answer>>

Answer == /\ answer = Pending
          /\ \/ \E t \in Tasks : state[t] \in {"failing", "failed"} /\ answer' = t
             \/ Busy = {} /\ answer' = Nil
          /\ UNCHANGED <<slots, state>>

Next == Answer \/ \E t \in Tasks : Submit(t) \/ Start(t) \/ Fail(t) \/ Finish(t)

Spec == Init /\ [][Next]_vars
=============================================================================
