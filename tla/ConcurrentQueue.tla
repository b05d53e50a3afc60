--------------------------- MODULE ConcurrentQueue ---------------------------
(***************************************************************************)
(* pkg/cmd/queue/queue.go: the queue that run.go uses to take snapshots    *)
(* and to sync mirrors.  One batch: the caller pushes functions and calls  *)
(* Wait; the run goroutine pops them and starts one worker goroutine each. *)
(*                                                                         *)
(* A step is what one goroutine does between two points where another can  *)
(* interfere: a critical section of queueMux is one step, each unlocked    *)
(* read is a step of its own.                                              *)
(***************************************************************************)
EXTENDS Integers, Sequences, SequencesExt, FiniteSets

CONSTANTS Funcs,    (* the functions a caller may push                     *)
          Limits    (* the values of WithMaxConcurrency                    *)

\* A concurrency below -1 panics in make(chan error, concurrency+1); 0, which
\* nothing forbids, has no room for any function.
ASSUME ConcurrencyAssumption == Limits \subseteq Nat \cup {-1}
ASSUME FuncsAssumption == /\ IsFiniteSet(Funcs)
                          /\ {"pending", "nil"} \cap Funcs = {}

VARIABLES concurrency,(* c.cfg.concurrency                                 *)
          queue,      (* c.queue                                           *)
          current,    (* c.current                                         *)
          errs,       (* c.errs: the functions whose error is buffered     *)
          waiting,    (* c.waiting: who holds the mutex                    *)
          cancelled,  (* c.ctx.Done() is closed                            *)
          rpc,        (* where the run goroutine is                        *)
          cpc,        (* where the caller is                               *)
          fpc,        (* where each function and its worker goroutine are  *)
          outcome,    (* history: what each function returned              *)
          result      (* what Wait returned                                *)

vars == <<concurrency, queue, current, errs, waiting, cancelled, rpc, cpc, fpc, outcome, result>>

Pending == "pending"
Nil     == "nil"

Unlimited == concurrency = -1
ErrCap    == concurrency + 1

Slotted == {f \in Funcs : fpc[f] \in {"running", "sending", "releasing"}}

\* The functions c.wg counts: wg.Add before the worker starts, wg.Done last.
Live    == {f \in Funcs : fpc[f] \in {"running", "sending", "releasing", "deferred"}}
WgZero  == Live = {}
-----------------------------------------------------------------------------
Init == /\ concurrency \in Limits
        /\ queue = <<>>
        /\ current = 0
        /\ errs = <<>>
        /\ waiting = "free"
        /\ cancelled = FALSE
        /\ rpc = "room"
        /\ cpc = "push"
        /\ fpc = [f \in Funcs |-> "new"]
        /\ outcome = [f \in Funcs |-> "none"]
        /\ result = Pending

-----------------------------------------------------------------------------
(* The caller: Push, then Wait.                                            *)

Push(f) == /\ cpc = "push"
           /\ fpc[f] = "new"
           /\ queue' = Append(queue, f)
           /\ fpc' = [fpc EXCEPT ![f] = "queued"]
           /\ UNCHANGED <<concurrency, current, errs, waiting, cancelled, rpc, cpc, outcome, result>>

CallWait == /\ cpc = "push"
            /\ cpc' = "lock"
            /\ UNCHANGED <<concurrency, queue, current, errs, waiting, cancelled, rpc, fpc, outcome, result>>

LockWaiting == /\ cpc = "lock"
               /\ waiting = "free"
               /\ waiting' = "caller"
               /\ cpc' = "wg"
               /\ UNCHANGED <<concurrency, queue, current, errs, cancelled, rpc, fpc, outcome, result>>

\* wg.Wait returns at once or sleeps until the counter is zero.
WaitGroup == /\ cpc = "wg"
             /\ cpc' = IF WgZero THEN "select" ELSE "asleep"
             /\ UNCHANGED <<concurrency, queue, current, errs, waiting, cancelled, rpc, fpc, outcome, result>>

\* It panics if it finds, when it runs again, that wg.Add has been called in
\* between (sync: WaitGroup is reused before previous Wait has returned).
WakeUp == /\ cpc = "woken"
          /\ cpc' = IF WgZero THEN "select" ELSE "panicked"
          /\ UNCHANGED <<concurrency, queue, current, errs, waiting, cancelled, rpc, fpc, outcome, result>>

\* The select of Wait: when both cases are ready either one may be taken.
ReceiveErr == /\ cpc = "select"
              /\ errs # <<>>
              /\ result' = Head(errs)
              /\ errs' = Tail(errs)
              /\ cpc' = "returned"
              /\ UNCHANGED <<concurrency, queue, current, waiting, cancelled, rpc, fpc, outcome>>

ReceiveDone == /\ cpc = "select"
               /\ cancelled
               /\ result' = Nil
               /\ cpc' = "returned"
               /\ UNCHANGED <<concurrency, queue, current, errs, waiting, cancelled, rpc, fpc, outcome>>

-----------------------------------------------------------------------------
(* The run goroutine.                                                      *)

\* Seeded fault: room for one too many.
RoomForOneMore == Unlimited \/ current <= concurrency

HasRoom == Unlimited \/ current < concurrency

\* The unlocked test of c.current; without room the loop spins.
CheckRoom == /\ rpc = "room"
             /\ HasRoom
             /\ rpc' = "check"
             /\ UNCHANGED <<concurrency, queue, current, errs, waiting, cancelled, cpc, fpc, outcome, result>>

\* The unlocked test of len(c.queue).
CheckQueue == /\ rpc = "check"
              /\ rpc' = IF queue # <<>> THEN "pop" ELSE "try"
              /\ UNCHANGED <<concurrency, queue, current, errs, waiting, cancelled, cpc, fpc, outcome, result>>

Pop == /\ rpc = "pop"
       /\ current' = current + 1
       /\ queue' = Tail(queue)
       /\ fpc' = [fpc EXCEPT ![Head(queue)] = "running"]
       /\ rpc' = "room"
       /\ UNCHANGED <<concurrency, errs, waiting, cancelled, cpc, outcome, result>>

\* waiting.TryLock: it fails once the caller is inside Wait.
TryWaiting == /\ rpc = "try"
              /\ \/ /\ waiting = "free"
                    /\ waiting' = "run"
                    /\ rpc' = "unlock"
                 \/ /\ waiting # "free"
                    /\ rpc' = "drain"
                    /\ UNCHANGED waiting
              /\ UNCHANGED <<concurrency, queue, current, errs, cancelled, cpc, fpc, outcome, result>>

UnlockWaiting == /\ rpc = "unlock"
                 /\ waiting' = "free"
                 /\ rpc' = "room"
                 /\ UNCHANGED <<concurrency, queue, current, errs, cancelled, cpc, fpc, outcome, result>>

\* Seeded faults: no wg.Wait; no deferred cancel.
DrainAtOnce == /\ rpc = "drain"
               /\ rpc' = "stopped"
               /\ cancelled' = TRUE
               /\ UNCHANGED <<concurrency, queue, current, errs, waiting, cpc, fpc, outcome, result>>

DrainSilently == /\ rpc = "drain"
                 /\ WgZero
                 /\ rpc' = "stopped"
                 /\ UNCHANGED <<concurrency, queue, current, errs, waiting, cancelled, cpc, fpc, outcome, result>>

\* wg.Wait, return, and the deferred cancel.
Drain == /\ rpc = "drain"
         /\ WgZero
         /\ rpc' = "stopped"
         /\ cancelled' = TRUE
         /\ UNCHANGED <<concurrency, queue, current, errs, waiting, cpc, fpc, outcome, result>>

-----------------------------------------------------------------------------
(* The worker goroutine of a function.                                     *)

Return(f) == /\ fpc[f] = "running"
             /\ \/ /\ outcome' = [outcome EXCEPT ![f] = "ok"]
                   /\ fpc' = [fpc EXCEPT ![f] = "releasing"]
                \/ /\ outcome' = [outcome EXCEPT ![f] = "error"]
                   /\ fpc' = [fpc EXCEPT ![f] = "sending"]
             /\ UNCHANGED <<concurrency, queue, current, errs, waiting, cancelled, rpc, cpc, result>>

\* c.errs <- err blocks while the buffer is full.
SendErr(f) == /\ fpc[f] = "sending"
              /\ Len(errs) < ErrCap
              /\ errs' = Append(errs, f)
              /\ fpc' = [fpc EXCEPT ![f] = "releasing"]
              /\ UNCHANGED <<concurrency, queue, current, waiting, cancelled, rpc, cpc, outcome, result>>

\* With concurrency -1 the channel has no buffer: the send needs the
\* caller in its select.
Rendezvous(f) == /\ fpc[f] = "sending"
                 /\ ErrCap = 0
                 /\ cpc = "select"
                 /\ result' = f
                 /\ cpc' = "returned"
                 /\ fpc' = [fpc EXCEPT ![f] = "releasing"]
                 /\ UNCHANGED <<concurrency, queue, current, errs, waiting, cancelled, rpc, outcome>>

\* Seeded fault: the slot given back twice.
ReleaseTwice(f) == /\ fpc[f] = "releasing"
                   /\ current' = current - 2
                   /\ fpc' = [fpc EXCEPT ![f] = "deferred"]
                   /\ UNCHANGED <<concurrency, queue, errs, waiting, cancelled, rpc, cpc, outcome, result>>

\* The deferred critical section that gives the slot back.
Release(f) == /\ fpc[f] = "releasing"
              /\ current' = current - 1
              /\ fpc' = [fpc EXCEPT ![f] = "deferred"]
              /\ UNCHANGED <<concurrency, queue, errs, waiting, cancelled, rpc, cpc, outcome, result>>

\* The last wg.Done wakes the caller.  (An Add within this step panics at once.)
WgDone(f) == /\ fpc[f] = "deferred"
             /\ fpc' = [fpc EXCEPT ![f] = "done"]
             /\ cpc' = IF cpc = "asleep" /\ Live = {f} THEN "woken" ELSE cpc
             /\ UNCHANGED <<concurrency, queue, current, errs, waiting, cancelled, rpc, outcome, result>>

-----------------------------------------------------------------------------
Caller    == CallWait \/ LockWaiting \/ WaitGroup \/ WakeUp \/ ReceiveErr \/ ReceiveDone
Run       == CheckRoom \/ CheckQueue \/ Pop \/ TryWaiting \/ UnlockWaiting \/ Drain
Worker(f) == Return(f) \/ SendErr(f) \/ Rendezvous(f) \/ Release(f) \/ WgDone(f)

\* A panic ends the process.
Panicked == cpc = "panicked"
Next == ~Panicked /\ (Caller \/ Run \/ \E f \in Funcs : Push(f) \/ Worker(f))

Spec == Init /\ [][Next]_vars

\* The Go scheduler runs every runnable goroutine again and again, and the
\* functions return.  sync.Mutex hands a starving waiter the lock, so the
\* caller gets c.waiting although run keeps trying it.
Fairness == /\ WF_vars(~Panicked /\ Run)
            /\ \A f \in Funcs : WF_vars(~Panicked /\ Worker(f))
            /\ WF_vars(~Panicked /\ Caller)
            /\ SF_vars(~Panicked /\ LockWaiting)

FairSpec == Spec /\ Fairness
-----------------------------------------------------------------------------
\* Type correctness of the queue's fields and of the three kinds of goroutine.
TypeOK == /\ concurrency \in Limits
          /\ queue \in Seq(Funcs)
          /\ current \in Nat
          /\ errs \in Seq(Funcs)
          /\ waiting \in {"free", "run", "caller"}
          /\ cancelled \in BOOLEAN
          /\ rpc \in {"room", "check", "pop", "try", "unlock", "drain", "stopped"}
          /\ cpc \in {"push", "lock", "wg", "asleep", "woken", "select", "returned", "panicked"}
          /\ fpc \in [Funcs -> {"new", "queued", "running", "sending",
                                "releasing", "deferred", "done"}]
          /\ outcome \in [Funcs -> {"none", "ok", "error"}]
          /\ result \in {Pending, Nil} \cup Funcs

\* c.current is read without the lock, and a worker gives its slot back in a
\* critical section of its own: even so no more functions than the configured
\* concurrency are between their start and the release of their slot.
ConcurrencyBound == Unlimited \/ Cardinality(Slotted) <= concurrency

\* The nil of Wait (the ctx.Done case) races with the run goroutine and with
\* the workers: no worker is left running behind it, not even in its deferred
\* calls.
NilAfterDrain == result = Nil => WgZero

\* What a caller of the queue can tell of each function: it holds its slot
\* from Pop to Release.
PoolState == [f \in Funcs |->
                IF fpc[f] = "new" THEN "idle"
                ELSE IF fpc[f] = "queued" THEN "waiting"
                ELSE IF fpc[f] \in {"running", "sending", "releasing"}
                     THEN IF outcome[f] = "error" THEN "failing" ELSE "running"
                     ELSE IF outcome[f] = "error" THEN "failed" ELSE "finished"]

\* The queue implements the task pool.
Pool == INSTANCE TaskPool WITH
          Tasks <- Funcs, slots <- concurrency, state <- PoolState, answer <- result

\* Every step of the goroutines is a step of the task pool or changes
\* nothing the pool shows.
ImplementsPool == Pool!Spec

\* More functions have failed than c.errs holds.
TooManyErrors == Cardinality({f \in Funcs : outcome[f] = "error"}) > ErrCap

\* Once called, Wait returns, with fair goroutines and functions that return,
\* unless more functions fail than the channel of errors has room for, or run
\* starts another function just as the last one wakes Wait, which then panics.
\* With a concurrency of 0 run never gets as far as to see that Wait was called.
WaitReturns ==
  (cpc = "lock" /\ concurrency # 0) ~> (cpc = "returned" \/ TooManyErrors \/ Panicked)
-----------------------------------------------------------------------------
(* What a comment of queue.go says and the code does not do.               *)

\* queue.go, Wait: nil is returned "if no errors occurred".
NilMeansNoError == result = Nil => \A f \in Funcs : outcome[f] # "error"
=============================================================================
