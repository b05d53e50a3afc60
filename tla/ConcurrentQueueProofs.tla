------------------------ MODULE ConcurrentQueueProofs ------------------------
(***************************************************************************)
(* Theorems about ConcurrentQueue for every set of functions and every     *)
(* limit on their concurrency.                                             *)
(***************************************************************************)
EXTENDS ConcurrentQueue, FiniteSetTheorems, SequenceTheorems, TLAPS

FuncStates == {"new", "queued", "running", "sending", "releasing", "deferred", "done"}

\* What the run goroutine knows at each of its steps.  CheckQueue saw a
\* function and only run pops, so the queue is still not empty at Pop; room
\* can only grow between CheckRoom and Pop; after Drain nothing is live and
\* nothing starts.
RunKnows == /\ rpc = "pop" => queue # <<>>
            /\ rpc \in {"check", "pop"} => HasRoom
            /\ cancelled => rpc = "stopped" /\ WgZero
            /\ result = Nil => cancelled

\* The elements of the queue are functions that wait there, each once.
QueueKnows == /\ \A i \in 1..Len(queue) : fpc[queue[i]] = "queued"
              /\ \A i, j \in 1..Len(queue) : queue[i] = queue[j] => i = j

\* c.current counts the functions that hold a slot.
Counted == current = Cardinality(Slotted)

\* Every failed function, and only a failed one, is ever sending.
Sends == \A f \in Funcs : /\ fpc[f] = "sending" => outcome[f] = "error"
                          /\ fpc[f] \in {"new", "queued", "running"} => outcome[f] = "none"

\* The errors on their way to the caller were returned by functions whose
\* worker has sent them.
Errors == /\ \A i \in 1..Len(errs) : outcome[errs[i]] = "error"
          /\ result \in Funcs => outcome[result] = "error"

\* The inductive invariant.
IInv == TypeOK /\ RunKnows /\ QueueKnows /\ Counted /\ Sends /\ Errors
         /\ (Unlimited \/ current <= concurrency)
         /\ (result = Pending <=> cpc # "returned")

USE DEF Pending, Nil, Unlimited

-----------------------------------------------------------------------------
\* Init establishes the invariant.
LEMMA InitIInv == Init => IInv
<1> SUFFICES ASSUME Init PROVE IInv
  OBVIOUS
<1>1. Slotted = {} /\ Live = {}
  BY DEF Init, Slotted, Live
<1>2. TypeOK
  <2>1. queue \in Seq(Funcs) /\ errs \in Seq(Funcs)
    BY DEF Init
  <2>2. fpc \in [Funcs -> FuncStates]
    BY DEF Init, FuncStates
  <2>3. outcome \in [Funcs -> {"none", "ok", "error"}]
    BY DEF Init
  <2>4. QED
    BY <2>1, <2>2, <2>3 DEF Init, TypeOK, FuncStates
<1>3. RunKnows /\ Counted
  BY <1>1, FS_EmptySet DEF Init, RunKnows, Counted, WgZero
<1>4. QueueKnows /\ Sends /\ Errors
  BY FuncsAssumption DEF Init, QueueKnows, Sends, Errors
<1>5. QED
  BY <1>2, <1>3, <1>4, ConcurrencyAssumption DEF Init, IInv, Unlimited

\* The functions that hold a slot are finitely many.
LEMMA SlottedFinite == IsFiniteSet(Slotted)
BY FuncsAssumption, FS_Subset DEF Slotted

\* Pop gives a slot to the head of the queue, which had none.
LEMMA SlotTaken ==
  ASSUME IInv, Pop
  PROVE  /\ Head(queue) \in Funcs
         /\ fpc[Head(queue)] = "queued"
         /\ Slotted' = Slotted \cup {Head(queue)}
         /\ Cardinality(Slotted') = Cardinality(Slotted) + 1
<1>1. queue \in Seq(Funcs) /\ queue # <<>> /\ fpc \in [Funcs -> FuncStates]
  BY DEF IInv, TypeOK, RunKnows, Pop, FuncStates
<1>2. Head(queue) \in Funcs /\ Head(queue) = queue[1] /\ 1 \in 1..Len(queue)
  BY <1>1
<1>3. fpc[Head(queue)] = "queued"
  BY <1>2 DEF IInv, QueueKnows
<1>4. Head(queue) \notin Slotted /\ Slotted' = Slotted \cup {Head(queue)}
  BY <1>1, <1>2, <1>3 DEF Slotted, Pop
<1>5. QED
  BY <1>2, <1>3, <1>4, SlottedFinite, FS_AddElement

\* Release takes the slot of its own function, and only that one.
LEMMA SlotGiven ==
  ASSUME IInv, NEW f \in Funcs, Release(f)
  PROVE  /\ Slotted' = Slotted \ {f}
         /\ Cardinality(Slotted) \in Nat \ {0}
         /\ Cardinality(Slotted') = Cardinality(Slotted) - 1
<1>1. f \in Slotted /\ Slotted' = Slotted \ {f}
  BY DEF Slotted, Release, IInv, TypeOK
<1>2. Cardinality(Slotted) # 0
  BY <1>1, SlottedFinite, FS_EmptySet
<1>3. QED
  BY <1>1, <1>2, SlottedFinite, FS_RemoveElement, FS_CardinalityType

-----------------------------------------------------------------------------
\* Steps of the caller and of the run goroutine that move no function and
\* leave c.current alone disturb only what the goroutines know.
LEMMA FunctionsStay ==
  ASSUME IInv, UNCHANGED <<concurrency, queue, current, fpc, outcome>>
  PROVE  /\ QueueKnows' /\ Counted' /\ Sends'
         /\ WgZero' = WgZero /\ HasRoom' = HasRoom
         /\ (Unlimited \/ current <= concurrency)'
<1>1. Slotted' = Slotted /\ Live' = Live
  BY DEF Slotted, Live
<1>2. QED
  BY <1>1 DEF IInv, QueueKnows, Counted, Sends, WgZero, HasRoom, Unlimited

\* The caller's steps through Wait keep the invariant.
LEMMA CallerStep == ASSUME IInv, Caller PROVE IInv'
<1>1. CASE CallWait
  BY <1>1, FunctionsStay DEF CallWait, IInv, TypeOK, RunKnows, Errors
<1>2. CASE LockWaiting
  BY <1>2, FunctionsStay DEF LockWaiting, IInv, TypeOK, RunKnows, Errors
<1>3. CASE WaitGroup \/ WakeUp
  BY <1>3, FunctionsStay DEF WaitGroup, WakeUp, IInv, TypeOK, RunKnows, Errors
<1>4. CASE ReceiveErr
  <2>1. errs \in Seq(Funcs) /\ errs # <<>>
    BY <1>4 DEF ReceiveErr, IInv, TypeOK
  <2>2. /\ Head(errs) \in Funcs /\ outcome[Head(errs)] = "error"
        /\ Tail(errs) \in Seq(Funcs)
        /\ \A i \in 1..Len(Tail(errs)) : outcome[Tail(errs)[i]] = "error"
    BY <2>1 DEF IInv, Errors
  <2>3. Errors'
    BY <2>2, <1>4 DEF ReceiveErr, Errors
  <2>4. TypeOK' /\ RunKnows'
    BY <2>2, <1>4, FunctionsStay, FuncsAssumption DEF ReceiveErr, IInv, TypeOK, RunKnows
  <2>5. QED
    BY <2>2, <2>3, <2>4, <1>4, FunctionsStay, FuncsAssumption DEF ReceiveErr, IInv
<1>5. CASE ReceiveDone
  BY <1>5, FunctionsStay, FuncsAssumption DEF ReceiveDone, IInv, TypeOK, RunKnows, Errors
<1>6. QED
  BY <1>1, <1>2, <1>3, <1>4, <1>5 DEF Caller

\* So do the steps of the run goroutine.
LEMMA RunStep == ASSUME IInv, Run PROVE IInv'
<1>1. CASE CheckRoom
  BY <1>1, FunctionsStay DEF CheckRoom, IInv, TypeOK, RunKnows, Errors
<1>2. CASE CheckQueue
  BY <1>2, FunctionsStay DEF CheckQueue, IInv, TypeOK, RunKnows, Errors
<1>3. CASE TryWaiting
  BY <1>3, FunctionsStay DEF TryWaiting, IInv, TypeOK, RunKnows, Errors
<1>4. CASE UnlockWaiting
  BY <1>4, FunctionsStay DEF UnlockWaiting, IInv, TypeOK, RunKnows, Errors
<1>5. CASE Drain
  BY <1>5, FunctionsStay DEF Drain, IInv, TypeOK, RunKnows, Errors
<1>6. CASE Pop
  <2> DEFINE h == Head(queue)
  <2>1. /\ h \in Funcs /\ fpc[h] = "queued"
        /\ Cardinality(Slotted') = Cardinality(Slotted) + 1
    BY <1>6, SlotTaken
  <2>2. /\ queue \in Seq(Funcs) /\ queue # <<>> /\ h = queue[1]
        /\ fpc \in [Funcs -> FuncStates]
    BY <1>6 DEF Pop, IInv, TypeOK, RunKnows, FuncStates
  <2>3. fpc' = [fpc EXCEPT ![h] = "running"] /\ queue' = Tail(queue)
    BY <1>6 DEF Pop
  <2>4. fpc' \in [Funcs -> FuncStates] /\ queue' \in Seq(Funcs)
    BY <2>1, <2>2, <2>3 DEF FuncStates
  <2>5. TypeOK'
    BY <2>4, <1>6 DEF Pop, IInv, TypeOK, FuncStates
  <2>6. Counted'
    BY <2>1, <1>6 DEF Pop, Counted, IInv
  <2>7. QueueKnows'
    <3>1. /\ Len(queue') = Len(queue) - 1
          /\ \A i \in 1..Len(queue') : /\ queue'[i] = queue[i+1]
                                       /\ i+1 \in 1..Len(queue)
                                       /\ i+1 # 1
      BY <2>2, <2>3
    <3>2. 1 \in 1..Len(queue)
      BY <2>2
    <3>3. \A i \in 1..Len(queue') : queue'[i] # h /\ queue'[i] \in Funcs
      BY <3>1, <3>2, <2>2 DEF IInv, QueueKnows
    <3>4. \A i \in 1..Len(queue') : fpc'[queue'[i]] = "queued"
      BY <3>1, <3>3, <2>2, <2>3 DEF IInv, QueueKnows
    <3>5. \A i, j \in 1..Len(queue') : queue'[i] = queue'[j] => i = j
      <4> SUFFICES ASSUME NEW i \in 1..Len(queue'), NEW j \in 1..Len(queue'),
                          queue'[i] = queue'[j]
                   PROVE  i = j
        OBVIOUS
      <4>1. i + 1 = j + 1
        BY <3>1 DEF IInv, QueueKnows
      <4>2. QED
        BY <4>1
    <3>6. QED
      BY <3>4, <3>5 DEF QueueKnows
  <2>8. Sends' /\ Errors'
    BY <1>6, <2>1, <2>2, <2>3 DEF Pop, IInv, Sends, Errors, FuncStates
  <2>9. RunKnows' /\ (Unlimited \/ current <= concurrency)'
    BY <1>6, ConcurrencyAssumption DEF Pop, IInv, TypeOK, RunKnows, HasRoom, Unlimited
  <2>10. QED
    BY <2>5, <2>6, <2>7, <2>8, <2>9, <1>6 DEF IInv, Pop
<1>7. QED
  BY <1>1, <1>2, <1>3, <1>4, <1>5, <1>6 DEF Run

\* A worker's step moves only its own function, and never to or from the
\* queue: the queue's elements stay.
LEMMA QueueStays ==
  ASSUME IInv, NEW f \in Funcs, fpc[f] # "queued", UNCHANGED queue,
         NEW s, fpc' = [fpc EXCEPT ![f] = s]
  PROVE  QueueKnows'
<1>1. queue \in Seq(Funcs) /\ fpc \in [Funcs -> FuncStates]
  BY DEF IInv, TypeOK, FuncStates
<1>2. \A i \in 1..Len(queue) : fpc'[queue[i]] = "queued"
  BY <1>1 DEF IInv, QueueKnows
<1>3. QED
  BY <1>2 DEF IInv, QueueKnows

\* While a worker is at work the run goroutine has not returned, so Wait
\* cannot have said nil.
LEMMA WorkerNotCancelled ==
  ASSUME IInv, NEW f \in Live
  PROVE  ~cancelled /\ result # Nil
BY DEF IInv, RunKnows, WgZero

\* A worker's steps keep the invariant.
LEMMA WorkerStep == ASSUME IInv, NEW f \in Funcs, Worker(f) PROVE IInv'
<1>0. fpc \in [Funcs -> FuncStates] /\ outcome \in [Funcs -> {"none", "ok", "error"}]
  BY DEF IInv, TypeOK, FuncStates
<1>1. CASE Return(f)
  <2>1. Slotted' = Slotted /\ f \in Live
    BY <1>0, <1>1 DEF Return, Slotted, Live
  <2>2. QueueKnows'
    BY <1>1, QueueStays DEF Return
  <2>3. TypeOK'
    BY <1>0, <1>1 DEF Return, IInv, TypeOK, FuncStates
  <2>4. Sends' /\ Errors'
    <3>1. errs \in Seq(Funcs) /\ result \in {Pending, Nil} \cup Funcs
      BY DEF IInv, TypeOK
    <3>2. outcome[f] = "none" /\ \A g \in Funcs \ {f} : outcome'[g] = outcome[g] /\ fpc'[g] = fpc[g]
      BY <1>0, <1>1 DEF Return, IInv, Sends
    <3>3. Errors'
      BY <1>1, <3>1, <3>2 DEF Return, IInv, Errors
    <3>4. QED
      BY <1>0, <1>1, <3>2, <3>3 DEF Return, IInv, Sends
  <2>5. RunKnows'
    BY <1>1, <2>1, WorkerNotCancelled DEF Return, IInv, RunKnows, HasRoom
  <2>6. QED
    BY <1>1, <2>1, <2>2, <2>3, <2>4, <2>5 DEF Return, IInv, Counted
<1>2. CASE SendErr(f)
  <2>1. Slotted' = Slotted /\ f \in Live
    BY <1>0, <1>2 DEF SendErr, Slotted, Live
  <2>2. QueueKnows'
    BY <1>2, QueueStays DEF SendErr
  <2>3. TypeOK'
    BY <1>0, <1>2 DEF SendErr, IInv, TypeOK, FuncStates
  <2>4. Sends'
    BY <1>0, <1>2 DEF SendErr, IInv, Sends
  <2>5. Errors'
    <3>1. errs \in Seq(Funcs) /\ errs' = Append(errs, f) /\ outcome[f] = "error"
      BY <1>2 DEF SendErr, IInv, TypeOK, Sends
    <3>2. \A i \in 1..Len(errs') : outcome[errs'[i]] = "error"
      BY <3>1 DEF IInv, Errors
    <3>3. QED
      BY <3>2, <1>2 DEF SendErr, IInv, Errors
  <2>6. RunKnows'
    BY <1>2, <2>1, WorkerNotCancelled DEF SendErr, IInv, RunKnows, HasRoom
  <2>7. QED
    BY <1>2, <2>1, <2>2, <2>3, <2>4, <2>5, <2>6 DEF SendErr, IInv, Counted
<1>3. CASE Rendezvous(f)
  <2>1. Slotted' = Slotted /\ f \in Live
    BY <1>0, <1>3 DEF Rendezvous, Slotted, Live
  <2>2. QueueKnows'
    BY <1>3, QueueStays DEF Rendezvous
  <2>3. TypeOK'
    BY <1>0, <1>3 DEF Rendezvous, IInv, TypeOK, FuncStates
  <2>4. Sends' /\ Errors'
    BY <1>0, <1>3 DEF Rendezvous, IInv, Sends, Errors
  <2>5. RunKnows'
    BY <1>3, <2>1, WorkerNotCancelled, FuncsAssumption
       DEF Rendezvous, IInv, RunKnows, HasRoom
  <2>6. QED
    BY <1>3, <2>1, <2>2, <2>3, <2>4, <2>5, FuncsAssumption DEF Rendezvous, IInv, Counted
<1>4. CASE Release(f)
  <2>1. /\ Cardinality(Slotted) \in Nat \ {0}
        /\ Cardinality(Slotted') = Cardinality(Slotted) - 1
        /\ f \in Live
    BY <1>4, SlotGiven DEF Release, Live
  <2>2. QueueKnows'
    BY <1>4, QueueStays DEF Release
  <2>3. TypeOK' /\ Counted'
    BY <1>0, <1>4, <2>1 DEF Release, IInv, TypeOK, Counted, FuncStates
  <2>4. Sends' /\ Errors'
    BY <1>0, <1>4 DEF Release, IInv, Sends, Errors
  <2>5. RunKnows' /\ (Unlimited \/ current <= concurrency)'
    BY <1>4, <2>1, WorkerNotCancelled, ConcurrencyAssumption
       DEF Release, IInv, TypeOK, RunKnows, HasRoom, Unlimited
  <2>6. QED
    BY <1>4, <2>2, <2>3, <2>4, <2>5 DEF Release, IInv
<1>5. CASE WgDone(f)
  <2>1. Slotted' = Slotted /\ f \in Live
    BY <1>0, <1>5 DEF WgDone, Slotted, Live
  <2>2. QueueKnows'
    BY <1>5, QueueStays DEF WgDone
  <2>3. TypeOK' /\ Sends' /\ Errors'
    BY <1>0, <1>5 DEF WgDone, IInv, TypeOK, Sends, Errors, FuncStates
  <2>4. RunKnows'
    BY <1>5, <2>1, WorkerNotCancelled DEF WgDone, IInv, RunKnows, HasRoom
  <2>5. QED
    BY <1>5, <2>1, <2>2, <2>3, <2>4 DEF WgDone, IInv, Counted
<1>6. QED
  BY <1>1, <1>2, <1>3, <1>4, <1>5 DEF Worker

\* Push appends a function that is not in the queue yet.
LEMMA PushStep == ASSUME IInv, NEW f \in Funcs, Push(f) PROVE IInv'
<1>1. /\ queue \in Seq(Funcs) /\ queue' = Append(queue, f)
      /\ fpc \in [Funcs -> FuncStates] /\ fpc' = [fpc EXCEPT ![f] = "queued"]
      /\ fpc[f] = "new"
  BY DEF Push, IInv, TypeOK, FuncStates
<1>2. Slotted' = Slotted /\ Live' = Live
  BY <1>1 DEF Slotted, Live, FuncStates
<1>3. TypeOK'
  BY <1>1 DEF Push, IInv, TypeOK, FuncStates
<1>4. QueueKnows'
  <2>1. \A i \in 1..Len(queue) : queue[i] # f
    BY <1>1 DEF IInv, QueueKnows
  <2>2. QED
    BY <1>1, <2>1 DEF IInv, QueueKnows
<1>5. Sends' /\ Errors'
  BY <1>1 DEF Push, IInv, Sends, Errors
<1>6. RunKnows'
  BY <1>1, <1>2 DEF Push, IInv, RunKnows, HasRoom, WgZero
<1>7. QED
  BY <1>2, <1>3, <1>4, <1>5, <1>6 DEF Push, IInv, Counted

\* Every step keeps the invariant.
LEMMA NextIInv == IInv /\ [Next]_vars => IInv'
<1> SUFFICES ASSUME IInv, [Next]_vars PROVE IInv'
  OBVIOUS
<1>1. CASE UNCHANGED vars
  BY <1>1, FunctionsStay DEF vars, IInv, TypeOK, RunKnows, Errors
<1>2. CASE Next
  BY <1>2, CallerStep, RunStep, WorkerStep, PushStep DEF Next
<1>3. QED
  BY <1>1, <1>2

-----------------------------------------------------------------------------
\* The inductive invariant holds in every reachable state.
THEOREM Invariance == Spec => []IInv
BY InitIInv, NextIInv, PTL DEF Spec

\* The queue's fields always have their types; in particular c.current, a
\* uint, never wraps below zero.
THEOREM TypeCorrect == Spec => []TypeOK
<1>1. IInv => TypeOK
  BY DEF IInv
<1>2. QED
  BY <1>1, Invariance, PTL

\* The unlocked reads of run never let more functions hold a slot than the
\* configured concurrency.
THEOREM BoundHolds == Spec => []ConcurrencyBound
<1>1. IInv => ConcurrencyBound
  BY DEF IInv, Counted, ConcurrencyBound
<1>2. QED
  BY <1>1, Invariance, PTL

\* When Wait returns nil no worker is left behind it.
THEOREM NilIsQuiet == Spec => []NilAfterDrain
<1>1. IInv => NilAfterDrain
  BY DEF IInv, RunKnows, NilAfterDrain
<1>2. QED
  BY <1>1, Invariance, PTL

-----------------------------------------------------------------------------
\* The functions the pool calls busy are those that hold a slot.
LEMMA BusyIsSlotted == ASSUME IInv PROVE Pool!Busy = Slotted
BY DEF IInv, TypeOK, Pool!Busy, PoolState, Slotted

\* Steps that move no function between the pool's states leave them alone.
LEMMA PoolStateStays ==
  ASSUME UNCHANGED <<fpc, outcome>>
  PROVE  PoolState' = PoolState
BY DEF PoolState, Slotted

\* Every step of the queue is a step of the pool or leaves it unchanged.
LEMMA StepSimulation == IInv /\ IInv' /\ [Next]_vars => [Pool!Next]_(Pool!vars)
<1> SUFFICES ASSUME IInv, IInv', [Next]_vars PROVE [Pool!Next]_(Pool!vars)
  OBVIOUS
<1> USE DEF Pool!vars
<1>0. fpc \in [Funcs -> FuncStates] /\ outcome \in [Funcs -> {"none", "ok", "error"}]
  BY DEF IInv, TypeOK, FuncStates
<1>1. CASE UNCHANGED vars
  BY <1>1, PoolStateStays DEF vars
<1>2. CASE CallWait \/ LockWaiting \/ WaitGroup \/ WakeUp
  BY <1>2, PoolStateStays DEF CallWait, LockWaiting, WaitGroup, WakeUp
<1>3. CASE CheckRoom \/ CheckQueue \/ TryWaiting \/ UnlockWaiting \/ Drain
  BY <1>3, PoolStateStays DEF CheckRoom, CheckQueue, TryWaiting, UnlockWaiting, Drain
<1>4. CASE ReceiveErr
  <2>1. errs \in Seq(Funcs) /\ errs # <<>> /\ result = Pending
    BY <1>4 DEF ReceiveErr, IInv, TypeOK
  <2>2. Head(errs) \in Funcs /\ outcome[Head(errs)] = "error"
    BY <2>1 DEF IInv, Errors
  <2>3. PoolState[Head(errs)] \in {"failing", "failed"}
    BY <2>2, <1>0 DEF PoolState, IInv, Sends
  <2>4. Pool!Answer
    BY <1>4, <2>1, <2>2, <2>3, PoolStateStays DEF ReceiveErr, Pool!Answer, Pool!Pending
  <2>5. QED
    BY <2>4 DEF Pool!Next
<1>5. CASE ReceiveDone
  <2>1. Slotted = {} /\ result = Pending
    BY <1>5 DEF ReceiveDone, IInv, RunKnows, WgZero, Live, Slotted
  <2>2. Pool!Answer
    BY <1>5, <2>1, BusyIsSlotted, PoolStateStays
       DEF ReceiveDone, Pool!Answer, Pool!Pending, Pool!Nil
  <2>3. QED
    BY <2>2 DEF Pool!Next
<1>6. CASE Pop
  <2> DEFINE h == Head(queue)
  <2>1. h \in Funcs /\ fpc[h] = "queued" /\ outcome[h] = "none"
    BY <1>6, SlotTaken DEF IInv, Sends
  <2>2. result # Nil /\ (concurrency = -1 \/ Pool!Cardinality(Pool!Busy) < concurrency)
    <3>1. Pool!Cardinality(Pool!Busy) = Cardinality(Slotted)
      BY BusyIsSlotted DEF Pool!Cardinality, Cardinality
    <3>2. QED
      BY <3>1, <1>6 DEF Pop, IInv, RunKnows, HasRoom, Unlimited, Counted
  <2>3. PoolState[h] = "waiting"
    BY <2>1 DEF PoolState
  <2>4. PoolState' = [PoolState EXCEPT ![h] = "running"]
    BY <1>0, <1>6, <2>1 DEF Pop, PoolState, Slotted, FuncStates
  <2>5. Pool!Start(h)
    BY <1>6, <2>2, <2>3, <2>4 DEF Pop, Pool!Start, Pool!Nil
  <2>6. QED
    BY <2>1, <2>5 DEF Pool!Next
<1>7. ASSUME NEW f \in Funcs, Push(f) PROVE Pool!Next
  <2>1. PoolState[f] = "idle" /\ PoolState' = [PoolState EXCEPT ![f] = "waiting"]
    BY <1>0, <1>7 DEF Push, PoolState, Slotted, FuncStates
  <2>2. Pool!Submit(f)
    BY <1>7, <2>1 DEF Push, Pool!Submit
  <2>3. QED
    BY <2>2 DEF Pool!Next
<1>8. ASSUME NEW f \in Funcs, Return(f) PROVE [Pool!Next]_(Pool!vars)
  <2>1. outcome[f] = "none" /\ PoolState[f] = "running"
    BY <1>0, <1>8 DEF Return, PoolState, Slotted, IInv, Sends
  <2>2. CASE outcome'[f] = "ok"
    <3>1. PoolState' = PoolState
      BY <1>0, <1>8, <2>1, <2>2 DEF Return, PoolState, Slotted, FuncStates
    <3>2. QED
      BY <1>8, <3>1 DEF Return
  <2>3. CASE outcome'[f] = "error"
    <3>1. PoolState' = [PoolState EXCEPT ![f] = "failing"]
      BY <1>0, <1>8, <2>1, <2>3 DEF Return, PoolState, Slotted, FuncStates
    <3>2. Pool!Fail(f)
      BY <1>8, <2>1, <3>1 DEF Return, Pool!Fail
    <3>3. QED
      BY <3>2 DEF Pool!Next
  <2>4. QED
    BY <1>0, <1>8, <2>2, <2>3 DEF Return
<1>9. ASSUME NEW f \in Funcs, SendErr(f) PROVE UNCHANGED Pool!vars
  BY <1>0, <1>9 DEF SendErr, PoolState, Slotted, FuncStates
<1>10. ASSUME NEW f \in Funcs, Rendezvous(f) PROVE Pool!Next
  <2>1. outcome[f] = "error" /\ result = Pending /\ PoolState[f] \in {"failing", "failed"}
    BY <1>0, <1>10 DEF Rendezvous, IInv, Sends, PoolState, Slotted
  <2>2. PoolState' = PoolState
    BY <1>0, <1>10 DEF Rendezvous, PoolState, Slotted, FuncStates
  <2>3. Pool!Answer
    BY <1>10, <2>1, <2>2 DEF Rendezvous, Pool!Answer, Pool!Pending
  <2>4. QED
    BY <2>3 DEF Pool!Next
<1>11. ASSUME NEW f \in Funcs, Release(f) PROVE Pool!Next
  <2>1. \/ /\ PoolState[f] = "running"
           /\ PoolState' = [PoolState EXCEPT ![f] = "finished"]
        \/ /\ PoolState[f] = "failing"
           /\ PoolState' = [PoolState EXCEPT ![f] = "failed"]
    <3>1. CASE outcome[f] = "error"
      BY <1>0, <1>11, <3>1 DEF Release, PoolState, Slotted, FuncStates
    <3>2. CASE outcome[f] # "error"
      BY <1>0, <1>11, <3>2 DEF Release, PoolState, Slotted, FuncStates
    <3>3. QED
      BY <3>1, <3>2
  <2>2. Pool!Finish(f)
    BY <1>11, <2>1 DEF Release, Pool!Finish
  <2>3. QED
    BY <2>2 DEF Pool!Next
<1>12. ASSUME NEW f \in Funcs, WgDone(f) PROVE UNCHANGED Pool!vars
  BY <1>0, <1>12 DEF WgDone, PoolState, Slotted, FuncStates
<1>13. QED
  BY <1>1, <1>2, <1>3, <1>4, <1>5, <1>6, <1>7, <1>8, <1>9, <1>10, <1>11, <1>12
     DEF Next, Caller, Run, Worker

\* The queue implements the task pool: bound, at most one start per
\* function, an answer that is a real error or a nil behind which nothing
\* runs or starts.
THEOREM Refinement == Spec => ImplementsPool
<1>1. Init => Pool!Init
  BY ConcurrencyAssumption DEF Init, Pool!Init, PoolState, Pool!Pending
<1>2. QED
  BY <1>1, StepSimulation, Invariance, PTL DEF Spec, ImplementsPool, Pool!Spec
=============================================================================
