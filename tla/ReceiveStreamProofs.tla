------------------------- MODULE ReceiveStreamProofs -------------------------
(***************************************************************************)
(* Theorems about ReceiveStream for every set of well-formed streams, every *)
(* start offset and every number of tolerated errors.                      *)
(***************************************************************************)
EXTENDS ReceiveStream, SequenceTheorems, TLAPS

\* The commands the goroutine has dealt with: all it scanned but the one that
\* PreOp or the receiver has yet to see.
InFlight == gpc \in {"preop", "dispatch"}
Handled  == IF InFlight THEN scanned - 1 ELSE scanned

\* Where the loop is.
Looping == gpc \in {"scan", "preop", "dispatch", "postop", "count"}

\* A command the goroutine works on was scanned.
Placed == gpc \in {"preop", "dispatch", "postop", "count"} => scanned > 0

\* Every command dealt with was taken, skipped or counted as an error, and what was
\* taken was taken in the order of the stream.
Accounted ==
    /\ \A n \in 1..Handled : stream[n].kind \in {"subvol", "op"} => n \in TakenOnes \cup skipped \cup failed
    /\ \A i \in DOMAIN applied : applied[i].n \in 1..Handled
    /\ \A i, j \in DOMAIN applied : i < j => applied[i].n < applied[j].n

\* Errors beyond the limit end the loop, and so does the stream's END.
Tolerated == errors = 0 \/ errors < maxErrors
Complete  == scanned = Len(stream) /\ Tolerated

\* The goroutine leaves with the stream complete, or with an error sent, which
\* stays in the channel until it is drained.
Answered ==
    /\ Looping \/ gpc = "last" => Tolerated
    /\ gpc = "last" => scanned = Len(stream)
    /\ gpc \in {"leave", "left"} => Complete \/ errCh \in {"full", "closed full"} \/ result = "error"
    /\ errCh \in {"full", "closed full"} => gpc \in {"leave", "left"}
    /\ mpc = "wait" => errCh \in {"empty", "full"}
    /\ mpc = "drain" => errCh \in {"closed", "closed full"}
    /\ mpc \in {"wait", "drain"} => result = "pending"
    /\ mpc = "returned" => result # "pending"
    /\ errCh \in {"closed", "closed full"} => ctxEnd \in {"ended", "canceled"}
    /\ result \in {"nil", "error"} => errCh = "closed"
    /\ ctxEnd = "ended" => gpc = "left"

\* The current subvolume is that of the last command dealt with, and there is
\* one except before the first command, after an END that is not honored, and
\* when PreOp failed on a subvolume or its attributes could not be read.
Known(k) == k > 0 /\ stream[k].kind # "end" =>
               /\ maxErrors <= 1 => cur = stream[k].vol
               /\ cur = 0 => maxErrors > 1 /\ (hooks \/ Unbegun(k))

Current ==
    /\ gpc \in {"preop", "postop"} => hooks
    /\ gpc \in {"postop", "count"} => (Cmd.kind = "end" => ~honorEnd)
    /\ Looping => Known(Handled)

\* The inductive invariant.
IInv == TypeOK /\ Placed /\ Accounted /\ Answered /\ Current /\ RightSubvolume /\ NoPanic

-----------------------------------------------------------------------------
\* The types in three parts: the stream and where the two loops are, the
\* counters, and what the receiver has taken.
Places == {"scan", "preop", "dispatch", "postop", "count", "send", "last", "leave", "left", "panicked"}

PlacesOK == /\ stream \in Streams /\ start \in Starts /\ maxErrors \in ErrorLimits
            /\ honorEnd \in BOOLEAN /\ hooks \in BOOLEAN
            /\ gpc \in Places
            /\ errCh \in {"empty", "full", "closed", "closed full"}
            /\ ctxEnd \in {"no", "ended", "canceled", "deadline"}
            /\ mpc \in {"wait", "drain", "returned"}
            /\ result \in {"pending", "nil", "error", "deadline"}
CountsOK == /\ offset \in Nat /\ cur \in Nat /\ errors \in Nat
            /\ faults \in 0..MaxFaults
PassedOK == /\ scanned \in 0..Len(stream)
            /\ skipped \subseteq 1..Len(stream) /\ failed \subseteq 1..Len(stream)
TakenOK  == applied \in Seq([n : Nat, vol : Nat])

LEMMA TypeParts == TypeOK <=> PlacesOK /\ CountsOK /\ PassedOK /\ TakenOK
BY Zenon DEF TypeOK, PlacesOK, CountsOK, PassedOK, TakenOK, Places

\* A stream is a finite sequence of commands with the kernel's grammar.
LEMMA StreamFacts ==
  ASSUME TypeOK
  PROVE  /\ stream \in Seq(Command) /\ WellFormed(stream) /\ Len(stream) \in Nat
         /\ DOMAIN stream = 1..Len(stream) /\ \A n \in 1..Len(stream) : stream[n] \in Command
         /\ scanned \in Nat /\ scanned <= Len(stream) /\ start \in Nat /\ maxErrors \in Nat
<1>1. stream \in Seq(Command) /\ WellFormed(stream) /\ start \in Nat /\ maxErrors \in Nat
  BY ReceiveAssumption, TypeParts DEF PlacesOK
<1>2. scanned \in 0..Len(stream)
  BY TypeParts DEF PassedOK
<1>3. QED
  BY <1>1, <1>2

\* A failing call takes one of the failures, none is given back.
LEMMA FewerFaults ==
  ASSUME TypeOK, CallFails
  PROVE  faults' \in 0..MaxFaults
<1>1. faults \in 0..MaxFaults /\ MaxFaults \in Nat
  BY TypeParts, ReceiveAssumption DEF CountsOK
<1>2. QED
  BY <1>1 DEF CallFails

\* The command at hand is one of the stream's.
LEMMA CmdTypes ==
  ASSUME TypeOK, scanned > 0
  PROVE  Cmd \in Command /\ Cmd.vol \in Nat /\ scanned \in 1..Len(stream)
<1>1. scanned \in 1..Len(stream) /\ Cmd \in Command
  BY StreamFacts DEF Cmd
<1>2. QED
  BY <1>1 DEF Command

\* An error is counted against the command at hand and ends the loop or not.
LEMMA CountErrorTypes ==
  ASSUME TypeOK, scanned > 0, NEW next \in Places, CountError(next)
  PROVE  errors' \in Nat /\ failed' \subseteq 1..Len(stream) /\ gpc' \in {"send", next}
BY CmdTypes, TypeParts DEF CountsOK, PassedOK, CountError

LEMMA CountErrorEnds ==
  ASSUME NEW next, CountError(next)
  PROVE  gpc' \in {"send", next}
BY DEF CountError

\* A sequence with one more element at its end.
LEMMA Appended ==
  ASSUME NEW S, NEW s \in Seq(S), NEW e \in S
  PROVE  /\ DOMAIN Append(s, e) = DOMAIN s \cup {Len(s) + 1}
         /\ \A j \in DOMAIN s : Append(s, e)[j] = s[j]
         /\ Append(s, e)[Len(s) + 1] = e
BY AppendProperties

\* What the receiver takes is recorded with the subvolume it takes it for.
LEMMA TakeTypes ==
  ASSUME TypeOK, scanned > 0, cur' \in Nat, Take
  PROVE  applied' \in Seq([n : Nat, vol : Nat])
<1>1. scanned \in Nat /\ applied \in Seq([n : Nat, vol : Nat])
  BY StreamFacts, TypeParts DEF TakenOK
<1>2. [n |-> scanned, vol |-> cur'] \in [n : Nat, vol : Nat]
  BY <1>1
<1>3. QED
  BY <1>1, <1>2, AppendProperties DEF Take

-----------------------------------------------------------------------------
\* The types are kept by every step.
LEMMA InitTypeOK == Init => TypeOK /\ Placed
<1> SUFFICES ASSUME Init PROVE PlacesOK /\ CountsOK /\ PassedOK /\ TakenOK /\ Placed
  BY TypeParts
<1>1. stream \in Seq(Command) /\ Len(stream) \in Nat /\ MaxFaults \in Nat
  BY ReceiveAssumption DEF Init
<1>2. QED
  BY <1>1 DEF Init, PlacesOK, CountsOK, PassedOK, TakenOK, Placed, Places

LEMMA PlacesStep == TypeOK /\ Placed /\ [Next]_vars => PlacesOK'
<1> SUFFICES ASSUME TypeOK, Placed, PlacesOK, [Next]_vars PROVE PlacesOK'
  BY TypeParts
<1> USE DEF options, history, PlacesOK
<1>0. CASE UNCHANGED vars
  BY <1>0 DEF vars
<1>1. ASSUME NEW why \in {"canceled", "deadline"}, CallerEnds(why) PROVE PlacesOK'
  BY <1>1 DEF CallerEnds
<1>2. CASE Skip \/ SkipUnreadable \/ Scan \/ ScanError \/ ScanEnd
  BY <1>2 DEF Skip, SkipUnreadable, Scan, ScanError, ScanEnd, Places
<1>3. CASE PreOp \/ PreOpSkip \/ PreOpFails
  BY <1>3 DEF PreOp, PreOpSkip, PreOpFails, CountError, Places
<1>4. CASE DispatchSubvol \/ DispatchOp \/ ReadsBadNumber
  BY <1>4 DEF DispatchSubvol, DispatchOp, ReadsBadNumber, CountError, AfterDispatch, Places
<1>5. CASE DispatchEnd \/ PassEnd \/ FinishStream
  BY <1>5 DEF DispatchEnd, PassEnd, FinishStream, CountError, AfterDispatch, Places
<1>6. CASE PostOp \/ NoSubvolume \/ Count
  BY <1>6 DEF PostOp, NoSubvolume, Count, CountError, Places
<1>7. CASE SendErr \/ Leave
  BY <1>7 DEF SendErr, Leave, Places
<1>8. CASE Done \/ Drain
  BY <1>8 DEF Done, Drain
<1>9. QED
  BY <1>0, <1>1, <1>2, <1>3, <1>4, <1>5, <1>6, <1>7, <1>8 DEF Next, Goroutine, Waiter

LEMMA CountsStep == TypeOK /\ Placed /\ [Next]_vars => CountsOK'
<1> SUFFICES ASSUME TypeOK, Placed, CountsOK, [Next]_vars PROVE CountsOK'
  BY TypeParts
<1> USE DEF options, history
<1>f. CallFails => faults' \in 0..MaxFaults
  BY FewerFaults
<1>e. ASSUME NEW next, CountError(next) PROVE errors' \in Nat
  BY <1>e DEF CountError, CountsOK
<1>0. CASE UNCHANGED vars
  BY <1>0 DEF vars, CountsOK
<1>1. ASSUME NEW why \in {"canceled", "deadline"}, CallerEnds(why) PROVE CountsOK'
  BY <1>1, <1>f DEF CallerEnds, CountsOK
<1>2. CASE Skip
  <2>1. cur' \in Nat
    <3>1. scanned' \in 1..Len(stream)
      BY <1>2, StreamFacts DEF Skip
    <3>2. stream[scanned'] \in Command
      BY <3>1, StreamFacts
    <3>3. QED
      BY <1>2, <3>2 DEF Skip, CountsOK, Command
  <2>2. QED
    BY <1>2, <2>1 DEF Skip, CountsOK
<1>3. CASE Scan \/ ScanError \/ ScanEnd
  BY <1>3, <1>f DEF Scan, ScanError, ScanEnd, CountsOK
<1>4. CASE PreOp \/ PreOpSkip \/ PreOpFails
  BY <1>4, <1>e, <1>f DEF PreOp, PreOpSkip, PreOpFails, CountsOK
<1>5. CASE DispatchSubvol \/ DispatchOp
  <2>1. Cmd.vol \in Nat
    BY <1>5, CmdTypes DEF DispatchSubvol, DispatchOp, Placed
  <2>2. QED
    BY <1>5, <1>e, <1>f, <2>1 DEF DispatchSubvol, DispatchOp, CountsOK
<1>6. CASE DispatchEnd \/ PassEnd \/ FinishStream
  BY <1>6, <1>e, <1>f DEF DispatchEnd, PassEnd, FinishStream, FinishLast, CountsOK
<1>7. CASE PostOp \/ Count
  BY <1>7, <1>e, <1>f DEF PostOp, Count, CountsOK
<1>10. CASE NoSubvolume \/ ReadsBadNumber
  BY <1>10 DEF NoSubvolume, ReadsBadNumber, CountsOK
<1>11. CASE SkipUnreadable
  <2>1. offset' = offset + 1 /\ UNCHANGED <<cur, errors, faults>>
    BY <1>11 DEF SkipUnreadable
  <2>2. QED
    BY <2>1 DEF CountsOK
<1>8. CASE SendErr \/ Leave \/ Done \/ Drain
  BY <1>8 DEF SendErr, Leave, Done, Drain, CountsOK
<1>9. QED
  BY <1>0, <1>1, <1>2, <1>3, <1>4, <1>5, <1>6, <1>7, <1>8, <1>10, <1>11 DEF Next, Goroutine, Waiter

LEMMA PassedStep == TypeOK /\ Placed /\ [Next]_vars => PassedOK' /\ Placed'
<1> SUFFICES ASSUME TypeOK, Placed, PassedOK, [Next]_vars PROVE PassedOK' /\ Placed'
  BY TypeParts
<1> USE DEF options, history
<1>e. ASSUME NEW next \in Places, CountError(next), scanned > 0
      PROVE  failed' \subseteq 1..Len(stream) /\ gpc' \in {"send", next}
  BY <1>e, CountErrorTypes
<1>c. scanned > 0 => scanned \in 1..Len(stream)
  BY CmdTypes
<1>0. CASE UNCHANGED vars
  BY <1>0 DEF vars, PassedOK, Placed
<1>1. ASSUME NEW why \in {"canceled", "deadline"}, CallerEnds(why) PROVE PassedOK' /\ Placed'
  BY <1>1 DEF CallerEnds, PassedOK, Placed
<1>2. CASE Skip \/ Scan
  <2>1. scanned' \in 1..Len(stream) /\ stream' = stream /\ failed' = failed
    BY <1>2, StreamFacts DEF Skip, Scan
  <2>2. skipped' \subseteq 1..Len(stream)
    BY <1>2, <2>1 DEF Skip, Scan, PassedOK
  <2>3. QED
    BY <2>1, <2>2 DEF PassedOK, Placed
<1>3. CASE ScanError \/ ScanEnd
  BY <1>3 DEF ScanError, ScanEnd, PassedOK, Placed
<1>4. CASE PreOp \/ PreOpSkip
  BY <1>4, <1>c DEF PreOp, PreOpSkip, PassedOK, Placed
<1>5. CASE PreOpFails
  BY <1>5, <1>e DEF PreOpFails, PassedOK, Placed, Places
<1>6. CASE DispatchSubvol \/ DispatchOp \/ PassEnd \/ PostOp
  <2>1. scanned > 0 /\ AfterDispatch \in {"postop", "count"} /\ {"postop", "count"} \subseteq Places
    BY <1>6 DEF DispatchSubvol, DispatchOp, PassEnd, PostOp, Placed, AfterDispatch, Places
  <2>2. /\ stream' = stream /\ scanned' = scanned /\ skipped' = skipped
        /\ failed' \subseteq 1..Len(stream)
    BY <1>6, <1>e, <2>1 DEF DispatchSubvol, DispatchOp, PassEnd, PostOp, PassedOK
  <2>3. QED
    BY <2>1, <2>2 DEF PassedOK, Placed
<1>7. CASE DispatchEnd \/ FinishStream
  BY <1>7 DEF DispatchEnd, FinishStream, PassedOK, Placed
<1>10. CASE NoSubvolume \/ ReadsBadNumber
  <2>1. scanned > 0
    BY <1>10 DEF NoSubvolume, ReadsBadNumber, Placed
  <2>2. QED
    BY <1>10, <1>c, <2>1 DEF NoSubvolume, ReadsBadNumber, PassedOK, Placed
<1>11. CASE SkipUnreadable
  <2>0. /\ scanned' = scanned + 1 /\ scanned < Len(stream) /\ stream' = stream
        /\ failed' = failed \cup {scanned'} /\ skipped' = skipped /\ gpc' \in {"panicked", "send"}
    BY <1>11 DEF SkipUnreadable
  <2>1. scanned' \in 1..Len(stream)
    BY <2>0, StreamFacts
  <2>2. failed' \subseteq 1..Len(stream) /\ skipped' = skipped /\ gpc' \in {"panicked", "send"}
    BY <2>0, <2>1 DEF PassedOK
  <2>3. QED
    BY <2>0, <2>1, <2>2 DEF PassedOK, Placed
<1>8. CASE Count \/ SendErr \/ Leave \/ Done \/ Drain
  BY <1>8 DEF Count, SendErr, Leave, Done, Drain, PassedOK, Placed
<1>9. QED
  BY <1>0, <1>1, <1>2, <1>3, <1>4, <1>5, <1>6, <1>7, <1>8, <1>10, <1>11 DEF Next, Goroutine, Waiter

\* The stream and the options of a call do not change.
LEMMA OptionsStay == [Next]_vars => UNCHANGED options
<1> SUFFICES ASSUME [Next]_vars PROVE UNCHANGED options
  OBVIOUS
<1>1. QED
  BY DEF Next, vars, Goroutine, Waiter, CallerEnds, Skip, SkipUnreadable, Scan, ScanError, ScanEnd, PreOp, PreOpSkip,
     PreOpFails, DispatchSubvol, DispatchOp, ReadsBadNumber, DispatchEnd, PassEnd, PostOp, NoSubvolume, Count,
     FinishStream, SendErr, Leave, Done, Drain

\* What a step leaves of the history when the receiver takes nothing.
NothingTaken == applied' = applied

LEMMA OnlyDispatchTakes ==
  ASSUME TypeOK, Placed, [Next]_vars
  PROVE  NothingTaken \/ (Take /\ (DispatchSubvol \/ DispatchOp))
<1> USE DEF NothingTaken, options, history
<1>1. CASE DispatchSubvol \/ DispatchOp
  BY <1>1 DEF DispatchSubvol, DispatchOp
<1>2. CASE ~(DispatchSubvol \/ DispatchOp)
  BY <1>2 DEF Next, vars, Goroutine, Waiter, CallerEnds, Skip, SkipUnreadable, Scan, ScanError, ScanEnd, PreOp, PreOpSkip,
     PreOpFails, ReadsBadNumber, DispatchEnd, PassEnd, PostOp, NoSubvolume, Count, FinishStream, SendErr, Leave,
     Done, Drain
<1>3. QED
  BY <1>1, <1>2

LEMMA TypeStep == TypeOK /\ Placed /\ [Next]_vars => TypeOK' /\ Placed'
<1> SUFFICES ASSUME TypeOK, Placed, [Next]_vars PROVE TypeOK' /\ Placed'
  OBVIOUS
<1>1. PlacesOK' /\ CountsOK' /\ PassedOK' /\ Placed'
  BY PlacesStep, CountsStep, PassedStep
<1>2. TakenOK'
  <2>1. CASE NothingTaken
    BY <2>1, TypeParts DEF NothingTaken, TakenOK
  <2>2. CASE Take /\ (DispatchSubvol \/ DispatchOp)
    <3>1. cur' \in Nat /\ scanned > 0
      BY <1>1, <2>2 DEF CountsOK, Placed, DispatchSubvol, DispatchOp
    <3>2. QED
      BY <3>1, <2>2, TakeTypes DEF TakenOK
  <2>3. QED
    BY <2>1, <2>2, OnlyDispatchTakes
<1>3. QED
  BY <1>1, <1>2, Zenon DEF TypeOK, PlacesOK, CountsOK, PassedOK, TakenOK, Places

-----------------------------------------------------------------------------
\* The goroutine leaves with the stream complete or with its error sent.
LEMMA InitAnswered == Init => Answered
BY DEF Init, Answered, Looping, Tolerated

\* An error that does not end the loop is within the limit.
LEMMA StillTolerated ==
  ASSUME TypeOK, NEW next \in Places, CountError(next), gpc' # "send", maxErrors' = maxErrors
  PROVE  Tolerated'
<1>1. errors' \in Nat /\ maxErrors \in Nat
  BY StreamFacts, TypeParts DEF CountsOK, CountError
<1>2. QED
  BY <1>1 DEF CountError, Tolerated

LEMMA AnsweredStep == TypeOK /\ Placed /\ Answered /\ [Next]_vars => Answered'
<1> SUFFICES ASSUME TypeOK, Placed, Answered, [Next]_vars PROVE Answered'
  OBVIOUS
<1> USE DEF options, history
<1>p. /\ gpc \in Places /\ errCh \in {"empty", "full", "closed", "closed full"}
      /\ ctxEnd \in {"no", "ended", "canceled", "deadline"}
      /\ mpc \in {"wait", "drain", "returned"}
      /\ result \in {"pending", "nil", "error", "deadline"}
  BY TypeParts DEF PlacesOK
<1>0. CASE UNCHANGED vars
  BY <1>0 DEF vars, Answered, Looping, Complete, Tolerated
<1>1. ASSUME NEW why \in {"canceled", "deadline"}, CallerEnds(why) PROVE Answered'
  BY <1>1, <1>p DEF CallerEnds, Answered, Looping, Complete, Tolerated
<1>k. ASSUME /\ UNCHANGED <<stream, maxErrors, errCh, ctxEnd, mpc, result>>
             /\ Looping \/ gpc \in {"send", "last"}
             /\ Looping' \/ gpc' = "last" => Tolerated'
             /\ gpc' = "last" => scanned' = Len(stream)
             /\ gpc' # "left"
             /\ gpc' = "leave" => Complete'
      PROVE  Answered'
  <2>1. gpc \notin {"leave", "left"} /\ errCh \notin {"full", "closed full"} /\ ctxEnd # "ended"
    BY <1>k DEF Answered, Looping
  <2>2. QED
    BY <1>k, <2>1 DEF Answered
<1>2. CASE Skip \/ SkipUnreadable \/ Scan \/ ScanError \/ ScanEnd
  BY <1>2, <1>k DEF Skip, SkipUnreadable, Scan, ScanError, ScanEnd, Answered, Looping, Tolerated
<1>3. CASE PreOp \/ PreOpSkip \/ Count
  BY <1>3, <1>k DEF PreOp, PreOpSkip, Count, Answered, Looping, Tolerated
<1>4. CASE PreOpFails
  BY <1>4, <1>k, StillTolerated, CountErrorTypes
     DEF PreOpFails, Placed, Places, Looping
<1>5. CASE DispatchSubvol \/ DispatchOp \/ PassEnd \/ PostOp
  <2>1. scanned > 0 /\ AfterDispatch \in {"postop", "count"} /\ {"postop", "count"} \subseteq Places
    BY <1>5 DEF DispatchSubvol, DispatchOp, PassEnd, PostOp, Placed, AfterDispatch, Places
  <2>2. /\ UNCHANGED <<stream, maxErrors, errCh, ctxEnd, mpc, result>>
        /\ Looping /\ gpc' \in {"postop", "count", "send"}
    BY <1>5, <2>1, CountErrorTypes DEF DispatchSubvol, DispatchOp, PassEnd, PostOp, Looping
  <2>3. \/ errors' = errors
        \/ \E next \in Places : CountError(next)
    BY <1>5, <2>1 DEF DispatchSubvol, DispatchOp, PassEnd, PostOp
  <2>4. gpc' # "send" => Tolerated'
    BY <2>2, <2>3, StillTolerated DEF Answered, Tolerated
  <2>5. QED
    BY <2>2, <2>4, <1>k DEF Looping
<1>6. CASE DispatchEnd
  <2>1. scanned = Len(stream)
    BY <1>6, CmdTypes, StreamFacts DEF DispatchEnd, Placed, WellFormed, Cmd
  <2>2. QED
    BY <1>6, <2>1, <1>k DEF DispatchEnd, Answered, Looping, Complete, Tolerated
<1>7. CASE FinishStream
  BY <1>7, <1>k DEF FinishStream, Answered, Looping, Complete, Tolerated
<1>8. CASE NoSubvolume \/ ReadsBadNumber
  BY <1>8, <1>k DEF NoSubvolume, ReadsBadNumber, Looping
<1>9. CASE SendErr
  BY <1>9, <1>p DEF SendErr, Answered, Looping
<1>10. CASE Leave
  BY <1>10, <1>p DEF Leave, Answered, Looping, Complete, Tolerated
<1>11. CASE Done
  BY <1>11, <1>p DEF Done, Answered, Looping, Complete, Tolerated
<1>12. CASE Drain
  BY <1>12, <1>p DEF Drain, Answered, Looping, Complete, Tolerated
<1>13. QED
  BY <1>0, <1>1, <1>2, <1>3, <1>4, <1>5, <1>6, <1>7, <1>8, <1>9, <1>10, <1>11, <1>12
     DEF Next, Goroutine, Waiter

-----------------------------------------------------------------------------
\* The current subvolume is the one the next operation belongs to.
LEMMA InitCurrent == Init => Current
BY DEF Init, Current, Looping, Handled, InFlight, Known, Unbegun

\* A position before the last one is one of the stream's.
LEMMA Before ==
  ASSUME NEW k \in Nat, NEW l \in Nat, k < l, k + 1 > 1
  PROVE  k \in 1..l /\ k # l /\ k > 0
OBVIOUS

\* A subvolume that was not begun stays so.
LEMMA UnbegunStays ==
  ASSUME NEW k \in Nat
  PROVE  Unbegun(k) => Unbegun(k + 1)
<1>1. 1..k \subseteq 1..(k + 1)
  OBVIOUS
<1>2. QED
  BY <1>1 DEF Unbegun

\* An operation or an unknown command belongs where the one before it did.
LEMMA SameSubvolume ==
  ASSUME TypeOK, NEW k \in Nat, k < Len(stream), stream[k + 1].kind \in {"op", "unknown"}, Known(k)
  PROVE  Known(k + 1)
<1>1. k + 1 \in DOMAIN stream /\ k + 1 > 1 /\ (k + 1) - 1 = k
  BY StreamFacts DEF WellFormed
<1>2. stream[k + 1].vol = stream[k].vol
  BY <1>1, StreamFacts DEF WellFormed
<1>3. k \in DOMAIN stream /\ k # Len(stream)
  <2>1. DOMAIN stream = 1..Len(stream) /\ Len(stream) \in Nat
    BY StreamFacts, SMTT(30)
  <2>2. k \in 1..Len(stream) /\ k # Len(stream)
    BY <1>1, <2>1, Before
  <2>3. QED
    BY <2>1, <2>2
<1>4. stream[k].kind # "end"
  BY <1>3, StreamFacts DEF WellFormed
<1>5. Unbegun(k) => Unbegun(k + 1)
  BY UnbegunStays
<1>6. QED
  BY <1>1, <1>2, <1>4, <1>5 DEF Known

LEMMA CurrentStep == TypeOK /\ Placed /\ Answered /\ Current /\ [Next]_vars => Current'
<1> SUFFICES ASSUME TypeOK, Placed, Answered, Current, [Next]_vars PROVE Current'
  OBVIOUS
<1> USE DEF options, history
<1>p. gpc \in Places /\ scanned \in Nat /\ cur \in Nat /\ maxErrors \in Nat /\ errors \in Nat
  BY TypeParts, StreamFacts DEF PlacesOK, CountsOK
<1>e. ASSUME NEW next \in Places, CountError(next), maxErrors <= 1 PROVE gpc' = "send"
  BY <1>e, <1>p DEF CountError
<1>0. CASE UNCHANGED vars
  BY <1>0 DEF vars, Current, Looping, Handled, InFlight, Known, Unbegun, Cmd
<1>1. ASSUME NEW why \in {"canceled", "deadline"}, CallerEnds(why) PROVE Current'
  BY <1>1 DEF CallerEnds, Current, Looping, Handled, InFlight, Known, Unbegun, Cmd
<1>2. CASE Skip
  <2>1. scanned + 1 \in DOMAIN stream /\ stream[scanned + 1] \in Command /\ Known(scanned)
    BY <1>2, StreamFacts DEF Skip, Current, Looping, Handled, InFlight
  <2>2. CASE stream[scanned + 1].kind = "subvol"
    <3>1. stream[scanned + 1].vol # 0
      BY <2>1, <2>2, StreamFacts DEF WellFormed
    <3>2. QED
      BY <1>2, <2>1, <2>2, <3>1 DEF Skip, Current, Looping, Handled, InFlight, Known, Unbegun
  <2>3. CASE stream[scanned + 1].kind \in {"op", "unknown"}
    <3>1. Known(scanned + 1)
      BY <1>2, <1>p, <2>1, <2>3, SameSubvolume DEF Skip
    <3>2. QED
      BY <1>2, <2>3, <3>1 DEF Skip, Current, Looping, Handled, InFlight, Known, Unbegun
  <2>4. CASE stream[scanned + 1].kind = "end"
    BY <1>2, <2>4 DEF Skip, Current, Looping, Handled, InFlight, Known, Unbegun
  <2>5. QED
    BY <2>1, <2>2, <2>3, <2>4 DEF Command, Kinds
<1>3. CASE Scan
  <2>1. Known(scanned) /\ gpc' \in {"preop", "dispatch"} /\ (gpc' = "preop" => hooks)
    BY <1>3 DEF Scan, Current, Looping, Handled, InFlight
  <2>2. Handled' = scanned
    BY <1>3, <1>p, <2>1 DEF Scan, Handled, InFlight
  <2>3. QED
    BY <1>3, <2>1, <2>2 DEF Scan, Current, Known, Unbegun
<1>4. CASE ScanError \/ ScanEnd
  BY <1>4 DEF ScanError, ScanEnd, Current, Looping
<1>5. CASE PreOp
  BY <1>5 DEF PreOp, Current, Looping, Handled, InFlight, Known, Unbegun
<1>h. InFlight => scanned - 1 \in Nat /\ scanned - 1 < Len(stream) /\ (scanned - 1) + 1 = scanned
                  /\ Known(scanned - 1) /\ scanned > 0 /\ Cmd \in Command
  BY <1>p, StreamFacts, CmdTypes DEF InFlight, Placed, Current, Looping, Handled
<1>o. InFlight /\ Cmd.kind \in {"op", "unknown"} => Known(scanned)
  BY <1>h, SameSubvolume DEF Cmd
<1>6. CASE PreOpSkip
  <2>1. Known(scanned)
    <3>1. Cmd.kind \in {"op", "unknown", "end"}
      BY <1>6, <1>h DEF PreOpSkip, InFlight, Command, Kinds
    <3>2. QED
      BY <1>6, <1>o, <3>1 DEF PreOpSkip, InFlight, Known, Cmd
  <2>2. QED
    BY <1>6, <2>1 DEF PreOpSkip, Current, Looping, Handled, InFlight, Known, Unbegun
<1>7. CASE PreOpFails
  <2>1. hooks /\ gpc' \in {"send", "scan"} /\ (maxErrors <= 1 => gpc' = "send")
    BY <1>7, <1>e DEF PreOpFails, Current, CountError, Places
  <2>2. QED
    BY <1>7, <1>p, <2>1 DEF PreOpFails, Current, Looping, Handled, InFlight, Known, Unbegun
<1>8. CASE DispatchSubvol
  <2>1. InFlight /\ Cmd.vol # 0 /\ scanned \in DOMAIN stream /\ AfterDispatch \in Places
    BY <1>8, <1>h, StreamFacts, CmdTypes DEF DispatchSubvol, InFlight, WellFormed, Cmd, AfterDispatch, Places
  <2>2. /\ UNCHANGED <<stream, maxErrors, hooks, honorEnd, scanned>>
        /\ gpc' \in {AfterDispatch, "send"}
        /\ cur' # 0 \/ Cmd.attrs # "whole"
        /\ maxErrors <= 1 /\ gpc' # "send" => cur' = Cmd.vol
    BY <1>8, <1>e, <2>1 DEF DispatchSubvol, CountError, Missing, BadUUID
  <2>3. gpc' # "send" => Known(scanned)'
    <3>1. scanned \in 1..scanned /\ stream[scanned].kind = "subvol"
      BY <1>8, <1>p, <2>1, <1>h DEF DispatchSubvol, Cmd
    <3>2. Cmd.attrs # "whole" => Unbegun(scanned)'
      BY <2>2, <3>1 DEF Unbegun, Cmd
    <3>3. maxErrors > 1 \/ maxErrors <= 1
      BY <1>p
    <3>4. QED
      BY <2>1, <2>2, <3>1, <3>2, <3>3 DEF Known, Cmd
  <2>4. QED
    BY <1>8, <2>2, <2>3 DEF Current, Looping, Handled, InFlight, AfterDispatch, DispatchSubvol, Cmd
<1>9. CASE DispatchOp
  <2>1. Known(scanned)
    BY <1>9, <1>o DEF DispatchOp, InFlight
  <2>2. UNCHANGED <<stream, maxErrors, hooks, honorEnd, scanned, cur>> /\ gpc' \in {AfterDispatch, "send"}
    BY <1>9 DEF DispatchOp, CountError
  <2>3. QED
    BY <1>9, <2>1, <2>2 DEF DispatchOp, Current, Looping, Handled, InFlight, AfterDispatch, Known, Unbegun, Cmd
<1>10. CASE PassEnd
  <2>1. UNCHANGED <<stream, maxErrors, hooks, honorEnd, scanned>> /\ gpc' \in {AfterDispatch, "send"}
    BY <1>10 DEF PassEnd, CountError
  <2>2. QED
    BY <1>10, <2>1 DEF PassEnd, Current, Looping, Handled, InFlight, AfterDispatch, Known, Unbegun, Cmd
<1>11. CASE PostOp
  <2>1. UNCHANGED <<stream, maxErrors, hooks, honorEnd, scanned, cur>> /\ gpc' \in {"count", "send"}
    BY <1>11 DEF PostOp, CountError
  <2>2. QED
    BY <1>11, <2>1 DEF PostOp, Current, Looping, Handled, InFlight, Known, Unbegun, Cmd
<1>12. CASE Count
  BY <1>12 DEF Count, Current, Looping, Handled, InFlight, Known, Unbegun
<1>13. CASE DispatchEnd \/ NoSubvolume \/ ReadsBadNumber \/ SkipUnreadable \/ FinishStream \/ SendErr \/ Leave
  BY <1>13 DEF DispatchEnd, NoSubvolume, ReadsBadNumber, SkipUnreadable, FinishStream, SendErr, Leave, Current,
     Looping
<1>14. CASE Done \/ Drain
  <2>1. UNCHANGED <<stream, maxErrors, hooks, honorEnd, scanned, cur, gpc>>
    BY <1>14 DEF Done, Drain
  <2>2. QED
    BY <2>1 DEF Current, Looping, Handled, InFlight, Known, Unbegun, Cmd
<1>15. QED
  BY <1>0, <1>1, <1>2, <1>3, <1>4, <1>5, <1>6, <1>7, <1>8, <1>9, <1>10, <1>11, <1>12, <1>13, <1>14
     DEF Next, Goroutine, Waiter

-----------------------------------------------------------------------------
\* What was taken was taken for the subvolume it belongs to.
LEMMA InitRight == Init => RightSubvolume /\ NoPanic
BY DEF Init, RightSubvolume, NoPanic

\* The receiver is given the command at hand for the current subvolume.
LEMMA TakenForCurrent ==
  ASSUME TypeOK, Placed, Current, DispatchSubvol \/ DispatchOp, Take, maxErrors <= 1
  PROVE  cur' = Cmd.vol
<1>1. CASE DispatchSubvol
  BY <1>1, TypeParts DEF DispatchSubvol, Take, TakenOK
<1>2. CASE DispatchOp
  <2>1. /\ scanned - 1 \in Nat /\ scanned - 1 < Len(stream) /\ (scanned - 1) + 1 = scanned
        /\ Known(scanned - 1)
    BY <1>2, StreamFacts DEF DispatchOp, Placed, Current, Looping, Handled, InFlight
  <2>2. Known(scanned)
    BY <1>2, <2>1, SameSubvolume DEF DispatchOp, Cmd
  <2>3. cur' = cur /\ scanned > 0 /\ Cmd.kind # "end"
    BY <1>2 DEF DispatchOp, Placed
  <2>4. QED
    BY <2>2, <2>3 DEF Known, Cmd
<1>3. QED
  BY <1>1, <1>2

LEMMA RightStep == TypeOK /\ Placed /\ Current /\ RightSubvolume /\ [Next]_vars => RightSubvolume'
<1> SUFFICES ASSUME TypeOK, Placed, Current, RightSubvolume, [Next]_vars,
                    maxErrors' <= 1, NEW i \in DOMAIN applied'
             PROVE  applied'[i].vol = stream'[applied'[i].n].vol
  BY DEF RightSubvolume
<1>1. stream' = stream /\ maxErrors' = maxErrors
  BY OptionsStay DEF options
<1>2. CASE NothingTaken
  BY <1>1, <1>2 DEF NothingTaken, RightSubvolume
<1>3. CASE Take /\ ~NothingTaken
  <2>1. applied \in Seq([n : Nat, vol : Nat])
    BY TypeParts DEF TakenOK
  <2>2. cur' = Cmd.vol
    BY <1>1, <1>3, OnlyDispatchTakes, TakenForCurrent
  <2>3. /\ DOMAIN applied' = DOMAIN applied \cup {Len(applied) + 1}
        /\ \A j \in DOMAIN applied : applied'[j] = applied[j]
        /\ applied'[Len(applied) + 1] = [n |-> scanned, vol |-> cur']
    BY <1>3, <2>1, Appended DEF Take
  <2>4. QED
    BY <1>1, <2>2, <2>3 DEF RightSubvolume, Cmd
<1>4. QED
  BY <1>2, <1>3, OnlyDispatchTakes

-----------------------------------------------------------------------------
\* The goroutine panics only where NoPanic allows it.
LEMMA NoPanicStep == TypeOK /\ Placed /\ Answered /\ Current /\ NoPanic /\ [Next]_vars => NoPanic'
<1> SUFFICES ASSUME TypeOK, Placed, Answered, Current, NoPanic, [Next]_vars, gpc' = "panicked"
             PROVE  NoPanic'
  BY DEF NoPanic
<1>1. /\ stream' = stream /\ maxErrors' = maxErrors /\ hooks' = hooks /\ honorEnd' = honorEnd
      /\ scanned \in Nat
  BY OptionsStay, StreamFacts DEF options
<1>2. CASE UNCHANGED vars
  <2>1. UNCHANGED <<gpc, ctxEnd, scanned, stream, hooks, honorEnd, maxErrors>>
    BY <1>2 DEF vars, options
  <2>2. QED
    BY <2>1 DEF NoPanic, Unbegun, Cmd
<1>3. CASE SendErr
  <2>1. errCh = "closed" /\ ctxEnd' = ctxEnd /\ gpc = "send"
    BY <1>3 DEF SendErr
  <2>2. QED
    BY <2>1 DEF Answered, NoPanic
<1>8. CASE ReadsBadNumber
  <2>1. scanned' = scanned /\ scanned > 0 /\ Cmd.attrs \in BadNumber
    BY <1>8 DEF ReadsBadNumber, Placed
  <2>2. Cmd' = Cmd
    BY <1>1, <2>1 DEF Cmd
  <2>3. QED
    BY <2>1, <2>2 DEF NoPanic
<1>9. CASE SkipUnreadable
  <2>1. scanned' = scanned + 1 /\ stream[scanned'].attrs \in {"no number", "bad number"}
    BY <1>9 DEF SkipUnreadable
  <2>2. scanned' > 0
    <3>1. scanned' = scanned + 1
      BY <2>1
    <3>2. QED
      BY <1>1, <3>1
  <2>3. Cmd' = stream'[scanned']
    BY DEF Cmd
  <2>4. Cmd'.attrs \in {"no number"} \cup BadNumber
    BY <1>1, <2>1, <2>3 DEF BadNumber
  <2>5. QED
    BY <2>2, <2>4 DEF NoPanic
<1>u. \A k \in Nat : k + 1 = scanned /\ Unbegun(k) => Unbegun(scanned)
  BY <1>1, UnbegunStays
<1>n. ASSUME (maxErrors > 1 /\ (hooks \/ Unbegun(scanned))) \/ (hooks /\ ~honorEnd), NoSubvolume
      PROVE  NoPanic'
  <2>1. scanned' = scanned
    BY <1>n DEF NoSubvolume
  <2>2. Unbegun(scanned)' = Unbegun(scanned)
    BY <1>1, <2>1 DEF Unbegun
  <2>3. (maxErrors > 1 /\ (hooks \/ Unbegun(scanned)))' \/ (hooks /\ ~honorEnd)'
    BY <1>1, <1>n, <2>2
  <2>4. QED
    BY <2>3 DEF NoPanic
<1>4. CASE NoSubvolume
  <2>1. CASE gpc = "postop"
    <3>1. hooks /\ scanned > 0 /\ Known(scanned) /\ (stream[scanned].kind = "end" => ~honorEnd)
      BY <2>1 DEF Placed, Current, Looping, Handled, InFlight, Cmd
    <3>2. QED
      BY <1>1, <1>4, <1>n, <3>1 DEF NoSubvolume, Known
  <2>2. CASE gpc = "dispatch" /\ Cmd.kind = "end" /\ ~honorEnd
    <3>1. scanned \in 1..Len(stream) /\ Known(scanned - 1) /\ Len(stream) \in Nat
          /\ DOMAIN stream = 1..Len(stream)
      BY <2>2, StreamFacts, CmdTypes, SMTT(30) DEF Placed, Current, Looping, Handled, InFlight
    <3>2. scanned > 1 /\ scanned = Len(stream)
      BY <2>2, <3>1, StreamFacts DEF WellFormed, Cmd
    <3>3. scanned - 1 \in 1..Len(stream) /\ scanned - 1 # Len(stream) /\ scanned - 1 > 0
      <4>1. \A l, n \in Nat : n \in 1..l /\ n > 1 /\ n = l => n - 1 \in 1..l /\ n - 1 # l /\ n - 1 > 0
        OBVIOUS
      <4>2. QED
        BY <1>1, <3>1, <3>2, <4>1
    <3>4. stream[scanned - 1].kind # "end"
      BY <3>1, <3>3, StreamFacts DEF WellFormed
    <3>5. scanned - 1 \in Nat /\ (scanned - 1) + 1 = scanned
      BY <1>1, <3>2
    <3>6. QED
      BY <1>4, <1>n, <1>u, <3>1, <3>3, <3>4, <3>5 DEF NoSubvolume, Known
  <2>3. CASE gpc = "dispatch" /\ Cmd.kind = "op" /\ Cmd.attrs = "whole" /\ ~hooks
    <3>1. /\ scanned - 1 \in Nat /\ scanned - 1 < Len(stream) /\ (scanned - 1) + 1 = scanned
          /\ Known(scanned - 1) /\ scanned > 0
      BY <2>3, StreamFacts DEF Placed, Current, Looping, Handled, InFlight
    <3>2. Known(scanned)
      BY <2>3, <3>1, SameSubvolume DEF Cmd
    <3>3. QED
      BY <1>4, <1>n, <2>3, <3>1, <3>2 DEF NoSubvolume, Known, Cmd
  <2>4. QED
    BY <1>4, <2>1, <2>2, <2>3 DEF NoSubvolume
<1>5. ASSUME gpc # "panicked", ~SendErr, ~NoSubvolume, ~ReadsBadNumber, ~SkipUnreadable, Next PROVE FALSE
  <2>1. ~(Skip \/ Scan \/ ScanError \/ ScanEnd \/ PreOp \/ PreOpSkip \/ PreOpFails)
    BY CountErrorEnds DEF Skip, Scan, ScanError, ScanEnd, PreOp, PreOpSkip, PreOpFails
  <2>2. ~(DispatchSubvol \/ DispatchOp \/ DispatchEnd \/ PassEnd)
    BY CountErrorEnds DEF DispatchSubvol, DispatchOp, DispatchEnd, PassEnd, AfterDispatch
  <2>3. ~(PostOp \/ Count \/ FinishStream \/ Leave)
    BY CountErrorEnds DEF PostOp, Count, FinishStream, Leave
  <2>4. ~(Done \/ Drain) /\ \A why \in {"canceled", "deadline"} : ~CallerEnds(why)
    BY <1>5 DEF Done, Drain, CallerEnds
  <2>5. QED
    BY <1>5, <2>1, <2>2, <2>3, <2>4 DEF Next, Goroutine, Waiter
<1>6. gpc = "panicked" => UNCHANGED vars
  BY DEF Next, Alive
<1>7. QED
  BY <1>2, <1>3, <1>4, <1>5, <1>6, <1>8, <1>9

-----------------------------------------------------------------------------
\* Every command the loop has dealt with is accounted for, in order.
LEMMA InitAccounted == Init => Accounted
BY DEF Init, Accounted, Handled, InFlight, TakenOnes

\* The command at hand, once dealt with, is the only one that the account lacks.
LEMMA AccountGrows ==
  ASSUME TypeOK, Placed, Accounted, stream' = stream, NothingTaken, scanned' \in Nat, Handled' \in Nat,
         \/ Handled' <= Handled
         \/ /\ Handled' = Handled + 1
            /\ \/ Handled' \in skipped' \cup failed'
               \/ stream[Handled'].kind \notin {"subvol", "op"},
         skipped \subseteq skipped', failed \subseteq failed', Handled' >= Handled
  PROVE  Accounted'
<1>h. Handled \in Nat
  BY StreamFacts DEF Handled, InFlight, Placed
<1>1. TakenOnes' = TakenOnes
  BY DEF NothingTaken, TakenOnes
<1>2. \A n \in 1..Handled' : n \in 1..Handled \/ (n = Handled + 1 /\ Handled' = Handled + 1)
  <2>1. Handled' = Handled \/ Handled' = Handled + 1
    BY <1>h
  <2>2. CASE Handled' = Handled
    BY <2>2
  <2>3. CASE Handled' = Handled + 1
    <3>1. \A k \in Nat : \A n \in 1..(k + 1) : n \in 1..k \/ n = k + 1
      OBVIOUS
    <3>2. QED
      BY <1>h, <2>3, <3>1
  <2>4. QED
    BY <2>1, <2>2, <2>3
<1>3. ASSUME NEW n \in 1..Handled', stream[n].kind \in {"subvol", "op"}
      PROVE  n \in TakenOnes' \cup skipped' \cup failed'
  BY <1>1, <1>2, <1>3, <1>h DEF Accounted
<1>4. 1..Handled \subseteq 1..Handled'
  BY <1>h
<1>5. QED
  BY <1>3, <1>4 DEF Accounted, NothingTaken

LEMMA AccountTakes ==
  ASSUME TypeOK, Placed, Accounted, Take, DispatchSubvol \/ DispatchOp, cur' \in Nat
  PROVE  Accounted'
<1>1. applied \in Seq([n : Nat, vol : Nat]) /\ scanned \in Nat /\ scanned > 0
      /\ gpc = "dispatch" /\ Handled = scanned - 1
  BY TypeParts, StreamFacts DEF TakenOK, Placed, DispatchSubvol, DispatchOp, Handled, InFlight
<1>2. UNCHANGED <<stream, scanned, skipped>> /\ failed \subseteq failed' /\ gpc' \in {"postop", "count", "send"}
  BY CountErrorEnds DEF DispatchSubvol, DispatchOp, options, AfterDispatch, CountError
<1>3. Handled' = scanned
  BY <1>2 DEF Handled, InFlight
<1>4. [n |-> scanned, vol |-> cur'] \in [n : Nat, vol : Nat]
  BY <1>1
<1>5. /\ DOMAIN applied' = DOMAIN applied \cup {Len(applied) + 1}
      /\ \A j \in DOMAIN applied : applied'[j] = applied[j]
      /\ applied'[Len(applied) + 1] = [n |-> scanned, vol |-> cur']
  BY <1>1, <1>4, Appended DEF Take
<1>6. TakenOnes' = TakenOnes \cup {scanned}
  BY <1>5 DEF TakenOnes
<1>7. \A n \in 1..scanned : n \in 1..(scanned - 1) \/ n = scanned
  BY <1>1
<1>8. \A n \in 1..Handled' : stream'[n].kind \in {"subvol", "op"} =>
         n \in TakenOnes' \cup skipped' \cup failed'
  BY <1>1, <1>2, <1>3, <1>6, <1>7 DEF Accounted
<1>9. \A m \in 1..(scanned - 1) : m \in 1..scanned /\ m < scanned
  BY <1>1
<1>10. \A i \in DOMAIN applied : applied[i].n \in 1..(scanned - 1)
  BY <1>1 DEF Accounted
<1>11. \A i \in DOMAIN applied' : applied'[i].n \in 1..Handled'
  BY <1>1, <1>3, <1>5, <1>9, <1>10
<1>12. \A i, j \in DOMAIN applied' : i < j => applied'[i].n < applied'[j].n
  <2> SUFFICES ASSUME NEW i \in DOMAIN applied', NEW j \in DOMAIN applied', i < j
               PROVE  applied'[i].n < applied'[j].n
    OBVIOUS
  <2>1. DOMAIN applied = 1..Len(applied) /\ Len(applied) \in Nat
    BY <1>1
  <2>2. i \in DOMAIN applied
    BY <1>5, <2>1
  <2>3. CASE j \in DOMAIN applied
    BY <1>5, <2>2, <2>3 DEF Accounted
  <2>4. CASE j = Len(applied) + 1
    BY <1>5, <1>9, <1>10, <2>2, <2>4
  <2>5. QED
    BY <1>5, <2>3, <2>4
<1>13. QED
  BY <1>8, <1>11, <1>12 DEF Accounted

LEMMA AccountedStep == TypeOK /\ Placed /\ Accounted /\ [Next]_vars => Accounted'
<1> SUFFICES ASSUME TypeOK, Placed, Accounted, [Next]_vars PROVE Accounted'
  OBVIOUS
<1>t. TypeOK' /\ Placed'
  BY TypeStep
<1>s. stream' = stream /\ scanned \in Nat /\ scanned' \in Nat /\ Handled \in Nat /\ Handled' \in Nat
  <2>1. stream' = stream /\ scanned \in Nat /\ Len(stream) \in Nat
    BY OptionsStay, StreamFacts DEF options
  <2>2. scanned' \in Nat
    BY <2>1, PassedStep DEF PassedOK
  <2>3. Handled \in Nat
    BY <2>1 DEF Handled, InFlight, Placed
  <2>4. Handled' \in Nat
    <3>1. gpc' \in {"preop", "dispatch"} => scanned' > 0
      BY <1>t DEF Placed
    <3>2. Handled' = scanned' \/ (scanned' > 0 /\ Handled' = scanned' - 1)
      BY <3>1 DEF Handled, InFlight
    <3>3. QED
      BY <2>2, <3>2
  <2>5. QED
    BY <2>1, <2>2, <2>3, <2>4
<1>1. CASE Take /\ (DispatchSubvol \/ DispatchOp)
  BY <1>1, <1>t, AccountTakes DEF TypeOK
<1>2. CASE NothingTaken
  <2>k. ASSUME skipped' = skipped, failed' = failed, Handled' = Handled PROVE Accounted'
    BY <1>2, <1>s, <2>k, AccountGrows
  <2>g. ASSUME Handled' = Handled + 1, skipped \subseteq skipped', failed \subseteq failed',
               \/ Handled' \in skipped' \cup failed'
               \/ stream[Handled'].kind \notin {"subvol", "op"}
        PROVE  Accounted'
    BY <1>2, <1>s, <2>g, AccountGrows
  <2> USE DEF options, history
  <2>1. CASE Skip
    BY <2>1, <2>g, <1>s DEF Skip, Handled, InFlight
  <2>2. CASE Scan
    <3>1. Handled' = Handled
      BY <2>2, <1>s DEF Scan, Handled, InFlight
    <3>2. QED
      BY <2>2, <3>1, <2>k DEF Scan
  <2>3. CASE PreOpSkip
    BY <2>3, <2>g, <1>s DEF PreOpSkip, Handled, InFlight
  <2>4. CASE PreOpFails \/ ((DispatchSubvol \/ DispatchOp) /\ \E next \in {"postop", "count"} : CountError(next))
    <3>1. /\ InFlight /\ gpc' \notin {"preop", "dispatch"} /\ scanned' = scanned
          /\ skipped' = skipped /\ failed' = failed \cup {scanned}
      BY <2>4, CountErrorEnds DEF PreOpFails, DispatchSubvol, DispatchOp, CountError, InFlight
    <3>2. QED
      BY <3>1, <2>g, <1>s DEF Handled, InFlight
  <2>5. CASE DispatchEnd \/ PassEnd \/ ReadsBadNumber \/ (NoSubvolume /\ gpc = "dispatch")
    <3>1. /\ gpc = "dispatch" /\ gpc' \notin {"preop", "dispatch"} /\ scanned' = scanned
          /\ skipped' = skipped /\ failed \subseteq failed' /\ (Cmd.kind = "end" \/ scanned \in failed')
      BY <2>5, CountErrorEnds DEF DispatchEnd, PassEnd, ReadsBadNumber, NoSubvolume, CountError, AfterDispatch
    <3>2. Handled' = Handled + 1 /\ Handled' = scanned
      BY <3>1, <1>s DEF Handled, InFlight
    <3>3. QED
      BY <3>1, <3>2, <2>g DEF Cmd
  <2>6. CASE PostOp \/ (NoSubvolume /\ gpc = "postop")
    <3>1. /\ gpc = "postop" /\ gpc' \notin {"preop", "dispatch"} /\ scanned' = scanned
          /\ skipped' = skipped /\ failed \subseteq failed'
      BY <2>6, CountErrorEnds DEF PostOp, NoSubvolume, CountError
    <3>2. QED
      BY <3>1, <1>2, <1>s, AccountGrows DEF Handled, InFlight
  <2>7. CASE \/ ScanError \/ ScanEnd \/ PreOp \/ Count \/ FinishStream \/ SendErr \/ Leave \/ Done \/ Drain
             \/ CallerEnds("canceled") \/ CallerEnds("deadline")
             \/ UNCHANGED vars
    <3>1. skipped' = skipped /\ failed' = failed /\ Handled' = Handled
      BY <2>7 DEF ScanError, ScanEnd, PreOp, Count, FinishStream, SendErr, Leave, Done, Drain, CallerEnds,
         Handled, InFlight, vars
    <3>2. QED
      BY <3>1, <2>k
  <2>12. CASE SkipUnreadable
    BY <2>12, <2>g, <1>s DEF SkipUnreadable, Handled, InFlight
  <2>8. NoSubvolume => gpc \in {"dispatch", "postop"}
    BY DEF NoSubvolume
  <2>9. DispatchSubvol \/ DispatchOp => \E next \in {"postop", "count"} : CountError(next)
    <3>1. AfterDispatch \in {"postop", "count"} /\ ~Take
      BY <1>2, TypeParts DEF AfterDispatch, Take, NothingTaken, TakenOK
    <3>2. QED
      BY <3>1 DEF DispatchSubvol, DispatchOp
  <2>10. CASE Goroutine
    BY <2>10, <2>1, <2>2, <2>3, <2>4, <2>5, <2>6, <2>7, <2>8, <2>9, <2>12, Zenon DEF Goroutine
  <2>11. QED
    BY <2>7, <2>10, Zenon DEF Next, Waiter
<1>3. QED
  BY <1>1, <1>2, OnlyDispatchTakes

-----------------------------------------------------------------------------
\* The invariant of every behaviour.
LEMMA Invariance == Spec => []IInv
<1>1. Init => IInv
  BY InitTypeOK, InitAccounted, InitAnswered, InitCurrent, InitRight DEF IInv
<1>2. IInv /\ [Next]_vars => IInv'
  BY TypeStep, AccountedStep, AnsweredStep, CurrentStep, RightStep, NoPanicStep DEF IInv
<1>3. QED
  BY <1>1, <1>2, PTL DEF Spec

\* The state of ProcessSendStream stays within its types, for any stream.
THEOREM TypeCorrect == Spec => []TypeOK
<1>1. IInv => TypeOK
  BY DEF IInv
<1>2. QED
  BY <1>1, Invariance, PTL

\* When ProcessSendStream returns nil and its caller's context has not ended,
\* the stream was read to its END, the errors are within the limit, and the
\* receiver took every other command that is not skipped or counted as an
\* error, once and in order.
THEOREM NilIsApplied == Spec => []NilMeansApplied
<1>1. IInv => NilMeansApplied
  <2> SUFFICES ASSUME IInv, result = "nil", ctxEnd = "ended"
               PROVE  /\ scanned = Len(stream)
                      /\ errors = 0 \/ errors < maxErrors
                      /\ \A n \in 1..Len(stream) : stream[n].kind \in {"subvol", "op"} =>
                            n \in TakenOnes \cup skipped \cup failed
                      /\ \A i, j \in DOMAIN applied : i < j => applied[i].n < applied[j].n
    BY DEF NilMeansApplied
  <2>1. gpc = "left" /\ errCh = "closed"
    BY DEF IInv, Answered
  <2>2. Complete
    BY <2>1 DEF IInv, Answered
  <2>3. Handled = Len(stream)
    BY <2>1, <2>2 DEF Complete, Handled, InFlight
  <2>4. QED
    BY <2>2, <2>3 DEF IInv, Accounted, Complete, Tolerated
<1>2. QED
  BY <1>1, Invariance, PTL

\* Where no error is tolerated a command is applied to the subvolume it belongs
\* to, also when processing starts after the command that names it.
THEOREM SubvolumeIsRight == Spec => []RightSubvolume
<1>1. IInv => RightSubvolume
  BY DEF IInv
<1>2. QED
  BY <1>1, Invariance, PTL

\* The goroutine of ProcessSendStream panics only when its caller has canceled,
\* END is not honored, an error of PreOp or in the attributes of a subvolume is
\* tolerated, or a number in a command's attributes is not all there.
THEOREM PanicIsKnown == Spec => []NoPanic
<1>1. IInv => NoPanic
  BY DEF IInv
<1>2. QED
  BY <1>1, Invariance, PTL
=============================================================================
