---------------------------- MODULE ReceiveStream ----------------------------
(***************************************************************************)
(* ProcessSendStream of pkg/receive/receive.go with processSubvol and      *)
(* processSnapshot of pkg/receive/send_ops.go and the scanner's end of     *)
(* stream (pkg/sendstream/scanner.go), for any receiver.                   *)
(*                                                                         *)
(* A goroutine scans the stream and calls the receiver; the function that  *)
(* started it waits for a context that the goroutine cancels when it ends  *)
(* and that the caller's context may end first.  Every call of a receiver  *)
(* may fail.                                                               *)
(***************************************************************************)
EXTENDS Naturals, Sequences, SequencesExt, FiniteSets

CONSTANTS Streams,    (* the sequences of commands that may arrive         *)
          Starts,     (* values of FromOffset                              *)
          ErrorLimits,(* values of WithMaxErrors; 0 when not given         *)
          MaxFaults   (* bound: failing calls, ends of the caller's ctx    *)

Kinds == {"subvol", "op", "unknown", "end"}

\* What is wrong with a command's attributes: one is missing (the number is the
\* ctransid), a UUID does not have 16 bytes, a number has too few.  Those of the
\* clone source are looked at only when a snapshot is begun.
Missing    == {"no path", "no uuid", "no number"}
BadUUID    == {"bad uuid", "bad clone uuid"}
BadNumber  == {"bad number", "bad clone number"}
Attributes == {"whole"} \cup Missing \cup BadUUID \cup BadNumber

\* What a stream holds of each command: its kind, its subvolume, its attributes.
Command == [kind : Kinds, vol : Nat, attrs : Attributes]

\* What comes after one header: a subvolume first, END last, and an operation
\* belongs to the subvolume of the command before it.
WellFormed(s) == \A i \in DOMAIN s :
                    /\ s[i].kind = "subvol" => s[i].vol # 0
                    /\ s[i].kind = "end" => i > 1 /\ i = Len(s)
                    /\ s[i].kind \in {"op", "unknown"} => i > 1 /\ s[i].vol = s[i - 1].vol

ASSUME ReceiveAssumption == /\ \A s \in Streams : s \in Seq(Command) /\ WellFormed(s)
                            /\ Starts \subseteq Nat /\ ErrorLimits \subseteq Nat
                            /\ MaxFaults \in Nat

VARIABLES
  stream, start, maxErrors,
  honorEnd,   (* HonorEndCommand was given                                 *)
  hooks,      (* the receiver has PreOp and PostOp                         *)
  gpc,        (* where the goroutine is                                    *)
  scanned,    (* how many commands Scan has returned                       *)
  offset,     (* ctx.currentOffset                                         *)
  cur,        (* ctx.currentSubvolInfo; 0 for nil                          *)
  errors,     (* streamErrors                                              *)
  errCh,      (* "empty", "full" or, after close, the same with "closed"   *)
  ctxEnd,     (* why ctx is done: "no", "ended", "canceled", "deadline"    *)
  mpc,        (* where ProcessSendStream itself is                         *)
  result,     (* what it returned                                          *)
  applied,    (* history: the commands the receiver took, in order         *)
  skipped,    (* history: those passed over                                *)
  failed,     (* history: those with an error or a panic                   *)
  faults      (* failures left                                             *)

options == <<stream, start, maxErrors, honorEnd, hooks>>
history == <<applied, skipped, failed>>
vars == <<options, gpc, scanned, offset, cur, errors, errCh, ctxEnd, mpc, result, history, faults>>

Cmd == stream[scanned]

Init == /\ stream \in Streams /\ start \in Starts /\ maxErrors \in ErrorLimits
        /\ honorEnd \in BOOLEAN /\ hooks \in BOOLEAN
        /\ gpc = "scan" /\ scanned = 0 /\ offset = 0 /\ cur = 0 /\ errors = 0
        /\ errCh = "empty" /\ ctxEnd = "no" /\ mpc = "wait" /\ result = "pending"
        /\ applied = <<>> /\ skipped = {} /\ failed = {}
        /\ faults = MaxFaults

\* A call that fails takes one of the failures left.
CallFails == /\ faults > 0
             /\ faults' = faults - 1

-----------------------------------------------------------------------------
(* The goroutine.                                                          *)

\* Seeded fault: the subvolume of a skipped command is not remembered.
SkipForgets == /\ gpc = "scan" /\ scanned < Len(stream) /\ start > offset
               /\ scanned' = scanned + 1
               /\ offset' = offset + 1
               /\ skipped' = skipped \cup {scanned'}
               /\ UNCHANGED <<options, gpc, cur, errors, errCh, ctxEnd, mpc, result, applied, failed, faults>>

\* Seeded fault: seeking does not notice the end of the stream.
SkipUnbounded == /\ gpc = "scan" /\ start > offset
                 /\ scanned' = scanned + 1
                 /\ offset' = offset + 1
                 /\ UNCHANGED <<options, gpc, cur, errors, errCh, ctxEnd, mpc, result, applied, skipped, failed, faults>>

\* The attributes of a subvolume that is skipped are read unchecked: the number
\* panics unless it is all there, then the UUID is an error.
Unreadable(c) == c.kind = "subvol" /\ c.attrs \in {"no number", "bad number", "no uuid", "bad uuid"}
SkipUnreadable == /\ gpc = "scan" /\ scanned < Len(stream) /\ start > offset
                  /\ Unreadable(stream[scanned + 1])
                  /\ scanned' = scanned + 1
                  /\ offset' = offset + 1
                  /\ failed' = failed \cup {scanned'}
                  /\ gpc' = IF stream[scanned'].attrs \in {"no number", "bad number"} THEN "panicked" ELSE "send"
                  /\ UNCHANGED <<options, cur, errors, errCh, ctxEnd, mpc, result, applied, skipped, faults>>

\* Seeking: what lies before the start offset is counted and passed over,
\* but the subvolume it belongs to is remembered.
Skip == /\ gpc = "scan" /\ scanned < Len(stream) /\ start > offset
        /\ ~Unreadable(stream[scanned + 1])
        /\ scanned' = scanned + 1
        /\ offset' = offset + 1
        /\ skipped' = skipped \cup {scanned'}
        /\ cur' = IF stream[scanned'].kind = "subvol" THEN stream[scanned'].vol ELSE cur
        /\ UNCHANGED <<options, gpc, errors, errCh, ctxEnd, mpc, result, applied, failed, faults>>

Scan == /\ gpc = "scan" /\ scanned < Len(stream) /\ start <= offset
        /\ scanned' = scanned + 1
        /\ gpc' = IF hooks THEN "preop" ELSE "dispatch"
        /\ UNCHANGED <<options, offset, cur, errors, errCh, ctxEnd, mpc, result, history, faults>>

\* Seeded fault: a broken stream passes for one that has ended.
ScanErrorDropped == /\ gpc = "scan"
                    /\ CallFails
                    /\ gpc' = "last"
                    /\ UNCHANGED <<options, scanned, offset, cur, errors, errCh, ctxEnd, mpc, result, history>>

\* The stream breaks, or it ends after a command other than END.
ScanError == /\ gpc = "scan"
             /\ IF scanned = Len(stream) /\ (scanned = 0 \/ Cmd.kind # "end")
                THEN UNCHANGED faults
                ELSE CallFails
             /\ gpc' = "send"
             /\ UNCHANGED <<options, scanned, offset, cur, errors, errCh, ctxEnd, mpc, result, history>>

ScanEnd == /\ gpc = "scan"
           /\ scanned > 0 /\ scanned = Len(stream) /\ Cmd.kind = "end"
           /\ gpc' = "last"
           /\ UNCHANGED <<options, scanned, offset, cur, errors, errCh, ctxEnd, mpc, result, history, faults>>

\* Another error: the goroutine gives up, or goes on at the label given.
CountError(next) == /\ errors' = errors + 1
                    /\ failed' = failed \cup {scanned}
                    /\ gpc' = IF errors' >= maxErrors THEN "send" ELSE next

PreOp == /\ gpc = "preop"
         /\ gpc' = "dispatch"
         /\ UNCHANGED <<options, scanned, offset, cur, errors, errCh, ctxEnd, mpc, result, history, faults>>

\* ErrSkipCommand: the receiver has the command already, which it knows
\* from the offset it looked up when the subvolume began.
PreOpSkip == /\ gpc = "preop" /\ Cmd.kind # "subvol"
             /\ offset' = offset + 1
             /\ skipped' = skipped \cup {scanned}
             /\ gpc' = "scan"
             /\ UNCHANGED <<options, scanned, cur, errors, errCh, ctxEnd, mpc, result, applied, failed, faults>>

PreOpFails == /\ gpc = "preop"
              /\ CallFails
              /\ offset' = offset + 1
              /\ CountError("scan")
              /\ UNCHANGED <<options, scanned, cur, errCh, ctxEnd, mpc, result, applied, skipped>>

AfterDispatch == IF hooks THEN "postop" ELSE "count"

Take == applied' = Append(applied, [n |-> scanned, vol |-> cur'])

\* processSubvol and processSnapshot: finish the subvolume in process, then
\* begin the new one.  If an attribute is missing or finishing fails the old one
\* stays current, if the UUID cannot be read none is.
DispatchSubvol ==
  /\ gpc = "dispatch" /\ Cmd.kind = "subvol"
  /\ \/ /\ IF Cmd.attrs \in Missing THEN UNCHANGED faults ELSE cur # 0 /\ CallFails
        /\ CountError(AfterDispatch)
        /\ UNCHANGED <<cur, applied>>
     \/ /\ Cmd.attrs \in BadUUID
        /\ cur' = 0
        /\ CountError(AfterDispatch)
        /\ UNCHANGED <<applied, faults>>
     \/ /\ Cmd.attrs = "whole"
        /\ cur' = Cmd.vol
        /\ \/ /\ CallFails
              /\ CountError(AfterDispatch)
              /\ UNCHANGED applied
           \/ /\ Take
              /\ gpc' = AfterDispatch
              /\ UNCHANGED <<errors, failed, faults>>
  /\ UNCHANGED <<options, scanned, offset, errCh, ctxEnd, mpc, result, skipped>>

DispatchOp ==
  /\ gpc = "dispatch" /\ Cmd.kind \in {"op", "unknown"}
  /\ \/ /\ Cmd.kind = "op" /\ Cmd.attrs = "whole"
        /\ UNCHANGED cur
        /\ Take
        /\ gpc' = AfterDispatch
        /\ UNCHANGED <<errors, failed, faults>>
     \/ /\ IF Cmd.kind = "op" /\ Cmd.attrs = "whole" THEN CallFails ELSE UNCHANGED faults
        /\ Cmd.attrs \notin BadNumber
        /\ CountError(AfterDispatch)
        /\ UNCHANGED <<cur, applied>>
  /\ UNCHANGED <<options, scanned, offset, errCh, ctxEnd, mpc, result, skipped>>

\* A number that has too few bytes is read nevertheless, which panics: the first of
\* a subvolume when the one in process is finished.
ReadsBadNumber == /\ gpc = "dispatch" /\ Cmd.attrs \in BadNumber
                  /\ gpc' = "panicked"
                  /\ failed' = failed \cup {scanned}
                  /\ UNCHANGED <<options, scanned, offset, cur, errors, errCh, ctxEnd, mpc, result, applied, skipped, faults>>

\* FinishSubvolume on the way out: its error is only logged.
FinishLast == UNCHANGED faults \/ (cur # 0 /\ CallFails)

DispatchEnd == /\ gpc = "dispatch" /\ Cmd.kind = "end" /\ honorEnd
               /\ FinishLast
               /\ gpc' = "leave"
               /\ UNCHANGED <<options, scanned, offset, cur, errors, errCh, ctxEnd, mpc, result, applied, skipped, failed>>

\* END that is not honored finishes the subvolume and the loop goes on.
PassEnd == /\ gpc = "dispatch" /\ Cmd.kind = "end" /\ ~honorEnd
           /\ cur' = 0
           /\ \/ /\ CallFails
                 /\ CountError(AfterDispatch)
              \/ /\ gpc' = AfterDispatch
                 /\ UNCHANGED <<errors, failed, faults>>
           /\ UNCHANGED <<options, scanned, offset, errCh, ctxEnd, mpc, result, applied, skipped>>

\* A PostOp that names its file after the current subvolume needs one.
PostOp == /\ gpc = "postop" /\ cur # 0
          /\ \/ /\ gpc' = "count"
                /\ UNCHANGED <<errors, failed, faults>>
             \/ /\ CallFails
                /\ CountError("count")
          /\ UNCHANGED <<options, scanned, offset, cur, errCh, ctxEnd, mpc, result, applied, skipped>>

\* A receiver asked to finish, to apply a command to, or to name its offset file
\* after, no subvolume dereferences nil, unless it has no use for the subvolume.
NoSubvolume == /\ cur = 0
               /\ \/ gpc = "postop"
                  \/ gpc = "dispatch" /\ Cmd.kind = "end" /\ ~honorEnd
                  \/ gpc = "dispatch" /\ Cmd.kind = "op" /\ Cmd.attrs = "whole" /\ ~hooks
               /\ gpc' = "panicked"
               /\ failed' = failed \cup {scanned}
               /\ UNCHANGED <<options, scanned, offset, cur, errors, errCh, ctxEnd, mpc, result, applied, skipped, faults>>

Count == /\ gpc = "count"
         /\ offset' = offset + 1
         /\ gpc' = "scan"
         /\ UNCHANGED <<options, scanned, cur, errors, errCh, ctxEnd, mpc, result, history, faults>>

FinishStream == /\ gpc = "last"
                /\ FinishLast
                /\ gpc' = "leave"
                /\ UNCHANGED <<options, scanned, offset, cur, errors, errCh, ctxEnd, mpc, result, applied, skipped, failed>>

\* errCh has room for the one error; once closed the send panics.
SendErr == /\ gpc = "send"
           /\ \/ /\ errCh = "empty"
                 /\ errCh' = "full"
                 /\ gpc' = "leave"
              \/ /\ errCh = "closed"
                 /\ gpc' = "panicked"
                 /\ UNCHANGED errCh
           /\ UNCHANGED <<options, scanned, offset, cur, errors, ctxEnd, mpc, result, history, faults>>

\* Seeded fault: only a goroutine that sent no error cancels.
LeaveIfQuiet == /\ gpc = "leave"
                /\ gpc' = "left"
                /\ ctxEnd' = IF ctxEnd = "no" /\ errCh = "empty" THEN "ended" ELSE ctxEnd
                /\ UNCHANGED <<options, scanned, offset, cur, errors, errCh, mpc, result, history, faults>>

\* The deferred cancel, which nothing undoes.
Leave == /\ gpc = "leave"
         /\ gpc' = "left"
         /\ ctxEnd' = IF ctxEnd = "no" THEN "ended" ELSE ctxEnd
         /\ UNCHANGED <<options, scanned, offset, cur, errors, errCh, mpc, result, history, faults>>

-----------------------------------------------------------------------------
(* ProcessSendStream waits; the caller's context may end meanwhile.        *)

CallerEnds(why) == /\ ctxEnd = "no" /\ mpc = "wait"
                   /\ CallFails
                   /\ ctxEnd' = why
                   /\ UNCHANGED <<options, gpc, scanned, offset, cur, errors, errCh, mpc, result, history>>

\* Seeded fault: the channel is closed without waiting.
CloseAtOnce == /\ mpc = "wait" /\ errCh = "empty"
               /\ errCh' = "closed"
               /\ mpc' = "drain"
               /\ UNCHANGED <<options, gpc, scanned, offset, cur, errors, ctxEnd, result, history, faults>>

Done == /\ mpc = "wait" /\ ctxEnd # "no"
        /\ \/ /\ ctxEnd = "deadline"
              /\ result' = "deadline"
              /\ mpc' = "returned"
              /\ UNCHANGED errCh
           \/ /\ ctxEnd # "deadline"
              /\ errCh' = IF errCh = "full" THEN "closed full" ELSE "closed"
              /\ mpc' = "drain"
              /\ UNCHANGED result
        /\ UNCHANGED <<options, gpc, scanned, offset, cur, errors, ctxEnd, history, faults>>

Drain == /\ mpc = "drain"
         /\ result' = IF errCh = "closed full" THEN "error" ELSE "nil"
         /\ errCh' = "closed"
         /\ mpc' = "returned"
         /\ UNCHANGED <<options, gpc, scanned, offset, cur, errors, ctxEnd, history, faults>>

Goroutine == \/ Skip \/ SkipUnreadable \/ Scan \/ ScanError \/ ScanEnd \/ PreOp \/ PreOpSkip \/ PreOpFails
             \/ DispatchSubvol \/ DispatchOp \/ ReadsBadNumber \/ DispatchEnd \/ PassEnd \/ PostOp \/ NoSubvolume
             \/ Count \/ FinishStream \/ SendErr \/ Leave
Waiter == Done \/ Drain

Alive == gpc # "panicked"
Next == /\ Alive
        /\ \/ Goroutine \/ Waiter \/ CallerEnds("canceled") \/ CallerEnds("deadline")

Spec == Init /\ [][Next]_vars

\* The Go scheduler runs both goroutines and the reader delivers or fails.
Fairness == WF_vars(Alive /\ Goroutine) /\ WF_vars(Alive /\ Waiter)
FairSpec == Spec /\ Fairness
-----------------------------------------------------------------------------
\* The shape of the state.
TypeOK == /\ stream \in Streams /\ start \in Starts /\ maxErrors \in ErrorLimits
          /\ honorEnd \in BOOLEAN /\ hooks \in BOOLEAN
          /\ gpc \in {"scan", "preop", "dispatch", "postop", "count", "send", "last", "leave", "left", "panicked"}
          /\ scanned \in 0..Len(stream) /\ offset \in Nat /\ cur \in Nat /\ errors \in Nat
          /\ errCh \in {"empty", "full", "closed", "closed full"}
          /\ ctxEnd \in {"no", "ended", "canceled", "deadline"}
          /\ mpc \in {"wait", "drain", "returned"}
          /\ result \in {"pending", "nil", "error", "deadline"}
          /\ applied \in Seq([n : Nat, vol : Nat])
          /\ skipped \subseteq 1..Len(stream) /\ failed \subseteq 1..Len(stream)
          /\ faults \in 0..MaxFaults

TakenOnes == {applied[i].n : i \in DOMAIN applied}

\* When the caller's context has not ended, nil means that the stream was
\* read to its END, that fewer errors occurred than are tolerated, and that
\* the receiver took every other command, each once and in order.
NilMeansApplied ==
  result = "nil" /\ ctxEnd = "ended" =>
    /\ scanned = Len(stream)
    /\ errors = 0 \/ errors < maxErrors
    /\ \A n \in 1..Len(stream) : stream[n].kind \in {"subvol", "op"} => n \in TakenOnes \cup skipped \cup failed
    /\ \A i, j \in DOMAIN applied : i < j => applied[i].n < applied[j].n

\* Where no error is tolerated a command is applied to the subvolume it
\* belongs to, also when the command that names it was skipped.
RightSubvolume == maxErrors <= 1 => \A i \in DOMAIN applied : applied[i].vol = stream[applied[i].n].vol

\* A subvolume that could not be begun for want of its attributes.
Unbegun(k) == \E n \in 1..k : stream[n].kind = "subvol" /\ stream[n].attrs # "whole"

\* The goroutine panics only when the caller's context has ended (it sends
\* on the closed channel), when END is not honored (PostOp has no current
\* subvolume), when the PreOp of a subvolume failed, or its attributes could not
\* be read, and that is tolerated, or at a number that is not all there.
NoPanic == gpc = "panicked" => \/ ctxEnd = "canceled"
                               \/ hooks /\ ~honorEnd
                               \/ maxErrors > 1 /\ (hooks \/ Unbegun(scanned))
                               \/ scanned > 0 /\ Cmd.attrs \in {"no number"} \cup BadNumber

\* ProcessSendStream returns, unless the process has died.
Returns == <>(mpc = "returned" \/ gpc = "panicked")
=============================================================================
