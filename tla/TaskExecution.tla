---------------------------- MODULE TaskExecution ----------------------------
(***************************************************************************)
(* The task framework (src/internal/task/executor.go and                   *)
(* src/internal/model/task_execution.go): how a task is dispatched,        *)
(* delivered by Asynq, recorded in w_task_executions, logged through Redis *)
(* and retried by hand.  Three stores are written without a transaction    *)
(* between them: the execution row, the Asynq message and the log buffer.  *)
(*                                                                         *)
(* A task is a pair: <<r, 0>> is dispatched (or fired by the scheduler)    *)
(* and <<r, n>> is the execution "retry_n_r" RetryTask creates for it.     *)
(* Retrying a retry, which starts the same machine once more, is left out. *)
(***************************************************************************)
EXTENDS Integers, FiniteSets

CONSTANTS
  Root,      \* identifiers generateTaskID or Asynq's scheduler made up
  MaxRetry,  \* TaskMeta.MaxRetry: Asynq's attempts are 0 .. MaxRetry
  MaxTurn,   \* bound on the retries by hand of one task
  MaxFaults  \* bound on crashes, timeouts and failed reads and writes

ASSUME MaxRetryIsNat  == MaxRetry \in Nat
ASSUME MaxTurnIsNat   == MaxTurn \in 0 .. MaxRetry + 1
ASSUME MaxFaultsIsNat == MaxFaults \in Nat

VARIABLES
  row,     \* w_task_executions by task_id: status and retry_count
  msg,     \* the Asynq message: where it is, and how often it was tried
  sender,  \* the call of DispatchTask or RetryTask that made the task
  run,     \* the ProcessTask call at work on the task
  buf,     \* lines of the log in Redis
  stored,  \* lines of the log column
  astray,  \* tasks whose last attempt or dispatch left no true record
  faults   \* faults so far

vars == <<row, msg, sender, run, buf, stored, astray, faults>>

Attempt == 0 .. MaxRetry
Task    == Root \X (0 .. MaxTurn)
Line    == [kind : {"queued", "begun", "ended"}, of : Attempt]
Queued   == [kind |-> "queued", of |-> 0]
Begun(n) == [kind |-> "begun", of |-> n]
Ended(n) == [kind |-> "ended", of |-> n]

Status == {"none", "pending", "running", "succeeded", "failed"}
Row    == [status : Status, count : 0 .. MaxRetry + 1]
NoRow  == [status |-> "none", count |-> 0]
Msg    == [state : {"none", "queued", "active", "done", "archived"}, tried : Attempt]
Phase  == {"idle", "loading", "loaded", "begun", "ended", "recorded", "copied", "returned"}
Run    == [at : Phase, ok : BOOLEAN, rec : BOOLEAN]
NoRun  == [at |-> "idle", ok |-> FALSE, rec |-> FALSE]

TypeOK ==
  /\ row    \in [Task -> Row]
  /\ msg    \in [Task -> Msg]
  /\ sender \in [Task -> {"idle", "asked", "created", "sent", "refused", "over"}]
  /\ run    \in [Task -> Run]
  /\ buf    \in [Task -> SUBSET Line]
  /\ stored \in [Task -> SUBSET Line]
  /\ astray \in SUBSET Task
  /\ faults \in 0 .. MaxFaults

Init ==
  /\ row    = [t \in Task |-> NoRow]
  /\ msg    = [t \in Task |-> [state |-> "none", tried |-> 0]]
  /\ sender = [t \in Task |-> "idle"]
  /\ run    = [t \in Task |-> NoRun]
  /\ buf    = [t \in Task |-> {}]
  /\ stored = [t \in Task |-> {}]
  /\ astray = {}
  /\ faults = 0

Terminal(t) == row[t].status \in {"succeeded", "failed"}
Settled(t)  == msg[t].state \in {"done", "archived"}

Put(t, status, count) == row' = [row EXCEPT ![t] = [status |-> status, count |-> count]]
Log(t, line)          == buf' = [buf EXCEPT ![t] = @ \cup {line}]
Goto(t, phase)        == run' = [run EXCEPT ![t].at = phase]
Send(t, state)        == sender' = [sender EXCEPT ![t] = state]
Fault                 == faults < MaxFaults /\ faults' = faults + 1

-----------------------------------------------------------------------------
(* Dispatching and retrying: the row first, then Asynq, then the log.      *)

\* DispatchTask inserts the row of a new task.
DispatchTask(r) ==
  LET t == <<r, 0>> IN
  /\ sender[t] = "idle" /\ msg[t].state = "none"
  /\ Put(t, "pending", 0)
  /\ Send(t, "created")
  /\ UNCHANGED <<msg, run, buf, stored, astray, faults>>

\* The scheduler enqueues under an identifier of Asynq's: there is no row.
Fire(r) ==
  LET t == <<r, 0>> IN
  /\ sender[t] = "idle" /\ msg[t].state = "none"
  /\ msg' = [msg EXCEPT ![t].state = "queued"]
  /\ UNCHANGED <<row, sender, run, buf, stored, astray, faults>>

\* RetryTask reads a failed row and derives the new identifier from its count.
RetryTask(r) ==
  LET t == <<r, row[<<r, 0>>].count + 1>> IN
  /\ row[<<r, 0>>].status = "failed" /\ t \in Task
  /\ sender[t] = "idle"
  /\ Send(t, "asked")
  /\ UNCHANGED <<row, msg, run, buf, stored, astray, faults>>

\* The insert of the retry's row.  The unique index on task_id lets one pass.
CreateRetry(t) ==
  /\ sender[t] = "asked"
  /\ Put(t, "pending", t[2])
  /\ Send(t, "created")
  /\ UNCHANGED <<msg, run, buf, stored, astray, faults>>

Enqueue(t) ==
  /\ sender[t] = "created"
  /\ msg' = [msg EXCEPT ![t].state = "queued"]
  /\ Send(t, "sent")
  /\ UNCHANGED <<row, run, buf, stored, astray, faults>>

\* An error from Enqueue: the message was not queued, or was and the answer lost.
EnqueueFails(t) ==
  /\ sender[t] = "created" /\ Fault
  /\ \/ UNCHANGED msg
     \/ msg' = [msg EXCEPT ![t].state = "queued"]
  /\ Send(t, "refused")
  /\ UNCHANGED <<row, run, buf, stored, astray>>

\* The dispatcher saves its whole record as failed, whatever the row is by now.
SaveRefused(t) ==
  /\ sender[t] = "refused"
  /\ Put(t, "failed", t[2])
  /\ Send(t, "over")
  /\ astray' = IF msg[t].state = "none" THEN astray ELSE astray \cup {t}
  /\ UNCHANGED <<msg, run, buf, stored, faults>>

\* "Queued" is logged after the task was queued, however far it has come since.
LogQueued(t) ==
  /\ sender[t] = "sent"
  /\ Log(t, Queued)
  /\ Send(t, "over")
  /\ UNCHANGED <<row, msg, run, stored, astray, faults>>

\* The dispatching process, or its request, ends before its next write.
SenderStops(t) ==
  /\ sender[t] \in {"created", "sent", "refused"} /\ Fault
  /\ Send(t, "over")
  /\ UNCHANGED <<row, msg, run, buf, stored, astray>>

-----------------------------------------------------------------------------
(* ProcessTask: one delivery.  All its writes use the context Asynq gave.  *)

Deliver(t) ==
  /\ msg[t].state = "queued"
  /\ msg' = [msg EXCEPT ![t].state = "active"]
  /\ run' = [run EXCEPT ![t] = [at |-> "loading", ok |-> FALSE, rec |-> FALSE]]
  /\ UNCHANGED <<row, sender, buf, stored, astray, faults>>

\* getOrCreateTaskExecution: a scheduled task gets its row, already running.
Load(t) ==
  /\ run[t].at = "loading"
  /\ IF row[t] = NoRow THEN Put(t, "running", 0) ELSE UNCHANGED row
  /\ run' = [run EXCEPT ![t].at = "loaded", ![t].rec = TRUE]
  /\ UNCHANGED <<msg, sender, buf, stored, astray, faults>>

\* Any read error leads to an insert, which the row refuses; the attempt goes
\* on without a record.
LoadFails(t) ==
  /\ run[t].at = "loading" /\ Fault
  /\ Goto(t, "loaded")
  /\ astray' = astray \cup {t}
  /\ UNCHANGED <<row, msg, sender, buf, stored>>

\* updateExecutionOnStart, and the first line of the log.
Begin(t) ==
  /\ run[t].at = "loaded"
  /\ \/ run[t].rec /\ Put(t, "running", msg[t].tried) /\ UNCHANGED faults
     \/ run[t].rec /\ Fault /\ UNCHANGED row
     \/ ~run[t].rec /\ UNCHANGED <<row, faults>>
  /\ Log(t, Begun(msg[t].tried))
  /\ Goto(t, "begun")
  /\ UNCHANGED <<msg, sender, stored, astray>>

\* The handler returns; its outcome is logged when there is a record to fill.
Execute(t) ==
  /\ run[t].at = "begun"
  /\ \E ok \in BOOLEAN : run' = [run EXCEPT ![t].at = "ended", ![t].ok = ok]
  /\ IF run[t].rec THEN Log(t, Ended(msg[t].tried)) ELSE UNCHANGED buf
  /\ UNCHANGED <<row, msg, sender, stored, astray, faults>>

\* Mutant of Record: the failure of the last attempt is left to Asynq.
RecordLeavesFailure(t) ==
  /\ run[t].at = "ended" /\ run[t].rec
  /\ IF run[t].ok \/ msg[t].tried < MaxRetry
     THEN Put(t, IF run[t].ok THEN "succeeded" ELSE "failed", msg[t].tried)
     ELSE UNCHANGED row
  /\ astray' = astray \ {t}
  /\ Goto(t, "recorded")
  /\ UNCHANGED <<msg, sender, buf, stored, faults>>

\* completeTaskExecution saves the record whole, without the log column.
Record(t) ==
  /\ run[t].at = "ended" /\ run[t].rec
  /\ Put(t, IF run[t].ok THEN "succeeded" ELSE "failed", msg[t].tried)
  /\ astray' = astray \ {t}
  /\ Goto(t, "recorded")
  /\ UNCHANGED <<msg, sender, buf, stored, faults>>

RecordFails(t) ==
  /\ run[t].at = "ended" /\ run[t].rec /\ Fault
  /\ astray' = astray \cup {t}
  /\ Goto(t, "recorded")
  /\ UNCHANGED <<row, msg, sender, buf, stored>>

NothingToRecord(t) ==
  /\ run[t].at = "ended" /\ ~run[t].rec
  /\ Goto(t, "returned")
  /\ UNCHANGED <<row, msg, sender, buf, stored, astray, faults>>

\* shouldFlushTaskExecutionLog
LastAttempt(t) == run[t].ok \/ msg[t].tried >= MaxRetry

\* Mutant of Flush: the buffer is deleted first.
FlushAfterClear(t) ==
  /\ run[t].at = "recorded"
  /\ buf' = [buf EXCEPT ![t] = IF LastAttempt(t) THEN {} ELSE @]
  /\ stored' = [stored EXCEPT ![t] = IF LastAttempt(t) THEN buf'[t] ELSE @]
  /\ Goto(t, "returned")
  /\ UNCHANGED <<row, msg, sender, astray, faults>>

\* FlushTaskExecutionLog reads the buffer into the column ...
Flush(t) ==
  /\ run[t].at = "recorded"
  /\ IF LastAttempt(t) /\ buf[t] # {} /\ row[t] # NoRow
     THEN stored' = [stored EXCEPT ![t] = buf[t]] /\ Goto(t, "copied")
     ELSE UNCHANGED stored /\ Goto(t, "returned")
  /\ UNCHANGED <<row, msg, sender, buf, astray, faults>>

\* ... and then deletes it, with whatever was appended in between.
ClearBuffer(t) ==
  /\ run[t].at = "copied"
  /\ buf' = [buf EXCEPT ![t] = {}]
  /\ Goto(t, "returned")
  /\ UNCHANGED <<row, msg, sender, stored, astray, faults>>

\* A mutant of Again: a count that is never taken up.
AgainForever(t) == msg' = [msg EXCEPT ![t].state = "queued"]

\* Asynq's answer to an attempt that failed or was lost: again, or the archive.
Again(t) ==
  msg' = [msg EXCEPT ![t] = IF @.tried < MaxRetry
                            THEN [state |-> "queued", tried |-> @.tried + 1]
                            ELSE [state |-> "archived", tried |-> @.tried]]

Return(t) ==
  /\ run[t].at = "returned"
  /\ IF run[t].ok THEN msg' = [msg EXCEPT ![t].state = "done"] ELSE Again(t)
  /\ run' = [run EXCEPT ![t] = NoRun]
  /\ UNCHANGED <<row, sender, buf, stored, astray, faults>>

\* The worker dies, or Asynq's timeout or lost lease ends the context: none of
\* the attempt's writes happens any more.  A shutdown puts the message back.
Cut(t) ==
  /\ run[t].at # "idle" /\ Fault
  /\ \/ Again(t)
     \/ msg' = [msg EXCEPT ![t].state = "queued"]
  /\ run' = [run EXCEPT ![t] = NoRun]
  /\ astray' = astray \cup {t}
  /\ UNCHANGED <<row, sender, buf, stored>>

\* CleanupTaskExecutionLogs deletes a row that looks finished and is old.
Cleanup(t) ==
  /\ Terminal(t)
  /\ row' = [row EXCEPT ![t] = NoRow]
  /\ UNCHANGED <<msg, sender, run, buf, stored, astray, faults>>

Dispatching(t) ==
  \/ CreateRetry(t) \/ Enqueue(t) \/ EnqueueFails(t)
  \/ SaveRefused(t) \/ LogQueued(t) \/ SenderStops(t)

Processing(t) ==
  \/ Load(t) \/ LoadFails(t) \/ Begin(t) \/ Execute(t) \/ Record(t) \/ RecordFails(t)
  \/ NothingToRecord(t) \/ Flush(t) \/ ClearBuffer(t) \/ Return(t)

Next ==
  \/ \E r \in Root : DispatchTask(r) \/ Fire(r) \/ RetryTask(r)
  \/ \E t \in Task : Dispatching(t) \/ Deliver(t) \/ Processing(t) \/ Cut(t) \/ Cleanup(t)

Spec == Init /\ [][Next]_vars

\* Asynq delivers what is queued while a worker runs, and every handler returns
\* (src/internal/task/worker/worker.go:41).
Fairness == \A t \in Task : WF_vars(Deliver(t)) /\ WF_vars(Processing(t))

FairSpec == Spec /\ Fairness

-----------------------------------------------------------------------------
(* What the records are worth.                                             *)

\* Where Asynq is through with a task, its row tells the outcome and the number
\* of attempts, unless the last attempt was cut off, could not be recorded, or
\* its dispatch was misreported.  A row the cleanup took is not asked
\* (src/internal/task/executor.go:368).
RecordAgrees ==
  \A t \in Task : Settled(t) /\ t \notin astray /\ row[t] # NoRow =>
    row[t] = [status |-> IF msg[t].state = "done" THEN "succeeded" ELSE "failed",
              count  |-> msg[t].tried]

\* The last attempt's outcome can still be read, in the buffer or the column:
\* moving the log between the stores does not lose it
\* (src/internal/model/task_execution.go:125).
OutcomeIsKept ==
  \A t \in Task : Settled(t) /\ t \notin astray /\ row[t] # NoRow =>
    Ended(msg[t].tried) \in buf[t] \cup stored[t]

\* Attempts run out: what is queued is done or archived in the end.
QueuedIsSettled == \A t \in Task : msg[t].state = "queued" ~> Settled(t)
=============================================================================
