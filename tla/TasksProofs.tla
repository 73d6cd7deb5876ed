----------------------------- MODULE TasksProofs ------------------------------
(***************************************************************************)
(* Proofs about MC_Tasks' modules, for any tasks, attempts, retries by     *)
(* hand, events, channels, handlers and faults (their assumptions on       *)
(* constants).                                                             *)
(*   TaskExecution     IInv: every step writes the stores of one task, so  *)
(*                     that it is stated, and kept, task by task           *)
(*   PushNotify        PushInv: what an edit writes is valid unless two    *)
(*                     overlap, and what was sent twice had an answer lost *)
(*   TaskSchedules     SchedInv: the reload that holds the mutex has read  *)
(*                     the table as it is, or another comes after it       *)
(***************************************************************************)
EXTENDS MC_Tasks, TLAPS

(* Task executions *)

Outcome(ok, n) == [status |-> IF ok THEN "succeeded" ELSE "failed", count |-> n]

\* The message and its worker go together, and what no dispatch has sent yet is
\* with Asynq only when the scheduler fired it.
PlaceOK(t) ==
  /\ run[t].at # "idle" <=> msg[t].state = "active"
  /\ sender[t] \in {"asked", "created"} => msg[t].state = "none"
  /\ sender[t] = "idle" /\ t[2] # 0 => msg[t].state = "none"

\* An attempt without a record is known to have gone astray.
RecordOK(t) ==
  /\ run[t].at \notin {"idle", "loading"} => run[t].rec \/ t \in astray
  /\ run[t].at \in {"recorded", "copied"} => run[t].rec
  /\ run[t].at \in {"recorded", "copied", "returned"} /\ t \notin astray =>
       row[t] = NoRow \/ row[t] = Outcome(run[t].ok, msg[t].tried)

\* The attempt's outcome is in the buffer until it has been copied.
LogOK(t) ==
  /\ run[t].at \in {"ended", "recorded"} /\ run[t].rec => Ended(msg[t].tried) \in buf[t]
  /\ run[t].at = "copied" => Ended(msg[t].tried) \in stored[t]
  /\ run[t].at = "returned" /\ run[t].rec => Ended(msg[t].tried) \in buf[t] \cup stored[t]

SettledOK(t) ==
  Settled(t) /\ t \notin astray /\ row[t] # NoRow =>
    /\ row[t] = Outcome(msg[t].state = "done", msg[t].tried)
    /\ Ended(msg[t].tried) \in buf[t] \cup stored[t]

OK(t) == PlaceOK(t) /\ RecordOK(t) /\ LogOK(t) /\ SettledOK(t)

IInv == TypeOK /\ \A t \in Task : OK(t)

\* Nothing of the other tasks changes.
Only(t) ==
  \A u \in Task \ {t} :
    /\ row'[u] = row[u] /\ msg'[u] = msg[u] /\ sender'[u] = sender[u] /\ run'[u] = run[u]
    /\ buf'[u] = buf[u] /\ stored'[u] = stored[u] /\ (u \in astray' <=> u \in astray)

-----------------------------------------------------------------------------
LEMMA Typed ==
  ASSUME IInv, NEW t \in Task
  PROVE  /\ TypeOK /\ OK(t)
         /\ row[t] \in Row /\ msg[t] \in Msg /\ run[t] \in Run
         /\ msg[t].tried \in Attempt /\ run[t].ok \in BOOLEAN /\ run[t].rec \in BOOLEAN
         /\ t[2] \in 0 .. MaxTurn /\ MaxRetry \in Nat
<1>1. /\ TypeOK /\ OK(t) /\ row[t] \in Row /\ msg[t] \in Msg /\ run[t] \in Run
  BY DEF IInv, TypeOK
<1>2. t[2] \in 0 .. MaxTurn /\ MaxRetry \in Nat
  BY MaxRetryIsNat DEF Task
<1> QED BY <1>1, <1>2 DEF Msg, Run

LEMMA OneTask == ASSUME IInv, TypeOK', NEW t \in Task, Only(t), OK(t)' PROVE IInv'
<1> SUFFICES ASSUME NEW u \in Task, u # t PROVE OK(u)'
  BY DEF IInv
<1>1. OK(u)
  BY DEF IInv
<1>2. /\ row'[u] = row[u] /\ msg'[u] = msg[u] /\ sender'[u] = sender[u] /\ run'[u] = run[u]
      /\ buf'[u] = buf[u] /\ stored'[u] = stored[u] /\ (u \in astray' <=> u \in astray)
  BY DEF Only
<1>3. PlaceOK(u)'
  BY <1>1, <1>2 DEF OK, PlaceOK
<1>4. RecordOK(u)'
  BY <1>1, <1>2 DEF OK, RecordOK
<1>5. LogOK(u)'
  BY <1>1, <1>2 DEF OK, LogOK
<1>6. SettledOK(u)'
  BY <1>1, <1>2 DEF OK, SettledOK, Settled
<1> QED BY <1>3, <1>4, <1>5, <1>6 DEF OK

LEMMA PutTyped ==
  ASSUME IInv, NEW t \in Task, NEW s \in Status, NEW n \in 0 .. MaxRetry + 1, Put(t, s, n)
  PROVE  /\ row' \in [Task -> Row] /\ row'[t] = [status |-> s, count |-> n]
         /\ \A u \in Task \ {t} : row'[u] = row[u]
<1>1. [status |-> s, count |-> n] \in Row
  BY DEF Row
<1> QED BY <1>1 DEF Put, IInv, TypeOK

LEMMA LogTyped ==
  ASSUME IInv, NEW t \in Task, NEW l \in Line, Log(t, l)
  PROVE  /\ buf' \in [Task -> SUBSET Line] /\ buf'[t] = buf[t] \cup {l}
         /\ \A u \in Task \ {t} : buf'[u] = buf[u]
  BY DEF Log, IInv, TypeOK

LEMMA GotoTyped ==
  ASSUME IInv, NEW t \in Task, NEW p \in Phase, Goto(t, p)
  PROVE  /\ run' \in [Task -> Run] /\ run'[t].at = p /\ run'[t].ok = run[t].ok
         /\ run'[t].rec = run[t].rec
         /\ \A u \in Task \ {t} : run'[u] = run[u]
<1>1. run[t] \in Run
  BY Typed
<1>2. [run[t] EXCEPT !.at = p] \in Run
  BY <1>1 DEF Run
<1> QED BY <1>1, <1>2 DEF Goto, IInv, TypeOK, Run

LEMMA SendTyped ==
  ASSUME IInv, NEW t \in Task, NEW s \in {"asked", "created", "sent", "refused", "over"}, Send(t, s)
  PROVE  /\ sender' \in [Task -> {"idle", "asked", "created", "sent", "refused", "over"}]
         /\ sender'[t] = s
         /\ \A u \in Task \ {t} : sender'[u] = sender[u]
  BY DEF Send, IInv, TypeOK

LEMMA MsgTyped ==
  ASSUME IInv, NEW t \in Task, NEW m \in Msg, msg' = [msg EXCEPT ![t] = m]
  PROVE  /\ msg' \in [Task -> Msg] /\ msg'[t] = m
         /\ \A u \in Task \ {t} : msg'[u] = msg[u]
  BY DEF IInv, TypeOK

LEMMA StateTyped ==
  ASSUME IInv, NEW t \in Task, NEW s \in {"none", "queued", "active", "done", "archived"},
         msg' = [msg EXCEPT ![t].state = s]
  PROVE  /\ msg' \in [Task -> Msg] /\ msg'[t].state = s /\ msg'[t].tried = msg[t].tried
         /\ \A u \in Task \ {t} : msg'[u] = msg[u]
<1>1. msg[t] \in Msg
  BY Typed
<1> DEFINE m == [msg[t] EXCEPT !.state = s]
<1>2. m \in Msg /\ m.state = s /\ m.tried = msg[t].tried
  BY <1>1 DEF Msg
<1>3. msg' = [msg EXCEPT ![t] = m]
  OBVIOUS
<1> HIDE DEF m
<1> QED BY <1>2, <1>3, MsgTyped

LEMMA FaultTyped == ASSUME IInv, Fault PROVE faults' \in 0 .. MaxFaults
  BY MaxFaultsIsNat DEF Fault, IInv, TypeOK

-----------------------------------------------------------------------------
(***************************************************************************)
(* Dispatching and retrying.                                               *)
(***************************************************************************)
LEMMA FirstIsTask == ASSUME NEW r \in Root PROVE <<r, 0>> \in Task /\ <<r, 0>>[2] = 0
<1>1. 0 \in 0 .. MaxTurn
  BY MaxTurnIsNat, MaxRetryIsNat
<1> QED BY <1>1 DEF Task

LEMMA DispatchTaskStep == ASSUME IInv, NEW r \in Root, DispatchTask(r) PROVE IInv'
<1> DEFINE t == <<r, 0>>
<1>1. t \in Task /\ t[2] = 0
  BY FirstIsTask
<1> HIDE DEF t
<1>2. /\ sender[t] = "idle" /\ msg[t].state = "none" /\ Put(t, "pending", 0) /\ Send(t, "created")
      /\ UNCHANGED <<msg, run, buf, stored, astray, faults>>
  BY DEF DispatchTask, t
<1>3. TypeOK /\ OK(t) /\ MaxRetry \in Nat
  BY <1>1, Typed
<1>4. /\ row' \in [Task -> Row] /\ row'[t] = [status |-> "pending", count |-> 0]
      /\ \A u \in Task \ {t} : row'[u] = row[u]
  <2>1. "pending" \in Status /\ 0 \in 0 .. MaxRetry + 1
    BY <1>3 DEF Status
  <2> QED BY <1>1, <1>2, <2>1, PutTyped
<1>5. /\ sender' \in [Task -> {"idle", "asked", "created", "sent", "refused", "over"}]
      /\ sender'[t] = "created"
      /\ \A u \in Task \ {t} : sender'[u] = sender[u]
  BY <1>1, <1>2, SendTyped
<1>6. TypeOK' /\ Only(t)
  BY <1>2, <1>3, <1>4, <1>5 DEF TypeOK, Only
<1>7. OK(t)'
  BY <1>1, <1>2, <1>3, <1>5 DEF OK, PlaceOK, RecordOK, LogOK, SettledOK, Settled
<1> QED BY <1>1, <1>6, <1>7, OneTask

LEMMA FireStep == ASSUME IInv, NEW r \in Root, Fire(r) PROVE IInv'
<1> DEFINE t == <<r, 0>>
<1>1. t \in Task /\ t[2] = 0
  BY FirstIsTask
<1> HIDE DEF t
<1>2. /\ sender[t] = "idle" /\ msg[t].state = "none" /\ msg' = [msg EXCEPT ![t].state = "queued"]
      /\ UNCHANGED <<row, sender, run, buf, stored, astray, faults>>
  BY DEF Fire, t
<1>3. TypeOK /\ OK(t)
  BY <1>1, Typed
<1>4. /\ msg' \in [Task -> Msg] /\ msg'[t].state = "queued" /\ msg'[t].tried = msg[t].tried
      /\ \A u \in Task \ {t} : msg'[u] = msg[u]
  BY <1>1, <1>2, StateTyped
<1>6. TypeOK' /\ Only(t)
  BY <1>2, <1>3, <1>4 DEF TypeOK, Only
<1>7. OK(t)'
  BY <1>1, <1>2, <1>3, <1>4 DEF OK, PlaceOK, RecordOK, LogOK, SettledOK, Settled
<1> QED BY <1>1, <1>6, <1>7, OneTask

LEMMA RetryTaskStep == ASSUME IInv, NEW r \in Root, RetryTask(r) PROVE IInv'
<1>1. row[<<r, 0>>] \in Row
  BY FirstIsTask, Typed
<1>2. row[<<r, 0>>].count + 1 # 0
  BY <1>1, MaxRetryIsNat DEF Row
<1>3. PICK t \in Task : t = <<r, row[<<r, 0>>].count + 1>>
  BY DEF RetryTask
<1>4. t \in Task /\ t[2] # 0
  BY <1>2, <1>3
<1>5. sender[t] = "idle" /\ Send(t, "asked") /\ UNCHANGED <<row, msg, run, buf, stored, astray, faults>>
  BY <1>3 DEF RetryTask
<1>6. TypeOK /\ OK(t)
  BY <1>4, Typed
<1>7. /\ sender' \in [Task -> {"idle", "asked", "created", "sent", "refused", "over"}]
      /\ sender'[t] = "asked"
      /\ \A u \in Task \ {t} : sender'[u] = sender[u]
  BY <1>4, <1>5, SendTyped
<1>8. TypeOK' /\ Only(t)
  BY <1>5, <1>6, <1>7 DEF TypeOK, Only
<1>9. OK(t)'
  BY <1>4, <1>5, <1>6, <1>7 DEF OK, PlaceOK, RecordOK, LogOK, SettledOK, Settled
<1> QED BY <1>4, <1>8, <1>9, OneTask

LEMMA DispatchingStep == ASSUME IInv, NEW t \in Task, Dispatching(t) PROVE IInv'
<1>1. TypeOK /\ OK(t) /\ MaxRetry \in Nat /\ t[2] \in 0 .. MaxRetry + 1
  <2>1. TypeOK /\ OK(t) /\ MaxRetry \in Nat /\ t[2] \in 0 .. MaxTurn
    BY Typed
  <2>2. MaxTurn \in 0 .. MaxRetry + 1
    BY MaxTurnIsNat
  <2> QED BY <2>1, <2>2
<1>p. {"pending", "failed"} \subseteq Status
  BY DEF Status
<1>2. CASE CreateRetry(t)
  <2>1. /\ row' \in [Task -> Row] /\ \A u \in Task \ {t} : row'[u] = row[u]
    BY <1>1, <1>2, <1>p, PutTyped DEF CreateRetry
  <2>2. /\ sender' \in [Task -> {"idle", "asked", "created", "sent", "refused", "over"}]
        /\ sender'[t] = "created"
        /\ \A u \in Task \ {t} : sender'[u] = sender[u]
    BY <1>2, SendTyped DEF CreateRetry
  <2>3. TypeOK' /\ Only(t)
    BY <1>1, <1>2, <2>1, <2>2 DEF TypeOK, Only, CreateRetry
  <2>4. OK(t)'
    BY <1>1, <1>2, <2>2 DEF OK, PlaceOK, RecordOK, LogOK, SettledOK, Settled, CreateRetry
  <2> QED BY <2>3, <2>4, OneTask
<1>3. CASE Enqueue(t)
  <2>1. /\ msg' \in [Task -> Msg] /\ msg'[t].state = "queued" /\ msg'[t].tried = msg[t].tried
        /\ \A u \in Task \ {t} : msg'[u] = msg[u]
    BY <1>3, StateTyped DEF Enqueue
  <2>2. /\ sender' \in [Task -> {"idle", "asked", "created", "sent", "refused", "over"}]
        /\ sender'[t] = "sent"
        /\ \A u \in Task \ {t} : sender'[u] = sender[u]
    BY <1>3, SendTyped DEF Enqueue
  <2>3. TypeOK' /\ Only(t)
    BY <1>1, <1>3, <2>1, <2>2 DEF TypeOK, Only, Enqueue
  <2>4. OK(t)'
    BY <1>1, <1>3, <2>1, <2>2 DEF OK, PlaceOK, RecordOK, LogOK, SettledOK, Settled, Enqueue
  <2> QED BY <2>3, <2>4, OneTask
<1>4. CASE EnqueueFails(t)
  <2>1. /\ msg' \in [Task -> Msg] /\ msg'[t].tried = msg[t].tried
        /\ msg'[t] = msg[t] \/ msg'[t].state = "queued"
        /\ \A u \in Task \ {t} : msg'[u] = msg[u]
    BY <1>1, <1>4, StateTyped DEF EnqueueFails, TypeOK
  <2>2. /\ sender' \in [Task -> {"idle", "asked", "created", "sent", "refused", "over"}]
        /\ sender'[t] = "refused"
        /\ \A u \in Task \ {t} : sender'[u] = sender[u]
    BY <1>4, SendTyped DEF EnqueueFails
  <2>3. faults' \in 0 .. MaxFaults
    BY <1>4, FaultTyped DEF EnqueueFails
  <2>4. TypeOK' /\ Only(t)
    BY <1>1, <1>4, <2>1, <2>2, <2>3 DEF TypeOK, Only, EnqueueFails
  <2>5. OK(t)'
    BY <1>1, <1>4, <2>1, <2>2 DEF OK, PlaceOK, RecordOK, LogOK, SettledOK, Settled, EnqueueFails
  <2> QED BY <2>4, <2>5, OneTask
<1>5. CASE SaveRefused(t)
  <2>1. /\ row' \in [Task -> Row] /\ \A u \in Task \ {t} : row'[u] = row[u]
    BY <1>1, <1>5, <1>p, PutTyped DEF SaveRefused
  <2>2. /\ sender' \in [Task -> {"idle", "asked", "created", "sent", "refused", "over"}]
        /\ sender'[t] = "over"
        /\ \A u \in Task \ {t} : sender'[u] = sender[u]
    BY <1>5, SendTyped DEF SaveRefused
  <2>3. /\ astray' = IF msg[t].state = "none" THEN astray ELSE astray \cup {t}
        /\ UNCHANGED <<msg, run, buf, stored, faults>>
    BY <1>5 DEF SaveRefused
  <2>4. TypeOK' /\ Only(t)
    BY <1>1, <2>1, <2>2, <2>3 DEF TypeOK, Only
  <2>5. OK(t)'
    BY <1>1, <2>2, <2>3 DEF OK, PlaceOK, RecordOK, LogOK, SettledOK, Settled
  <2> QED BY <2>4, <2>5, OneTask
<1>6. CASE LogQueued(t)
  <2>1. Queued \in Line
    BY <1>1 DEF Queued, Line, Attempt
  <2>2. /\ buf' \in [Task -> SUBSET Line] /\ buf'[t] = buf[t] \cup {Queued}
        /\ \A u \in Task \ {t} : buf'[u] = buf[u]
    BY <1>6, <2>1, LogTyped DEF LogQueued
  <2>3. /\ sender' \in [Task -> {"idle", "asked", "created", "sent", "refused", "over"}]
        /\ sender'[t] = "over"
        /\ \A u \in Task \ {t} : sender'[u] = sender[u]
    BY <1>6, SendTyped DEF LogQueued
  <2>4. TypeOK' /\ Only(t)
    BY <1>1, <1>6, <2>2, <2>3 DEF TypeOK, Only, LogQueued
  <2>5. OK(t)'
    BY <1>1, <1>6, <2>2, <2>3 DEF OK, PlaceOK, RecordOK, LogOK, SettledOK, Settled, LogQueued
  <2> QED BY <2>4, <2>5, OneTask
<1>7. CASE SenderStops(t)
  <2>1. /\ sender' \in [Task -> {"idle", "asked", "created", "sent", "refused", "over"}]
        /\ sender'[t] = "over"
        /\ \A u \in Task \ {t} : sender'[u] = sender[u]
    BY <1>7, SendTyped DEF SenderStops
  <2>2. faults' \in 0 .. MaxFaults
    BY <1>7, FaultTyped DEF SenderStops
  <2>3. TypeOK' /\ Only(t)
    BY <1>1, <1>7, <2>1, <2>2 DEF TypeOK, Only, SenderStops
  <2>4. OK(t)'
    BY <1>1, <1>7, <2>1 DEF OK, PlaceOK, RecordOK, LogOK, SettledOK, Settled, SenderStops
  <2> QED BY <2>3, <2>4, OneTask
<1> QED BY <1>2, <1>3, <1>4, <1>5, <1>6, <1>7 DEF Dispatching

-----------------------------------------------------------------------------
(***************************************************************************)
(* One delivery.                                                           *)
(***************************************************************************)
LEMMA Lines ==
  ASSUME IInv, NEW t \in Task
  PROVE  Begun(msg[t].tried) \in Line /\ Ended(msg[t].tried) \in Line
  BY Typed DEF Begun, Ended, Line

LEMMA Phases == {"loading", "loaded", "begun", "ended", "recorded", "copied", "returned"} \subseteq Phase
  BY DEF Phase

LEMMA Counts == ASSUME IInv, NEW t \in Task PROVE msg[t].tried \in 0 .. MaxRetry + 1 /\ 0 \in 0 .. MaxRetry + 1
  BY Typed DEF Attempt

LEMMA DeliverStep == ASSUME IInv, NEW t \in Task, Deliver(t) PROVE IInv'
<1>1. TypeOK /\ OK(t)
  BY Typed
<1>2. /\ msg[t].state = "queued" /\ UNCHANGED <<row, sender, buf, stored, astray, faults>>
      /\ msg' = [msg EXCEPT ![t].state = "active"]
      /\ run' = [run EXCEPT ![t] = [at |-> "loading", ok |-> FALSE, rec |-> FALSE]]
  BY DEF Deliver
<1>3. /\ msg' \in [Task -> Msg] /\ msg'[t].state = "active" /\ msg'[t].tried = msg[t].tried
      /\ \A u \in Task \ {t} : msg'[u] = msg[u]
  BY <1>2, StateTyped
<1>4. [at |-> "loading", ok |-> FALSE, rec |-> FALSE] \in Run
  BY DEF Run, Phase
<1>5. /\ run' \in [Task -> Run] /\ run'[t].at = "loading" /\ \A u \in Task \ {t} : run'[u] = run[u]
  BY <1>1, <1>2, <1>4 DEF TypeOK
<1>6. TypeOK' /\ Only(t)
  BY <1>1, <1>2, <1>3, <1>5 DEF TypeOK, Only
<1>7. OK(t)'
  BY <1>1, <1>2, <1>3, <1>5 DEF OK, PlaceOK, RecordOK, LogOK, SettledOK, Settled
<1> QED BY <1>6, <1>7, OneTask

LEMMA LoadStep == ASSUME IInv, NEW t \in Task, Load(t) PROVE IInv'
<1>1. TypeOK /\ OK(t) /\ run[t] \in Run
  BY Typed
<1>2. run[t].at = "loading" /\ UNCHANGED <<msg, sender, buf, stored, astray, faults>>
  BY DEF Load
<1>3. /\ row' \in [Task -> Row] /\ \A u \in Task \ {t} : row'[u] = row[u]
  <2>1. CASE Put(t, "running", 0)
    BY <2>1, Counts, PutTyped DEF Status
  <2>2. CASE row' = row
    BY <1>1, <2>2 DEF TypeOK
  <2> QED BY <2>1, <2>2 DEF Load
<1> DEFINE q == [run[t] EXCEPT !.at = "loaded", !.rec = TRUE]
<1>4. q \in Run /\ q.at = "loaded" /\ q.rec = TRUE
  BY <1>1 DEF Run, Phase
<1>5. run' = [run EXCEPT ![t] = q]
  BY <1>1 DEF Load, TypeOK
<1> HIDE DEF q
<1>6. /\ run' \in [Task -> Run] /\ run'[t] = q /\ \A u \in Task \ {t} : run'[u] = run[u]
  BY <1>1, <1>4, <1>5 DEF TypeOK
<1>7. TypeOK' /\ Only(t)
  BY <1>1, <1>2, <1>3, <1>6 DEF TypeOK, Only
<1>8. OK(t)'
  BY <1>1, <1>2, <1>4, <1>6 DEF OK, PlaceOK, RecordOK, LogOK, SettledOK, Settled
<1> QED BY <1>7, <1>8, OneTask

LEMMA LoadFailsStep == ASSUME IInv, NEW t \in Task, LoadFails(t) PROVE IInv'
<1>1. TypeOK /\ OK(t)
  BY Typed
<1>2. /\ run[t].at = "loading" /\ UNCHANGED <<row, msg, sender, buf, stored>>
      /\ astray' = astray \cup {t} /\ faults' \in 0 .. MaxFaults
  BY FaultTyped DEF LoadFails
<1>3. /\ run' \in [Task -> Run] /\ run'[t].at = "loaded"
      /\ \A u \in Task \ {t} : run'[u] = run[u]
  BY GotoTyped, Phases DEF LoadFails
<1>4. TypeOK' /\ Only(t)
  BY <1>1, <1>2, <1>3 DEF TypeOK, Only
<1>5. OK(t)'
  BY <1>1, <1>2, <1>3 DEF OK, PlaceOK, RecordOK, LogOK, SettledOK, Settled
<1> QED BY <1>4, <1>5, OneTask

LEMMA BeginStep == ASSUME IInv, NEW t \in Task, Begin(t) PROVE IInv'
<1>1. TypeOK /\ OK(t)
  BY Typed
<1>2. run[t].at = "loaded" /\ UNCHANGED <<msg, sender, stored, astray>> /\ faults' \in 0 .. MaxFaults
  BY <1>1, FaultTyped DEF Begin, TypeOK
<1>3. /\ row' \in [Task -> Row] /\ \A u \in Task \ {t} : row'[u] = row[u]
  <2>1. CASE Put(t, "running", msg[t].tried)
    BY <2>1, Counts, PutTyped DEF Status
  <2>2. CASE row' = row
    BY <1>1, <2>2 DEF TypeOK
  <2> QED BY <2>1, <2>2 DEF Begin
<1>4. /\ buf' \in [Task -> SUBSET Line] /\ buf'[t] = buf[t] \cup {Begun(msg[t].tried)}
      /\ \A u \in Task \ {t} : buf'[u] = buf[u]
  BY Lines, LogTyped DEF Begin
<1>5. /\ run' \in [Task -> Run] /\ run'[t].at = "begun" /\ run'[t].rec = run[t].rec
      /\ \A u \in Task \ {t} : run'[u] = run[u]
  BY GotoTyped, Phases DEF Begin
<1>6. TypeOK' /\ Only(t)
  BY <1>1, <1>2, <1>3, <1>4, <1>5 DEF TypeOK, Only
<1>7. OK(t)'
  BY <1>1, <1>2, <1>5 DEF OK, PlaceOK, RecordOK, LogOK, SettledOK, Settled
<1> QED BY <1>6, <1>7, OneTask

LEMMA ExecuteStep == ASSUME IInv, NEW t \in Task, Execute(t) PROVE IInv'
<1>1. TypeOK /\ OK(t) /\ run[t] \in Run
  BY Typed
<1>2. run[t].at = "begun" /\ UNCHANGED <<row, msg, sender, stored, astray, faults>>
  BY DEF Execute
<1>3. PICK ok \in BOOLEAN : run' = [run EXCEPT ![t].at = "ended", ![t].ok = ok]
  BY DEF Execute
<1> DEFINE q == [run[t] EXCEPT !.at = "ended", !.ok = ok]
<1>4. q \in Run /\ q.at = "ended" /\ q.rec = run[t].rec
  BY <1>1 DEF Run, Phase
<1>5. run' = [run EXCEPT ![t] = q]
  BY <1>1, <1>3 DEF TypeOK
<1> HIDE DEF q
<1>6. /\ run' \in [Task -> Run] /\ run'[t] = q /\ \A u \in Task \ {t} : run'[u] = run[u]
  BY <1>1, <1>4, <1>5 DEF TypeOK
<1>7. /\ buf' \in [Task -> SUBSET Line] /\ (run[t].rec => Ended(msg[t].tried) \in buf'[t])
      /\ \A u \in Task \ {t} : buf'[u] = buf[u]
  <2>1. CASE run[t].rec
    BY <2>1, Lines, LogTyped DEF Execute
  <2>2. CASE ~run[t].rec
    BY <1>1, <2>2 DEF Execute, TypeOK
  <2> QED BY <2>1, <2>2
<1>8. TypeOK' /\ Only(t)
  BY <1>1, <1>2, <1>6, <1>7 DEF TypeOK, Only
<1>9. OK(t)'
  BY <1>1, <1>2, <1>4, <1>6, <1>7 DEF OK, PlaceOK, RecordOK, LogOK, SettledOK, Settled
<1> QED BY <1>8, <1>9, OneTask

LEMMA RecordStep == ASSUME IInv, NEW t \in Task, Record(t) PROVE IInv'
<1>1. TypeOK /\ OK(t) /\ run[t].ok \in BOOLEAN
  BY Typed
<1>2. /\ run[t].at = "ended" /\ run[t].rec /\ UNCHANGED <<msg, sender, buf, stored, faults>>
      /\ astray' = astray \ {t}
  BY DEF Record
<1>3. /\ row' \in [Task -> Row] /\ row'[t] = Outcome(run[t].ok, msg[t].tried)
      /\ \A u \in Task \ {t} : row'[u] = row[u]
  <2> DEFINE st == IF run[t].ok THEN "succeeded" ELSE "failed"
  <2>1. st \in Status /\ Put(t, st, msg[t].tried)
    BY DEF Record, Status
  <2>2. Outcome(run[t].ok, msg[t].tried) = [status |-> st, count |-> msg[t].tried]
    BY DEF Outcome
  <2> HIDE DEF st
  <2> QED BY <2>1, <2>2, Counts, PutTyped
<1>4. /\ run' \in [Task -> Run] /\ run'[t].at = "recorded" /\ run'[t].rec = run[t].rec
      /\ run'[t].ok = run[t].ok /\ \A u \in Task \ {t} : run'[u] = run[u]
  BY GotoTyped, Phases DEF Record
<1>5. TypeOK' /\ Only(t)
  BY <1>1, <1>2, <1>3, <1>4 DEF TypeOK, Only
<1>6. PlaceOK(t)' /\ LogOK(t)' /\ SettledOK(t)'
  BY <1>1, <1>2, <1>4 DEF OK, PlaceOK, LogOK, SettledOK, Settled
<1>7. RecordOK(t)'
  BY <1>1, <1>2, <1>3, <1>4 DEF RecordOK
<1> QED BY <1>5, <1>6, <1>7, OneTask DEF OK

LEMMA RecordFailsStep == ASSUME IInv, NEW t \in Task, RecordFails(t) PROVE IInv'
<1>1. TypeOK /\ OK(t)
  BY Typed
<1>2. /\ run[t].at = "ended" /\ run[t].rec /\ UNCHANGED <<row, msg, sender, buf, stored>>
      /\ astray' = astray \cup {t} /\ faults' \in 0 .. MaxFaults
  BY FaultTyped DEF RecordFails
<1>3. /\ run' \in [Task -> Run] /\ run'[t].at = "recorded" /\ run'[t].rec = run[t].rec
      /\ \A u \in Task \ {t} : run'[u] = run[u]
  BY GotoTyped, Phases DEF RecordFails
<1>4. TypeOK' /\ Only(t)
  BY <1>1, <1>2, <1>3 DEF TypeOK, Only
<1>5. OK(t)'
  BY <1>1, <1>2, <1>3 DEF OK, PlaceOK, RecordOK, LogOK, SettledOK, Settled
<1> QED BY <1>4, <1>5, OneTask

LEMMA NothingToRecordStep == ASSUME IInv, NEW t \in Task, NothingToRecord(t) PROVE IInv'
<1>1. TypeOK /\ OK(t)
  BY Typed
<1>2. /\ run[t].at = "ended" /\ ~run[t].rec /\ UNCHANGED <<row, msg, sender, buf, stored, astray, faults>>
  BY DEF NothingToRecord
<1>3. /\ run' \in [Task -> Run] /\ run'[t].at = "returned" /\ run'[t].rec = run[t].rec
      /\ \A u \in Task \ {t} : run'[u] = run[u]
  BY GotoTyped, Phases DEF NothingToRecord
<1>4. TypeOK' /\ Only(t)
  BY <1>1, <1>2, <1>3 DEF TypeOK, Only
<1>5. OK(t)'
  BY <1>1, <1>2, <1>3 DEF OK, PlaceOK, RecordOK, LogOK, SettledOK, Settled
<1> QED BY <1>4, <1>5, OneTask

LEMMA FlushStep == ASSUME IInv, NEW t \in Task, Flush(t) PROVE IInv'
<1>1. TypeOK /\ OK(t)
  BY Typed
<1>2. run[t].at = "recorded" /\ UNCHANGED <<row, msg, sender, buf, astray, faults>>
  BY DEF Flush
<1>3. CASE stored' = [stored EXCEPT ![t] = buf[t]] /\ Goto(t, "copied")
  <2>1. /\ run' \in [Task -> Run] /\ run'[t].at = "copied" /\ run'[t].rec = run[t].rec
        /\ run'[t].ok = run[t].ok /\ \A u \in Task \ {t} : run'[u] = run[u]
    BY <1>3, GotoTyped, Phases
  <2>2. /\ stored' \in [Task -> SUBSET Line] /\ stored'[t] = buf[t]
        /\ \A u \in Task \ {t} : stored'[u] = stored[u]
    BY <1>1, <1>3 DEF TypeOK
  <2>3. TypeOK' /\ Only(t)
    BY <1>1, <1>2, <2>1, <2>2 DEF TypeOK, Only
  <2>4. OK(t)'
    BY <1>1, <1>2, <2>1, <2>2 DEF OK, PlaceOK, RecordOK, LogOK, SettledOK, Settled
  <2> QED BY <2>3, <2>4, OneTask
<1>4. CASE stored' = stored /\ Goto(t, "returned")
  <2>1. /\ run' \in [Task -> Run] /\ run'[t].at = "returned" /\ run'[t].rec = run[t].rec
        /\ run'[t].ok = run[t].ok /\ \A u \in Task \ {t} : run'[u] = run[u]
    BY <1>4, GotoTyped, Phases
  <2>3. TypeOK' /\ Only(t)
    BY <1>1, <1>2, <1>4, <2>1 DEF TypeOK, Only
  <2>4. OK(t)'
    BY <1>1, <1>2, <1>4, <2>1 DEF OK, PlaceOK, RecordOK, LogOK, SettledOK, Settled
  <2> QED BY <2>3, <2>4, OneTask
<1> QED BY <1>3, <1>4 DEF Flush

LEMMA ClearBufferStep == ASSUME IInv, NEW t \in Task, ClearBuffer(t) PROVE IInv'
<1>1. TypeOK /\ OK(t)
  BY Typed
<1>2. /\ run[t].at = "copied" /\ UNCHANGED <<row, msg, sender, stored, astray, faults>>
      /\ buf' = [buf EXCEPT ![t] = {}]
  BY DEF ClearBuffer
<1>3. /\ run' \in [Task -> Run] /\ run'[t].at = "returned" /\ run'[t].rec = run[t].rec
      /\ run'[t].ok = run[t].ok /\ \A u \in Task \ {t} : run'[u] = run[u]
  BY GotoTyped, Phases DEF ClearBuffer
<1>4. /\ buf' \in [Task -> SUBSET Line] /\ \A u \in Task \ {t} : buf'[u] = buf[u]
  BY <1>1, <1>2 DEF TypeOK
<1>5. TypeOK' /\ Only(t)
  BY <1>1, <1>2, <1>3, <1>4 DEF TypeOK, Only
<1>6. OK(t)'
  BY <1>1, <1>2, <1>3, <1>4 DEF OK, PlaceOK, RecordOK, LogOK, SettledOK, Settled
<1> QED BY <1>5, <1>6, OneTask

\* Asynq answers: the message is queued once more, or archived after the last attempt.
LEMMA AgainTyped ==
  ASSUME IInv, NEW t \in Task, Again(t)
  PROVE  /\ msg' \in [Task -> Msg] /\ \A u \in Task \ {t} : msg'[u] = msg[u]
         /\ \/ msg'[t].state = "queued"
            \/ msg'[t].state = "archived" /\ msg'[t].tried = msg[t].tried
<1> DEFINE m == msg[t]
           q == IF m.tried < MaxRetry THEN [state |-> "queued", tried |-> m.tried + 1]
                ELSE [state |-> "archived", tried |-> m.tried]
<1>1. m \in Msg /\ m.tried \in 0 .. MaxRetry /\ MaxRetry \in Nat
  BY Typed DEF Attempt
<1>2. m.tried < MaxRetry => m.tried + 1 \in Attempt
  BY <1>1 DEF Attempt
<1>3. q \in Msg /\ (q.state = "queued" \/ (q.state = "archived" /\ q.tried = m.tried))
  BY <1>1, <1>2 DEF Msg, Attempt
<1>4. msg' = [msg EXCEPT ![t] = q]
  BY DEF Again
<1> HIDE DEF q
<1> QED BY <1>3, <1>4, MsgTyped

LEMMA ReturnStep == ASSUME IInv, NEW t \in Task, Return(t) PROVE IInv'
<1>1. TypeOK /\ OK(t) /\ run[t].ok \in BOOLEAN
  BY Typed
<1>2. /\ run[t].at = "returned" /\ run' = [run EXCEPT ![t] = NoRun]
      /\ UNCHANGED <<row, sender, buf, stored, astray, faults>>
  BY DEF Return
<1>3. /\ msg' \in [Task -> Msg] /\ \A u \in Task \ {t} : msg'[u] = msg[u]
      /\ \/ run[t].ok /\ msg'[t].state = "done" /\ msg'[t].tried = msg[t].tried
         \/ msg'[t].state = "queued"
         \/ ~run[t].ok /\ msg'[t].state = "archived" /\ msg'[t].tried = msg[t].tried
  BY StateTyped, AgainTyped DEF Return
<1>4. NoRun \in Run /\ NoRun.at = "idle"
  BY DEF NoRun, Run, Phase
<1>5. run' \in [Task -> Run] /\ run'[t] = NoRun /\ \A u \in Task \ {t} : run'[u] = run[u]
  BY <1>1, <1>2, <1>4 DEF TypeOK
<1>6. TypeOK' /\ Only(t)
  BY <1>1, <1>2, <1>3, <1>5 DEF TypeOK, Only
<1>7. PlaceOK(t)' /\ RecordOK(t)' /\ LogOK(t)'
  BY <1>1, <1>2, <1>3, <1>4, <1>5 DEF OK, PlaceOK, RecordOK, LogOK
<1>8. SettledOK(t)'
  <2> SUFFICES ASSUME Settled(t)', t \notin astray, row[t] # NoRow
               PROVE  /\ row[t] = Outcome(msg'[t].state = "done", msg'[t].tried)
                      /\ Ended(msg'[t].tried) \in buf[t] \cup stored[t]
    BY <1>2 DEF SettledOK
  <2>1. msg'[t].tried = msg[t].tried /\ (run[t].ok <=> msg'[t].state = "done")
    BY <1>3 DEF Settled
  <2>2. run[t].rec /\ row[t] = Outcome(run[t].ok, msg[t].tried)
    BY <1>1, <1>2 DEF OK, RecordOK
  <2>3. Ended(msg[t].tried) \in buf[t] \cup stored[t]
    BY <1>1, <1>2, <2>2 DEF OK, LogOK
  <2>4. Outcome(run[t].ok, msg[t].tried) = Outcome(msg'[t].state = "done", msg'[t].tried)
    BY <2>1 DEF Outcome
  <2> QED BY <2>1, <2>2, <2>3, <2>4
<1> QED BY <1>6, <1>7, <1>8, OneTask DEF OK

LEMMA CutStep == ASSUME IInv, NEW t \in Task, Cut(t) PROVE IInv'
<1>1. TypeOK /\ OK(t)
  BY Typed
<1>2. /\ run[t].at # "idle" /\ run' = [run EXCEPT ![t] = NoRun] /\ astray' = astray \cup {t}
      /\ UNCHANGED <<row, sender, buf, stored>> /\ faults' \in 0 .. MaxFaults
  BY FaultTyped DEF Cut
<1>3. /\ msg' \in [Task -> Msg] /\ \A u \in Task \ {t} : msg'[u] = msg[u]
      /\ msg'[t].state \in {"queued", "archived"}
  BY StateTyped, AgainTyped DEF Cut
<1>4. NoRun \in Run /\ NoRun.at = "idle"
  BY DEF NoRun, Run, Phase
<1>5. run' \in [Task -> Run] /\ run'[t] = NoRun /\ \A u \in Task \ {t} : run'[u] = run[u]
  BY <1>1, <1>2, <1>4 DEF TypeOK
<1>6. TypeOK' /\ Only(t)
  BY <1>1, <1>2, <1>3, <1>5 DEF TypeOK, Only
<1>7. OK(t)'
  BY <1>1, <1>2, <1>3, <1>4, <1>5 DEF OK, PlaceOK, RecordOK, LogOK, SettledOK
<1> QED BY <1>6, <1>7, OneTask

LEMMA CleanupStep == ASSUME IInv, NEW t \in Task, Cleanup(t) PROVE IInv'
<1>1. TypeOK /\ OK(t)
  BY Typed
<1>2. row' = [row EXCEPT ![t] = NoRow] /\ UNCHANGED <<msg, sender, run, buf, stored, astray, faults>>
  BY DEF Cleanup
<1>3. NoRow \in Row
  BY MaxRetryIsNat DEF NoRow, Row, Status
<1>4. row' \in [Task -> Row] /\ row'[t] = NoRow /\ \A u \in Task \ {t} : row'[u] = row[u]
  BY <1>1, <1>2, <1>3 DEF TypeOK
<1>5. TypeOK' /\ Only(t)
  BY <1>1, <1>2, <1>4 DEF TypeOK, Only
<1>6. OK(t)'
  BY <1>1, <1>2, <1>4 DEF OK, PlaceOK, RecordOK, LogOK, SettledOK
<1> QED BY <1>5, <1>6, OneTask

-----------------------------------------------------------------------------
LEMMA InitHolds == ASSUME Init PROVE IInv
<1>1. NoRow \in Row /\ NoRun \in Run /\ NoRun.at = "idle" /\ NoRun.rec = FALSE
  BY MaxRetryIsNat DEF NoRow, Row, Status, NoRun, Run, Phase
<1>2. [state |-> "none", tried |-> 0] \in Msg
  BY MaxRetryIsNat DEF Msg, Attempt
<1>3. TypeOK
  BY <1>1, <1>2, MaxFaultsIsNat DEF Init, TypeOK
<1>4. \A t \in Task : OK(t)
  BY <1>1 DEF Init, OK, PlaceOK, RecordOK, LogOK, SettledOK, Settled
<1> QED BY <1>3, <1>4 DEF IInv

LEMMA NextKeeps == ASSUME IInv, [Next]_vars PROVE IInv'
<1>1. CASE UNCHANGED vars
  <2>1. TypeOK'
    BY <1>1 DEF IInv, TypeOK, vars
  <2>2. ASSUME NEW t \in Task PROVE OK(t)'
    BY <1>1 DEF IInv, OK, PlaceOK, RecordOK, LogOK, SettledOK, Settled, vars
  <2> QED BY <2>1, <2>2 DEF IInv
<1>2. CASE \E r \in Root : DispatchTask(r) \/ Fire(r) \/ RetryTask(r)
  BY <1>2, DispatchTaskStep, FireStep, RetryTaskStep
<1>3. ASSUME NEW t \in Task, Dispatching(t) \/ Deliver(t) \/ Cut(t) \/ Cleanup(t)
      PROVE  IInv'
  BY <1>3, DispatchingStep, DeliverStep, CutStep, CleanupStep
<1>4. ASSUME NEW t \in Task, Processing(t) PROVE IInv'
  BY <1>4, LoadStep, LoadFailsStep, BeginStep, ExecuteStep, RecordStep, RecordFailsStep,
     NothingToRecordStep, FlushStep, ClearBufferStep, ReturnStep DEF Processing
<1> QED BY <1>1, <1>2, <1>3, <1>4 DEF Next

\* The invariant behind both: what a delivery has recorded and logged so far, phase by
\* phase, and who may still write the row (src/internal/task/executor.go).
THEOREM TaskInvariant == Spec => []IInv
<1>1. Init => IInv
  BY InitHolds
<1>2. IInv /\ [Next]_vars => IInv'
  BY NextKeeps
<1> QED BY <1>1, <1>2, PTL DEF Spec

\* Rows, messages, deliveries and logs keep their types.
THEOREM TaskTypeCorrect == Spec => []TypeOK
<1>1. IInv => TypeOK
  BY DEF IInv
<1> QED BY <1>1, TaskInvariant, PTL

\* Where Asynq is through with a task its row tells the outcome and the number of
\* attempts, for any number of attempts, retries by hand and faults, unless the
\* attempt's own record is known to have failed.
THEOREM RecordsAgree == Spec => []RecordAgrees
<1>1. IInv => RecordAgrees
  BY DEF IInv, OK, SettledOK, RecordAgrees, Outcome
<1> QED BY <1>1, TaskInvariant, PTL

\* The last attempt's outcome is never lost between the buffer and the column.
THEOREM OutcomesAreKept == Spec => []OutcomeIsKept
<1>1. IInv => OutcomeIsKept
  BY DEF IInv, OK, SettledOK, OutcomeIsKept
<1> QED BY <1>1, TaskInvariant, PTL
-----------------------------------------------------------------------------
(* Push notifications *)

PushEdit ==
  [op : {"idle", "create", "save", "toggle", "delete", "add", "on", "off", "drop"},
   row : P!Row \cup {P!NoEvent}, chan : Channel \cup {"none"}, gone : BOOLEAN]

PushNote ==
  [at : {"none", "queued", "again", "taken", "refused", "done"}, type : P!Type,
   tries : 0 .. MaxSends, sent : 0 .. 2, past : SUBSET {"success", "failed"},
   unheard : BOOLEAN, long : BOOLEAN]

PushTyped ==
  /\ event \in P!Row \cup {P!NoEvent}
  /\ channel \in [Channel -> {"none", "off", "on"}]
  /\ edit \in [Admin -> PushEdit]
  /\ left \in SUBSET Channel
  /\ note \in [Channel -> PushNote]
  /\ mixed \in BOOLEAN

\* A row about to be written is valid; one about to be toggled lists the channels it
\* listed when it was looked at, unless it is gone or a save came between.
PushEditOK(a) ==
  /\ edit[a].op \in {"create", "save"} => P!Valid(edit[a].row) /\ edit[a].row.there
  /\ edit[a].op = "toggle" =>
       /\ edit[a].row.enabled \/ edit[a].row.channels # {}
       /\ edit[a].gone \/ (event.there /\ (mixed \/ event.channels = edit[a].row.channels))

\* What was sent more than once had an answer lost, and what was not settled yet
\* has not been sent.
PushNoteOK(n) ==
  /\ n.at = "taken" \/ "success" \in n.past => n.sent > 0 \/ n.long
  /\ n.sent > 1 => n.unheard
  /\ n.at \in {"queued", "again", "refused"} /\ n.sent > 0 => n.unheard

PushInv ==
  /\ PushTyped /\ P!EnabledHasChannels
  /\ \A a \in Admin : PushEditOK(a)
  /\ \A c \in Channel : PushNoteOK(note[c])

LEMMA PushFacts ==
  /\ P!Idle \in PushEdit /\ P!Idle.op = "idle"
  /\ P!NoEvent.there = FALSE /\ P!NoEvent.enabled = FALSE
  /\ \A r \in P!Row \cup {P!NoEvent} :
       r.there \in BOOLEAN /\ r.enabled \in BOOLEAN /\ r.channels \in SUBSET Channel
<1>1. P!Idle \in PushEdit /\ P!Idle.op = "idle"
  BY DEF P!Idle, PushEdit
<1>2. ASSUME NEW r \in P!Row \cup {P!NoEvent}
      PROVE  r.there \in BOOLEAN /\ r.enabled \in BOOLEAN /\ r.channels \in SUBSET Channel
  <2>1. CASE r \in P!Row
    BY <2>1 DEF P!Row
  <2>2. CASE r = P!NoEvent
    BY <2>2 DEF P!NoEvent
  <2> QED BY <2>1, <2>2
<1>3. P!NoEvent.there = FALSE /\ P!NoEvent.enabled = FALSE
  BY DEF P!NoEvent
<1> QED BY <1>1, <1>2, <1>3

\* A read changes nothing but the request of its own.
LEMMA PushRead ==
  ASSUME PushInv, NEW a \in Admin, NEW e \in PushEdit, P!Read(a, e),
         e.op \in {"create", "save"} => P!Valid(e.row) /\ e.row.there,
         e.op = "toggle" => /\ event.there /\ e.row.channels = event.channels
                            /\ e.row.enabled \/ e.row.channels # {}
  PROVE  PushInv'
<1>1. edit' = [edit EXCEPT ![a] = e] /\ UNCHANGED <<event, channel, left, note, mixed>>
  BY DEF P!Read
<1>2. edit' \in [Admin -> PushEdit] /\ edit'[a] = e /\ \A b \in Admin : b # a => edit'[b] = edit[b]
  BY <1>1 DEF PushInv, PushTyped
<1>3. PushTyped' /\ P!EnabledHasChannels'
  BY <1>1, <1>2 DEF PushInv, PushTyped, P!EnabledHasChannels
<1>4. \A b \in Admin : PushEditOK(b)'
  BY <1>1, <1>2 DEF PushInv, PushEditOK, P!Valid
<1> QED BY <1>1, <1>3, <1>4 DEF PushInv, PushNoteOK

\* A request ends; others may find their row gone.
PushEnded(a) ==
  /\ edit' \in [Admin -> PushEdit] /\ edit'[a].op = "idle"
  /\ \A b \in Admin : b # a =>
       /\ edit'[b].op = edit[b].op /\ edit'[b].row = edit[b].row
       /\ edit[b].gone => edit'[b].gone

LEMMA PushEndNobody ==
  ASSUME PushInv, NEW a \in Admin, P!End(a, P!Nobody)
  PROVE  PushEnded(a)
<1>1. edit' = [b \in Admin |-> IF b = a THEN P!Idle ELSE edit[b]]
  BY DEF P!End, P!Nobody
<1> QED BY <1>1, PushFacts DEF PushInv, PushTyped, PushEnded

\* A channel changes, or goes: the event and what is kept of it stay.
LEMMA PushOnChannel ==
  ASSUME PushInv, NEW a \in Admin, PushEnded(a), UNCHANGED <<event, left, note, mixed>>,
         channel' \in [Channel -> {"none", "off", "on"}]
  PROVE  PushInv'
<1>1. PushTyped' /\ P!EnabledHasChannels'
  BY DEF PushInv, PushTyped, P!EnabledHasChannels, PushEnded
<1>2. \A b \in Admin : PushEditOK(b)'
  BY DEF PushInv, PushEditOK, PushEnded, P!Valid
<1> QED BY <1>1, <1>2 DEF PushInv, PushNoteOK

\* The event is written and the request ends.
LEMMA PushOnEvent ==
  ASSUME PushInv, NEW a \in Admin, PushEnded(a), UNCHANGED <<channel, left, note>>,
         event' \in P!Row \cup {P!NoEvent}, P!EnabledHasChannels', mixed' \in BOOLEAN,
         mixed => mixed',
         \A b \in Admin \ {a} : edit[b].op = "toggle" =>
           edit'[b].gone \/ (event'.there /\ (mixed' \/ event'.channels = edit[b].row.channels))
  PROVE  PushInv'
<1>1. PushTyped'
  BY DEF PushInv, PushTyped, PushEnded
<1>2. ASSUME NEW b \in Admin PROVE PushEditOK(b)'
  <2>1. CASE b = a
    BY <2>1 DEF PushEnded, PushEditOK
  <2>2. CASE b # a
    BY <2>2 DEF PushInv, PushEnded, PushEditOK, P!Valid
  <2> QED BY <2>1, <2>2
<1> QED BY <1>1, <1>2 DEF PushInv, PushNoteOK

\* Requests of administrators.
LEMMA PushConfigure == ASSUME PushInv, P!Configure PROVE PushInv'
<1> USE PushFacts
<1>0. /\ PushTyped /\ event \in P!Row \cup {P!NoEvent}
      /\ \A b \in Admin : PushEditOK(b) /\ edit[b] \in PushEdit
      /\ \A b \in Admin : edit[b].row \in P!Row \cup {P!NoEvent} /\ edit[b].gone \in BOOLEAN
  BY DEF PushInv, PushTyped, PushEdit
<1>1. ASSUME NEW a \in Admin, P!CountPushEvents(a) PROVE PushInv'
  <2>1. PICK made \in P!Row : P!Valid(made) /\ P!Read(a, [P!Idle EXCEPT !.op = "create", !.row = made])
    BY <1>1 DEF P!CountPushEvents
  <2> DEFINE e == [P!Idle EXCEPT !.op = "create", !.row = made]
  <2>2. e \in PushEdit /\ e.op = "create" /\ e.row = made /\ made.there
    BY DEF P!Idle, PushEdit, P!Row
  <2> HIDE DEF e
  <2> QED BY <2>1, <2>2, PushRead DEF e
<1>2. ASSUME NEW a \in Admin, P!SyncBuiltInEvents(a) PROVE PushInv'
  <2> DEFINE made == [P!NoEvent EXCEPT !.there = TRUE]
  <2> DEFINE e == [P!Idle EXCEPT !.op = "create", !.row = made]
  <2>1. made \in P!Row /\ made.there /\ ~made.enabled
    BY DEF P!NoEvent, P!Row
  <2>2. e \in PushEdit /\ e.op = "create" /\ e.row = made
    BY <2>1 DEF P!Idle, PushEdit
  <2>3. P!Read(a, e) /\ P!Valid(made)
    BY <1>2, <2>1 DEF P!SyncBuiltInEvents, P!Valid
  <2> HIDE DEF e, made
  <2> QED BY <2>1, <2>2, <2>3, PushRead
<1>3. ASSUME NEW a \in Admin, P!CreatePushEvent(a) PROVE PushInv'
  <2>1. /\ event' = IF event.there THEN event ELSE edit[a].row
        /\ edit[a].op = "create" /\ P!End(a, P!Nobody) /\ UNCHANGED <<channel, left, note, mixed>>
    BY <1>3 DEF P!CreatePushEvent
  <2>2. PushEnded(a)
    BY <2>1, PushEndNobody
  <2>3. event' \in P!Row \cup {P!NoEvent} /\ P!EnabledHasChannels'
    BY <1>0, <2>1 DEF PushInv, PushEditOK, P!Valid, P!EnabledHasChannels
  <2>4. \A b \in Admin \ {a} : edit[b].op = "toggle" =>
          edit'[b].gone \/ (event'.there /\ (mixed \/ event'.channels = edit[b].row.channels))
    BY <1>0, <2>1, <2>2 DEF PushEditOK, PushEnded
  <2> QED BY <2>1, <2>2, <2>3, <2>4, <1>0, PushOnEvent DEF PushTyped
<1>4. ASSUME NEW a \in Admin, P!ReadForUpdate(a) PROVE PushInv'
  <2>1. PICK made \in P!Row : P!Valid(made) /\ P!Read(a, [P!Idle EXCEPT !.op = "save", !.row = made])
    BY <1>4 DEF P!ReadForUpdate
  <2> DEFINE e == [P!Idle EXCEPT !.op = "save", !.row = made]
  <2>2. e \in PushEdit /\ e.op = "save" /\ e.row = made /\ made.there
    BY DEF P!Idle, PushEdit, P!Row
  <2> HIDE DEF e
  <2> QED BY <2>1, <2>2, PushRead DEF e
<1>5. ASSUME NEW a \in Admin, P!SavePushEvent(a) PROVE PushInv'
  <2>1. /\ event' = IF edit[a].gone /\ event.there THEN event ELSE edit[a].row
        /\ edit[a].op = "save" /\ P!End(a, P!Nobody) /\ UNCHANGED <<channel, left, note>>
        /\ mixed' = (mixed \/ P!Overlaps(a, "toggle"))
    BY <1>5 DEF P!SavePushEvent
  <2>2. PushEnded(a)
    BY <2>1, PushEndNobody
  <2>3. event' \in P!Row \cup {P!NoEvent} /\ P!EnabledHasChannels' /\ mixed' \in BOOLEAN
    <3>1. P!EnabledHasChannels /\ mixed \in BOOLEAN /\ P!Valid(edit[a].row)
      BY <1>0, <2>1 DEF PushInv, PushTyped, PushEditOK
    <3>2. P!Overlaps(a, "toggle") \in BOOLEAN
      BY DEF P!Overlaps
    <3> QED BY <1>0, <2>1, <3>1, <3>2 DEF P!Valid, P!EnabledHasChannels
  <2>4. ASSUME NEW b \in Admin \ {a}, edit[b].op = "toggle"
        PROVE  edit'[b].gone \/ (event'.there /\ mixed')
    <3>1. mixed'
      BY <2>1, <2>4 DEF P!Overlaps
    <3> QED BY <1>0, <2>1, <2>2, <2>4, <3>1 DEF PushEditOK, PushEnded
  <2>5. mixed => mixed'
    BY <2>1
  <2> QED BY <2>1, <2>2, <2>3, <2>4, <2>5, PushOnEvent
<1>6. ASSUME NEW a \in Admin, P!ReadForToggle(a) PROVE PushInv'
  <2> DEFINE e == [P!Idle EXCEPT !.op = "toggle", !.row = event]
  <2>1. e \in PushEdit /\ e.op = "toggle" /\ e.row = event
    BY <1>0 DEF P!Idle, PushEdit
  <2>2. P!Read(a, e) /\ event.there /\ (event.enabled \/ event.channels # {})
    BY <1>6 DEF P!ReadForToggle
  <2> HIDE DEF e
  <2> QED BY <2>1, <2>2, PushRead
<1>7. ASSUME NEW a \in Admin, P!UpdatePushEventEnabled(a) PROVE PushInv'
  <2>1. /\ event' = IF edit[a].gone THEN event ELSE [event EXCEPT !.enabled = ~edit[a].row.enabled]
        /\ edit[a].op = "toggle" /\ P!End(a, P!Nobody) /\ UNCHANGED <<channel, left, note>>
        /\ mixed' = (mixed \/ P!Overlaps(a, "save"))
    BY <1>7 DEF P!UpdatePushEventEnabled
  <2>2. PushEnded(a)
    BY <2>1, PushEndNobody
  <2>3. mixed' \in BOOLEAN /\ (mixed => mixed')
    <3>1. P!Overlaps(a, "save") \in BOOLEAN
      BY DEF P!Overlaps
    <3> QED BY <1>0, <2>1, <3>1 DEF PushTyped
  <2>4. CASE edit[a].gone
    <3>1. P!EnabledHasChannels'
      BY <2>1, <2>3, <2>4 DEF PushInv, P!EnabledHasChannels
    <3> QED BY <1>0, <2>1, <2>2, <2>3, <2>4, <3>1, PushOnEvent DEF PushEditOK, PushEnded
  <2>5. CASE ~edit[a].gone
    <3>1. event' = [event EXCEPT !.enabled = ~edit[a].row.enabled]
      BY <2>1, <2>5
    <3> DEFINE on == edit[a].row.enabled
    <3>2. on \in BOOLEAN /\ event \in P!Row
          /\ (on \/ mixed \/ event.channels # {})
      BY <1>0, <2>1, <2>5 DEF PushEditOK
    <3> HIDE DEF on
    <3>3. event' \in P!Row /\ event'.channels = event.channels /\ event'.enabled = ~on /\ event'.there
      BY <3>1, <3>2 DEF P!Row, on
    <3>4. P!EnabledHasChannels'
      BY <2>3, <3>2, <3>3 DEF P!EnabledHasChannels
    <3>5. \A b \in Admin \ {a} : edit[b].op = "toggle" =>
            edit'[b].gone \/ (event'.there /\ (mixed' \/ event'.channels = edit[b].row.channels))
      BY <1>0, <2>2, <2>3, <3>3 DEF PushEditOK, PushEnded
    <3> QED BY <2>1, <2>2, <2>3, <3>3, <3>4, <3>5, PushOnEvent
  <2> QED BY <2>4, <2>5
<1>8. ASSUME NEW a \in Admin, P!ReadForDelete(a) PROVE PushInv'
  <2> DEFINE e == [P!Idle EXCEPT !.op = "delete"]
  <2>1. e \in PushEdit /\ e.op = "delete" /\ P!Read(a, e)
    BY <1>8 DEF P!ReadForDelete, P!Idle, PushEdit
  <2> HIDE DEF e
  <2> QED BY <2>1, PushRead
<1>9. ASSUME NEW a \in Admin, P!DeletePushEvent(a) PROVE PushInv'
  <2>1. /\ event' = IF edit[a].gone THEN event ELSE P!NoEvent
        /\ UNCHANGED <<channel, left, note, mixed>>
        /\ edit' = [b \in Admin |-> IF b = a THEN P!Idle
                      ELSE IF ~edit[a].gone /\ edit[b].op \in {"save", "toggle", "delete"}
                           THEN [edit[b] EXCEPT !.gone = TRUE] ELSE edit[b]]
    BY <1>9 DEF P!DeletePushEvent, P!End
  <2>2. \A b \in Admin : /\ [edit[b] EXCEPT !.gone = TRUE] \in PushEdit
                         /\ [edit[b] EXCEPT !.gone = TRUE].gone
                         /\ [edit[b] EXCEPT !.gone = TRUE].op = edit[b].op
                         /\ [edit[b] EXCEPT !.gone = TRUE].row = edit[b].row
    BY <1>0 DEF PushEdit
  <2>3. PushEnded(a)
    BY <1>0, <2>1, <2>2 DEF PushEnded
  <2>4. P!EnabledHasChannels' /\ event' \in P!Row \cup {P!NoEvent}
    BY <1>0, <2>1 DEF PushInv, P!EnabledHasChannels
  <2>5. \A b \in Admin \ {a} : edit[b].op = "toggle" =>
          edit'[b].gone \/ (event'.there /\ (mixed \/ event'.channels = edit[b].row.channels))
    BY <1>0, <2>1, <2>2, <2>3 DEF PushEditOK, PushEnded
  <2> QED BY <1>0, <2>1, <2>3, <2>4, <2>5, PushOnEvent DEF PushTyped
<1>10. ASSUME NEW a \in Admin, NEW c \in Channel, P!CountPushChannels(a, c) PROVE PushInv'
  <2> DEFINE e == [P!Idle EXCEPT !.op = "add", !.chan = c]
  <2>1. e \in PushEdit /\ e.op = "add" /\ P!Read(a, e)
    BY <1>10 DEF P!CountPushChannels, P!Idle, PushEdit
  <2> HIDE DEF e
  <2> QED BY <2>1, PushRead
<1>11. ASSUME NEW a \in Admin, NEW c \in Channel, P!ReadChannel(a, c) PROVE PushInv'
  <2>1. PICK op \in {"on", "off", "drop"} : P!Read(a, [P!Idle EXCEPT !.op = op, !.chan = c])
    BY <1>11 DEF P!ReadChannel
  <2> DEFINE e == [P!Idle EXCEPT !.op = op, !.chan = c]
  <2>2. e \in PushEdit /\ e.op = op
    BY DEF P!Idle, PushEdit
  <2> HIDE DEF e
  <2> QED BY <2>1, <2>2, PushRead DEF e
<1>12. ASSUME NEW a \in Admin, P!CreatePushChannel(a) PROVE PushInv'
  <2>1. PushEnded(a)
    BY <1>12, PushEndNobody DEF P!CreatePushChannel
  <2>2. channel' \in [Channel -> {"none", "off", "on"}] /\ UNCHANGED <<event, left, note, mixed>>
    BY <1>0, <1>12 DEF P!CreatePushChannel, PushTyped
  <2> QED BY <2>1, <2>2, PushOnChannel
<1>13. ASSUME NEW a \in Admin, P!SavePushChannel(a) PROVE PushInv'
  <2>1. PushEnded(a)
    BY <1>13, PushEndNobody DEF P!SavePushChannel
  <2>2. channel' \in [Channel -> {"none", "off", "on"}] /\ UNCHANGED <<event, left, note, mixed>>
    BY <1>0, <1>13 DEF P!SavePushChannel, PushTyped
  <2> QED BY <2>1, <2>2, PushOnChannel
<1>14. ASSUME NEW a \in Admin, P!DeletePushChannel(a) PROVE PushInv'
  <2>1. /\ UNCHANGED <<event, left, note, mixed>>
        /\ edit' = [b \in Admin |-> IF b = a THEN P!Idle
                      ELSE IF ~edit[a].gone /\ edit[b].chan = edit[a].chan /\ edit[b].op \in {"on", "off", "drop"}
                           THEN [edit[b] EXCEPT !.gone = TRUE] ELSE edit[b]]
    BY <1>14 DEF P!DeletePushChannel, P!End
  <2>2. \A b \in Admin : /\ [edit[b] EXCEPT !.gone = TRUE] \in PushEdit
                         /\ [edit[b] EXCEPT !.gone = TRUE].gone
                         /\ [edit[b] EXCEPT !.gone = TRUE].op = edit[b].op
                         /\ [edit[b] EXCEPT !.gone = TRUE].row = edit[b].row
    BY <1>0 DEF PushEdit
  <2>3. PushEnded(a)
    BY <1>0, <2>1, <2>2 DEF PushEnded
  <2>4. channel' \in [Channel -> {"none", "off", "on"}]
    BY <1>0, <1>14 DEF P!DeletePushChannel, PushTyped
  <2> QED BY <2>1, <2>3, <2>4, PushOnChannel
<1> QED BY <1>1, <1>2, <1>3, <1>4, <1>5, <1>6, <1>7, <1>8, <1>9, <1>10, <1>11, <1>12, <1>13, <1>14
        DEF P!Configure

\* One notification changes: the others stay, and so does the configuration.
LEMMA PushNoted ==
  ASSUME PushInv, NEW c \in Channel, NEW n \in PushNote, PushNoteOK(n),
         note' = [note EXCEPT ![c] = n], left' \in SUBSET Channel,
         UNCHANGED <<event, channel, edit, mixed>>
  PROVE  PushInv'
<1>1. note' \in [Channel -> PushNote] /\ note'[c] = n /\ \A d \in Channel : d # c => note'[d] = note[d]
  BY DEF PushInv, PushTyped
<1>2. PushTyped'
  BY <1>1 DEF PushInv, PushTyped
<1>3. \A d \in Channel : PushNoteOK(note'[d])
  BY <1>1 DEF PushInv
<1> QED BY <1>2, <1>3 DEF PushInv, P!EnabledHasChannels, PushEditOK, P!Valid

\* What an answer leaves.
LEMMA PushAnswered ==
  ASSUME NEW c \in Channel, note[c] \in PushNote, PushNoteOK(note[c]),
         note[c].at \in {"queued", "again"},
         NEW answer \in P!AnswersOf(note[c].type), NEW number \in P!Delivery(answer)
  PROVE  /\ P!Answered(c, answer, number) \in PushNote
         /\ PushNoteOK(P!Answered(c, answer, number))
         /\ note[c].type = "telegram" /\ ~P!TelegramTakes(answer) =>
              LET n == [P!Answered(c, answer, number) EXCEPT !.at = "again"]
              IN  n \in PushNote /\ PushNoteOK(n)
<1> DEFINE N == P!Answered(c, answer, number)
           takes == P!Takes(note[c].type, answer)
<1>1. /\ note[c].type \in P!Type /\ note[c].sent \in 0 .. 2 /\ note[c].tries \in 0 .. MaxSends
      /\ note[c].past \in SUBSET {"success", "failed"}
      /\ note[c].unheard \in BOOLEAN /\ note[c].long \in BOOLEAN
  BY DEF PushNote
<1>2. answer \in P!Answer
  BY <1>1 DEF P!AnswersOf, P!Answer, P!Type
<1>3. /\ number \in {0, 1}
      /\ answer = "ok" => number = 1
      /\ answer # "ok" /\ answer # "none" => number = 0
  BY <1>2 DEF P!Delivery, P!Answer
<1>4. takes => answer \in {"ok", "long"}
  BY <1>1 DEF P!Takes, P!CustomTakes, P!LarkTakes, P!TelegramTakes, P!EmailTakes, P!Type
<1>5. answer = "ok" => takes
  BY <1>1 DEF P!Takes, P!CustomTakes, P!LarkTakes, P!TelegramTakes, P!EmailTakes, P!Type
<1>6. /\ N.at = IF takes THEN "taken" ELSE "refused"
      /\ N.sent = P!Atmost2(note[c].sent + number)
      /\ N.unheard = (note[c].unheard \/ answer = "none")
      /\ N.long = (note[c].long \/ answer = "long")
      /\ N.past = note[c].past /\ N.tries = note[c].tries /\ N.type = note[c].type
      /\ N \in [at : {"taken", "refused"}, type : P!Type, tries : 0 .. MaxSends, sent : {P!Atmost2(note[c].sent + number)},
                past : SUBSET {"success", "failed"}, unheard : BOOLEAN, long : BOOLEAN]
  BY <1>1 DEF P!Answered, PushNote
<1>7. P!Atmost2(note[c].sent + number) \in 0 .. 2
  BY <1>1, <1>3 DEF P!Atmost2
<1>8. N \in PushNote
  BY <1>6, <1>7 DEF PushNote
<1>9. N.sent > 0 => note[c].sent > 0 \/ number = 1
  BY <1>1, <1>3, <1>6 DEF P!Atmost2
<1>10. note[c].sent > 0 \/ number = 1 => N.sent > 0
  BY <1>1, <1>3, <1>6 DEF P!Atmost2
<1>11. N.sent > 1 => note[c].sent > 0
  BY <1>1, <1>3, <1>6 DEF P!Atmost2
<1> HIDE DEF N, takes
<1>12. PushNoteOK(N)
  BY <1>1, <1>3, <1>4, <1>5, <1>6, <1>9, <1>10, <1>11 DEF PushNoteOK
<1>13. ASSUME note[c].type = "telegram", ~P!TelegramTakes(answer)
       PROVE  [N EXCEPT !.at = "again"] \in PushNote /\ PushNoteOK([N EXCEPT !.at = "again"])
  <2>1. answer # "ok"
    BY <1>13 DEF P!TelegramTakes
  <2> DEFINE A == [N EXCEPT !.at = "again"]
  <2>2. /\ A \in PushNote /\ A.at = "again" /\ A.sent = N.sent /\ A.past = N.past
        /\ A.long = N.long /\ A.unheard = N.unheard
    BY <1>8 DEF PushNote
  <2> HIDE DEF A
  <2>3. N.sent > 0 => N.unheard
    BY <1>1, <1>3, <1>6, <1>9, <2>1 DEF PushNoteOK
  <2>4. PushNoteOK(A)
    BY <1>1, <1>6, <1>12, <2>2, <2>3 DEF PushNoteOK
  <2> QED BY <2>2, <2>4 DEF A
<1> QED BY <1>8, <1>12, <1>13 DEF N

\* Notifications on their way.
LEMMA PushNotifyStep == ASSUME P!PushAssumption, PushInv, P!Notify PROVE PushInv'
<1>0. /\ PushTyped /\ \A c \in Channel : note[c] \in PushNote /\ PushNoteOK(note[c])
      /\ MaxSends \in Nat
  BY DEF PushInv, PushTyped, P!PushAssumption
<1>1. ASSUME UNCHANGED <<event, channel, edit, note, mixed>>, left' \in SUBSET Channel PROVE PushInv'
  BY <1>1 DEF PushInv, PushTyped, P!EnabledHasChannels, PushEditOK, P!Valid, PushNoteOK
<1>2. CASE P!Trigger
  BY <1>1, <1>2 DEF P!Trigger
<1>3. ASSUME NEW c \in Channel, P!SkipChannel(c) PROVE PushInv'
  BY <1>0, <1>1, <1>3 DEF P!SkipChannel, PushTyped
<1>4. ASSUME NEW c \in Channel, P!EnqueuePushTask(c) \/ P!TestChannel(c) PROVE PushInv'
  <2>1. PICK y \in P!Type :
          note' = [note EXCEPT ![c] = [P!NoNote EXCEPT !.at = "queued", !.type = y]]
    BY <1>4 DEF P!EnqueuePushTask, P!TestChannel
  <2> DEFINE n == [P!NoNote EXCEPT !.at = "queued", !.type = y]
  <2>2. n \in PushNote /\ PushNoteOK(n)
    <3>1. P!NoNote \in PushNote
      BY <1>0 DEF P!NoNote, PushNote, P!Type
    <3>2. [P!NoNote EXCEPT !.at = "queued"] \in PushNote
      BY <3>1 DEF PushNote
    <3>3. n \in PushNote
      BY <3>1, <2>1 DEF PushNote
    <3>4. n.sent = 0 /\ n.past = {} /\ n.at = "queued"
      BY DEF P!NoNote
    <3> QED BY <3>3, <3>4 DEF PushNoteOK
  <2>3. left' \in SUBSET Channel /\ UNCHANGED <<event, channel, edit, mixed>>
    BY <1>0, <1>4 DEF P!EnqueuePushTask, P!TestChannel, PushTyped
  <2> HIDE DEF n
  <2> QED BY <2>1, <2>2, <2>3, PushNoted DEF n
<1>5. ASSUME NEW c \in Channel, P!Incomplete(c) PROVE PushInv'
  <2> DEFINE n == [note[c] EXCEPT !.at = "refused"]
  <2>1. note' = [note EXCEPT ![c] = n] /\ note[c].at = "queued" /\ UNCHANGED <<event, channel, edit, left, mixed>>
    BY <1>5 DEF P!Incomplete
  <2>2. /\ n \in PushNote /\ n.at = "refused" /\ n.sent = note[c].sent /\ n.past = note[c].past
        /\ n.long = note[c].long /\ n.unheard = note[c].unheard
    BY <1>0 DEF PushNote
  <2> HIDE DEF n
  <2>3. PushNoteOK(n)
    BY <1>0, <2>1, <2>2 DEF PushNoteOK
  <2> QED BY <1>0, <2>1, <2>2, <2>3, PushNoted DEF PushTyped
<1>6. ASSUME NEW c \in Channel, P!Send(c) PROVE PushInv'
  <2>1. /\ note[c].at \in {"queued", "again"} /\ UNCHANGED <<event, channel, edit, left, mixed>>
    BY <1>6 DEF P!Send
  <2>2. PICK answer \in P!AnswersOf(note[c].type) : \E number \in P!Delivery(answer) :
          note' = [note EXCEPT ![c] =
            IF note[c].type = "telegram" /\ note[c].at = "queued" /\ ~P!TelegramTakes(answer)
            THEN [P!Answered(c, answer, number) EXCEPT !.at = "again"]
            ELSE P!Answered(c, answer, number)]
    BY <1>6 DEF P!Send
  <2>3. PICK number \in P!Delivery(answer) :
          note' = [note EXCEPT ![c] =
            IF note[c].type = "telegram" /\ note[c].at = "queued" /\ ~P!TelegramTakes(answer)
            THEN [P!Answered(c, answer, number) EXCEPT !.at = "again"]
            ELSE P!Answered(c, answer, number)]
    BY <2>2
  <2> QED BY <1>0, <2>1, <2>3, PushAnswered, PushNoted DEF PushTyped
<1>7. ASSUME NEW c \in Channel, P!Settle(c) PROVE PushInv'
  <2> DEFINE final == note[c].tries = MaxSends
             line == IF note[c].at = "taken" THEN {"success"} ELSE IF final THEN {"failed"} ELSE {}
             ends == note[c].at = "taken" \/ final
  <2>1. PICK written \in SUBSET line :
          note' = [note EXCEPT ![c].past  = @ \union written,
                               ![c].at    = IF ends THEN "done" ELSE "queued",
                               ![c].tries = IF ends THEN @ ELSE @ + 1]
    BY <1>7 DEF P!Settle
  <2> DEFINE n == [note[c] EXCEPT !.past  = @ \union written,
                                  !.at    = IF ends THEN "done" ELSE "queued",
                                  !.tries = IF ends THEN @ ELSE @ + 1]
  <2>2. note' = [note EXCEPT ![c] = n] /\ note[c].at \in {"taken", "refused"}
        /\ UNCHANGED <<event, channel, edit, left, mixed>>
    BY <1>0, <1>7, <2>1 DEF P!Settle, PushTyped
  <2>3. /\ "success" \in written => note[c].at = "taken"
        /\ written \in SUBSET {"success", "failed"}
    OBVIOUS
  <2>4. (IF ends THEN note[c].tries ELSE note[c].tries + 1) \in 0 .. MaxSends
    BY <1>0 DEF PushNote
  <2>5. /\ n.at = (IF ends THEN "done" ELSE "queued") /\ n.past = note[c].past \cup written
        /\ n.sent = note[c].sent /\ n.long = note[c].long /\ n.unheard = note[c].unheard
        /\ n \in PushNote
    BY <1>0, <2>3, <2>4 DEF PushNote
  <2>6. ends \/ note[c].at = "refused"
    BY <2>2
  <2> HIDE DEF n, ends, line
  <2>7. PushNoteOK(n)
    BY <1>0, <2>2, <2>3, <2>5, <2>6 DEF PushNoteOK
  <2> QED BY <1>0, <2>2, <2>5, <2>7, PushNoted DEF PushTyped
<1>8. ASSUME NEW c \in Channel, P!Crash(c) PROVE PushInv'
  <2> DEFINE n == [note[c] EXCEPT !.at      = IF note[c].tries = MaxSends THEN "done" ELSE "queued",
                                  !.tries   = IF @ = MaxSends THEN @ ELSE @ + 1,
                                  !.unheard = TRUE]
  <2>1. note' = [note EXCEPT ![c] = n] /\ UNCHANGED <<event, channel, edit, left, mixed>>
        /\ note[c].at \in {"again", "taken", "refused"}
    BY <1>0, <1>8 DEF P!Crash, PushTyped
  <2>2. (IF note[c].tries = MaxSends THEN note[c].tries ELSE note[c].tries + 1) \in 0 .. MaxSends
    BY <1>0 DEF PushNote
  <2>3. /\ n.at \in {"done", "queued"} /\ n.past = note[c].past
        /\ n.sent = note[c].sent /\ n.long = note[c].long /\ n.unheard
        /\ n \in PushNote
    BY <1>0, <2>2 DEF PushNote
  <2> HIDE DEF n
  <2>4. PushNoteOK(n)
    BY <1>0, <2>1, <2>3 DEF PushNoteOK
  <2> QED BY <1>0, <2>1, <2>3, <2>4, PushNoted DEF PushTyped
<1> QED BY <1>2, <1>3, <1>4, <1>5, <1>6, <1>7, <1>8
        DEF P!Notify, P!HandleAdminLogin, P!HandleTaskCompleted

\* The inductive invariant of the push settings and the notifications: a row about
\* to be written is valid, and what is still to be sent has not arrived unnoticed.
THEOREM PushInvariant == P!Spec => []PushInv
<1> USE ConstantsFit DEF P!PushAssumption
<1>1. P!Init => PushInv
  <2> SUFFICES ASSUME P!Init PROVE PushInv
    OBVIOUS
  <2>1. P!NoNote \in PushNote /\ PushNoteOK(P!NoNote)
    BY DEF P!NoNote, PushNote, PushNoteOK, P!Type
  <2>2. PushTyped
    BY <2>1, PushFacts DEF P!Init, PushTyped
  <2> QED BY <2>1, <2>2, PushFacts DEF P!Init, PushInv, PushEditOK, P!EnabledHasChannels
<1>2. PushInv /\ UNCHANGED P!vars => PushInv'
  BY DEF P!vars, PushInv, PushTyped, P!EnabledHasChannels, PushEditOK, P!Valid, PushNoteOK
<1>3. PushInv /\ [P!Next]_(P!vars) => PushInv'
  BY <1>2, PushConfigure, PushNotifyStep DEF P!Next
<1> QED BY <1>1, <1>3, PTL DEF P!Spec

LEMMA PushRuns == SuiteSpec => P!Spec
<1>1. SuiteInit => P!Init
  BY DEF SuiteInit
<1>2. [SuiteNext]_allVars => [P!Next]_(P!vars)
  BY DEF SuiteNext, allVars, pushVars, scheduleVars, P!vars, P!Next
<1> QED BY <1>1, <1>2, PTL DEF SuiteSpec, P!Spec

LEMMA PushTypeCorrect == ASSUME PushInv PROVE P!TypeOK
<1>1. /\ PushTyped /\ \A a \in Admin : edit[a] \in PushEdit
      /\ \A c \in Channel : note[c] \in PushNote
  BY DEF PushInv, PushTyped
<1> QED BY <1>1 DEF PushTyped, PushEdit, PushNote, P!TypeOK

\* Whatever administrators do at a time, an enabled event lists a channel unless a
\* toggle and a save overlapped (push/logics.go:147).
THEOREM PushEnabledHasChannels == SuiteSpec => []EnabledHasChannels
<1>1. PushInv => EnabledHasChannels
  BY PushTypeCorrect DEF PushInv, EnabledHasChannels
<1> QED BY <1>1, PushRuns, PushInvariant, PTL

\* However many attempts, answers lost and crashes there are, the history calls sent
\* what was taken, and what was sent twice had an answer or a worker lost
\* (push/custom.go:79).
THEOREM PushHistoryIsHonest == SuiteSpec => []HistoryIsHonest
<1>1. PushInv => HistoryIsHonest
  <2> SUFFICES ASSUME PushInv, NEW c \in Channel
               PROVE  /\ "success" \in note[c].past => note[c].sent > 0 \/ note[c].long
                      /\ note[c].sent > 1 => note[c].unheard
    BY DEF HistoryIsHonest, P!HistoryIsHonest
  <2> QED BY DEF PushInv, PushNoteOK
<1> QED BY <1>1, PushRuns, PushInvariant, PTL
-----------------------------------------------------------------------------
(* Schedules *)

\* Who reloads holds the mutex of its process.
ReloadLocked ==
  \A q \in S!Request : req[q].at \in {"locked", "read"} => lock[S!Host(q)] = {q}

\* No request of p is past its write with the mutex yet to be taken.
AllRead(p) == \A q \in S!Request : S!Host(q) = p => req[q].at # "saved"

\* The last to write on p is the last to read: what a reload has read is what the
\* table says, unless another one is to follow.
ReloadIsCurrent ==
  \A p \in started \ stale, q \in S!Request :
    S!Host(q) = p /\ AllRead(p) /\ req[q].at = "read" => req[q].read = S!Enabled(table)

SchedInv == S!TypeOK /\ ReloadLocked /\ ReloadIsCurrent /\ S!ReloadCatchesUp

LEMMA SchedHost == ASSUME NEW q \in S!Request PROVE S!Host(q) \in Process
  BY DEF S!Request, S!Host

LEMMA SchedEnabled == ASSUME S!TypeOK PROVE S!Enabled(table) \in SUBSET (Schedule \X Version)
  BY DEF S!TypeOK, S!Enabled

\* A request moves on; no other does.
LEMMA SchedReqWrite ==
  ASSUME S!TypeOK, NEW q \in S!Request, NEW x \in [at : {"idle", "found", "saved", "locked", "read"},
         read : SUBSET (Schedule \X Version), of : SUBSET Schedule],
         req' = [req EXCEPT ![q] = x]
  PROVE  /\ req' \in [S!Request -> [at : {"idle", "found", "saved", "locked", "read"},
                      read : SUBSET (Schedule \X Version), of : SUBSET Schedule]]
         /\ req'[q] = x /\ \A r \in S!Request : r # q => req'[r] = req[r]
  BY DEF S!TypeOK

\* A write: every other process may be out of date, and its own has a reload to come.
LEMMA SchedWrites ==
  ASSUME SchedInv, NEW q \in S!Request, req[q].at \in {"idle", "found"}, NEW s \in Schedule,
         NEW says \in Version \cup {S!Disabled, S!Absent}, S!Writes(q, s, says)
  PROVE  SchedInv'
<1> DEFINE x == [S!NoRequest EXCEPT !.at = "saved"]
<1>1. x \in [at : {"idle", "found", "saved", "locked", "read"},
             read : SUBSET (Schedule \X Version), of : SUBSET Schedule] /\ x.at = "saved"
  BY DEF S!NoRequest
<1>2. /\ req' = [req EXCEPT ![q] = x] /\ UNCHANGED <<active, lock, started>>
      /\ table' = [table EXCEPT ![s] = says]
      /\ stale' = stale \cup (Process \ {S!Host(q)})
  BY DEF S!Writes
<1> HIDE DEF x
<1>3. /\ req' \in [S!Request -> [at : {"idle", "found", "saved", "locked", "read"},
                   read : SUBSET (Schedule \X Version), of : SUBSET Schedule]]
      /\ req'[q].at = "saved" /\ \A r \in S!Request : r # q => req'[r] = req[r]
  BY <1>1, <1>2, SchedReqWrite DEF SchedInv
<1>4. S!TypeOK'
  BY <1>2, <1>3 DEF SchedInv, S!TypeOK
<1>5. ReloadLocked'
  BY <1>2, <1>3 DEF SchedInv, ReloadLocked
<1>6. \A p \in started' \ stale' : p = S!Host(q)
  BY <1>2 DEF SchedInv, S!TypeOK
<1>7. ReloadIsCurrent'
  BY <1>3, <1>6 DEF ReloadIsCurrent, AllRead
<1>8. S!ReloadCatchesUp'
  BY <1>3, <1>6 DEF S!ReloadCatchesUp
<1> QED BY <1>4, <1>5, <1>7, <1>8 DEF SchedInv

LEMMA SchedStep == ASSUME SchedInv, [S!Next]_(S!vars) PROVE SchedInv'
<1> DEFINE Rec == [at : {"idle", "found", "saved", "locked", "read"},
                   read : SUBSET (Schedule \X Version), of : SUBSET Schedule]
<1>0. /\ S!TypeOK /\ ReloadLocked /\ ReloadIsCurrent /\ S!ReloadCatchesUp
      /\ req \in [S!Request -> Rec]
  BY DEF SchedInv, S!TypeOK
<1>1. CASE UNCHANGED S!vars
  BY <1>0, <1>1 DEF S!vars, SchedInv, S!TypeOK, ReloadLocked, ReloadIsCurrent, AllRead,
     S!ReloadCatchesUp, S!Enabled
<1>2. ASSUME NEW q \in S!Request, S!StartScheduler(q) PROVE SchedInv'
  <2> DEFINE x == [req[q] EXCEPT !.at = "saved"]
  <2>1. /\ req' = [req EXCEPT ![q] = x] /\ started' = started \cup {S!Host(q)}
        /\ req[q].at = "idle" /\ UNCHANGED <<table, active, lock, stale>>
    BY <1>0, <1>2 DEF S!StartScheduler
  <2>2. x \in Rec /\ x.at = "saved"
    BY <1>0
  <2> HIDE DEF x
  <2>3. req' \in [S!Request -> Rec] /\ req'[q].at = "saved"
        /\ \A r \in S!Request : r # q => req'[r] = req[r]
    BY <1>0, <2>1, <2>2, SchedReqWrite
  <2>4. S!TypeOK' /\ ReloadLocked'
    BY <1>0, <2>1, <2>3, SchedHost DEF S!TypeOK, ReloadLocked
  <2>5. ReloadIsCurrent'
    BY <1>0, <2>1, <2>3 DEF ReloadIsCurrent, AllRead, S!Enabled
  <2>6. S!ReloadCatchesUp'
    BY <1>0, <2>1, <2>3 DEF S!ReloadCatchesUp, S!Enabled
  <2> QED BY <2>4, <2>5, <2>6 DEF SchedInv
<1>3. ASSUME NEW q \in S!Request, NEW s \in Schedule, S!FindSchedule(q, s) PROVE SchedInv'
  <2> DEFINE x == [req[q] EXCEPT !.at = "found", !.of = {s}]
  <2>1. /\ req' = [req EXCEPT ![q] = x] /\ req[q].at = "idle"
        /\ UNCHANGED <<table, active, lock, started, stale>>
    BY <1>0, <1>3 DEF S!FindSchedule
  <2>2. x \in Rec /\ x.at = "found"
    BY <1>0
  <2> HIDE DEF x
  <2>3. req' \in [S!Request -> Rec] /\ req'[q].at = "found"
        /\ \A r \in S!Request : r # q => req'[r] = req[r]
    BY <1>0, <2>1, <2>2, SchedReqWrite
  <2>4. S!TypeOK' /\ ReloadLocked'
    BY <1>0, <2>1, <2>3, SchedHost DEF S!TypeOK, ReloadLocked
  <2>5. ReloadIsCurrent'
    BY <1>0, <2>1, <2>3 DEF ReloadIsCurrent, AllRead, S!Enabled
  <2>6. S!ReloadCatchesUp'
    BY <1>0, <2>1, <2>3 DEF S!ReloadCatchesUp, S!Enabled
  <2> QED BY <2>4, <2>5, <2>6 DEF SchedInv
<1>4. ASSUME NEW q \in S!Request, NEW s \in Schedule, S!CreateSchedule(q, s) \/ S!DeleteSchedule(q, s)
      PROVE  SchedInv'
  BY <1>4, SchedWrites DEF S!CreateSchedule, S!DeleteSchedule
<1>5. ASSUME NEW q \in S!Request, S!UpdateSchedule(q) PROVE SchedInv'
  BY <1>0, <1>5, SchedWrites DEF S!UpdateSchedule
<1>6. ASSUME NEW q \in S!Request, S!Shutdown(q) PROVE SchedInv'
  <2> DEFINE x == [req[q] EXCEPT !.at = "locked"]
  <2> DEFINE p == S!Host(q)
  <2>1. /\ req' = [req EXCEPT ![q] = x] /\ req[q].at = "saved" /\ lock[p] = {}
        /\ lock' = [lock EXCEPT ![p] = {q}] /\ active' = [active EXCEPT ![p] = S!Off]
        /\ UNCHANGED <<table, started, stale>>
    BY <1>0, <1>6 DEF S!Shutdown
  <2>2. x \in Rec /\ x.at = "locked"
    BY <1>0
  <2> HIDE DEF x
  <2>3. req' \in [S!Request -> Rec] /\ req'[q].at = "locked"
        /\ \A r \in S!Request : r # q => req'[r] = req[r]
    BY <1>0, <2>1, <2>2, SchedReqWrite
  <2>4. S!Off \in S!Scheduler /\ p \in Process
    BY SchedHost DEF S!Off, S!Scheduler
  <2>5. \A r \in S!Request : S!Host(r) = p => req[r].at \notin {"locked", "read"}
    BY <1>0, <2>1 DEF ReloadLocked
  <2> HIDE DEF p
  <2>6. S!TypeOK'
    BY <1>0, <2>1, <2>3, <2>4 DEF S!TypeOK
  <2>7. ReloadLocked'
    BY <1>0, <2>1, <2>3, <2>4, <2>5, SchedHost DEF S!TypeOK, ReloadLocked, p
  <2>8. ReloadIsCurrent'
    BY <1>0, <2>1, <2>3, <2>5 DEF ReloadIsCurrent, AllRead, S!Enabled, p
  <2>9. S!ReloadCatchesUp'
    BY <1>0, <2>1, <2>3, <2>4 DEF S!ReloadCatchesUp, S!Enabled, S!TypeOK, p
  <2> QED BY <2>6, <2>7, <2>8, <2>9 DEF SchedInv
<1>7. ASSUME NEW q \in S!Request, S!LoadSchedules(q) PROVE SchedInv'
  <2> DEFINE x == [req[q] EXCEPT !.at = "read", !.read = S!Enabled(table)]
  <2> DEFINE p == S!Host(q)
  <2>1. /\ req' = [req EXCEPT ![q] = x] /\ req[q].at = "locked"
        /\ stale' = stale \ {p} /\ UNCHANGED <<table, active, lock, started>>
    BY <1>0, <1>7 DEF S!LoadSchedules
  <2>2. x \in Rec /\ x.at = "read" /\ x.read = S!Enabled(table)
    BY <1>0, SchedEnabled
  <2> HIDE DEF x
  <2>3. /\ req' \in [S!Request -> Rec] /\ req'[q].at = "read" /\ req'[q].read = S!Enabled(table)
        /\ \A r \in S!Request : r # q => req'[r] = req[r]
    BY <1>0, <2>1, <2>2, SchedReqWrite
  <2>4. \A r \in S!Request : S!Host(r) = p /\ r # q => req[r].at \notin {"locked", "read"}
    BY <1>0, <2>1 DEF ReloadLocked
  <2> HIDE DEF p
  <2>5. S!TypeOK' /\ ReloadLocked'
    BY <1>0, <2>1, <2>3 DEF S!TypeOK, ReloadLocked
  <2>6. ReloadIsCurrent'
    BY <1>0, <2>1, <2>3, <2>4 DEF ReloadIsCurrent, AllRead, S!Enabled, p
  <2>7. S!ReloadCatchesUp'
    BY <1>0, <2>1, <2>3 DEF S!ReloadCatchesUp, S!Enabled, p
  <2> QED BY <2>5, <2>6, <2>7 DEF SchedInv
<1>8. ASSUME NEW q \in S!Request, S!StartNew(q) PROVE SchedInv'
  <2> DEFINE p == S!Host(q)
  <2>1. /\ req' = [req EXCEPT ![q] = S!NoRequest] /\ req[q].at = "read"
        /\ active' = [active EXCEPT ![p] = S!On(req[q].read)]
        /\ lock' = [lock EXCEPT ![p] = {}] /\ UNCHANGED <<table, started, stale>>
    BY <1>8 DEF S!StartNew
  <2>2. S!NoRequest \in Rec /\ S!NoRequest.at = "idle"
    BY DEF S!NoRequest
  <2>3. /\ req' \in [S!Request -> Rec] /\ req'[q].at = "idle"
        /\ \A r \in S!Request : r # q => req'[r] = req[r]
    BY <1>0, <2>1, <2>2, SchedReqWrite
  <2>4. \A r \in S!Request : S!Host(r) = p /\ r # q => req[r].at \notin {"locked", "read"}
    BY <1>0, <2>1 DEF ReloadLocked
  <2>5. S!On(req[q].read) \in S!Scheduler /\ p \in Process
    BY <1>0, SchedHost DEF S!On, S!Scheduler
  <2> HIDE DEF p
  <2>6. S!TypeOK'
    BY <1>0, <2>1, <2>3, <2>5 DEF S!TypeOK
  <2>7. ReloadLocked'
    BY <1>0, <2>1, <2>3, <2>4, <2>5, SchedHost DEF S!TypeOK, ReloadLocked, p
  <2>8. ReloadIsCurrent'
    BY <1>0, <2>1, <2>3 DEF ReloadIsCurrent, AllRead, S!Enabled
  <2>9. ASSUME NEW u \in started' \ stale',
               \A r \in S!Request : S!Host(r) = u => req'[r].at \in {"idle", "found"}
        PROVE  active'[u] = S!On(S!Enabled(table'))
    <3>1. CASE u = p
      <4>1. req[q].read = S!Enabled(table)
        BY <1>0, <2>1, <2>3, <2>9, <3>1 DEF ReloadIsCurrent, AllRead, p
      <4> QED BY <1>0, <2>1, <2>5, <3>1, <4>1 DEF S!TypeOK, S!Enabled
    <3>2. CASE u # p
      <4>1. \A r \in S!Request : S!Host(r) = u => req'[r] = req[r]
        BY <2>3, <3>2 DEF p
      <4>2. active[u] = S!On(S!Enabled(table)) /\ active'[u] = active[u]
        BY <1>0, <2>1, <2>9, <3>2, <4>1 DEF S!ReloadCatchesUp, S!TypeOK
      <4> QED BY <2>1, <4>2 DEF S!Enabled
    <3> QED BY <3>1, <3>2
  <2> QED BY <2>6, <2>7, <2>8, <2>9 DEF SchedInv, S!ReloadCatchesUp
<1>9. ASSUME NEW q \in S!Request, S!ReloadFails(q) PROVE SchedInv'
  <2> DEFINE p == S!Host(q)
  <2>1. /\ req' = [req EXCEPT ![q] = S!NoRequest] /\ req[q].at \in {"locked", "read"}
        /\ lock' = [lock EXCEPT ![p] = {}] /\ stale' = stale \cup {p}
        /\ UNCHANGED <<table, active, started>>
    BY <1>9 DEF S!ReloadFails
  <2>2. S!NoRequest \in Rec /\ S!NoRequest.at = "idle"
    BY DEF S!NoRequest
  <2>3. /\ req' \in [S!Request -> Rec] /\ req'[q].at = "idle"
        /\ \A r \in S!Request : r # q => req'[r] = req[r]
    BY <1>0, <2>1, <2>2, SchedReqWrite
  <2>4. \A r \in S!Request : S!Host(r) = p /\ r # q => req[r].at \notin {"locked", "read"}
    BY <1>0, <2>1 DEF ReloadLocked
  <2>5. p \in Process
    BY SchedHost
  <2> HIDE DEF p
  <2>6. S!TypeOK'
    BY <1>0, <2>1, <2>3, <2>5 DEF S!TypeOK
  <2>7. ReloadLocked'
    BY <1>0, <2>1, <2>3, <2>4, <2>5, SchedHost DEF S!TypeOK, ReloadLocked, p
  <2>8. \A u \in started' \ stale' : u \in started \ stale /\ u # p
    BY <2>1
  <2>9. \A r \in S!Request : S!Host(r) # p => req'[r] = req[r]
    BY <2>3 DEF p
  <2>10. ReloadIsCurrent'
    BY <1>0, <2>1, <2>8, <2>9 DEF ReloadIsCurrent, AllRead, S!Enabled
  <2>11. S!ReloadCatchesUp'
    BY <1>0, <2>1, <2>8, <2>9 DEF S!ReloadCatchesUp, S!Enabled
  <2> QED BY <2>6, <2>7, <2>10, <2>11 DEF SchedInv
<1>10. ASSUME NEW p \in Process, S!StopScheduler(p) PROVE SchedInv'
  <2>1. /\ active' = [active EXCEPT ![p] = S!Off] /\ stale' = stale \cup {p}
        /\ UNCHANGED <<table, lock, req, started>> /\ S!Off \in S!Scheduler
    BY <1>10 DEF S!StopScheduler, S!Off, S!Scheduler
  <2>2. S!TypeOK' /\ ReloadLocked'
    BY <1>0, <2>1 DEF S!TypeOK, ReloadLocked
  <2>3. ReloadIsCurrent'
    BY <1>0, <2>1 DEF ReloadIsCurrent, AllRead, S!Enabled
  <2>4. S!ReloadCatchesUp'
    BY <1>0, <2>1 DEF S!ReloadCatchesUp, S!TypeOK, S!Enabled
  <2> QED BY <2>2, <2>3, <2>4 DEF SchedInv
<1> QED BY <1>1, <1>2, <1>3, <1>4, <1>5, <1>6, <1>7, <1>8, <1>9, <1>10 DEF S!Next

LEMMA SchedInvariant == S!Spec => []SchedInv
<1>1. S!Init => SchedInv
  BY DEF S!Init, SchedInv, S!TypeOK, ReloadLocked, ReloadIsCurrent, S!ReloadCatchesUp, S!NoRequest,
     S!Off, S!Scheduler
<1>2. SchedInv /\ [S!Next]_(S!vars) => SchedInv'
  BY SchedStep
<1> QED BY <1>1, <1>2, PTL DEF S!Spec

LEMMA SchedRuns == SuiteSpec => S!Spec
<1>1. SuiteInit => S!Init
  BY DEF SuiteInit
<1>2. [SuiteNext]_allVars => [S!Next]_(S!vars)
  BY DEF SuiteNext, allVars, scheduleVars, S!vars
<1> QED BY <1>1, <1>2, PTL DEF SuiteSpec, S!Spec

\* However many processes, handlers and schedules there are, once no handler of a
\* process is between its write and the end of its reload, the scheduler runs what the
\* table says (scheduler.go:76).
THEOREM SchedulesCatchUp == SuiteSpec => []ReloadCatchesUp
<1>1. SchedInv => ReloadCatchesUp
  BY DEF SchedInv, ReloadCatchesUp
<1> QED BY <1>1, SchedRuns, SchedInvariant, PTL
=============================================================================
