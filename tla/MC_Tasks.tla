------------------------------- MODULE MC_Tasks -------------------------------
(***************************************************************************)
(* TaskExecution, TaskSchedules and PushNotify checked in one run.  They   *)
(* share no state, so that a behaviour of the program is a behaviour of    *)
(* each: the first state picks which of them takes the steps, and the      *)
(* states to explore are those of each, not of their product.              *)
(***************************************************************************)
EXTENDS TaskExecution

CONSTANTS
  Process, Starter, Slot, Schedule, Version,  \* TaskSchedules
  Admin, Channel, MaxSends                    \* PushNotify

VARIABLES table, active, lock, req, started, stale, focus,
          event, channel, edit, left, note, mixed

S == INSTANCE TaskSchedules

P == INSTANCE PushNotify WITH MaxRetry <- MaxSends, req <- edit

scheduleVars == <<table, active, lock, req, started, stale>>
pushVars     == <<event, channel, edit, left, note, mixed>>
allVars      == <<vars, scheduleVars, pushVars, focus>>

\* What PushNotify asks of its constants.
ASSUME ConstantsFit == P!PushAssumption

SuiteInit ==
  /\ Init /\ S!Init /\ P!Init
  /\ focus \in {"executions", "schedules", "push settings", "notifications"}

SuiteNext ==
  \/ focus = "executions"    /\ Next        /\ UNCHANGED <<scheduleVars, pushVars, focus>>
  \/ focus = "schedules"     /\ S!Next      /\ UNCHANGED <<vars, pushVars, focus>>
  \/ focus = "push settings" /\ P!Configure /\ UNCHANGED <<vars, scheduleVars, focus>>
  \/ focus = "notifications" /\ P!Notify    /\ UNCHANGED <<vars, scheduleVars, focus>>

SuiteSpec ==
  /\ SuiteInit /\ [][SuiteNext]_allVars
  /\ \A t \in Task :
       /\ WF_allVars(focus = "executions" /\ Deliver(t)    /\ UNCHANGED <<scheduleVars, pushVars, focus>>)
       /\ WF_allVars(focus = "executions" /\ Processing(t) /\ UNCHANGED <<scheduleVars, pushVars, focus>>)

\* TaskSchedules's: a scheduler whose last reload worked runs what the table
\* says (src/internal/task/scheduler/scheduler.go:76).
ReloadCatchesUp == focus = "schedules" => S!TypeOK /\ S!ReloadCatchesUp

\* PushNotify's: an enabled event lists a channel, unless a toggle and an update
\* of it have overlapped (src/internal/apps/admin/push/logics.go:147).
EnabledHasChannels == focus = "push settings" => P!TypeOK /\ P!EnabledHasChannels

\* PushNotify's: a notification the history calls sent has been taken, and one
\* sent twice had an answer or a worker lost (src/pkg/push/custom.go:79).
HistoryIsHonest == P!HistoryIsHonest
=============================================================================
