---------------------------- MODULE TaskSchedules ----------------------------
(***************************************************************************)
(* The schedule table and the cron schedulers built from it                *)
(* (src/internal/task/scheduler/scheduler.go, the schedule handlers of     *)
(* src/internal/apps/admin/task/routers.go).  Every process that serves    *)
(* the API reloads the scheduler of its own after a change of the table;   *)
(* the processes started as "scheduler" or "all" also load it at start.    *)
(***************************************************************************)
EXTENDS Integers, FiniteSets

CONSTANTS
  Process,   \* running processes of the program
  Starter,   \* those of them that run StartScheduler (cmd scheduler, cmd all)
  Slot,      \* concurrent calls in one process
  Schedule,  \* identifiers of schedules
  Version    \* what an enabled schedule may say

VARIABLES
  table,   \* w_schedules: what each schedule says, Disabled or Absent
  active,  \* activeScheduler of each process: the entries it registered
  lock,    \* who holds schedulerMutex of each process
  req,     \* each request: where it is, what it writes, what it read
  started, \* processes whose StartScheduler was called
  stale    \* processes that need not be up to date: the last reload failed, the
           \* scheduler was stopped, or another process changed the table since

vars == <<table, active, lock, req, started, stale>>

\* Calls in flight: handlers of the API, and StartScheduler.
Request == Process \X Slot
Host(q) == q[1]

Disabled == "disabled"
Absent   == "absent"

\* ListActiveSchedules
Enabled(t) == {<<s, t[s]>> : s \in {u \in Schedule : t[u] \in Version}}
Scheduler  == [on : BOOLEAN, entries : SUBSET (Schedule \X Version)]
Off        == [on |-> FALSE, entries |-> {}]
On(e)      == [on |-> TRUE, entries |-> e]

TypeOK ==
  /\ table   \in [Schedule -> Version \cup {Disabled, Absent}]
  /\ active  \in [Process -> Scheduler]
  /\ lock    \in [Process -> SUBSET Request]
  /\ req     \in [Request -> [at : {"idle", "found", "saved", "locked", "read"},
                             read : SUBSET (Schedule \X Version), of : SUBSET Schedule]]
  /\ started \in SUBSET Process
  /\ stale   \in SUBSET Process

NoRequest == [at |-> "idle", read |-> {}, of |-> {}]

Init ==
  /\ table   = [s \in Schedule |-> Absent]
  /\ active  = [p \in Process |-> Off]
  /\ lock    = [p \in Process |-> {}]
  /\ req     = [q \in Request |-> NoRequest]
  /\ started = {}
  /\ stale   = {}

-----------------------------------------------------------------------------
\* StartScheduler: once per process, the first reload.
StartScheduler(q) ==
  /\ req[q].at = "idle" /\ Host(q) \in Starter \ started
  /\ started' = started \cup {Host(q)}
  /\ req' = [req EXCEPT ![q].at = "saved"]
  /\ UNCHANGED <<table, active, lock, stale>>

Writes(q, s, says) ==
  /\ table' = [table EXCEPT ![s] = says]
  /\ req' = [req EXCEPT ![q] = [NoRequest EXCEPT !.at = "saved"]]
  /\ stale' = stale \cup (Process \ {Host(q)})
  /\ UNCHANGED <<active, lock, started>>

CreateSchedule(q, s) ==
  /\ req[q].at = "idle" /\ table[s] = Absent
  /\ \E says \in Version \cup {Disabled} : Writes(q, s, says)

\* UpdateSchedule looks the schedule up ...
FindSchedule(q, s) ==
  /\ req[q].at = "idle" /\ table[s] # Absent
  /\ req' = [req EXCEPT ![q].at = "found", ![q].of = {s}]
  /\ UNCHANGED <<table, active, lock, started, stale>>

\* ... and saves it whole, which creates it again if it was deleted meanwhile.
UpdateSchedule(q) ==
  /\ req[q].at = "found"
  /\ \E s \in req[q].of, says \in Version \cup {Disabled} : Writes(q, s, says)

\* Deleting an absent schedule is no error.
DeleteSchedule(q, s) ==
  /\ req[q].at = "idle"
  /\ Writes(q, s, Absent)

\* Mutant of Shutdown: a reload without the mutex.
ShutdownUnlocked(q) ==
  LET p == Host(q) IN
  /\ req[q].at = "saved"
  /\ active' = [active EXCEPT ![p] = Off]
  /\ req'    = [req EXCEPT ![q].at = "locked"]
  /\ UNCHANGED <<table, lock, started, stale>>

\* ReloadScheduler takes the mutex and shuts the old scheduler down ...
Shutdown(q) ==
  LET p == Host(q) IN
  /\ req[q].at = "saved" /\ lock[p] = {}
  /\ lock'   = [lock EXCEPT ![p] = {q}]
  /\ active' = [active EXCEPT ![p] = Off]
  /\ req'    = [req EXCEPT ![q].at = "locked"]
  /\ UNCHANGED <<table, started, stale>>

\* ... reads the table ...
LoadSchedules(q) ==
  /\ req[q].at = "locked"
  /\ req' = [req EXCEPT ![q].at = "read", ![q].read = Enabled(table)]
  /\ stale' = stale \ {Host(q)}
  /\ UNCHANGED <<table, active, lock, started>>

\* ... and starts a scheduler with what it read.
StartNew(q) ==
  LET p == Host(q) IN
  /\ req[q].at = "read"
  /\ active' = [active EXCEPT ![p] = On(req[q].read)]
  /\ lock'   = [lock EXCEPT ![p] = {}]
  /\ req'    = [req EXCEPT ![q] = NoRequest]
  /\ UNCHANGED <<table, started, stale>>

\* The table cannot be read, or the new scheduler does not start: the error is
\* logged, the handler answers success, and the process has no scheduler.
ReloadFails(q) ==
  LET p == Host(q) IN
  /\ req[q].at \in {"locked", "read"}
  /\ lock'  = [lock EXCEPT ![p] = {}]
  /\ req'   = [req EXCEPT ![q] = NoRequest]
  /\ stale' = stale \cup {p}
  /\ UNCHANGED <<table, active, started>>

\* StopScheduler on a signal.
StopScheduler(p) ==
  /\ p \in started /\ lock[p] = {}
  /\ active' = [active EXCEPT ![p] = Off]
  /\ stale'  = stale \cup {p}
  /\ UNCHANGED <<table, lock, req, started>>

Next ==
  \/ \E q \in Request :
       \/ StartScheduler(q) \/ UpdateSchedule(q)
       \/ Shutdown(q) \/ LoadSchedules(q) \/ StartNew(q) \/ ReloadFails(q)
       \/ \E s \in Schedule : CreateSchedule(q, s) \/ FindSchedule(q, s) \/ DeleteSchedule(q, s)
  \/ \E p \in Process : StopScheduler(p)

Spec == Init /\ [][Next]_vars

-----------------------------------------------------------------------------
\* However the handlers of a process interleave, once none of them is between
\* its write and the end of its reload, the scheduler runs what the table says:
\* the mutex covers the read of the table and not only the swap
\* (src/internal/task/scheduler/scheduler.go:76).
ReloadCatchesUp ==
  \A p \in started \ stale :
    (\A q \in Request : Host(q) = p => req[q].at \in {"idle", "found"})
      => active[p] = On(Enabled(table))
=============================================================================
