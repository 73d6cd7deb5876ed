------------------------------ MODULE PushNotify ------------------------------
(***************************************************************************)
(* Notifications: an event that administrators configure (a login, a task  *)
(* that ends) is sent through the channels it lists, each through a task   *)
(* of its own whose outcome ends in the push history.                      *)
(* The event and the channels are edited by requests that read a row, look *)
(* at it and write it in separate statements.                              *)
(***************************************************************************)
EXTENDS Integers

CONSTANTS
  Admin,     \* requests of administrators that overlap; at most two, see gone
  Channel,
  MaxRetry   \* retries of a notification's task

PushAssumption == MaxRetry \in Nat

VARIABLES
  event,     \* the row of the event
  channel,   \* channel[c]: its row
  req,       \* req[a]: a request after its read and before its write
  left,      \* the channels the trigger of the event has yet to serve
  note,      \* note[c]: the last notification through channel c
  mixed      \* a toggle and an update of the event have overlapped

vars == <<event, channel, req, left, note, mixed>>

NoEvent == [there |-> FALSE, enabled |-> FALSE, channels |-> {}]
Row     == [there : {TRUE}, enabled : BOOLEAN, channels : SUBSET Channel]
Type    == {"custom", "lark", "telegram", "email"}
Idle    == [op |-> "idle", row |-> NoEvent, chan |-> "none", gone |-> FALSE]

\* What comes back from a channel.  "long" is a refusal in the body of a good
\* answer, longer than what the sender reads of it; "none" no answer at all.
Answer == {"ok", "status", "body", "long", "none"}

NoNote == [at |-> "none", type |-> "custom", tries |-> 0, sent |-> 0,
           past |-> {}, unheard |-> FALSE, long |-> FALSE]

TypeOK ==
  /\ event \in Row \union {NoEvent}
  /\ channel \in [Channel -> {"none", "off", "on"}]
  /\ \A a \in Admin : req[a].row \in Row \union {NoEvent} /\ req[a].chan \in Channel \union {"none"}
  /\ left \in SUBSET Channel
  /\ \A c \in Channel : note[c].tries \in 0 .. MaxRetry /\ note[c].past \in SUBSET {"success", "failed"}
  /\ mixed \in BOOLEAN

Init ==
  /\ event = NoEvent
  /\ channel = [c \in Channel |-> "none"]
  /\ req = [a \in Admin |-> Idle]
  /\ left = {}
  /\ note = [c \in Channel |-> NoNote]
  /\ mixed = FALSE

-----------------------------------------------------------------------------
\* Requests on the event.  Whatever is enabled must list a channel.
Valid(row) == row.enabled => row.channels # {}

Read(a, request) ==
  /\ req[a] = Idle
  /\ req' = [req EXCEPT ![a] = request]
  /\ UNCHANGED <<event, channel, left, note, mixed>>

\* The request of a ends; others that read a row that goes are told apart from
\* those that read the row that is there.
End(a, goes(_)) ==
  req' = [b \in Admin |-> IF b = a THEN Idle
                          ELSE IF goes(b) THEN [req[b] EXCEPT !.gone = TRUE] ELSE req[b]]
Nobody(b) == FALSE

\* No event has the key yet; start-up adds the built-in ones, disabled.
CountPushEvents(a) ==
  /\ ~event.there
  /\ \E row \in {r \in Row : Valid(r)} : Read(a, [Idle EXCEPT !.op = "create", !.row = row])

SyncBuiltInEvents(a) ==
  /\ ~event.there
  /\ Read(a, [Idle EXCEPT !.op = "create", !.row = [NoEvent EXCEPT !.there = TRUE]])

\* The key is unique: the second of two that found none fails.
CreatePushEvent(a) ==
  /\ req[a].op = "create"
  /\ event' = IF event.there THEN event ELSE req[a].row
  /\ End(a, Nobody)
  /\ UNCHANGED <<channel, left, note, mixed>>

ReadForUpdate(a) ==
  /\ event.there
  /\ \E row \in {r \in Row : Valid(r)} : Read(a, [Idle EXCEPT !.op = "save", !.row = row])

Overlaps(a, op) == \E b \in Admin \ {a} : req[b].op = op

\* The whole row is written; one deleted in between is inserted again, unless
\* another has taken the key.
SavePushEvent(a) ==
  /\ req[a].op = "save"
  /\ event' = IF req[a].gone /\ event.there THEN event ELSE req[a].row
  /\ mixed' = (mixed \/ Overlaps(a, "toggle"))
  /\ End(a, Nobody)
  /\ UNCHANGED <<channel, left, note>>

\* A mutant of ReadForToggle: it does not look at the channels.
ReadForToggleUnlooked(a) == event.there /\ Read(a, [Idle EXCEPT !.op = "toggle", !.row = event])

\* The channels are looked at in the row that was read.
ReadForToggle(a) ==
  /\ event.there
  /\ event.enabled \/ event.channels # {}
  /\ Read(a, [Idle EXCEPT !.op = "toggle", !.row = event])

UpdatePushEventEnabled(a) ==
  /\ req[a].op = "toggle"
  /\ event' = IF req[a].gone THEN event ELSE [event EXCEPT !.enabled = ~req[a].row.enabled]
  /\ mixed' = (mixed \/ Overlaps(a, "save"))
  /\ End(a, Nobody)
  /\ UNCHANGED <<channel, left, note>>

ReadForDelete(a) == event.there /\ Read(a, [Idle EXCEPT !.op = "delete"])

DeletePushEvent(a) ==
  /\ req[a].op = "delete"
  /\ event' = IF req[a].gone THEN event ELSE NoEvent
  /\ End(a, LAMBDA b : ~req[a].gone /\ req[b].op \in {"save", "toggle", "delete"})
  /\ UNCHANGED <<channel, left, note, mixed>>

-----------------------------------------------------------------------------
\* Requests on a channel.
CountPushChannels(a, c) ==
  /\ channel[c] = "none"
  /\ Read(a, [Idle EXCEPT !.op = "add", !.chan = c])

\* The column's default is TRUE and a FALSE is taken for "not given": a channel
\* is inserted enabled whatever the request says.
CreatePushChannel(a) ==
  /\ req[a].op = "add"
  /\ channel' = [channel EXCEPT ![req[a].chan] = IF @ = "none" THEN "on" ELSE @]
  /\ End(a, Nobody)
  /\ UNCHANGED <<event, left, note, mixed>>

ReadChannel(a, c) ==
  /\ channel[c] # "none"
  /\ \E op \in {"on", "off", "drop"} : Read(a, [Idle EXCEPT !.op = op, !.chan = c])

SavePushChannel(a) ==
  /\ req[a].op \in {"on", "off"}
  /\ channel' = [channel EXCEPT ![req[a].chan] =
                   IF ~req[a].gone THEN req[a].op ELSE IF @ = "none" THEN "on" ELSE @]
  /\ End(a, Nobody)
  /\ UNCHANGED <<event, left, note, mixed>>

DeletePushChannel(a) ==
  /\ req[a].op = "drop"
  /\ channel' = [channel EXCEPT ![req[a].chan] = IF req[a].gone THEN @ ELSE "none"]
  /\ End(a, LAMBDA b : ~req[a].gone /\ req[b].chan = req[a].chan /\ req[b].op \in {"on", "off", "drop"})
  /\ UNCHANGED <<event, left, note, mixed>>

-----------------------------------------------------------------------------
\* The active event is looked up: the row, or a copy of it from when it was
\* active (RowCaches).
Trigger ==
  /\ left = {}
  /\ \E channels \in SUBSET Channel : left' = channels
  /\ UNCHANGED <<event, channel, req, note, mixed>>

\* An administrator has logged in; an attempt at a task has ended, well or not,
\* that of sending a notification included.
HandleAdminLogin    == Trigger
HandleTaskCompleted == Trigger

\* A channel that is not found, or disabled, is skipped.
SkipChannel(c) ==
  /\ c \in left
  /\ left' = left \ {c}
  /\ UNCHANGED <<event, channel, req, note, mixed>>

\* The channel as it is now goes into a task; nothing later changes it there.
\* A task that cannot be dispatched is only logged (SkipChannel).
EnqueuePushTask(c) ==
  /\ c \in left
  /\ left' = left \ {c}
  /\ note[c].at \in {"none", "done"}
  /\ \E type \in Type : note' = [note EXCEPT ![c] = [NoNote EXCEPT !.at = "queued", !.type = type]]
  /\ UNCHANGED <<event, channel, req, mixed>>

\* A test of a channel goes through the queue like any other notification.
TestChannel(c) ==
  /\ note[c].at \in {"none", "done"}
  /\ \E type \in Type : note' = [note EXCEPT ![c] = [NoNote EXCEPT !.at = "queued", !.type = type]]
  /\ UNCHANGED <<event, channel, req, left, mixed>>

-----------------------------------------------------------------------------
\* What the services answer, and what each sender takes for a success.
AnswersOf(type) ==
  CASE type = "custom"                -> Answer
    [] type = "lark"                  -> {"ok", "status", "body", "none"}
    [] type \in {"telegram", "email"} -> {"ok", "status", "none"}

\* A mutant of CustomTakes: the body of the answer is not looked at.
CustomTakesAnyBody(answer) == answer \in {"ok", "long", "body"}

CustomTakes(answer)   == answer \in {"ok", "long"}
LarkTakes(answer)     == answer = "ok"
TelegramTakes(answer) == answer = "ok"
EmailTakes(answer)    == answer = "ok"

Takes(type, answer) ==
  CASE type = "custom"   -> CustomTakes(answer)
    [] type = "lark"     -> LarkTakes(answer)
    [] type = "telegram" -> TelegramTakes(answer)
    [] type = "email"    -> EmailTakes(answer)

\* One message leaves: the service may have delivered what it did not answer.
Delivery(answer) == CASE answer = "ok" -> {1} [] answer = "none" -> {0, 1} [] OTHER -> {0}

Atmost2(n) == IF n > 2 THEN 2 ELSE n   \* enough to tell one from several

\* An attempt: a sender whose settings are incomplete sends nothing.  Telegram
\* is tried a second time, as plain text, after any failure of the first.
Answered(c, answer, number) ==
  [note[c] EXCEPT
     !.at      = IF Takes(note[c].type, answer) THEN "taken" ELSE "refused",
     !.sent    = Atmost2(@ + number),
     !.unheard = @ \/ answer = "none",
     !.long    = @ \/ answer = "long"]

Incomplete(c) ==
  /\ note[c].at = "queued"
  /\ note' = [note EXCEPT ![c].at = "refused"]
  /\ UNCHANGED <<event, channel, req, left, mixed>>

Send(c) ==
  /\ note[c].at \in {"queued", "again"}
  /\ \E answer \in AnswersOf(note[c].type) : \E number \in Delivery(answer) :
       note' = [note EXCEPT ![c] =
         IF note[c].type = "telegram" /\ note[c].at = "queued" /\ ~TelegramTakes(answer)
         THEN [Answered(c, answer, number) EXCEPT !.at = "again"]
         ELSE Answered(c, answer, number)]
  /\ UNCHANGED <<event, channel, req, left, mixed>>

\* The history gets a line for a success and for the failure of the last
\* attempt; a line that cannot be written is only logged.
Settle(c) ==
  LET final == note[c].tries = MaxRetry
      line  == IF note[c].at = "taken" THEN {"success"} ELSE IF final THEN {"failed"} ELSE {}
  IN /\ note[c].at \in {"taken", "refused"}
     /\ \E written \in SUBSET line :
          note' = [note EXCEPT ![c].past  = @ \union written,
                               ![c].at    = IF note[c].at = "taken" \/ final THEN "done" ELSE "queued",
                               ![c].tries = IF note[c].at = "taken" \/ final THEN @ ELSE @ + 1]
     /\ UNCHANGED <<event, channel, req, left, mixed>>

\* The worker dies after the message has left: the task comes back as another
\* attempt or, after the last one, is given up without a line.
Crash(c) ==
  /\ note[c].at \in {"again", "taken", "refused"}
  /\ note' = [note EXCEPT ![c].at      = IF note[c].tries = MaxRetry THEN "done" ELSE "queued",
                          ![c].tries   = IF @ = MaxRetry THEN @ ELSE @ + 1,
                          ![c].unheard = TRUE]
  /\ UNCHANGED <<event, channel, req, left, mixed>>

-----------------------------------------------------------------------------
\* What Configure changes Notify reads only through copies of any age, so that
\* each can be explored by itself.
Configure ==
  \/ \E a \in Admin :
       \/ CountPushEvents(a) \/ SyncBuiltInEvents(a) \/ CreatePushEvent(a)
       \/ ReadForUpdate(a) \/ SavePushEvent(a)
       \/ ReadForToggle(a) \/ UpdatePushEventEnabled(a)
       \/ ReadForDelete(a) \/ DeletePushEvent(a)
       \/ \E c \in Channel : CountPushChannels(a, c) \/ ReadChannel(a, c)
       \/ CreatePushChannel(a) \/ SavePushChannel(a) \/ DeletePushChannel(a)

Notify ==
  \/ HandleAdminLogin \/ HandleTaskCompleted
  \/ \E c \in Channel :
       \/ SkipChannel(c) \/ EnqueuePushTask(c) \/ TestChannel(c)
       \/ Incomplete(c) \/ Send(c) \/ Settle(c) \/ Crash(c)

Next == Configure \/ Notify

Spec == Init /\ [][Next]_vars

-----------------------------------------------------------------------------
(***************************************************************************)
(* Properties                                                              *)
(***************************************************************************)
\* An enabled event has a channel, or a toggle that looked at the channels of
\* one version of the row has enabled another (logics.go:147).
EnabledHasChannels == event.enabled => event.channels # {} \/ mixed

\* The history says success only of a message a service has taken, but for a
\* refusal too long to be read (custom.go:79); and nobody gets a message twice
\* unless an answer was lost or the worker died.
HistoryIsHonest ==
  \A c \in Channel :
    /\ "success" \in note[c].past => note[c].sent > 0 \/ note[c].long
    /\ note[c].sent > 1 => note[c].unheard
=============================================================================
