--------------------------- MODULE AccessLogWriter ---------------------------
(***************************************************************************)
(* The access log of the API: requests put one item each into a buffered   *)
(* channel, a goroutine writes them in batches, and the shutdown of the    *)
(* process closes the channel (src/internal/db/batchwriter/writer.go,      *)
(* src/internal/apps/risk_control, src/internal/router/router.go).  An     *)
(* item is named by its request; the order of the items is left out.       *)
(***************************************************************************)
EXTENDS Integers, FiniteSets

CONSTANTS
  Item,
  QueueSize, MaxBatchSize,  \* of batchwriter.Config
  Stopper                   \* calls of Stop

VARIABLES
  ch,       \* w.ch: "nil", "open" or "closed"
  queue,    \* items in the channel
  worker,   \* the goroutine: "none", "loop", "flush", "last" (its deferred flush), "done"
  batch,    \* items it has taken
  flushed,  \* items handed to the flush function
  again,    \* an item was handed to it a second time
  request,  \* of each item: not there yet, in the handler, about to send, and how it ended
  stop,     \* calls of Stop: "no", "closing", "wait", "nil" or "err" as they returned
  server    \* "up"; "drain": srv.Shutdown; "stop", after it: "clean" or "forced"; "exited"

vars == <<ch, queue, worker, batch, flushed, again, request, stop, server>>

Outcome == {"accepted", "dropped", "panicked", "refused", "unlogged"}

TypeOK ==
  /\ ch      \in {"nil", "open", "closed"}
  /\ queue   \in SUBSET Item /\ Cardinality(queue) <= QueueSize
  /\ worker  \in {"none", "loop", "flush", "last", "done"}
  /\ batch   \in SUBSET Item /\ Cardinality(batch) <= MaxBatchSize
  /\ flushed \in SUBSET Item
  /\ again   \in BOOLEAN
  /\ request \in [Item -> {"none", "handler", "send"} \cup Outcome]
  /\ stop    \in [Stopper -> {"no", "closing", "wait", "nil", "err"}]
  /\ server  \in {"up", "drain", "clean", "forced", "exited"}

Init ==
  /\ ch = "nil" /\ queue = {} /\ worker = "none" /\ batch = {} /\ flushed = {} /\ again = FALSE
  /\ request = [i \in Item |-> "none"]
  /\ stop = [s \in Stopper |-> "no"]
  /\ server = "up"

Alive    == server # "exited"
InFlight == {i \in Item : request[i] \in {"handler", "send"}}

-----------------------------------------------------------------------------
\* InitLogWriter, before the server listens: the channel and its goroutine.
Start ==
  /\ server = "up" /\ ch = "nil"
  /\ ch' = "open" /\ worker' = "loop"
  /\ UNCHANGED <<queue, batch, flushed, again, request, stop, server>>

\* RiskControlMiddleware: the request is refused while the queue is full.
Arrive(i) ==
  /\ server = "up" /\ ch # "nil" /\ request[i] = "none"
  /\ request' = [request EXCEPT ![i] = IF Cardinality(queue) < QueueSize THEN "handler" ELSE "refused"]
  /\ UNCHANGED <<ch, queue, worker, batch, flushed, again, stop, server>>

\* The handler is through; only a request with a user is logged.
Handled(i) ==
  /\ Alive /\ request[i] = "handler"
  /\ \E next \in {"send", "unlogged"} : request' = [request EXCEPT ![i] = next]
  /\ UNCHANGED <<ch, queue, worker, batch, flushed, again, stop, server>>

\* TryEnqueue: the select sends, finds the channel full, or meets a closed channel.
TryEnqueue(i) ==
  /\ Alive /\ request[i] = "send"
  /\ \/ /\ ch = "closed"
        /\ request' = [request EXCEPT ![i] = "panicked"] /\ UNCHANGED queue
     \/ /\ ch = "open" /\ Cardinality(queue) < QueueSize
        /\ request' = [request EXCEPT ![i] = "accepted"] /\ queue' = queue \cup {i}
     \/ /\ ch = "open" /\ Cardinality(queue) >= QueueSize
        /\ request' = [request EXCEPT ![i] = "dropped"] /\ UNCHANGED queue
  /\ UNCHANGED <<ch, worker, batch, flushed, again, stop, server>>

-----------------------------------------------------------------------------
\* run: an item from the channel; a batch that is full is flushed at once.
Receive(i) ==
  /\ Alive /\ worker = "loop" /\ i \in queue
  /\ queue' = queue \ {i} /\ batch' = batch \cup {i}
  /\ worker' = IF Cardinality(batch') >= MaxBatchSize THEN "flush" ELSE "loop"
  /\ UNCHANGED <<ch, flushed, again, request, stop, server>>

\* The ticker.
Tick ==
  /\ Alive /\ worker = "loop" /\ batch # {} /\ worker' = "flush"
  /\ UNCHANGED <<ch, queue, batch, flushed, again, request, stop, server>>

\* A mutant of Closed: the loop ends without a last flush.
ClosedAtOnce ==
  /\ Alive /\ worker = "loop" /\ ch = "closed" /\ queue = {} /\ worker' = "done"
  /\ UNCHANGED <<ch, queue, batch, flushed, again, request, stop, server>>

\* A closed channel that is empty ends the loop; the deferred flush is left to do.
Closed ==
  /\ Alive /\ worker = "loop" /\ ch = "closed" /\ queue = {} /\ worker' = "last"
  /\ UNCHANGED <<ch, queue, batch, flushed, again, request, stop, server>>

\* flush hands the batch over and empties it, whether the insert works or not.
Flush ==
  /\ Alive /\ worker \in {"flush", "last"}
  /\ flushed' = flushed \cup batch
  /\ again'   = (again \/ batch \cap flushed # {})
  /\ batch'   = {}
  /\ worker'  = IF worker = "last" THEN "done" ELSE "loop"
  /\ UNCHANGED <<ch, queue, request, stop, server>>

-----------------------------------------------------------------------------
\* SIGTERM: srv.Shutdown takes no more requests and waits for those it has ...
Shutdown ==
  /\ server = "up" /\ server' = "drain"
  /\ UNCHANGED <<ch, queue, worker, batch, flushed, again, request, stop>>

\* ... until they are through, or its time is up and they go on.
Drained ==
  /\ server = "drain"
  /\ \/ InFlight = {} /\ server' = "clean"
     \/ server' = "forced"
  /\ UNCHANGED <<ch, queue, worker, batch, flushed, again, request, stop>>

\* bootstrap.Stop runs the shutdown hooks, StopLogWriter among them.
StopBegin(s) ==
  /\ server \in {"clean", "forced"} /\ stop[s] = "no"
  /\ stop' = [stop EXCEPT ![s] = IF ch = "nil" THEN "nil" ELSE "closing"]
  /\ UNCHANGED <<ch, queue, worker, batch, flushed, again, request, server>>

\* close(ch), once.
Close(s) ==
  /\ Alive /\ stop[s] = "closing"
  /\ ch' = "closed" /\ stop' = [stop EXCEPT ![s] = "wait"]
  /\ UNCHANGED <<queue, worker, batch, flushed, again, request, server>>

\* The worker is done, or the context is.
StopEnd(s) ==
  /\ Alive /\ stop[s] = "wait"
  /\ \/ worker = "done" /\ stop' = [stop EXCEPT ![s] = "nil"]
     \/ stop' = [stop EXCEPT ![s] = "err"]
  /\ UNCHANGED <<ch, queue, worker, batch, flushed, again, request, server>>

\* The process ends when the hooks are through or the time is up.
Exit ==
  /\ server \in {"clean", "forced"} /\ \E s \in Stopper : stop[s] # "no"
  /\ server' = "exited"
  /\ UNCHANGED <<ch, queue, worker, batch, flushed, again, request, stop>>

\* Nothing runs in a process that has ended.
Ended == server = "exited" /\ UNCHANGED vars

Next ==
  \/ Start \/ Tick \/ Closed \/ Flush \/ Shutdown \/ Drained \/ Exit \/ Ended
  \/ \E i \in Item : Arrive(i) \/ Handled(i) \/ TryEnqueue(i) \/ Receive(i)
  \/ \E s \in Stopper : StopBegin(s) \/ Close(s) \/ StopEnd(s)

Spec == Init /\ [][Next]_vars

-----------------------------------------------------------------------------
Accepted == {i \in Item : request[i] = "accepted"}

\* An item TryEnqueue accepted is handed to the flush once, and a Stop that returns
\* nil comes after all of them, those sent while it was being called too
\* (src/internal/db/batchwriter/writer.go:88).
StopMeansFlushed ==
  /\ ~ again
  /\ \A s \in Stopper : stop[s] = "nil" => flushed = Accepted
=============================================================================
