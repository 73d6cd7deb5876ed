----------------------------- MODULE FileServing -----------------------------
(***************************************************************************)
(* Requests for a compressed image.  The WebP is taken from the disk       *)
(* cache; when it is not there, one request makes it from the stored       *)
(* object, keeps it in the cache, and hands it to those that came          *)
(* meanwhile.  It works in the name of its own client: when that one has   *)
(* left, reading the object fails for all of them, and each of those that  *)
(* waited sends the original instead.                                      *)
(* One upload in one quality: the key of the cache holds both, and the     *)
(* time of the upload's last change.                                       *)
(***************************************************************************)
CONSTANT Request   \* in flight; one may be the task that fills the cache

VARIABLES
  entry,   \* the cache has the WebP
  req,     \* req[r]: what request r does
  left,    \* requests whose client has left
  flight,  \* the request that makes the WebP
  answer   \* answer[r]: what request r was answered

vars == <<entry, req, left, flight, answer>>

TypeOK ==
  /\ entry \in BOOLEAN
  /\ req \in [Request -> {"idle", "cache", "flight", "wait", "look", "read", "store", "original"}]
  /\ left \in SUBSET Request
  /\ flight \in {{}} \cup {{r} : r \in Request}
  /\ answer \in [Request -> {"none", "webp", "original", "not modified", "error"}]

Init ==
  /\ entry \in BOOLEAN
  /\ req = [r \in Request |-> "idle"] /\ left = {} /\ flight = {}
  /\ answer = [r \in Request |-> "none"]

Goto(r, at) == req' = [req EXCEPT ![r] = at]

\* The requests rs end with answer a.
Answer(rs, a) ==
  /\ req'    = [r \in Request |-> IF r \in rs THEN "idle" ELSE req[r]]
  /\ answer' = [r \in Request |-> IF r \in rs THEN a ELSE answer[r]]

-----------------------------------------------------------------------------
\* The upload is found and may be read by who asks, or an error is sent.
ServeFileByID(r) ==
  /\ req[r] = "idle"
  /\ left' = left \ {r}
  /\ \/ Goto(r, "cache")    /\ answer' = [answer EXCEPT ![r] = "none"]
     \/ Goto(r, "original") /\ answer' = [answer EXCEPT ![r] = "none"]
     \/ Answer({r}, "error")
  /\ UNCHANGED <<entry, flight>>

\* The client names the version it has: it is the upload's hash and the quality.
NotModified(r) ==
  /\ req[r] \in {"cache", "original"} /\ answer[r] = "none"
  /\ Answer({r}, "not modified")
  /\ UNCHANGED <<entry, left, flight>>

\* The cache answers, has no such key, or fails.
EnsureCompressedImageCache(r) ==
  /\ req[r] = "cache"
  /\ \/ entry /\ Answer({r}, "webp")
     \/ ~entry /\ Goto(r, "flight") /\ UNCHANGED answer
     \/ Goto(r, "original") /\ UNCHANGED answer
  /\ UNCHANGED <<entry, left, flight>>

Join(r) ==
  /\ req[r] = "flight" /\ flight # {}
  /\ Goto(r, "wait")
  /\ UNCHANGED <<entry, left, flight, answer>>

\* A mutant of Lead: the cache is not asked again.
LeadUnlooked(r) ==
  /\ req[r] = "flight" /\ flight = {}
  /\ flight' = {r} /\ Goto(r, "read")
  /\ UNCHANGED <<entry, left, answer>>

Lead(r) ==
  /\ req[r] = "flight" /\ flight = {}
  /\ flight' = {r} /\ Goto(r, "look")
  /\ UNCHANGED <<entry, left, answer>>

\* What the request that leads gets is what all get that wait; an error sends each
\* to the original.
Waiting(r) == {r} \cup {q \in Request : req[q] = "wait"}

ReturnWebP(r) == flight' = {} /\ Answer(Waiting(r), "webp")

ReturnError(r) ==
  /\ flight' = {}
  /\ req' = [q \in Request |-> IF q \in Waiting(r) THEN "original" ELSE req[q]]
  /\ UNCHANGED answer

\* While it waited to lead, another may have made it.
LookAgain(r) ==
  /\ req[r] = "look"
  /\ \/ entry /\ ReturnWebP(r)
     \/ ~entry /\ Goto(r, "read") /\ UNCHANGED <<flight, answer>>
     \/ ReturnError(r)
  /\ UNCHANGED <<entry, left>>

\* The original is read, for the client of r, and compressed.
GenerateCompressedImage(r) ==
  /\ req[r] = "read"
  /\ \/ r \notin left /\ Goto(r, "store") /\ UNCHANGED <<flight, answer>>
     \/ ReturnError(r)
  /\ UNCHANGED <<entry, left>>

\* A WebP that cannot be kept is sent all the same.
StoreCompressedImage(r) ==
  /\ req[r] = "store"
  /\ entry' \in {TRUE, entry}
  /\ ReturnWebP(r)
  /\ UNCHANGED left

ServeOriginal(r) ==
  /\ req[r] = "original"
  /\ \/ r \notin left /\ Answer({r}, "original")
     \/ Answer({r}, "error")
  /\ UNCHANGED <<entry, left, flight>>

-----------------------------------------------------------------------------
Leave(r) ==
  /\ req[r] # "idle" /\ left' = left \cup {r}
  /\ UNCHANGED <<entry, req, flight, answer>>

\* The cache is full, cleared, or has lost the file.
Evict ==
  /\ entry /\ entry' = FALSE
  /\ UNCHANGED <<req, left, flight, answer>>

Serve(r) ==
  \/ NotModified(r) \/ EnsureCompressedImageCache(r)
  \/ Join(r) \/ Lead(r) \/ LookAgain(r) \/ GenerateCompressedImage(r)
  \/ StoreCompressedImage(r) \/ ServeOriginal(r)

Next == (\E r \in Request : ServeFileByID(r) \/ Serve(r) \/ Leave(r)) \/ Evict

Spec == Init /\ [][Next]_vars

-----------------------------------------------------------------------------
\* An image that is in the cache is not made again, whoever comes while it is made
\* or just before it is kept (apps/upload/filesrv/file_server.go:220); and none waits
\* for a request that has ended.
MadeOnce ==
  /\ \A r \in Request : req[r] \in {"read", "store"} => ~entry /\ flight = {r}
  /\ flight = {} => \A r \in Request : req[r] # "wait"
=============================================================================
