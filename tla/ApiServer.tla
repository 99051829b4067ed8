----------------------------- MODULE ApiServer -----------------------------
(***************************************************************************)
(* The Kubernetes API server as a controller uses it through the client of *)
(* controller-runtime, for any kinds of objects: optimistic concurrency    *)
(* (every write names the resourceVersion it was computed from), informer  *)
(* caches that follow the server at their own pace, a work queue of        *)
(* reconcile requests, requeue timers, and users who edit and delete.      *)
(*                                                                         *)
(* A resourceVersion is only ever compared for equality, so it is not      *)
(* numbered: current[h] is the set of objects of which h holds a copy      *)
(* whose resourceVersion is the server's.                                  *)
(***************************************************************************)
EXTENDS Naturals

CONSTANTS
  Objects,           \* what may be stored
  Requests,          \* the objects that are reconciled
  Holders,           \* who keeps copies: "cache" (the informers) and workers
  Watchers(_),       \* For() and Owns(): the requests an event is mapped to
  SameSecond(_, _),  \* may a save of this object by this worker change nothing?
  Lag,               \* kinds of object whose informer may lag
  Disturbances,      \* what users, the network and the kubelet may do
  Absent             \* no such object

VARIABLES
  store,     \* the API server: [Objects -> content or Absent]
  cache,     \* what the lagging informers hold
  current,   \* [Holders -> objects held at the server's resourceVersion]
  due,       \* requests in the work queues
  timer,     \* for each request, the timer that will queue it again
  process,   \* the operator's process: "running", "killed" or "panicked"
  budget     \* disturbances still to come

-----------------------------------------------------------------------------
(* The client. *)

Exists(o) == store[o] # Absent

(* Get and List read the informer; UpToDate says that what they return     *)
(* carries the server's resourceVersion.                                   *)
Cached(o)   == IF o[1] \in Lag THEN cache[o] ELSE store[o]
UpToDate(o) == o[1] \in Lag => o \in current["cache"]

(* h keeps its copies of held and reads objs.                              *)
Got(h, held, objs) ==
  current' = [current EXCEPT ![h] = (@ \cap held) \cup {o \in objs : UpToDate(o)}]

(* The server stores v: every other copy of o is now out of date. An       *)
(* informer that does not lag has the event at once, another one later.    *)
Put(h, o, v, held) ==
  /\ store' = [store EXCEPT ![o] = v]
  /\ current' = [g \in Holders |->
       IF g = h THEN (current[g] \cup {o}) \cap held
       ELSE IF g = "cache" /\ o[1] \notin Lag THEN current[g] ELSE current[g] \ {o}]
  /\ due' = IF o[1] \in Lag THEN due ELSE due \cup Watchers(o)

Disturb(kind) ==
  /\ kind \in Disturbances
  /\ budget > 0
  /\ budget' = budget - 1

(* A create, update or delete that h sends for o. The server accepts it    *)
(* when allowed; an update that changes nothing, timestamps included,      *)
(* leaves the resourceVersion alone and causes no event. It refuses it     *)
(* otherwise (conflict, already exists, not found). The network may lose   *)
(* the request or only the answer.                                         *)
Send(h, o, allowed, v, held, ok, refused, lost) ==
  /\ UNCHANGED <<cache, process>>
  /\ \/ /\ allowed
        /\ Put(h, o, v, held)
        /\ ok
        /\ UNCHANGED budget
     \/ /\ allowed
        /\ v = store[o] /\ SameSecond(h, o)
        /\ current' = [current EXCEPT ![h] = @ \cap held]
        /\ ok
        /\ UNCHANGED <<store, due, budget>>
     \/ /\ ~allowed
        /\ current' = [current EXCEPT ![h] = @ \cap held]
        /\ refused
        /\ UNCHANGED <<store, due, budget>>
     \/ /\ Disturb("fault")
        /\ \/ allowed /\ Put(h, o, v, held \ {o})
           \/ /\ current' = [current EXCEPT ![h] = @ \cap held]
              /\ UNCHANGED <<store, due>>
        /\ lost

Create(h, o, v, held, ok, error) == Send(h, o, ~Exists(o), v, held, ok, error, error)
Update(h, o, v, held, ok, error) ==
  Send(h, o, Exists(o) /\ o \in current[h], v, held, ok, error, error)

-----------------------------------------------------------------------------
(* Informers, work queues and timers.                                      *)

(* A lagging watch delivers the newest state of o.                         *)
Deliver(o) ==
  /\ process = "running"
  /\ o \notin current["cache"]
  /\ current' = [current EXCEPT !["cache"] = @ \cup {o}]
  /\ cache' = [cache EXCEPT ![o] = store[o]]
  /\ due' = due \cup Watchers(o)
  /\ UNCHANGED <<store, timer, process, budget>>

(* The delaying queue keeps the earlier of two deadlines of a request. An  *)
(* error is retried after a backoff (seconds), a RequeueAfter is a minute  *)
(* or five.                                                                *)
Backoff(r) == timer' = [timer EXCEPT ![r] = "backoff"]
RequeueAfter(r) == timer' = [timer EXCEPT ![r] = IF @ = "backoff" THEN @ ELSE "period"]

TimerFires(r) ==
  /\ process = "running"
  /\ timer[r] # "none"
  /\ timer' = [timer EXCEPT ![r] = "none"]
  /\ due' = due \cup {r}
  /\ UNCHANGED <<store, cache, current, process, budget>>

-----------------------------------------------------------------------------
(* Users.                                                                  *)

ByUser(kind, o, v) ==
  /\ Disturb(kind)
  /\ Put("user", o, v, {})
  /\ UNCHANGED <<cache, timer, process>>

(* A finalizer keeps a deleted object until it is removed.                 *)
Delete(kind, o) ==
  /\ Exists(o) /\ ~store[o].deleting
  /\ ByUser(kind, o, IF store[o].fin THEN [store[o] EXCEPT !.deleting = TRUE] ELSE Absent)

-----------------------------------------------------------------------------
(* Before the controllers start, the caches are filled by a list, and      *)
(* every listed object is an event.                                        *)
Relist ==
  /\ cache' = [o \in Objects |-> IF o[1] \in Lag THEN store[o] ELSE Absent]
  /\ current' = [h \in Holders |-> IF h = "cache" THEN Objects ELSE {}]
  /\ due' = UNION {Watchers(o) : o \in {p \in Objects : Exists(p)}}
  /\ timer' = [r \in Requests |-> "none"]

=============================================================================
