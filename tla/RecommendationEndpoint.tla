----------------------- MODULE RecommendationEndpoint -----------------------
(***************************************************************************)
(* The bulkhead of POST /v1/pricing/recommendations                        *)
(* (interfaces/api/app.py, recommend_price) and the worker threads it      *)
(* shares with every other route.                                          *)
(*                                                                         *)
(* A request runs its synchronous dependencies in a worker thread, waits   *)
(* for one of MaxConcurrency permits, and starts a task that runs the      *)
(* recommendation in a worker thread. The task keeps the permit until the  *)
(* work really ends; the request itself may be answered earlier, by the    *)
(* capacity deadline (503), by the inference deadline (504), or by the     *)
(* cancellation of its handler. Health probes need a worker thread too:    *)
(* their container dependency is a synchronous function.                   *)
(*                                                                         *)
(* Time is abstract: a deadline that is armed may pass at any moment. A    *)
(* client is one identifier that may come back once its last request has   *)
(* been answered and its work has ended.                                   *)
(*                                                                         *)
(* External: asyncio.Semaphore of CPython 3.12 (the image's interpreter),  *)
(* which hands permits over in arrival order, and the AnyIO worker-thread  *)
(* limiter (40 threads by default), which starts jobs in arrival order.    *)
(***************************************************************************)
EXTENDS Naturals, Sequences, FiniteSets

CONSTANTS
  Requests,        \* clients of the recommendation endpoint
  Probes,          \* clients of /health/live and /health/ready
  MaxConcurrency,  \* recommendation_max_concurrency
  Threads          \* worker threads of the process

ASSUME EndpointConstants ==
  /\ IsFiniteSet(Requests)
  /\ Requests \cap Probes = {}
  /\ MaxConcurrency \in Nat \ {0}
  /\ Threads \in Nat \ {0}

VARIABLES
  phase,    \* phase[c]: where the handler of client c stands
  answer,   \* answer[r]: how the last request of r ended
  work,     \* work[r]: the task started for r, which may outlive its handler
  value,    \* permits the semaphore holds
  waiters,  \* futures of the semaphore, in arrival order
  woken,    \* waiters whose future is done: the permit is theirs
  jobs,     \* jobs waiting for a thread, in arrival order
  busy      \* jobs that have a thread

semaphore == <<value, waiters, woken>>
pool == <<jobs, busy>>
vars == <<phase, answer, work, semaphore, pool>>

Phases == {"idle", "dependencies", "admitted", "queued", "executing", "answered"}
Answers == {"none", "completed", "rejected", "503", "504", "cancelled"}
WorkStates == {"none", "created", "pooled", "ended"}
Clients == Requests \cup Probes
Jobs == [kind : {"dependencies"}, of : Clients] \cup [kind : {"work"}, of : Requests]

Dependencies(c) == [kind |-> "dependencies", of |-> c]
Work(r) == [kind |-> "work", of |-> r]

Answer(r, a) ==
  /\ phase' = [phase EXCEPT ![r] = "answered"]
  /\ answer' = [answer EXCEPT ![r] = a]

----------------------------------------------------------------------------
(* Worker threads *)

StartJob ==
  /\ jobs # <<>>
  /\ Cardinality(busy) < Threads
  /\ busy' = busy \cup {Head(jobs)}
  /\ jobs' = Tail(jobs)
  /\ UNCHANGED <<phase, answer, work, semaphore>>

----------------------------------------------------------------------------
(* asyncio.Semaphore *)

Image(s) == {s[i] : i \in 1..Len(s)}

\* deque.remove: the first occurrence goes.
RemoveWaiter(r) ==
  LET i == CHOOSE i \in 1..Len(waiters) : waiters[i] = r
  IN  SubSeq(waiters, 1, i - 1) \o SubSeq(waiters, i + 1, Len(waiters))

\* The first waiters that sleep, at most "budget" of them.
FirstSleeping(budget, ws, wk) ==
  {ws[i] : i \in {i \in 1..Len(ws) :
                    /\ ws[i] \notin wk
                    /\ Cardinality({j \in 1..i : ws[j] \notin wk}) <= budget}}

\* _wake_up_next, called until the budget is spent: each one that is woken
\* takes its permit with it.
WakeUp(budget, free, ws, wk) ==
  LET next == FirstSleeping(budget, ws, wk)
  IN  /\ value' = free - Cardinality(next)
      /\ woken' = wk \cup next

\* Semaphore.locked(): also locked while anybody waits.
Locked == value = 0 \/ waiters # <<>>

\* Mutant: a waiter that gives up drops the permit it was just handed.
AbandonLosesPermit(r) ==
  /\ waiters' = RemoveWaiter(r)
  /\ WakeUp(value, value, waiters', woken \ {r})

\* The wait of r is abandoned: a permit it was just handed goes back, and
\* whatever is free now is handed on.
Abandon(r) ==
  LET free == IF r \in woken THEN value + 1 ELSE value
  IN  /\ waiters' = RemoveWaiter(r)
      /\ WakeUp(free, free, waiters', woken \ {r})

\* Mutant: the permit goes back but nobody is woken.
ReleaseWithoutWaking ==
  /\ value' = value + 1
  /\ UNCHANGED <<waiters, woken>>

\* release() wakes one waiter, even when more permits are free.
Release ==
  /\ WakeUp(1, value + 1, waiters, woken)
  /\ UNCHANGED waiters

----------------------------------------------------------------------------
(* Requests *)

Arrive(c) ==
  /\ phase[c] \in {"idle", "answered"}
  /\ c \in Requests => work[c] \in {"none", "ended"}
  /\ phase' = [phase EXCEPT ![c] = "dependencies"]
  /\ answer' = IF c \in Requests THEN [answer EXCEPT ![c] = "none"] ELSE answer
  /\ work' = IF c \in Requests THEN [work EXCEPT ![c] = "none"] ELSE work
  /\ jobs' = Append(jobs, Dependencies(c))
  /\ UNCHANGED <<semaphore, busy>>

\* authenticate_api_key, resolve_authorized_tenant, get_container, then
\* authorize_pricing_request: a rejection is 401, 403 or 422.
FinishDependencies(r) ==
  /\ Dependencies(r) \in busy
  /\ busy' = busy \ {Dependencies(r)}
  /\ \/ phase' = [phase EXCEPT ![r] = "admitted"] /\ UNCHANGED answer
     \/ Answer(r, "rejected")
  /\ UNCHANGED <<work, semaphore, jobs>>

\* The coroutine runs on from acquire() to create_task() without a pause.
StartTask(r) ==
  /\ phase' = [phase EXCEPT ![r] = "executing"]
  /\ work' = [work EXCEPT ![r] = "created"]

AcquireAtOnce(r) ==
  /\ phase[r] = "admitted"
  /\ ~Locked
  /\ value' = value - 1
  /\ StartTask(r)
  /\ UNCHANGED <<answer, waiters, woken, pool>>

AwaitPermit(r) ==
  /\ phase[r] = "admitted"
  /\ Locked
  /\ waiters' = Append(waiters, r)
  /\ phase' = [phase EXCEPT ![r] = "queued"]
  /\ UNCHANGED <<answer, work, value, woken, pool>>

Resume(r) ==
  /\ phase[r] = "queued"
  /\ r \in woken
  /\ waiters' = RemoveWaiter(r)
  /\ WakeUp(value, value, waiters', woken \ {r})
  /\ StartTask(r)
  /\ UNCHANGED <<answer, pool>>

CapacityTimeout(r) ==
  /\ phase[r] = "queued"
  /\ Abandon(r)
  /\ Answer(r, "503")
  /\ UNCHANGED <<work, pool>>

CancelQueued(r) ==
  /\ phase[r] = "queued"
  /\ Abandon(r)
  /\ Answer(r, "cancelled")
  /\ UNCHANGED <<work, pool>>

\* The response, or the exception the task raised.
Respond(r) ==
  /\ phase[r] = "executing"
  /\ work[r] = "ended"
  /\ Answer(r, "completed")
  /\ UNCHANGED <<work, semaphore, pool>>

\* Mutant: no shield, so the deadline cancels a task that has not started,
\* and its "finally" never runs.
DeadlineCancelsTask(r) ==
  /\ work' = IF work[r] = "created" THEN [work EXCEPT ![r] = "ended"] ELSE work
  /\ UNCHANGED semaphore

\* Mutant: the permit is released when the request is answered.
DeadlineReleases(r) ==
  IF work[r] # "ended" THEN work' = [work EXCEPT ![r] = "ended"] /\ Release
                       ELSE UNCHANGED <<work, semaphore>>

\* asyncio.shield: only the handler stops waiting.
DeadlineLeavesTask(r) == UNCHANGED <<work, semaphore>>

\* Mutant: the handler awaits its task without a deadline.
NoInferenceDeadline(r) == FALSE

InferenceTimeout(r) ==
  /\ phase[r] = "executing"
  /\ DeadlineLeavesTask(r)
  /\ Answer(r, "504")
  /\ UNCHANGED pool

CancelExecuting(r) ==
  /\ phase[r] = "executing"
  /\ DeadlineLeavesTask(r)
  /\ Answer(r, "cancelled")
  /\ UNCHANGED pool

----------------------------------------------------------------------------
(* The task: execute_with_slot *)

RunTask(r) ==
  /\ work[r] = "created"
  /\ work' = [work EXCEPT ![r] = "pooled"]
  /\ jobs' = Append(jobs, Work(r))
  /\ UNCHANGED <<phase, answer, semaphore, busy>>

\* The work ends, with a value or an exception; "finally" releases the permit.
FinishWork(r) ==
  /\ Work(r) \in busy
  /\ busy' = busy \ {Work(r)}
  /\ work' = [work EXCEPT ![r] = "ended"]
  /\ Release
  /\ UNCHANGED <<phase, answer, jobs>>

----------------------------------------------------------------------------
(* Health probes *)

FinishProbe(p) ==
  /\ Dependencies(p) \in busy
  /\ busy' = busy \ {Dependencies(p)}
  /\ phase' = [phase EXCEPT ![p] = "answered"]
  /\ UNCHANGED <<answer, work, semaphore, jobs>>

----------------------------------------------------------------------------
Init ==
  /\ phase = [c \in Clients |-> "idle"]
  /\ answer = [r \in Requests |-> "none"]
  /\ work = [r \in Requests |-> "none"]
  /\ value = MaxConcurrency
  /\ waiters = <<>>
  /\ woken = {}
  /\ jobs = <<>>
  /\ busy = {}

Proceed(r) ==
  \/ FinishDependencies(r)
  \/ AcquireAtOnce(r)
  \/ AwaitPermit(r)
  \/ Resume(r)
  \/ Respond(r)
  \/ RunTask(r)

DeadlinePasses(r) == CapacityTimeout(r) \/ InferenceTimeout(r)

Cancelled(r) == CancelQueued(r) \/ CancelExecuting(r)

Next ==
  \/ StartJob
  \/ \E c \in Clients : Arrive(c)
  \/ \E r \in Requests :
       Proceed(r) \/ DeadlinePasses(r) \/ Cancelled(r) \/ FinishWork(r)
  \/ \E p \in Probes : FinishProbe(p)

Spec == Init /\ [][Next]_vars

\* The event loop runs every ready callback, the pool starts its jobs, and the
\* synchronous dependencies, which only compare headers and settings, end.
LoopFairness ==
  /\ WF_vars(StartJob)
  /\ \A r \in Requests : WF_vars(Proceed(r))
  /\ \A p \in Probes : WF_vars(FinishProbe(p))

\* Every timer fires; nothing makes a recommendation end.
DeadlineSpec ==
  Spec /\ LoopFairness /\ \A r \in Requests : WF_vars(DeadlinePasses(r))

\* No timer needs to fire; recommendations end, as they compute without I/O.
EndingSpec ==
  Spec /\ LoopFairness /\ \A r \in Requests : WF_vars(FinishWork(r))

----------------------------------------------------------------------------
(* Properties *)

TypeOK ==
  /\ phase \in [Clients -> Phases]
  /\ answer \in [Requests -> Answers]
  /\ work \in [Requests -> WorkStates]
  /\ value \in 0..MaxConcurrency
  /\ waiters \in Seq(Requests)
  /\ woken \subseteq Requests
  /\ jobs \in Seq(Jobs)
  /\ busy \subseteq Jobs

\* Requests whose task holds a permit.
Holders == {r \in Requests : work[r] \in {"created", "pooled"}}

\* A permit is free, handed to a woken waiter, or held by a task: none is
\* lost and none is made up, whatever deadline or cancellation comes between.
PermitsConserved ==
  value + Cardinality(woken) + Cardinality(Holders) = MaxConcurrency

\* No more recommendations run than there are permits, counting those whose
\* request was answered long ago.
BoundedWork ==
  Cardinality({r \in Requests : Work(r) \in busy}) <= MaxConcurrency

\* While a permit is free, requests sleep on the semaphore only behind one that
\* is already woken and will hand on what is free: no request times out with
\* a 503 beside an idle bulkhead.
NoLostWakeup == value > 0 /\ Image(waiters) \ woken # {} => woken # {}

\* Every request is answered, even when no recommendation ever ends.
EveryRequestAnswered ==
  \A r \in Requests : phase[r] = "dependencies" ~> phase[r] = "answered"

\* Every probe is answered, even when no recommendation ever ends.
EveryProbeAnswered ==
  \A p \in Probes : phase[p] = "dependencies" ~> phase[p] = "answered"

\* The capacity deadline is not what ends a wait: as long as recommendations
\* end, every request that queues for a permit gets one or gives up by itself.
QueuedIsServed ==
  \A r \in Requests : phase[r] = "queued" ~> phase[r] # "queued"
============================================================================
