------------------------------ MODULE WakeQueue ------------------------------
(***************************************************************************)
(* The wake queue: requests for a sleeping preview share one promise per   *)
(* preview, previews are woken first in first out, a few at a time.  A job *)
(* settles its promise before the microtask that forgets the promise runs; *)
(* a request in between joins a promise that is settled already.           *)
(***************************************************************************)
EXTENDS Naturals, FiniteSets, Sequences

CONSTANTS WakeKey,          \* the previews, <projectSlug>/<branchSlug>
          WakeCaller,       \* requests that wait for a wake
          WakeConcurrency   \* PREVIA_DEPLOY_CONCURRENCY

ASSUME WakeAssumption ==
  /\ WakeConcurrency \in Nat \ {0} /\ IsFiniteSet(WakeKey) /\ "none" \notin WakeKey

VARIABLES
  pending,      \* queue: the keys of the jobs not started
  activeCount,  \* jobs started and not ended, as pump counts them
  waking,       \* the keys whose job runs
  inflight,     \* the keys of the map of promises
  awaits        \* awaits[c]: the key whose promise c awaits

wakeVars == <<pending, activeCount, waking, inflight, awaits>>

-----------------------------------------------------------------------------
Keys(q) == {q[n] : n \in 1..Len(q)}

\* pump: the jobs at the head of q start while fewer than the bound run.
Heads(q, count) ==
  IF count >= WakeConcurrency THEN 0
  ELSE LET free == WakeConcurrency - count IN IF Len(q) < free THEN Len(q) ELSE free

\* Mutant of Pump: the newest job is started first.
PumpNewest(q, count, running) ==
  LET n == Heads(q, count) IN
  /\ pending' = SubSeq(q, 1, Len(q) - n)
  /\ activeCount' = count + n
  /\ waking' = running \cup Keys(SubSeq(q, Len(q) - n + 1, Len(q)))

Pump(q, count, running) ==
  LET n == Heads(q, count) IN
  /\ pending' = SubSeq(q, n + 1, Len(q))
  /\ activeCount' = count + n
  /\ waking' = running \cup Keys(SubSeq(q, 1, n))

\* enqueue
EnqueueWake(c, k) ==
  /\ awaits[c] = "none"
  /\ awaits' = [awaits EXCEPT ![c] = k]
  /\ IF k \in inflight THEN UNCHANGED <<pending, activeCount, waking, inflight>>
     ELSE /\ inflight' = inflight \cup {k}
          /\ Pump(Append(pending, k), activeCount, waking)

\* runJob settles the promise, gives its place back and pumps.
WakeEnds(k) ==
  /\ k \in waking
  /\ Pump(pending, activeCount - 1, waking \ {k})
  /\ UNCHANGED <<inflight, awaits>>

Settled == inflight \ (waking \cup Keys(pending))

\* Mutant of ForgetWake: the map is cleared while the job runs.
ForgetRunning(k) ==
  /\ k \in inflight \ Keys(pending)
  /\ inflight' = inflight \ {k}
  /\ awaits' = [c \in WakeCaller |-> IF awaits[c] = k /\ k \in Settled
                                    THEN "none" ELSE awaits[c]]
  /\ UNCHANGED <<pending, activeCount, waking>>

\* promise.finally, registered first, and the continuations of the callers.
ForgetWake(k) ==
  /\ k \in Settled
  /\ inflight' = inflight \ {k}
  /\ awaits' = [c \in WakeCaller |-> IF awaits[c] = k THEN "none" ELSE awaits[c]]
  /\ UNCHANGED <<pending, activeCount, waking>>

WakeInit ==
  /\ pending = <<>> /\ activeCount = 0 /\ waking = {} /\ inflight = {}
  /\ awaits = [c \in WakeCaller |-> "none"]

WakeNext ==
  \/ \E c \in WakeCaller, k \in WakeKey : EnqueueWake(c, k)
  \/ \E k \in WakeKey : WakeEnds(k) \/ ForgetWake(k)

WakeSpec == WakeInit /\ [][WakeNext]_wakeVars

\* A resume ends, with a result or an error, and the event loop runs the
\* continuations of a promise that is settled.
WakeFairness ==
  \A k \in WakeKey : WF_wakeVars(WakeEnds(k)) /\ WF_wakeVars(ForgetWake(k))

-----------------------------------------------------------------------------
\* Type invariant: the queue, the map of promises and their callers are about previews.
WakeTypeOK ==
  /\ pending \in Seq(WakeKey) /\ activeCount \in Nat
  /\ waking \subseteq WakeKey /\ inflight \subseteq WakeKey
  /\ awaits \in [WakeCaller -> WakeKey \cup {"none"}]

\* A preview is woken by one job at a time: whatever was joined or forgotten, no
\* preview is twice in the queue, or there and at work, and everyone who is has
\* a promise that others can join.
OneWakePerKey ==
  /\ \A m, n \in 1..Len(pending) : pending[m] = pending[n] => m = n
  /\ \A n \in 1..Len(pending) : pending[n] \notin waking /\ pending[n] \in inflight
  /\ waking \subseteq inflight

\* The count that bounds the wakes is the number of jobs that run, through
\* successes, failures and starts, so that no more than the bound run and no
\* place is lost; and nobody is left in the queue while a place is free.
WakePlaces ==
  /\ activeCount = Cardinality(waking) /\ activeCount <= WakeConcurrency
  /\ pending # <<>> => activeCount = WakeConcurrency

\* One job per preview, in at most the places there are: the queue, the map of
\* promises and the count of wake-queue.ts agree after every enqueue and end.
WakeQueueAgrees == OneWakePerKey /\ WakePlaces

\* Every request is answered, though others keep asking (wake.controller.ts
\* awaits ensureAwake before it redirects).
WakesAnswered == \A c \in WakeCaller : awaits[c] # "none" ~> awaits[c] = "none"

=============================================================================
