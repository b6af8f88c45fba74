--------------------------- MODULE Progress_proofs ---------------------------
(***************************************************************************)
(* Theorems about the loops of MCProgress: the wake queue, the operations  *)
(* over many previews, the metrics collector and the page, each for any    *)
(* values of its constants, and the types of all of them.                  *)
(***************************************************************************)
EXTENDS MCProgress, FiniteSetTheorems, TLAPS

-----------------------------------------------------------------------------
(* The wake queue                                                          *)

\* Each element of q stands there once.
Distinct(q) == \A m, n \in 1..Len(q) : q[m] = q[n] => m = n

\* The keys that have a job which has not ended.
Alive(q, running) == Keys(q) \cup running

WakeInv == WakeTypeOK /\ WakeQueueAgrees

-----------------------------------------------------------------------------
(* What pump takes from the queue.                                         *)

\* As many keys as elements, if each stands there once.
LEMMA DistinctKeys ==
  ASSUME NEW s \in Seq(WakeKey), Distinct(s)
  PROVE  IsFiniteSet(Keys(s)) /\ Cardinality(Keys(s)) = Len(s)
<1> DEFINE f == [i \in 1..Len(s) |-> s[i]]
<1>1. f \in Surjection(1..Len(s), Keys(s))
  BY DEF Surjection, Keys
<1>2. f \in Injection(1..Len(s), Keys(s))
  BY DEF Injection, IsInjective, Keys, Distinct
<1>3. IsFiniteSet(1..Len(s)) /\ Cardinality(1..Len(s)) = Len(s)
  <2>1. Len(s) \in Nat /\ Len(s) \in Int /\ 1 \in Int
    OBVIOUS
  <2>2. /\ IsFiniteSet(1..Len(s))
        /\ Cardinality(1..Len(s)) = IF 1 > Len(s) THEN 0 ELSE Len(s) - 1 + 1
    BY <2>1, FS_Interval
  <2> QED BY <2>1, <2>2
<1> HIDE DEF f
<1> QED BY <1>1, <1>2, <1>3, FS_Surjection

LEMMA HeadsType ==
  ASSUME NEW q \in Seq(WakeKey), NEW count \in Nat
  PROVE  /\ Heads(q, count) \in 0..Len(q)
         /\ count <= WakeConcurrency => count + Heads(q, count) <= WakeConcurrency
         /\ Heads(q, count) < Len(q) => count + Heads(q, count) >= WakeConcurrency
BY WakeAssumption DEF Heads

\* The head that starts and the rest that waits share nothing and are all of q.
LEMMA HeadAndRest ==
  ASSUME NEW q \in Seq(WakeKey), Distinct(q), NEW n \in 0..Len(q)
  PROVE  LET head == SubSeq(q, 1, n)
             rest == SubSeq(q, n + 1, Len(q))
         IN  /\ head \in Seq(WakeKey) /\ rest \in Seq(WakeKey)
             /\ Distinct(head) /\ Distinct(rest)
             /\ Len(head) = n /\ Len(rest) = Len(q) - n
             /\ Keys(head) \cap Keys(rest) = {}
             /\ Keys(head) \cup Keys(rest) = Keys(q)
<1> DEFINE head == SubSeq(q, 1, n)
           rest == SubSeq(q, n + 1, Len(q))
<1>1. head \in Seq(WakeKey) /\ Len(head) = n /\ \A i \in 1..n : head[i] = q[i]
  OBVIOUS
<1>2. /\ rest \in Seq(WakeKey) /\ Len(rest) = Len(q) - n
      /\ \A i \in 1..(Len(q) - n) : rest[i] = q[n + i]
  OBVIOUS
<1> HIDE DEF head, rest
<1>3. Distinct(head) /\ Distinct(rest)
  <2>1. Distinct(head)
    BY <1>1 DEF Distinct
  <2>2. ASSUME NEW i \in 1..Len(rest), NEW j \in 1..Len(rest), rest[i] = rest[j]
        PROVE  i = j
    <3>1. n + i \in 1..Len(q) /\ n + j \in 1..Len(q) /\ q[n + i] = q[n + j]
      BY <1>2, <2>2
    <3>2. n + i = n + j
      BY <3>1 DEF Distinct
    <3> QED BY <1>2, <3>2
  <2> QED BY <2>1, <2>2 DEF Distinct
<1>4. Keys(head) \cap Keys(rest) = {}
  BY <1>1, <1>2 DEF Distinct, Keys
<1>5. Keys(head) \cup Keys(rest) = Keys(q)
  <2>1. Keys(head) \subseteq Keys(q) /\ Keys(rest) \subseteq Keys(q)
    <3>1. Keys(head) \subseteq Keys(q)
      BY <1>1 DEF Keys
    <3>2. \A i \in 1..(Len(q) - n) : n + i \in 1..Len(q)
      OBVIOUS
    <3>3. Keys(rest) \subseteq Keys(q)
      BY <1>2, <3>2 DEF Keys
    <3> QED BY <3>1, <3>3
  <2>2. ASSUME NEW i \in 1..Len(q) PROVE q[i] \in Keys(head) \cup Keys(rest)
    <3>1. CASE i <= n
      BY <3>1, <1>1 DEF Keys
    <3>2. CASE i > n
      <4>1. i - n \in 1..(Len(q) - n) /\ n + (i - n) = i
        BY <3>2
      <4>2. rest[i - n] = q[i]
        BY <4>1, <1>2
      <4> QED BY <4>1, <4>2, <1>2 DEF Keys
    <3> QED BY <3>1, <3>2
  <2> QED BY <2>1, <2>2 DEF Keys
<1> QED BY <1>1, <1>2, <1>3, <1>4, <1>5 DEF head, rest

\* A pump from a count that is right leaves it right: every free place is taken while
\* somebody waits, by jobs that were in the queue, and nobody is lost.
LEMMA PumpKeepsPlaces ==
  ASSUME NEW q \in Seq(WakeKey), Distinct(q), NEW running \in SUBSET WakeKey,
         Keys(q) \cap running = {}, NEW count \in Nat,
         count = Cardinality(running), count <= WakeConcurrency, Pump(q, count, running)
  PROVE  /\ pending' \in Seq(WakeKey) /\ Distinct(pending')
         /\ waking' \subseteq WakeKey /\ Keys(pending') \cap waking' = {}
         /\ activeCount' \in Nat /\ WakePlaces'
         /\ Alive(pending', waking') = Alive(q, running)
<1> DEFINE n == Heads(q, count)
           head == SubSeq(q, 1, n)
<1>1. /\ n \in 0..Len(q) /\ count + n <= WakeConcurrency
      /\ n < Len(q) => count + n >= WakeConcurrency
  BY HeadsType
<1>2. pending' = SubSeq(q, n + 1, Len(q)) /\ activeCount' = count + n
      /\ waking' = running \cup Keys(head)
  BY DEF Pump
<1> HIDE DEF n
<1>3. /\ head \in Seq(WakeKey) /\ pending' \in Seq(WakeKey)
      /\ Distinct(head) /\ Distinct(pending') /\ Len(head) = n /\ Len(pending') = Len(q) - n
      /\ Keys(head) \cap Keys(pending') = {} /\ Keys(head) \cup Keys(pending') = Keys(q)
  BY <1>1, <1>2, HeadAndRest
<1> HIDE DEF head
<1>4. IsFiniteSet(running) /\ IsFiniteSet(Keys(head)) /\ Cardinality(Keys(head)) = n
  BY <1>3, DistinctKeys, FS_Subset, WakeAssumption
<1>5. running \cap Keys(head) = {}
  BY <1>3
<1>6. Cardinality(running \cup Keys(head)) = count + n
  <2>1. Cardinality(running \cap Keys(head)) = 0
    BY <1>5, FS_EmptySet
  <2>2. Cardinality(running \cup Keys(head)) = count + n - Cardinality(running \cap Keys(head))
    BY <1>4, FS_Union
  <2> QED BY <1>1, <2>1, <2>2
<1>7. WakePlaces'
  <2>1. pending' # <<>> => Len(pending') > 0
    BY <1>3
  <2> QED BY <1>1, <1>2, <1>3, <1>6, <2>1, WakeAssumption DEF WakePlaces
<1>8. Keys(head) \subseteq WakeKey
  BY <1>3 DEF Keys
<1> QED BY <1>1, <1>2, <1>3, <1>5, <1>7, <1>8 DEF Alive

\* OneWakePerKey in terms of the keys.
LEMMA OneWakeIsDistinct ==
  ASSUME pending \in Seq(WakeKey)
  PROVE  OneWakePerKey <=> /\ Distinct(pending) /\ Keys(pending) \cap waking = {}
                           /\ Alive(pending, waking) \subseteq inflight
BY DEF OneWakePerKey, Distinct, Keys, Alive

LEMMA OneWakeIsDistinctNext ==
  ASSUME pending' \in Seq(WakeKey)
  PROVE  OneWakePerKey' <=> /\ Distinct(pending') /\ Keys(pending') \cap waking' = {}
                            /\ Alive(pending', waking') \subseteq inflight'
BY DEF OneWakePerKey, Distinct, Keys, Alive

-----------------------------------------------------------------------------
LEMMA WakeInitInv == WakeInit => WakeInv
<1> SUFFICES ASSUME WakeInit PROVE WakeInv
  OBVIOUS
<1>1. WakeTypeOK
  BY DEF WakeInit, WakeTypeOK
<1>2. OneWakePerKey
  BY DEF WakeInit, OneWakePerKey
<1>3. WakePlaces
  BY FS_EmptySet, WakeAssumption DEF WakeInit, WakePlaces
<1> QED BY <1>1, <1>2, <1>3 DEF WakeInv, WakeQueueAgrees

\* A key that has a promise is joined; another one is appended: it has no job.
LEMMA EnqueueInv ==
  ASSUME WakeInv, NEW c \in WakeCaller, NEW k \in WakeKey, EnqueueWake(c, k)
  PROVE  WakeInv'
<1>1. awaits' \in [WakeCaller -> WakeKey \cup {"none"}]
  BY DEF WakeInv, WakeTypeOK, EnqueueWake
<1>2. CASE k \in inflight
  BY <1>1, <1>2 DEF WakeInv, WakeTypeOK, WakeQueueAgrees, OneWakePerKey, WakePlaces, EnqueueWake
<1>3. CASE k \notin inflight
  <2> DEFINE q == Append(pending, k)
  <2>1. Distinct(pending) /\ Keys(pending) \cap waking = {} /\ Alive(pending, waking) \subseteq inflight
    BY OneWakeIsDistinct DEF WakeInv, WakeTypeOK, WakeQueueAgrees
  <2>2. q \in Seq(WakeKey) /\ Len(q) = Len(pending) + 1 /\ q[Len(q)] = k
        /\ \A i \in 1..Len(pending) : q[i] = pending[i]
    BY DEF WakeInv, WakeTypeOK
  <2>3. Pump(q, activeCount, waking) /\ inflight' = inflight \cup {k}
    BY <1>3 DEF EnqueueWake
  <2> HIDE DEF q
  <2>4. Keys(q) = Keys(pending) \cup {k}
    <3>1. Keys(q) \subseteq Keys(pending) \cup {k}
      BY <2>2 DEF Keys, WakeInv, WakeTypeOK
    <3>2. k \in Keys(q) /\ Keys(pending) \subseteq Keys(q)
      BY <2>2 DEF Keys, WakeInv, WakeTypeOK
    <3> QED BY <3>1, <3>2
  <2>5. k \notin Keys(pending) /\ k \notin waking
    BY <1>3, <2>1 DEF Alive
  <2>6. Distinct(q)
    BY <2>1, <2>2, <2>5 DEF Distinct, Keys, WakeInv, WakeTypeOK
  <2>7. Keys(q) \cap waking = {}
    BY <2>1, <2>4, <2>5
  <2>8. activeCount \in Nat /\ activeCount = Cardinality(waking) /\ activeCount <= WakeConcurrency
        /\ waking \in SUBSET WakeKey
    BY DEF WakeInv, WakeTypeOK, WakeQueueAgrees, WakePlaces
  <2>9. /\ pending' \in Seq(WakeKey) /\ Distinct(pending')
        /\ waking' \subseteq WakeKey /\ Keys(pending') \cap waking' = {}
        /\ activeCount' \in Nat /\ WakePlaces'
        /\ Alive(pending', waking') = Alive(q, waking)
    BY <2>2, <2>3, <2>6, <2>7, <2>8, PumpKeepsPlaces
  <2>10. Alive(pending', waking') \subseteq inflight'
    BY <2>1, <2>3, <2>4, <2>9 DEF Alive
  <2>11. OneWakePerKey'
    BY <2>9, <2>10, OneWakeIsDistinctNext
  <2> QED BY <1>1, <2>3, <2>9, <2>11 DEF WakeInv, WakeTypeOK, WakeQueueAgrees
<1> QED BY <1>2, <1>3

\* A job ends: its place is given back, and taken by the next.
LEMMA EndInv ==
  ASSUME WakeInv, NEW k \in WakeKey, WakeEnds(k)
  PROVE  WakeInv'
<1>1. Distinct(pending) /\ Keys(pending) \cap waking = {} /\ Alive(pending, waking) \subseteq inflight
  BY OneWakeIsDistinct DEF WakeInv, WakeTypeOK, WakeQueueAgrees
<1>2. /\ pending \in Seq(WakeKey) /\ waking \subseteq WakeKey /\ IsFiniteSet(waking)
      /\ activeCount = Cardinality(waking) /\ activeCount <= WakeConcurrency /\ activeCount \in Nat
  BY FS_Subset, WakeAssumption DEF WakeInv, WakeTypeOK, WakeQueueAgrees, WakePlaces
<1>3. k \in waking /\ Pump(pending, activeCount - 1, waking \ {k}) /\ UNCHANGED <<inflight, awaits>>
  BY DEF WakeEnds
<1>4. Cardinality(waking \ {k}) = activeCount - 1 /\ Cardinality(waking \ {k}) \in Nat
  BY <1>2, <1>3, FS_RemoveElement, FS_CardinalityType
<1>5. activeCount - 1 \in Nat /\ activeCount - 1 <= WakeConcurrency
  BY <1>2, <1>4, WakeAssumption
<1>6. Keys(pending) \cap (waking \ {k}) = {} /\ waking \ {k} \in SUBSET WakeKey
  BY <1>1, <1>2
<1>7. /\ pending' \in Seq(WakeKey) /\ Distinct(pending')
      /\ waking' \subseteq WakeKey /\ Keys(pending') \cap waking' = {}
      /\ activeCount' \in Nat /\ WakePlaces'
      /\ Alive(pending', waking') = Alive(pending, waking \ {k})
  BY <1>1, <1>2, <1>3, <1>4, <1>5, <1>6, PumpKeepsPlaces
<1>8. OneWakePerKey'
  <2>1. Alive(pending', waking') \subseteq inflight'
    BY <1>1, <1>3, <1>7 DEF Alive
  <2> QED BY <1>7, <2>1, OneWakeIsDistinctNext
<1> QED BY <1>3, <1>7, <1>8 DEF WakeInv, WakeTypeOK, WakeQueueAgrees

\* A promise is forgotten once its job has ended.
LEMMA ForgetInv ==
  ASSUME WakeInv, NEW k \in WakeKey, ForgetWake(k)
  PROVE  WakeInv'
<1>1. UNCHANGED <<pending, activeCount, waking>> /\ inflight' = inflight \ {k}
      /\ k \notin waking /\ k \notin Keys(pending)
  BY DEF ForgetWake, Settled
<1>2. awaits' \in [WakeCaller -> WakeKey \cup {"none"}]
  BY DEF ForgetWake, WakeInv, WakeTypeOK
<1>3. OneWakePerKey'
  BY <1>1 DEF WakeInv, WakeQueueAgrees, OneWakePerKey, Keys
<1> QED BY <1>1, <1>2, <1>3 DEF WakeInv, WakeTypeOK, WakeQueueAgrees, WakePlaces

LEMMA WakeStepInv == WakeInv /\ [WakeNext]_wakeVars => WakeInv'
<1>1. ASSUME WakeInv, UNCHANGED wakeVars PROVE WakeInv'
  BY <1>1 DEF wakeVars, WakeInv, WakeTypeOK, WakeQueueAgrees, OneWakePerKey, WakePlaces
<1> QED BY <1>1, EnqueueInv, EndInv, ForgetInv DEF WakeNext

\* wake-queue.ts keeps one job per preview, in at most PREVIA_DEPLOY_CONCURRENCY places
\* none of which is lost, whatever requests come between a job's end and the microtask
\* that forgets its promise.
THEOREM WakeQueueIsRight == WakeSpec => []WakeQueueAgrees
<1>1. WakeInv => WakeQueueAgrees
  BY DEF WakeInv
<1> QED BY WakeInitInv, WakeStepInv, <1>1, PTL DEF WakeSpec

-----------------------------------------------------------------------------
(* The operations over many previews                                       *)

LoopState == [op : BulkOp \cup {"none"}, todo : [Held -> Visit], at : SUBSET Held, freed : BOOLEAN]

\* What an operation is visiting its previews for: an awake or a restart of all does
\* nothing else, and a restart takes no script's time.
VisitsFit(l) ==
  /\ loop[l].op = "none" => loop[l].at = {}
  /\ loop[l].op = "awakeAll" => \A i \in Held : loop[l].todo[i] \in {"skip", "awake"}
  /\ loop[l].op # "awakeAll" => \A i \in Held : loop[l].todo[i] # "awake"
  /\ loop[l].op = "restartAll" => \A i \in Held : loop[l].todo[i] \in {"skip", "restart"}
  /\ \A i \in loop[l].at : loop[l].todo[i] \notin {"skip", "restart"}

\* A job at work that serves the queue when it ends, or takes a slot itself.
Served == \E i \in Held : deploy[i] = "queued" \/ (deploy[i] = "running" /\ state[i] # "none")

\* An operation at work that will serve the queue, or remove those who wait.
WillServe(l) ==
  \/ loop[l].op = "destroyAll"
  \/ loop[l].freed /\ loop[l].op \in {"pauseAll", "sleepAll", "lifetime"}

\* Beside a free slot somebody waits only while something at work will see to it.
WaitersOffered == InQueue = {} \/ ~SlotFree \/ Served \/ \E l \in Loop : WillServe(l)

BulkInv == BulkTypeOK /\ (\A l \in Loop : VisitsFit(l)) /\ WaitersOffered

-----------------------------------------------------------------------------
(* Types.                                                                  *)

LEMMA DueType ==
  ASSUME NEW op \in BulkOp, NEW idle
  PROVE  /\ Due(op, idle) \in [Held -> Visit]
         /\ op = "awakeAll" => \A i \in Held : Due(op, idle)[i] \in {"skip", "awake"}
         /\ op # "awakeAll" => \A i \in Held : Due(op, idle)[i] # "awake"
         /\ op = "restartAll" => \A i \in Held : Due(op, idle)[i] \in {"skip", "restart"}
<1>1. ASSUME NEW i \in Held
      PROVE  /\ Due(op, idle)[i] \in Visit
             /\ op = "awakeAll" => Due(op, idle)[i] \in {"skip", "awake"}
             /\ op # "awakeAll" => Due(op, idle)[i] # "awake"
             /\ op = "restartAll" => Due(op, idle)[i] \in {"skip", "restart"}
  BY <1>1 DEF Due, Visit
<1>2. Due(op, idle) = [i \in Held |-> Due(op, idle)[i]]
  BY DEF Due
<1> QED BY <1>1, <1>2

\* The queue is served: jobs are added to, for those who wait.
LEMMA ServeType ==
  ASSUME NEW st \in [Held -> HeldStatus],
         NEW jobs \in [Held -> {"none", "queued", "running"}], ServeQueue(st, jobs)
  PROVE  deploy' \in [Held -> {"none", "queued", "running"}]
BY DEF ServeQueue

LEMMA DropType ==
  ASSUME loop \in [Loop -> LoopState], NEW l \in Loop, NEW i \in Held,
         NEW freed \in BOOLEAN, Drop(l, i, freed)
  PROVE  /\ loop' \in [Loop -> LoopState]
         /\ \A m \in Loop : m # l => loop'[m] = loop[m]
         /\ loop'[l].op = loop[l].op /\ loop'[l].at = {}
         /\ loop'[l].freed = (loop[l].freed \/ freed)
         /\ \A j \in Held : loop'[l].todo[j] \in {"skip", loop[l].todo[j]}
<1> DEFINE r == [[loop[l] EXCEPT !.todo[i] = "skip"] EXCEPT !.at = {}, !.freed = @ \/ freed]
<1>1. loop[l] \in LoopState
  OBVIOUS
<1>2. loop' = [loop EXCEPT ![l] = r]
  BY DEF Drop, LoopState
<1>3. /\ r.op = loop[l].op /\ r.at = {} /\ r.freed = (loop[l].freed \/ freed)
      /\ r.todo = [loop[l].todo EXCEPT ![i] = "skip"]
  BY <1>1 DEF LoopState
<1>4. r.todo \in [Held -> Visit] /\ \A j \in Held : r.todo[j] \in {"skip", loop[l].todo[j]}
  BY <1>1, <1>3 DEF LoopState, Visit
<1>5. r \in LoopState
  BY <1>1, <1>4 DEF LoopState
<1> HIDE DEF r
<1> QED BY <1>2, <1>3, <1>4, <1>5

\* ... so that the visits of every operation fit it as before.
LEMMA DropFits ==
  ASSUME BulkInv, NEW l \in Loop, NEW i \in Held, NEW freed \in BOOLEAN, Drop(l, i, freed)
  PROVE  /\ loop' \in [Loop -> LoopState] /\ \A m \in Loop : VisitsFit(m)'
         /\ \A m \in Loop : WillServe(m) => WillServe(m)'
         /\ freed /\ loop[l].op \in {"pauseAll", "sleepAll", "lifetime"} => WillServe(l)'
         /\ loop[l].op = "destroyAll" => WillServe(l)'
<1>1. loop \in [Loop -> LoopState]
  BY DEF BulkInv, BulkTypeOK, LoopState
<1>2. /\ loop' \in [Loop -> LoopState]
      /\ \A m \in Loop : m # l => loop'[m] = loop[m]
      /\ loop'[l].op = loop[l].op /\ loop'[l].at = {}
      /\ loop'[l].freed = (loop[l].freed \/ freed)
      /\ \A j \in Held : loop'[l].todo[j] \in {"skip", loop[l].todo[j]}
  BY <1>1, DropType
<1>3. VisitsFit(l)'
  BY <1>2 DEF BulkInv, VisitsFit
<1>4. ASSUME NEW m \in Loop, m # l PROVE VisitsFit(m)'
  BY <1>2, <1>4 DEF BulkInv, VisitsFit
<1> QED BY <1>2, <1>3, <1>4 DEF WillServe

-----------------------------------------------------------------------------
(* Slots.                                                                  *)

LEMMA HeldIsFinite ==
  ASSUME NEW S \in SUBSET Held
  PROVE  IsFiniteSet(S) /\ Cardinality(S) \in Nat /\ (Cardinality(S) = 0 <=> S = {})
BY BulkAssumption, FS_Subset, FS_CardinalityType, FS_EmptySet

\* A step that frees no slot.
LEMMA NoSlotFreed ==
  ASSUME Taken \subseteq Taken', SlotFree'
  PROVE  SlotFree
<1>1. Taken \in SUBSET Held /\ Taken' \in SUBSET Held
  BY DEF Taken
<1>2. Cardinality(Taken) <= Cardinality(Taken')
  BY <1>1, HeldIsFinite, FS_Subset
<1>3. Cardinality(Taken) \in Nat /\ Cardinality(Taken') \in Nat
  BY <1>1, HeldIsFinite
<1>4. Cardinality(Taken') < SlotMax
  BY DEF SlotFree
<1> QED BY <1>2, <1>3, <1>4, BulkAssumption DEF SlotFree

\* Once the queue has been served, one of those who wait beside a free slot has a job.
LEMMA ServeOffers ==
  ASSUME NEW st \in [Held -> HeldStatus],
         NEW jobs \in [Held -> {"none", "queued", "running"}],
         ServeQueue(st, jobs), state' = st
  PROVE  InQueue' = {} \/ ~SlotFree' \/ Served'
<1> SUFFICES ASSUME InQueue' # {}, SlotFree' PROVE Served'
  OBVIOUS
<1>1. /\ Taken' = {i \in Held : st[i] \in {"active", "deploying"}}
      /\ InQueue' = {i \in Held : st[i] = "waiting"}
  BY DEF Taken, InQueue
<1> DEFINE free == IF Cardinality(Taken') < SlotMax THEN SlotMax - Cardinality(Taken') ELSE 0
<1>2. PICK w \in SUBSET InQueue' :
        /\ Cardinality(w) = IF Cardinality(InQueue') < free THEN Cardinality(InQueue') ELSE free
        /\ deploy' = [i \in Held |-> IF i \in w /\ jobs[i] = "none" THEN "queued" ELSE jobs[i]]
  BY <1>1 DEF ServeQueue
<1>3. Cardinality(Taken') < SlotMax
  BY DEF SlotFree
<1>4. Taken' \in SUBSET Held /\ InQueue' \in SUBSET Held /\ w \in SUBSET Held
  BY <1>1, <1>2
<1>5. Cardinality(Taken') \in Nat /\ Cardinality(InQueue') \in Nat /\ Cardinality(InQueue') # 0
  BY <1>4, HeldIsFinite
<1>6. Cardinality(w) # 0
  BY <1>2, <1>3, <1>5, BulkAssumption
<1>7. PICK i \in w : TRUE
  BY <1>4, <1>6, HeldIsFinite
<1>8. i \in Held /\ st[i] = "waiting"
  BY <1>1, <1>2
<1>9. deploy'[i] \in {"queued", "running"}
  BY <1>2, <1>7, <1>8
<1> QED BY <1>8, <1>9 DEF Served

\* A step after which no slot is free beside somebody who waits that was not before, and
\* that takes nobody away who will see to it.
LEMMA OfferStays ==
  ASSUME WaitersOffered,
         SlotFree' /\ InQueue' # {} => SlotFree /\ InQueue # {},
         Served => Served',
         \A l \in Loop : WillServe(l) => WillServe(l)'
  PROVE  WaitersOffered'
BY DEF WaitersOffered

-----------------------------------------------------------------------------
LEMMA BulkInitInv == BulkInit => BulkInv
<1> SUFFICES ASSUME BulkInit PROVE BulkInv
  OBVIOUS
<1>1. IdleLoop \in LoopState /\ IdleLoop.at = {} /\ IdleLoop.op = "none"
      /\ \A i \in Held : IdleLoop.todo[i] = "skip"
  BY DEF IdleLoop, LoopState, Visit
<1>2. BulkTypeOK
  BY <1>1 DEF BulkInit, BulkTypeOK, HeldStatus, LoopState
<1>3. \A l \in Loop : VisitsFit(l)
  BY <1>1 DEF BulkInit, VisitsFit
<1>4. InQueue = {}
  BY DEF BulkInit, InQueue
<1> QED BY <1>2, <1>3, <1>4 DEF BulkInv, WaitersOffered

\* A job that is added, takes a slot or finds none.
LEMMA JobBeginsInv ==
  ASSUME BulkInv, NEW i \in Held, DeployHeld(i) \/ ReserveHeld(i)
  PROVE  BulkInv'
<1>1. BulkTypeOK'
  BY DEF BulkInv, BulkTypeOK, DeployHeld, ReserveHeld, HeldStatus
<1>2. \A l \in Loop : VisitsFit(l)'
  BY DEF BulkInv, VisitsFit, DeployHeld, ReserveHeld
<1>3. WaitersOffered'
  <2>1. CASE DeployHeld(i)
    <3>1. deploy'[i] = "queued"
      BY <2>1 DEF DeployHeld, BulkInv, BulkTypeOK
    <3> QED BY <3>1 DEF WaitersOffered, Served
  <2>2. CASE ReserveHeld(i) /\ (i \in Taken \/ SlotFree)
    <3>1. deploy'[i] = "running" /\ state'[i] = "deploying"
      BY <2>2 DEF ReserveHeld, BulkInv, BulkTypeOK
    <3> QED BY <3>1 DEF WaitersOffered, Served
  <2>3. CASE ReserveHeld(i) /\ ~(i \in Taken \/ SlotFree)
    <3>1. Taken' = Taken
      BY <2>3 DEF ReserveHeld, Taken, BulkInv, BulkTypeOK
    <3>2. ~SlotFree'
      BY <2>3, <3>1 DEF SlotFree
    <3> QED BY <3>2 DEF WaitersOffered
  <2> QED BY <2>1, <2>2, <2>3
<1> QED BY <1>1, <1>2, <1>3 DEF BulkInv

\* A deploy that ends serves the queue; one whose row is gone was nobody's hope.
LEMMA DeployedInv ==
  ASSUME BulkInv, NEW i \in Held, Deployed(i)
  PROVE  BulkInv'
<1> DEFINE jobs == [deploy EXCEPT ![i] = "none"]
           after == [state EXCEPT ![i] = "active"]
<1>1. jobs \in [Held -> {"none", "queued", "running"}] /\ after \in [Held -> HeldStatus]
      /\ UNCHANGED <<old, loop>>
  BY DEF BulkInv, BulkTypeOK, HeldStatus, Deployed
<1>2. \A l \in Loop : VisitsFit(l)' /\ (WillServe(l) => WillServe(l)')
  BY <1>1 DEF BulkInv, VisitsFit, WillServe
<1>3. CASE state[i] = "none"
  <2>1. deploy' = jobs /\ UNCHANGED <<state, tired>>
    BY <1>3 DEF Deployed
  <2>2. BulkTypeOK'
    BY <1>1, <2>1 DEF BulkInv, BulkTypeOK
  <2>3. Served => Served'
    BY <1>3, <2>1 DEF Served, Deployed, BulkInv, BulkTypeOK
  <2>4. SlotFree' /\ InQueue' # {} => SlotFree /\ InQueue # {}
    BY <2>1 DEF SlotFree, InQueue, Taken
  <2>5. WaitersOffered'
    BY <1>2, <2>3, <2>4, OfferStays DEF BulkInv
  <2> QED BY <1>2, <2>2, <2>5 DEF BulkInv
<1>4. CASE state[i] # "none"
  <2>1. state' = after /\ ServeQueue(after, jobs)
        /\ tired' = [tired EXCEPT ![i] = tired[i] /\ state[i] = "active"]
    BY <1>4 DEF Deployed
  <2> HIDE DEF jobs, after
  <2>2. deploy' \in [Held -> {"none", "queued", "running"}]
    BY <1>1, <2>1, ServeType
  <2>3. BulkTypeOK'
    BY <1>1, <2>1, <2>2 DEF BulkInv, BulkTypeOK
  <2>4. WaitersOffered'
    BY <1>1, <2>1, ServeOffers DEF WaitersOffered
  <2> QED BY <1>2, <2>3, <2>4 DEF BulkInv
<1> QED BY <1>3, <1>4

\* Time passes.
LEMMA AgesInv ==
  ASSUME BulkInv, NEW i \in Held, Ages(i)
  PROVE  BulkInv'
<1>1. UNCHANGED <<state, deploy, loop>>
  BY DEF Ages
<1>2. BulkTypeOK'
  BY <1>1 DEF BulkInv, BulkTypeOK, Ages
<1> QED BY <1>1, <1>2
        DEF BulkInv, VisitsFit, WaitersOffered, InQueue, SlotFree, Taken, Served, WillServe

LEMMA BeginInv ==
  ASSUME BulkInv, NEW l \in Loop, NEW op \in BulkOps, BeginBulk(l, op)
  PROVE  BulkInv'
<1>1. PICK idle \in SUBSET Held :
        loop' = [loop EXCEPT ![l] = [op |-> op, todo |-> Due(op, idle), at |-> {}, freed |-> FALSE]]
  BY DEF BeginBulk
<1> DEFINE r == [op |-> op, todo |-> Due(op, idle), at |-> {}, freed |-> FALSE]
<1>2. op \in BulkOp
  BY BulkAssumption
<1>3. r \in LoopState /\ r.op = op /\ r.todo = Due(op, idle) /\ r.at = {}
  BY <1>2, DueType DEF LoopState
<1>4. loop' = [loop EXCEPT ![l] = r] /\ UNCHANGED <<state, old, tired, deploy>> /\ loop[l].op = "none"
  BY <1>1 DEF BeginBulk
<1> HIDE DEF r
<1>5. loop' \in [Loop -> LoopState]
  BY <1>3, <1>4 DEF BulkInv, BulkTypeOK, LoopState
<1>6. BulkTypeOK'
  BY <1>4, <1>5 DEF BulkInv, BulkTypeOK, LoopState
<1>7. loop'[l] = r /\ \A m \in Loop : m # l => loop'[m] = loop[m]
  BY <1>4 DEF BulkInv, BulkTypeOK
<1>8. VisitsFit(l)'
  BY <1>2, <1>3, <1>7, DueType DEF VisitsFit
<1>9. \A m \in Loop : VisitsFit(m)'
  BY <1>7, <1>8 DEF BulkInv, VisitsFit
<1>10. \A m \in Loop : WillServe(m) => WillServe(m)'
  <2>1. ~WillServe(l)
    BY <1>4 DEF WillServe
  <2> QED BY <1>7, <2>1 DEF WillServe
<1>11. WaitersOffered'
  BY <1>4, <1>10, OfferStays DEF BulkInv, SlotFree, InQueue, Taken, Served
<1> QED BY <1>6, <1>9, <1>11 DEF BulkInv

\* A visit begins, or has nothing to do: slots are taken, none is freed, and a preview is
\* sent to wait only when there is none.
LEMMA VisitedInv ==
  ASSUME BulkInv, NEW l \in Loop, NEW i \in Held, Visited(l, i)
  PROVE  BulkInv'
<1> DEFINE visit == loop[l].todo[i]
<1>0. loop \in [Loop -> LoopState] /\ visit \in Visit
  BY DEF BulkInv, BulkTypeOK, LoopState
<1>1. /\ loop' \in [Loop -> LoopState] /\ \A m \in Loop : VisitsFit(m)'
      /\ \A m \in Loop : WillServe(m) => WillServe(m)'
  <2>1. CASE loop' = [loop EXCEPT ![l].at = {i}] /\ visit \in {"pause", "sleep", "awake", "destroy"}
    <3>1. loop' \in [Loop -> LoopState]
      BY <1>0, <2>1 DEF LoopState
    <3>2. /\ loop'[l].op = loop[l].op /\ loop'[l].freed = loop[l].freed
          /\ loop'[l].todo = loop[l].todo
      BY <1>0, <2>1 DEF LoopState
    <3>3. \A m \in Loop : m # l => loop'[m] = loop[m]
      BY <1>0, <2>1
    <3>4. loop'[l].at = {i} /\ loop[l].op # "none"
      BY <1>0, <2>1 DEF LoopState, Visited, ToVisit
    <3>5. VisitsFit(l)'
      BY <2>1, <3>2, <3>4 DEF BulkInv, VisitsFit
    <3>6. \A m \in Loop : VisitsFit(m)'
      BY <3>3, <3>5 DEF BulkInv, VisitsFit
    <3> QED BY <3>1, <3>2, <3>3, <3>6 DEF WillServe
  <2>2. ASSUME NEW freed \in BOOLEAN, Drop(l, i, freed)
        PROVE  /\ loop' \in [Loop -> LoopState] /\ \A m \in Loop : VisitsFit(m)'
               /\ \A m \in Loop : WillServe(m) => WillServe(m)'
    BY <2>2, DropFits
  <2>3. CASE \E freed \in BOOLEAN : Drop(l, i, freed)
    BY <2>2, <2>3
  <2>4. \/ loop' = [loop EXCEPT ![l].at = {i}] /\ visit \in {"pause", "sleep", "awake", "destroy"}
        \/ \E freed \in BOOLEAN : Drop(l, i, freed)
    <3>1. FALSE \in BOOLEAN /\ (visit = "sleep" /\ state[i] # "none") \in BOOLEAN
      OBVIOUS
    <3> QED BY <1>0, <3>1 DEF Visited, Visit
  <2> QED BY <2>1, <2>3, <2>4
<1>2. /\ state' \in [Held -> HeldStatus] /\ deploy' \in [Held -> {"none", "queued", "running"}]
      /\ UNCHANGED <<old, tired>>
  BY DEF Visited, BulkInv, BulkTypeOK, HeldStatus
<1>3. Served => Served'
  <2>1. ASSUME NEW j \in Held PROVE /\ state[j] # "none" => state'[j] # "none"
                                    /\ deploy[j] # "none" => deploy'[j] = deploy[j]
    BY DEF Visited, BulkInv, BulkTypeOK
  <2> QED BY <2>1 DEF Served
<1>4. SlotFree' => Taken \subseteq Taken' /\ InQueue' \subseteq InQueue
  <2>1. CASE state' = state
    BY <2>1 DEF Taken, InQueue
  <2>2. CASE state' = [state EXCEPT ![i] = "deploying"]
    BY <2>2 DEF Taken, InQueue, BulkInv, BulkTypeOK
  <2>3. CASE state' = [state EXCEPT ![i] = "waiting"] /\ i \notin Taken /\ ~SlotFree
    <3>1. Taken' = Taken
      BY <2>3 DEF Taken, BulkInv, BulkTypeOK
    <3> QED BY <2>3, <3>1 DEF SlotFree
  <2> QED BY <2>1, <2>2, <2>3 DEF Visited, Taken
<1>5. WaitersOffered'
  BY <1>1, <1>3, <1>4, NoSlotFreed, OfferStays DEF BulkInv
<1>6. BulkTypeOK'
  BY <1>1, <1>2 DEF BulkInv, BulkTypeOK, LoopState
<1> QED BY <1>1, <1>5, <1>6 DEF BulkInv

\* The end of a script: an awake frees nothing, and whatever frees a slot will see to
\* those who wait when it is through.
LEMMA VisitEndsInv ==
  ASSUME BulkInv, NEW l \in Loop, NEW i \in Held, VisitEnds(l, i)
  PROVE  BulkInv'
<1> DEFINE visit == loop[l].todo[i]
           becomes == CASE visit = "pause" -> "paused" [] visit = "sleep" -> "asleep"
                        [] visit = "awake" -> "active" [] OTHER -> "none"
           after == [state EXCEPT ![i] = becomes]
           jobs == IF visit = "sleep" /\ deploy[i] = "queued"
                   THEN [deploy EXCEPT ![i] = "none"] ELSE deploy
<1>1. /\ i \in loop[l].at /\ Drop(l, i, loop[l].op # "awakeAll")
      /\ state' = after /\ UNCHANGED old
      /\ tired' = IF visit = "awake" THEN [tired EXCEPT ![i] = FALSE] ELSE tired
      /\ IF loop[l].op = "destroyAll" THEN ServeQueue(after, jobs) ELSE deploy' = jobs
  BY DEF VisitEnds
<1>2. /\ after \in [Held -> HeldStatus] /\ jobs \in [Held -> {"none", "queued", "running"}]
  BY DEF BulkInv, BulkTypeOK, HeldStatus
<1>3. /\ loop' \in [Loop -> LoopState] /\ \A m \in Loop : VisitsFit(m)'
      /\ \A m \in Loop : WillServe(m) => WillServe(m)'
      /\ loop[l].op \in {"pauseAll", "sleepAll", "lifetime", "destroyAll"} => WillServe(l)'
  <2>1. (loop[l].op # "awakeAll") \in BOOLEAN
    OBVIOUS
  <2> QED BY <1>1, <2>1, DropFits
<1>4. loop[l].op \in {"pauseAll", "sleepAll", "lifetime", "destroyAll", "awakeAll"}
  <2>1. loop[l].op \in BulkOp \cup {"none"}
    BY DEF BulkInv, BulkTypeOK
  <2>2. loop[l].op # "none" /\ loop[l].op # "restartAll"
    BY <1>1 DEF BulkInv, VisitsFit
  <2> QED BY <2>1, <2>2 DEF BulkOp
<1>5. deploy' \in [Held -> {"none", "queued", "running"}]
  <2> HIDE DEF after, jobs
  <2> QED BY <1>1, <1>2, ServeType
<1>6. BulkTypeOK'
  <2>1. tired' \in [Held -> BOOLEAN]
    BY <1>1 DEF BulkInv, BulkTypeOK
  <2> QED BY <1>1, <1>2, <1>3, <1>5, <2>1 DEF BulkInv, BulkTypeOK, LoopState
<1>7. WaitersOffered'
  <2>1. CASE loop[l].op # "awakeAll"
    BY <1>3, <1>4, <2>1 DEF WaitersOffered
  <2>2. CASE loop[l].op = "awakeAll"
    <3>1. visit = "awake"
      BY <1>1, <2>2 DEF BulkInv, VisitsFit
    <3>2. state' = [state EXCEPT ![i] = "active"] /\ UNCHANGED deploy
      BY <1>1, <2>2, <3>1
    <3>3. Taken \subseteq Taken' /\ InQueue' \subseteq InQueue
      BY <3>2 DEF Taken, InQueue, BulkInv, BulkTypeOK
    <3>4. Served => Served'
      BY <3>2 DEF Served, BulkInv, BulkTypeOK
    <3> QED BY <1>3, <3>3, <3>4, NoSlotFreed, OfferStays DEF BulkInv
  <2> QED BY <2>1, <2>2
<1> QED BY <1>3, <1>6, <1>7 DEF BulkInv

\* A script that fails leaves every row as it was.
LEMMA VisitFailsInv ==
  ASSUME BulkInv, NEW l \in Loop, NEW i \in Held, VisitFails(l, i)
  PROVE  BulkInv'
<1>1. Drop(l, i, FALSE) /\ UNCHANGED <<state, old, tired, deploy>>
  BY DEF VisitFails
<1>2. /\ loop' \in [Loop -> LoopState] /\ \A m \in Loop : VisitsFit(m)'
      /\ \A m \in Loop : WillServe(m) => WillServe(m)'
  BY <1>1, DropFits
<1>3. BulkTypeOK'
  BY <1>1, <1>2 DEF BulkInv, BulkTypeOK, LoopState
<1>4. WaitersOffered'
  BY <1>1, <1>2, OfferStays DEF BulkInv, SlotFree, InQueue, Taken, Served
<1> QED BY <1>2, <1>3, <1>4 DEF BulkInv

\* The last visit is over: the queue is served, or there is nobody left to wait.
LEMMA EndBulkInv ==
  ASSUME BulkInv, NEW l \in Loop, EndBulk(l)
  PROVE  BulkInv'
<1>1. /\ loop' = [loop EXCEPT ![l] = IdleLoop] /\ UNCHANGED <<old, tired>>
      /\ IF loop[l].freed /\ loop[l].op \in {"pauseAll", "sleepAll", "lifetime"}
         THEN ServeQueue(state, deploy) ELSE UNCHANGED deploy
      /\ state' = IF loop[l].op = "destroyAll" THEN [i \in Held |-> "none"] ELSE state
  BY DEF EndBulk
<1>2. /\ IdleLoop \in LoopState /\ IdleLoop.at = {} /\ IdleLoop.op = "none"
      /\ \A i \in Held : IdleLoop.todo[i] = "skip"
  BY DEF IdleLoop, LoopState, Visit
<1>3. loop' \in [Loop -> LoopState] /\ loop'[l] = IdleLoop
      /\ \A m \in Loop : m # l => loop'[m] = loop[m]
  BY <1>1, <1>2 DEF BulkInv, BulkTypeOK, LoopState
<1>4. \A m \in Loop : VisitsFit(m)'
  BY <1>2, <1>3 DEF BulkInv, VisitsFit
<1>5. state' \in [Held -> HeldStatus] /\ deploy' \in [Held -> {"none", "queued", "running"}]
  BY <1>1, ServeType DEF BulkInv, BulkTypeOK, HeldStatus
<1>6. BulkTypeOK'
  BY <1>1, <1>3, <1>5 DEF BulkInv, BulkTypeOK, LoopState
<1>7. WaitersOffered'
  <2>1. CASE loop[l].op = "destroyAll"
    BY <1>1, <2>1 DEF WaitersOffered, InQueue
  <2>2. CASE loop[l].freed /\ loop[l].op \in {"pauseAll", "sleepAll", "lifetime"}
    BY <1>1, <2>2, ServeOffers DEF WaitersOffered, BulkInv, BulkTypeOK
  <2>3. CASE ~WillServe(l)
    <3>1. UNCHANGED <<state, deploy>>
      BY <1>1, <2>3 DEF WillServe
    <3>2. \A m \in Loop : WillServe(m) => WillServe(m)'
      BY <1>3, <2>3 DEF WillServe
    <3> QED BY <3>1, <3>2, OfferStays DEF BulkInv, SlotFree, InQueue, Taken, Served
  <2> QED BY <2>1, <2>2, <2>3 DEF WillServe
<1> QED BY <1>4, <1>6, <1>7 DEF BulkInv

LEMMA BulkStepInv == BulkInv /\ [BulkNext]_bulkVars => BulkInv'
<1> SUFFICES ASSUME BulkInv, [BulkNext]_bulkVars PROVE BulkInv'
  OBVIOUS
<1>1. ASSUME NEW i \in Held, DeployHeld(i) \/ ReserveHeld(i) \/ Deployed(i) \/ Ages(i)
      PROVE  BulkInv'
  BY <1>1, JobBeginsInv, DeployedInv, AgesInv
<1>2. ASSUME NEW l \in Loop, BulkStep(l) PROVE BulkInv'
  BY <1>2, VisitedInv, VisitEndsInv, VisitFailsInv, EndBulkInv DEF BulkStep
<1>3. ASSUME NEW l \in Loop, NEW op \in BulkOps, BeginBulk(l, op) PROVE BulkInv'
  BY <1>3, BeginInv
<1>4. CASE UNCHANGED bulkVars
  BY <1>4 DEF bulkVars, BulkInv, BulkTypeOK, VisitsFit, WaitersOffered, InQueue, SlotFree, Taken,
              Served, WillServe
<1> QED BY <1>1, <1>2, <1>3, <1>4 DEF BulkNext

\* Slots freed by operations over many previews are offered to those who wait
\* (FreedSlotsAreOffered), however many operations, deploys and failing scripts interleave:
\* whenever somebody waits beside a free slot, a job or an operation is at work that
\* serves the queue when it ends.
THEOREM FreedAreOffered == BulkSpec => []FreedSlotsAreOffered
<1>1. BulkInv => FreedSlotsAreOffered
  BY DEF BulkInv, WaitersOffered, Served, WillServe, FreedSlotsAreOffered
<1> QED BY BulkInitInv, BulkStepInv, <1>1, PTL DEF BulkSpec

-----------------------------------------------------------------------------
(* The metrics collector                                                   *)

\* The file has no more lines than were written, so that its size is a position.
MetricsInv == MetricsTypeOK /\ LineStoredOnce /\ Len(log) <= written

LEMMA MetricsInitInv == MetricsInit => MetricsInv
<1> SUFFICES ASSUME MetricsInit PROVE MetricsInv
  OBVIOUS
<1>1. cursor = {} /\ Cardinality(cursor) = 0
  BY FS_EmptySet DEF MetricsInit
<1>2. stored \in [Line -> Nat] /\ LineStoredOnce
  BY DEF MetricsInit, LineStoredOnce
<1>3. /\ log \in Seq(Line) /\ Len(log) <= written /\ batch \subseteq Line
      /\ collecting \in BOOLEAN /\ tick \in TickPC
  <2>1. <<>> \in Seq(Line) /\ Len(<<>>) = 0 /\ 0 <= 0
    OBVIOUS
  <2> QED BY <2>1 DEF MetricsInit, TickPC
<1>4. /\ 0 \in 0..MaxLine /\ 0 \in 0..MaxInode /\ 0 \in 0..MaxRestart
  BY MetricsAssumption
<1>5. /\ inode \in 0..MaxInode /\ written \in 0..MaxLine /\ expired \in 0..MaxLine
      /\ upTo \in [size : 0..MaxLine, inode : 0..MaxInode] /\ restarts \in 0..MaxRestart
  BY <1>4 DEF MetricsInit, NoFile
<1>6. cursor \subseteq [size : 0..MaxLine, inode : 0..MaxInode] /\ Cardinality(cursor) <= 1
  <2>1. 0 <= 1
    OBVIOUS
  <2> QED BY <1>1, <2>1
<1> QED BY <1>2, <1>3, <1>5, <1>6 DEF MetricsInv, MetricsTypeOK

\* The log grows by a line, is rotated or truncated, and gets older.
LEMMA LogMovesInv ==
  ASSUME MetricsInv, WriteLine \/ Rotate \/ Expire
  PROVE  MetricsInv'
<1>0. /\ MaxLine \in Nat /\ MaxInode \in Nat /\ written \in 0..MaxLine /\ log \in Seq(Line)
      /\ Len(log) \in Nat /\ Len(log) <= written /\ inode \in 0..MaxInode /\ expired \in 0..MaxLine
  BY MetricsAssumption DEF MetricsInv, MetricsTypeOK
<1>1. UNCHANGED <<tickVars, restarts>>
  BY DEF WriteLine, Rotate, Expire
<1>2. /\ log' \in Seq(Line) /\ Len(log') <= written' /\ written' \in 0..MaxLine
      /\ inode' \in 0..MaxInode /\ expired' \in 0..MaxLine
  <2>1. CASE WriteLine
    <3>1. written + 1 \in Line /\ written + 1 \in 0..MaxLine
      BY <1>0, <2>1 DEF WriteLine, Line
    <3>2. Append(log, written + 1) \in Seq(Line) /\ Len(Append(log, written + 1)) = Len(log) + 1
      BY <1>0, <3>1
    <3> QED BY <1>0, <2>1, <3>1, <3>2 DEF WriteLine
  <2>2. CASE Rotate
    BY <1>0, <2>2 DEF Rotate
  <2>3. CASE Expire
    BY <1>0, <2>3 DEF Expire
  <2> QED BY <2>1, <2>2, <2>3
<1> QED BY <1>1, <1>2 DEF tickVars, MetricsInv, MetricsTypeOK, LineStoredOnce

\* One position, of a file of the log.
LEMMA OnePosition ==
  ASSUME NEW c \in [size : 0..MaxLine, inode : 0..MaxInode]
  PROVE  {c} \subseteq [size : 0..MaxLine, inode : 0..MaxInode] /\ Cardinality({c}) <= 1
<1>1. Cardinality({c}) = 1
  BY FS_Singleton
<1>2. 1 <= 1
  OBVIOUS
<1> QED BY <1>1, <1>2

LEMMA IngestInv ==
  ASSUME MetricsInv, IngestLog
  PROVE  MetricsInv'
<1>0. /\ MaxLine \in Nat /\ log \in Seq(Line) /\ Len(log) \in 0..MaxLine
      /\ UNCHANGED <<logVars, collecting, stored, restarts>> /\ upTo' = FileNow
  BY MetricsAssumption DEF MetricsInv, MetricsTypeOK, IngestLog
<1>1. FileNow \in [size : 0..MaxLine, inode : 0..MaxInode]
  BY <1>0 DEF FileNow, MetricsInv, MetricsTypeOK
<1>2. cursor' \subseteq [size : 0..MaxLine, inode : 0..MaxInode] /\ Cardinality(cursor') <= 1
  <2>1. CASE cursor' = {FileNow}
    BY <1>1, <2>1, OnePosition
  <2>2. CASE cursor' = cursor
    BY <2>2 DEF MetricsInv, MetricsTypeOK
  <2> QED BY <2>1, <2>2 DEF IngestLog
<1>3. batch' \subseteq Line
  <2>1. CASE batch' = Parsed(ReadFrom)
    <3>1. ReadFrom \in Nat
      <4>1. Len(log) > TailLines => Len(log) - TailLines \in Nat
        BY <1>0, MetricsAssumption
      <4>2. ASSUME cursor # {} PROVE (CHOOSE c \in cursor : TRUE).size \in Nat
        <5>1. (CHOOSE c \in cursor : TRUE) \in cursor
          BY <4>2
        <5>2. (CHOOSE c \in cursor : TRUE).size \in 0..MaxLine
          BY <5>1 DEF MetricsInv, MetricsTypeOK
        <5> QED BY <1>0, <5>2
      <4> QED BY <4>1, <4>2 DEF ReadFrom
    <3>2. \A n \in ((IF ReadFrom > 0 THEN ReadFrom + 1 ELSE ReadFrom) + 1)..Len(log) :
            n \in 1..Len(log)
      BY <1>0, <3>1
    <3>3. \A n \in 1..Len(log) : log[n] \in Line
      BY <1>0
    <3> QED BY <2>1, <3>2, <3>3 DEF Parsed
  <2>2. CASE batch' = batch
    BY <2>2 DEF MetricsInv, MetricsTypeOK
  <2> QED BY <2>1, <2>2 DEF IngestLog
<1>4. tick' \in TickPC
  BY DEF IngestLog, TickPC
<1> QED BY <1>0, <1>1, <1>2, <1>3, <1>4 DEF logVars, MetricsInv, MetricsTypeOK, LineStoredOnce

LEMMA InsertInv ==
  ASSUME MetricsInv, InsertBatch \/ InsertFails
  PROVE  MetricsInv'
<1>1. UNCHANGED <<logVars, collecting, upTo, restarts>> /\ batch' \subseteq batch
      /\ tick' \in TickPC /\ stored' \in {stored, Ingested}
  BY DEF InsertBatch, InsertFails, MetricsInv, MetricsTypeOK, TickPC
<1>2. cursor' \subseteq [size : 0..MaxLine, inode : 0..MaxInode] /\ Cardinality(cursor') <= 1
  <2>1. cursor' = {upTo} \/ cursor' = cursor
    BY DEF InsertBatch, InsertFails
  <2>2. CASE cursor' = {upTo}
    <3>1. upTo \in [size : 0..MaxLine, inode : 0..MaxInode]
      BY DEF MetricsInv, MetricsTypeOK
    <3> QED BY <2>2, <3>1, OnePosition
  <2>3. CASE cursor' = cursor
    BY <2>3 DEF MetricsInv, MetricsTypeOK
  <2> QED BY <2>1, <2>2, <2>3
<1>3. Ingested \in [Line -> Nat] /\ \A l \in Line : Ingested[l] <= 1
  BY DEF Ingested, MetricsInv, MetricsTypeOK, LineStoredOnce
<1> QED BY <1>1, <1>2, <1>3 DEF logVars, MetricsInv, MetricsTypeOK, LineStoredOnce

LEMMA PruneInv ==
  ASSUME MetricsInv, Prune
  PROVE  MetricsInv'
<1>1. UNCHANGED <<logVars, cursor, batch, upTo, restarts>> /\ tick' = "idle" /\ collecting' = FALSE
  BY DEF Prune
<1>2. stored' \in [Line -> Nat] /\ \A l \in Line : stored'[l] <= 1
  <2>1. PICK kept \in SUBSET Line : stored' = [l \in Line |-> IF l \in kept THEN stored[l] ELSE 0]
    <3> DEFINE young == {l \in Rows : l > expired}
               kept == {l \in Line : l \in young /\ Cardinality({m \in young : m >= l}) <= RowCap}
    <3>1. stored' = [l \in Line |->
            IF l \in young /\ Cardinality({m \in young : m >= l}) <= RowCap THEN stored[l] ELSE 0]
      BY DEF Prune
    <3> HIDE DEF young
    <3>2. stored' = [l \in Line |-> IF l \in kept THEN stored[l] ELSE 0]
      BY <3>1
    <3> QED BY <3>2
  <2> QED BY <2>1 DEF MetricsInv, MetricsTypeOK, LineStoredOnce
<1> QED BY <1>1, <1>2 DEF logVars, MetricsInv, MetricsTypeOK, LineStoredOnce, TickPC

LEMMA MetricsStepInv == MetricsInv /\ [MetricsNext]_metricsVars => MetricsInv'
<1> SUFFICES ASSUME MetricsInv, [MetricsNext]_metricsVars PROVE MetricsInv'
  OBVIOUS
<1>1. CASE BeginTick \/ SampleHost \/ Aborts
  BY <1>1 DEF BeginTick, SampleHost, Aborts, logVars, MetricsInv, MetricsTypeOK, LineStoredOnce, TickPC
<1>2. CASE CollectorRestarts
  <2>1. UNCHANGED <<logVars, stored>> /\ restarts' \in 0..MaxRestart /\ upTo' = NoFile
        /\ NoFile \in [size : 0..MaxLine, inode : 0..MaxInode]
        /\ batch' = {} /\ tick' = "idle" /\ collecting' = FALSE
    BY <1>2, MetricsAssumption DEF CollectorRestarts, NoFile, MetricsInv, MetricsTypeOK
  <2>2. cursor' \subseteq [size : 0..MaxLine, inode : 0..MaxInode] /\ Cardinality(cursor') <= 1
    <3>1. cursor' = {} /\ Cardinality({}) = 0
      BY <1>2, FS_EmptySet DEF CollectorRestarts
    <3>2. 0 <= 1
      OBVIOUS
    <3> QED BY <3>1, <3>2
  <2> QED BY <2>1, <2>2 DEF logVars, MetricsInv, MetricsTypeOK, LineStoredOnce, TickPC
<1>3. CASE UNCHANGED metricsVars
  BY <1>3 DEF metricsVars, logVars, tickVars, MetricsInv, MetricsTypeOK, LineStoredOnce
<1> QED BY <1>1, <1>2, <1>3, LogMovesInv, IngestInv, InsertInv, PruneInv DEF MetricsNext, TickSucceeds

\* A request is one row of network_requests, whatever the collector reads again: after an
\* insert that failed halfway, a rotation, or a restart that reads the end of the log
\* (orIgnore and the unique line_hash, metrics.service.ts insertNetworkBatch).
THEOREM LinesStoredOnce == MetricsSpec => []LineStoredOnce
<1>1. MetricsInv => LineStoredOnce
  BY DEF MetricsInv
<1> QED BY MetricsInitInv, MetricsStepInv, <1>1, PTL DEF MetricsSpec

-----------------------------------------------------------------------------
(* The page of an instance                                                 *)

RowsShown == ServerRow \cup {"none", "left"}
CallsUnderWay == [PagePoll \cup PagePatch -> ServerRow \cup {"none"}]
ActionState == [at : {"idle", "sent", "recover", "waiting"},
                kind : PageAction \cup {"none", "recovered"}, tries : 0 .. MaxWait]

\* What a page that shows r leaves of the calls: polls only while it shows a switch.
LEMMA RemainingType ==
  ASSUME PageTypeOK, NEW r
  PROVE  /\ Remaining(r) \in CallsUnderWay
         /\ \A k \in PagePoll : Remaining(r)[k] # "none" => r = "zd"
BY DEF PageTypeOK, Remaining, CallsUnderWay

LEMMA OutcomeType ==
  ASSUME NEW kind, NEW r
  PROVE  Outcome(kind, r) \in {"success", "info", "error"}
<1>1. CASE kind \in {"pause", "cancel"} \/ kind = "restart" \/ kind = "awake"
  BY <1>1 DEF Outcome
<1>2. CASE ~(kind \in {"pause", "cancel"} \/ kind = "restart" \/ kind = "awake")
  BY <1>2 DEF Outcome
<1> QED BY <1>1, <1>2

\* An action ends, or goes on, with a row that can be shown.
LEMMA EndActionType ==
  ASSUME PageTypeOK, NEW r \in RowsShown, NEW toast \in {"success", "info", "error"},
         EndAction(r, toast), serverRow' \in ServerRow
  PROVE  PageTypeOK'
<1>1. /\ page' = [row |-> r, toast |-> toast, lock |-> FALSE] /\ pageCall' = Remaining(r)
      /\ action' = NoAction /\ NoAction \in ActionState
  BY PageAssumption DEF EndAction, NoAction, ActionState
<1>2. page'.row = r
  BY <1>1
<1> QED BY <1>1, <1>2, RemainingType DEF PageTypeOK, CallsUnderWay, ActionState, RowsShown, Polling

LEMMA StayLockedType ==
  ASSUME PageTypeOK, NEW r \in ServerRow, NEW act \in ActionState, StayLocked(r, act),
         serverRow' \in ServerRow
  PROVE  PageTypeOK'
<1>1. /\ page' = [row |-> r, toast |-> "loading", lock |-> TRUE] /\ pageCall' = Remaining(r)
      /\ action' = act
  BY DEF StayLocked
<1>2. page'.row = r
  BY <1>1
<1> QED BY <1>1, <1>2, RemainingType DEF PageTypeOK, CallsUnderWay, ActionState, Polling

\* The action under way moves, with what is shown and the calls as they are.
LEMMA ActionMovesType ==
  ASSUME PageTypeOK, action' \in ActionState, UNCHANGED <<page, pageCall>>, serverRow' \in ServerRow
  PROVE  PageTypeOK'
BY DEF PageTypeOK, ActionState, Polling

LEMMA PageInitType == PageInit => PageTypeOK
BY PageAssumption DEF PageInit, PageTypeOK, NoAction

LEMMA PageStepType == PageTypeOK /\ [PageNext]_pageVars => PageTypeOK'
<1> SUFFICES ASSUME PageTypeOK, [PageNext]_pageVars PROVE PageTypeOK'
  OBVIOUS
<1>0. /\ serverRow \in ServerRow /\ page.row \in RowsShown /\ action \in ActionState
      /\ action.tries \in 0..MaxWait /\ MaxWait \in Nat
  BY PageAssumption DEF PageTypeOK, RowsShown, ActionState
<1>1. ASSUME NEW kind \in PageAction, ClickAction(kind) PROVE PageTypeOK'
  <2>1. /\ action' = [at |-> "sent", kind |-> kind, tries |-> 0] /\ UNCHANGED <<serverRow, pageCall>>
        /\ page' = [page EXCEPT !.lock = TRUE, !.toast = "loading"] /\ page'.row = page.row
    BY <1>1 DEF ClickAction, PageTypeOK
  <2>2. page' \in [row : ServerRow \cup {"none", "left"}, lock : BOOLEAN,
                   toast : {"none", "loading", "success", "info", "error"}]
    BY <2>1 DEF PageTypeOK
  <2>3. action' \in ActionState
    BY <1>0, <2>1 DEF ActionState
  <2> QED BY <1>0, <2>1, <2>2, <2>3 DEF PageTypeOK, Polling, ActionState
<1>2. CASE CommandAnswers
  <2>1. PICK r \in ServerRow :
          /\ serverRow' = r
          /\ IF WaitsFor(action.kind, r)
             THEN StayLocked(r, [action EXCEPT !.at = "waiting"])
             ELSE EndAction(r, Outcome(action.kind, r))
    BY <1>2 DEF CommandAnswers
  <2>2. [action EXCEPT !.at = "waiting"] \in ActionState
    BY <1>0 DEF ActionState
  <2>3. r \in RowsShown
    BY DEF RowsShown
  <2> QED BY <2>1, <2>2, <2>3, OutcomeType, StayLockedType, EndActionType
<1>3. CASE RemoveAnswers
  <2>1. /\ page' = [row |-> "left", toast |-> "success", lock |-> TRUE] /\ action' = NoAction
        /\ pageCall' = [k \in PagePoll \cup PagePatch |-> "none"] /\ UNCHANGED serverRow
    BY <1>3 DEF RemoveAnswers
  <2> QED BY <1>0, <2>1 DEF PageTypeOK, NoAction
<1>4. CASE CommandFails
  <2>1. serverRow' \in ServerRow
    BY <1>4 DEF CommandFails
  <2>2. CASE action' = [action EXCEPT !.at = "recover"] /\ UNCHANGED <<page, pageCall>>
    <3>1. action' \in ActionState
      BY <1>0, <2>2 DEF ActionState
    <3> QED BY <2>1, <2>2, <3>1, ActionMovesType
  <2>3. CASE EndAction(page.row, "error")
    BY <1>0, <2>1, <2>3, EndActionType
  <2> QED BY <1>4, <2>2, <2>3 DEF CommandFails
<1>5. CASE RecoverAnswers \/ RecoverFails
  <2>1. serverRow' = serverRow /\ serverRow \in RowsShown
    BY <1>0, <1>5 DEF RecoverAnswers, RecoverFails, RowsShown
  <2>2. [action EXCEPT !.at = "waiting", !.kind = "recovered"] \in ActionState
    BY <1>0 DEF ActionState
  <2>3. CASE StayLocked(serverRow, [action EXCEPT !.at = "waiting", !.kind = "recovered"])
    BY <1>0, <2>1, <2>2, <2>3, StayLockedType
  <2>4. ASSUME NEW r \in RowsShown, NEW toast \in {"success", "info", "error"}, EndAction(r, toast)
        PROVE  PageTypeOK'
    BY <1>0, <2>1, <2>4, EndActionType
  <2>5. CASE RecoverAnswers
    <3>1. \/ \E toast \in {"success", "error"} : EndAction(serverRow, toast)
          \/ EndAction(serverRow, Outcome("activate", serverRow))
          \/ StayLocked(serverRow, [action EXCEPT !.at = "waiting", !.kind = "recovered"])
      BY <2>5 DEF RecoverAnswers
    <3> QED BY <2>1, <2>3, <2>4, <3>1, OutcomeType
  <2>6. CASE RecoverFails
    BY <1>0, <2>4, <2>6 DEF RecoverFails
  <2> QED BY <1>5, <2>5, <2>6
<1>6. CASE WaitAnswers \/ WaitFails
  <2>1. serverRow' = serverRow /\ serverRow \in RowsShown
    BY <1>0, <1>6 DEF WaitAnswers, WaitFails, RowsShown
  <2>2. action.tries # MaxWait => [action EXCEPT !.tries = @ + 1] \in ActionState
    <3>1. action.tries # MaxWait => action.tries + 1 \in 0..MaxWait
      BY <1>0
    <3> QED BY <1>0, <3>1 DEF ActionState
  <2>3. CASE WaitAnswers
    BY <1>0, <2>1, <2>2, <2>3, OutcomeType, EndActionType, StayLockedType DEF WaitAnswers
  <2>4. CASE WaitFails
    <3>1. CASE action.tries = MaxWait
      <4>1. \E toast \in {"success", "info", "error"} : EndAction(page.row, toast)
        BY <2>4, <3>1, OutcomeType DEF WaitFails
      <4> QED BY <1>0, <2>1, <4>1, EndActionType
    <3>2. CASE action.tries # MaxWait
      BY <1>0, <2>1, <2>2, <2>4, <3>2, ActionMovesType DEF WaitFails
    <3> QED BY <3>1, <3>2
  <2> QED BY <1>6, <2>3, <2>4
<1>7. ASSUME NEW k \in PagePoll \cup PagePatch,
             pageCall' = [pageCall EXCEPT ![k] = serverRow] \/ pageCall' = [pageCall EXCEPT ![k] = "none"],
             k \in PagePoll /\ pageCall'[k] # "none" => Polling,
             UNCHANGED <<serverRow, page, action>>
      PROVE  PageTypeOK'
  BY <1>0, <1>7 DEF PageTypeOK, Polling
<1>8. ASSUME NEW k \in PagePoll, BeginPoll(k) PROVE PageTypeOK'
  BY <1>7, <1>8 DEF BeginPoll
<1>9. ASSUME NEW k \in PagePatch, BeginCall(k) PROVE PageTypeOK'
  BY <1>7, <1>9, PageAssumption DEF BeginCall
<1>10. ASSUME NEW k \in PagePoll \cup PagePatch, CallAnswers(k) PROVE PageTypeOK'
  <2>1. /\ pageCall[k] \in ServerRow /\ pageCall' = [Remaining(pageCall[k]) EXCEPT ![k] = "none"]
        /\ page' = [page EXCEPT !.row = pageCall[k]] /\ page'.row = pageCall[k]
        /\ UNCHANGED <<serverRow, action>>
    BY <1>10 DEF CallAnswers, PageTypeOK
  <2>2. /\ Remaining(pageCall[k]) \in CallsUnderWay
        /\ \A p \in PagePoll : Remaining(pageCall[k])[p] # "none" => pageCall[k] = "zd"
    BY RemainingType
  <2>3. pageCall' \in CallsUnderWay /\ \A p \in PagePoll : pageCall'[p] # "none" => pageCall[k] = "zd"
    BY <2>1, <2>2 DEF CallsUnderWay
  <2> QED BY <1>0, <2>1, <2>3 DEF PageTypeOK, CallsUnderWay, Polling
<1>11. ASSUME NEW k \in PagePoll \cup PagePatch, CallFails(k) PROVE PageTypeOK'
  BY <1>0, <1>11 DEF CallFails, PageTypeOK, Polling
<1>12. CASE ServerMoves \/ UNCHANGED pageVars
  BY <1>0, <1>12 DEF ServerMoves, pageVars, PageTypeOK, Polling
<1> QED BY <1>1, <1>2, <1>3, <1>4, <1>5, <1>6, <1>8, <1>9, <1>10, <1>11, <1>12 DEF PageNext

-----------------------------------------------------------------------------
(* All of them                                                             *)

ProgressInv == part \in Part /\ WakeInv /\ BulkInv /\ MetricsInv /\ PageTypeOK

LEMMA ProgressStepInv == ProgressInv /\ [ProgressNext]_ProgressVars => ProgressInv'
<1> SUFFICES ASSUME ProgressInv, [ProgressNext]_ProgressVars PROVE ProgressInv'
  OBVIOUS
<1>1. /\ UNCHANGED part /\ [WakeNext]_wakeVars /\ [BulkNext]_bulkVars
      /\ [MetricsNext]_metricsVars /\ [PageNext]_pageVars
  BY DEF ProgressNext, ProgressVars
<1> QED BY <1>1, WakeStepInv, BulkStepInv, MetricsStepInv, PageStepType DEF ProgressInv

\* The wake queue, the operations over many previews, the metrics collector and the page
\* keep their state in the shapes their code gives it, whatever is asked of them, fails
\* or comes late; and polls of the page are under way only while it shows a switch
\* (wake-queue.ts, preview-instances.service.ts, metrics.service.ts, InstanceDetailClient.tsx).
THEOREM LoopsKeepTypes == ProgressSpec => []ProgressTypeOK
<1>1. ProgressInit => ProgressInv
  BY WakeInitInv, BulkInitInv, MetricsInitInv, PageInitType DEF ProgressInit, ProgressInv
<1>2. ProgressInv => ProgressTypeOK
  BY DEF ProgressInv, ProgressTypeOK, WakeInv, BulkInv, MetricsInv
<1> QED BY <1>1, <1>2, ProgressStepInv, PTL DEF ProgressSpec

=============================================================================
