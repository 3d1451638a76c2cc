-------------------------- MODULE JobManagerProofs --------------------------
(***************************************************************************)
(* Theorems about JobManager for every set of jobs, queues and workers: the *)
(* index and the cursor are right, no wake-up is lost, the manager         *)
(* implements JobPool, and its queues are served in turn.                  *)
(***************************************************************************)
EXTENDS JobManagerFairness, SequenceTheorems, TLAPS

\* Removing one position of a duplicate-free sequence removes that element
\* and nothing else.
LEMMA RemoveAtInjective ==
    ASSUME NEW S, NEW s \in Seq(S), IsInjective(s), NEW k \in 1 .. Len(s)
    PROVE  /\ RemoveAt(s, k) \in Seq(S)
           /\ Len(RemoveAt(s, k)) = Len(s) - 1
           /\ IsInjective(RemoveAt(s, k))
           /\ ToSet(RemoveAt(s, k)) = ToSet(s) \ {s[k]}
           /\ \A i \in 1 .. Len(s) - 1 :
                RemoveAt(s, k)[i] = IF i < k THEN s[i] ELSE s[i + 1]
<1> DEFINE a == SubSeq(s, 1, k - 1)
           b == SubSeq(s, k + 1, Len(s))
           r == RemoveAt(s, k)
<1>1. /\ a \in Seq(S) /\ Len(a) = k - 1
      /\ \A i \in 1 .. k - 1 : a[i] = s[i]
  BY SubSeqProperties, ElementOfSeq, LenProperties
<1>2. /\ b \in Seq(S) /\ Len(b) = Len(s) - k
      /\ \A i \in 1 .. Len(s) - k : b[i] = s[k + i]
  BY SubSeqProperties, ElementOfSeq, LenProperties
<1>3. r = a \o b
  BY DEF RemoveAt
<1> HIDE DEF a, b, r
<1>4. /\ r \in Seq(S) /\ Len(r) = Len(s) - 1
      /\ \A i \in 1 .. Len(s) - 1 : r[i] = IF i < k THEN s[i] ELSE s[i + 1]
  <2>1. /\ r \in Seq(S) /\ Len(r) = Len(a) + Len(b)
        /\ \A i \in 1 .. Len(a) + Len(b) :
              r[i] = IF i <= Len(a) THEN a[i] ELSE b[i - Len(a)]
    BY <1>1, <1>2, <1>3, ConcatProperties
  <2>2. ASSUME NEW i \in 1 .. Len(s) - 1
        PROVE  r[i] = IF i < k THEN s[i] ELSE s[i + 1]
    <3>1. CASE i < k
      <4>0. i \in 1 .. Len(a) + Len(b) /\ i <= Len(a)
        BY <3>1, <1>1, <1>2, LenProperties
      <4>1. r[i] = a[i]
        BY <4>0, <2>1
      <4>2. a[i] = s[i]
        BY <3>1, <1>1, LenProperties
      <4>. QED  BY <3>1, <4>1, <4>2
    <3>2. CASE i >= k
      <4>1. i - Len(a) \in 1 .. Len(s) - k
        BY <3>2, <1>1, LenProperties
      <4>2. r[i] = b[i - Len(a)]
        BY <3>2, <2>1, <1>1, <1>2, LenProperties
      <4>3. b[i - Len(a)] = s[k + (i - Len(a))]
        BY <4>1, <1>2
      <4>. QED  BY <3>2, <4>2, <4>3, <1>1, LenProperties
    <3>. QED  BY <3>1, <3>2, LenProperties
  <2>. QED  BY <2>1, <2>2, <1>1, <1>2, LenProperties
<1>5. DOMAIN r = 1 .. Len(s) - 1 /\ DOMAIN s = 1 .. Len(s) /\ Len(s) \in Nat
  BY <1>4, LenProperties
<1>6. IsInjective(r)
  <2>1. ASSUME NEW i \in 1 .. Len(s) - 1, NEW j \in 1 .. Len(s) - 1, r[i] = r[j]
        PROVE  i = j
    <3> DEFINE f(n) == IF n < k THEN n ELSE n + 1
    <3>1. /\ f(i) \in 1 .. Len(s) /\ f(j) \in 1 .. Len(s)
          /\ f(i) = f(j) => i = j
      BY <1>5
    <3>2. r[i] = s[f(i)] /\ r[j] = s[f(j)]
      BY <1>4
    <3> HIDE DEF f
    <3>. QED  BY <1>5, <2>1, <3>1, <3>2 DEF IsInjective
  <2>. QED  BY <1>5, <2>1 DEF IsInjective
<1>7. ToSet(r) = ToSet(s) \ {s[k]}
  <2>1. ASSUME NEW i \in 1 .. Len(s) - 1
        PROVE  r[i] \in ToSet(s) \ {s[k]}
    <3>1. PICK m \in 1 .. Len(s) : r[i] = s[m] /\ m # k
      BY <1>4, <1>5
    <3>. QED  BY <3>1, <1>5 DEF ToSet, IsInjective
  <2>2. ASSUME NEW i \in 1 .. Len(s), i # k
        PROVE  s[i] \in ToSet(r)
    <3>1. CASE i < k
      <4>. i \in DOMAIN r /\ r[i] = s[i]
        BY <3>1, <1>4, <1>5
      <4>. QED BY DEF ToSet
    <3>2. CASE i > k
      <4>. i - 1 \in DOMAIN r /\ r[i - 1] = s[i]
        BY <3>2, <1>4, <1>5
      <4>. QED BY DEF ToSet
    <3>. QED  BY <2>2, <3>1, <3>2
  <2>3. ToSet(s) \ {s[k]} \subseteq ToSet(r)
    BY <2>2, <1>5 DEF ToSet
  <2>4. ToSet(r) \subseteq ToSet(s) \ {s[k]}
    BY <2>1, <1>5 DEF ToSet
  <2>. QED  BY <2>3, <2>4
<1>. QED  BY <1>4, <1>6, <1>7 DEF r

\* Appending a fresh element keeps a sequence duplicate-free.
LEMMA AppendFresh ==
    ASSUME NEW S, NEW s \in Seq(S), IsInjective(s), NEW e \in S,
           e \notin ToSet(s)
    PROVE  /\ Append(s, e) \in Seq(S)
           /\ Len(Append(s, e)) = Len(s) + 1
           /\ IsInjective(Append(s, e))
           /\ ToSet(Append(s, e)) = ToSet(s) \cup {e}
<1>0. PICK t : t = Append(s, e)
  OBVIOUS
<1>1. /\ t \in Seq(S) /\ Len(t) = Len(s) + 1
      /\ \A i \in 1 .. Len(s) : t[i] = s[i]
      /\ t[Len(s) + 1] = e
  BY <1>0, LenProperties
<1>2. DOMAIN s = 1 .. Len(s) /\ DOMAIN t = 1 .. Len(s) + 1 /\ Len(s) \in Nat
  BY <1>1, LenProperties
<1>3. IsInjective(t)
  BY <1>1, <1>2 DEF IsInjective, ToSet
<1>4. ToSet(t) = ToSet(s) \cup {e}
  <2>1. ToSet(t) \subseteq ToSet(s) \cup {e}
    BY <1>1, <1>2 DEF ToSet
  <2>2. ToSet(s) \subseteq ToSet(t)
    BY <1>1, <1>2 DEF ToSet
  <2>3. e \in ToSet(t)
    BY <1>1, <1>2 DEF ToSet
  <2>. QED  BY <2>1, <2>2, <2>3
<1>. QED  BY <1>0, <1>1, <1>3, <1>4

-----------------------------------------------------------------------------
(* The inductive invariant.  The type of the job getNextJob takes, and so  *)
(* TypeOK itself, depends on the index and the map agreeing.               *)

IInv == TypeOK /\ IndexMatchesQueues /\ NoLostWakeup

\* IInv holds of a new manager (NewJobManager).
LEMMA InitIInv == NewJobManager => IInv
<1> SUFFICES ASSUME NewJobManager PROVE IInv
  OBVIOUS
<1> USE DEF NewJobManager, newDispatcher
<1>1. DOMAIN queues = {} /\ queuesIndex \in Seq(Queues) /\ Len(queuesIndex) = 0
  OBVIOUS
<1>2. TypeOK
  <2>1. queues \in [DOMAIN queues -> Seq(Jobs)]
    BY <1>1
  <2>2. DOMAIN queues \subseteq Queues
    BY <1>1
  <2>3. /\ caller \in [Jobs -> {"ready", "notify", "returned"}]
        /\ outcome \in [Jobs -> {"none", "ok", "failed", "dropped"}]
        /\ running \in [Workers -> Jobs \cup {NoJob}]
        /\ worker \in [Workers -> {"unstarted", "idle", "executing", "failing", "exited"}]
    OBVIOUS
  <2>4. lastQueueAccessed \in Int /\ totalJobs \in Int /\ newWork \in {0, 1}
    OBVIOUS
  <2>5. held \in Jobs \cup {NoJob} /\ assigner = "unstarted"
    OBVIOUS
  <2>6. quit \in BOOLEAN /\ poolQuit \in BOOLEAN
    BY Zenon
  <2> HIDE DEF NewJobManager, newDispatcher
  <2>. QED  BY <1>1, <2>1, <2>2, <2>3, <2>4, <2>5, <2>6 DEF TypeOK
<1>3. IndexMatchesQueues
  BY <1>1 DEF IndexMatchesQueues, IsInjective, ToSet
<1>. QED  BY <1>2, <1>3 DEF IInv, NoLostWakeup

\* AddJob puts the job on its queue, creating and indexing the queue first
\* when it does not exist.
LEMMA AddJobIInv ==
    ASSUME IInv, NEW j \in Jobs, NEW q \in Queues, AddJob(j, q)
    PROVE  IInv'
<1> USE DEF IInv
<1>1. /\ DOMAIN queues' = DOMAIN queues \cup {q}
      /\ queues' = [x \in DOMAIN queues \cup {q} |-> queues'[x]]
      /\ \A x \in DOMAIN queues \ {q} : queues'[x] = queues[x]
      /\ queues'[q] \in Seq(Jobs) /\ queues'[q] # <<>>
  <2>1. queues' = PushBack(q, j)
    BY DEF AddJob
  <2>2. CASE q \in DOMAIN queues
    <3>1. queues[q] \in Seq(Jobs)
      BY <2>2 DEF TypeOK
    <3>2. Append(queues[q], j) \in Seq(Jobs) /\ Append(queues[q], j) # <<>>
      BY <3>1
    <3>. QED  BY <2>1, <2>2, <3>2 DEF PushBack, SetQueue
  <2>3. CASE q \notin DOMAIN queues
    BY <2>1, <2>3 DEF PushBack, SetQueue
  <2>. QED  BY <2>2, <2>3
<1>2. /\ queuesIndex' \in Seq(Queues)
      /\ IsInjective(queuesIndex')
      /\ ToSet(queuesIndex') = DOMAIN queues'
      /\ Len(queuesIndex') >= Len(queuesIndex)
  <2>1. queuesIndex' = addQueue(q)
    BY DEF AddJob
  <2>2. CASE q \in DOMAIN queues
    BY <1>1, <2>1, <2>2, LenProperties DEF addQueue, TypeOK, IndexMatchesQueues
  <2>3. CASE q \notin DOMAIN queues
    <3>1. q \notin ToSet(queuesIndex) /\ queuesIndex' = Append(queuesIndex, q)
      BY <2>1, <2>3 DEF addQueue, IndexMatchesQueues
    <3>. QED
      BY <1>1, <3>1, AppendFresh, LenProperties DEF TypeOK, IndexMatchesQueues
  <2>. QED  BY <2>2, <2>3
<1>3. TypeOK'
  <2>1. queues' \in [DOMAIN queues' -> Seq(Jobs)] /\ DOMAIN queues' \subseteq Queues
    BY <1>1 DEF TypeOK
  <2>. QED  BY <2>1, <1>2 DEF TypeOK, AddJob, chanVars, workerVars
<1>4. IndexMatchesQueues'
  <2>1. lastQueueAccessed' \in -1 .. Len(queuesIndex') - 1
    BY <1>2, LenProperties DEF AddJob, IndexMatchesQueues, TypeOK
  <2>. QED  BY <1>1, <1>2, <2>1 DEF IndexMatchesQueues
<1>5. NoLostWakeup'
  <2> SUFFICES ASSUME assigner' = "wait", newWork' # 1
               PROVE  \E i \in Jobs : caller'[i] = "notify"
    BY DEF NoLostWakeup
  <2>1. CASE DOMAIN queues = {}
    <3>. caller'[j] = "notify"
      BY <2>1 DEF AddJob, TypeOK
    <3>. QED  OBVIOUS
  <2>2. CASE DOMAIN queues # {}
    <3>1. PICK i \in Jobs : caller[i] = "notify"
      BY <2>2 DEF NoLostWakeup, AddJob, chanVars
    <3>2. i # j /\ caller'[i] = "notify"
      BY <3>1 DEF AddJob, TypeOK
    <3>. QED  BY <3>2
  <2>. QED  BY <2>1, <2>2
<1>. QED  BY <1>3, <1>4, <1>5

\* getNextJob: the position it computes is a position of the index, so the
\* queue exists and has a first job; taking it prunes the queue it empties.
LEMMA GetNextJobIInv ==
    ASSUME IInv, getNextJob
    PROVE  IInv'
<1> USE DEF IInv
<1> DEFINE n == Len(queuesIndex)
           p == nextQueuePosition
           q == queuesIndex[p + 1]
<1>1. n \in Nat /\ n > 0 /\ DOMAIN queuesIndex = 1 .. n
  <2>1. n \in Nat /\ DOMAIN queuesIndex = 1 .. n
    BY LenProperties DEF TypeOK
  <2>2. ToSet(queuesIndex) # {}
    BY DEF getNextJob, IndexMatchesQueues
  <2>3. n # 0
    BY <2>1, <2>2 DEF ToSet
  <2>. QED  BY <2>1, <2>3
<1>2. p \in 0 .. n - 1
  BY <1>1 DEF nextQueuePosition, TypeOK
<1>3. q \in DOMAIN queues
  BY <1>1, <1>2 DEF IndexMatchesQueues, ToSet
<1>4. queues[q] \in Seq(Jobs) /\ queues[q] # <<>>
  BY <1>3 DEF TypeOK, IndexMatchesQueues
<1>5. held' \in Jobs
  BY <1>4, HeadTailProperties DEF getNextJob
<1> HIDE DEF n, p, q
<1>6. /\ DOMAIN queues' \subseteq Queues
      /\ queues' \in [DOMAIN queues' -> Seq(Jobs)]
      /\ queuesIndex' \in Seq(Queues)
      /\ lastQueueAccessed' \in Int
      /\ IndexMatchesQueues'
  <2>1. takeFront(p)
    BY DEF getNextJob, p
  <2>2. CASE Len(queues[q]) = 1
    <3>1. removeLastQueueAccessed(p)
      BY <2>1, <2>2 DEF takeFront, q
    <3>2. /\ queues' = [x \in DOMAIN queues \ {q} |-> queues[x]]
          /\ queuesIndex' = RemoveAt(queuesIndex, p + 1)
          /\ lastQueueAccessed' = cursorAfterRemoval(p)
      BY <3>1 DEF removeLastQueueAccessed, q
    <3>3. /\ queuesIndex' \in Seq(Queues)
          /\ Len(queuesIndex') = n - 1
          /\ IsInjective(queuesIndex')
          /\ ToSet(queuesIndex') = ToSet(queuesIndex) \ {q}
      <4>1. p + 1 \in 1 .. Len(queuesIndex)
        BY <1>1, <1>2 DEF n
      <4>. QED
        BY <3>2, <4>1, RemoveAtInjective DEF TypeOK, IndexMatchesQueues, n, q
    <3>4. lastQueueAccessed' \in -1 .. n - 2
      BY <3>2, <1>1, <1>2 DEF cursorAfterRemoval, n
    <3>5. /\ DOMAIN queues' = DOMAIN queues \ {q}
          /\ \A x \in DOMAIN queues \ {q} : queues'[x] = queues[x]
      BY <3>2
    <3>6. IndexMatchesQueues'
      BY <3>3, <3>4, <3>5, <1>1 DEF IndexMatchesQueues
    <3>. QED  BY <3>2, <3>3, <3>4, <3>5, <3>6, <1>1 DEF TypeOK
  <2>3. CASE Len(queues[q]) # 1
    <3>1. /\ queues' = SetQueue(q, Tail(queues[q]))
          /\ queuesIndex' = queuesIndex
          /\ lastQueueAccessed' = p
      BY <2>1, <2>3 DEF takeFront, q
    <3>2. Tail(queues[q]) \in Seq(Jobs) /\ Tail(queues[q]) # <<>>
      <4>1. Tail(queues[q]) \in Seq(Jobs) /\ Len(Tail(queues[q])) = Len(queues[q]) - 1
        BY <1>4, HeadTailProperties
      <4>2. Len(queues[q]) \in Nat \ {0}
        BY <1>4, EmptySeq
      <4>3. Len(Tail(queues[q])) # 0
        BY <4>1, <4>2, <2>3
      <4>4. Len(<<>>) = 0
        BY EmptySeq
      <4>. QED  BY <4>1, <4>3, <4>4
    <3>3. /\ DOMAIN queues' = DOMAIN queues
          /\ queues'[q] = Tail(queues[q])
          /\ \A x \in DOMAIN queues \ {q} : queues'[x] = queues[x]
      BY <3>1, <1>3 DEF SetQueue
    <3>4. IndexMatchesQueues'
      <4>1. \A x \in DOMAIN queues' : queues'[x] # <<>>
        BY <3>2, <3>3 DEF IndexMatchesQueues
      <4>2. lastQueueAccessed' \in -1 .. Len(queuesIndex') - 1
        BY <3>1, <1>1, <1>2 DEF n
      <4>. QED  BY <3>1, <3>3, <4>1, <4>2 DEF IndexMatchesQueues
    <3>5. queues' \in [DOMAIN queues' -> Seq(Jobs)]
      BY <3>1, <3>2, <3>3 DEF SetQueue, TypeOK
    <3>. QED  BY <3>1, <3>3, <3>4, <3>5, <1>1, <1>2 DEF TypeOK
  <2>. QED  BY <2>2, <2>3
<1>7. TypeOK'
  BY <1>5, <1>6 DEF TypeOK, getNextJob, chanVars, workerVars
<1>8. NoLostWakeup'
  BY DEF NoLostWakeup, getNextJob
<1>. QED  BY <1>6, <1>7, <1>8

\* The steps that leave the queues alone.  Only SendNewWork, the two
\* receives and the steps into the blocking select matter for wake-ups.
LEMMA OtherIInv ==
    ASSUME IInv,
           \/ \E j \in Jobs : SendNewWork(j)
           \/ Start \/ Stop \/ StopPool
           \/ PollQuit \/ PollNewWork \/ PollDefault \/ getNoJob
           \/ \E w \in Workers : dispatch(w)
           \/ dispatchQuit \/ WaitQuit \/ WaitNewWork
           \/ \E w \in Workers : WorkerStep(w)
           \/ UNCHANGED vars
    PROVE  IInv'
<1> USE DEF IInv, queueVars, chanVars, workerVars
<1>1. UNCHANGED queueVars
  BY DEF vars, SendNewWork, Start, Stop, StopPool, PollQuit, WaitQuit,
         AssignerExit, PollNewWork, PollDefault, getNoJob, dispatch,
         dispatchQuit, WaitNewWork, WorkerStep, WorkerQuit, Execute, OnFailure
<1>2. IndexMatchesQueues'
  BY <1>1 DEF IndexMatchesQueues
<1>3. ASSUME NEW j \in Jobs, SendNewWork(j)
      PROVE  TypeOK' /\ NoLostWakeup'
  BY <1>3 DEF SendNewWork, TypeOK, NoLostWakeup
<1>4. CASE Start \/ Stop \/ StopPool
  <2>1. CASE Start
    BY <1>2, <2>1 DEF Start, TypeOK, NoLostWakeup
  <2>2. CASE Stop
    BY <1>2, <2>2 DEF Stop, TypeOK, NoLostWakeup
  <2>3. CASE StopPool
    BY <1>2, <2>3 DEF StopPool, TypeOK, NoLostWakeup
  <2>. QED  BY <1>4, <2>1, <2>2, <2>3
<1>5. CASE PollQuit \/ WaitQuit
  BY <1>5, <1>2 DEF PollQuit, WaitQuit, AssignerExit, TypeOK, NoLostWakeup
<1>6. CASE PollNewWork \/ PollDefault \/ WaitNewWork
  BY <1>6, <1>2 DEF PollNewWork, PollDefault, WaitNewWork, TypeOK, NoLostWakeup
<1>7. CASE getNoJob
  BY <1>7, <1>2 DEF getNoJob, TypeOK, NoLostWakeup
<1>8. ASSUME NEW w \in Workers, dispatch(w)
      PROVE  TypeOK' /\ NoLostWakeup'
  BY <1>8 DEF dispatch, TypeOK, NoLostWakeup
<1>9. CASE dispatchQuit
  BY <1>9, <1>2 DEF dispatchQuit, TypeOK, NoLostWakeup
<1>10. ASSUME NEW w \in Workers, WorkerStep(w)
       PROVE  TypeOK' /\ NoLostWakeup'
  <2>1. CASE WorkerQuit(w)
    BY <2>1 DEF WorkerQuit, TypeOK, NoLostWakeup
  <2>2. CASE Execute(w)
    BY <2>2 DEF Execute, TypeOK, NoLostWakeup
  <2>3. CASE OnFailure(w)
    BY <2>3 DEF OnFailure, TypeOK, NoLostWakeup
  <2>. QED  BY <1>10, <2>1, <2>2, <2>3 DEF WorkerStep
<1>11. CASE UNCHANGED vars
  BY <1>11, <1>2 DEF vars, TypeOK, NoLostWakeup
<1>. QED
  BY <1>2, <1>3, <1>4, <1>5, <1>6, <1>7, <1>8, <1>9, <1>10, <1>11

\* Every step of the manager, its callers and its workers keeps IInv.
LEMMA NextIInv == IInv /\ [Next]_vars => IInv'
<1> SUFFICES ASSUME IInv, [Next]_vars PROVE IInv'
  OBVIOUS
<1>1. ASSUME NEW j \in Jobs, NEW q \in Queues, AddJob(j, q) PROVE IInv'
  BY <1>1, AddJobIInv
<1>2. CASE getNextJob
  BY <1>2, GetNextJobIInv
<1>. QED  BY <1>1, <1>2, OtherIInv DEF Next, AssignerStep

\* IInv is an inductive invariant of the manager.  The index being right is
\* what lets takeFront prune the queue it served, and the wake-up fact is
\* inductive because only AddJob makes queues non-empty.
THEOREM JobManagerInvariant == Spec => []IInv
<1>. QED  BY InitIInv, NextIInv, PTL DEF Spec

\* Every variable keeps its type; in particular the job getNextJob returns
\* is always a real job.
THEOREM TypeCorrect == Spec => []TypeOK
<1>1. IInv => TypeOK
  BY DEF IInv
<1>. QED  BY <1>1, JobManagerInvariant, PTL

\* For any number of jobs, queues and workers the index and the map of
\* JobManager agree, so getNextJob and removeLastQueueAccessed never index
\* out of bounds and never take the front of an empty list.
THEOREM IndexSafety == Spec => []IndexMatchesQueues
<1>1. IInv => IndexMatchesQueues
  BY DEF IInv
<1>. QED  BY <1>1, JobManagerInvariant, PTL

\* For any number of jobs, queues and workers assignWork never sleeps on
\* queued work without a wake-up that is sent or about to be sent.
THEOREM WakeupSafety == Spec => []NoLostWakeup
<1>1. IInv => NoLostWakeup
  BY DEF IInv
<1>. QED  BY <1>1, JobManagerInvariant, PTL

-----------------------------------------------------------------------------
(* The manager implements the abstract pool of jobs (JobPool).             *)

\* The jobs that were added and are neither executed nor finished.
Untouched ==
    {j \in Jobs : /\ caller[j] # "ready" /\ outcome[j] = "none"
                  /\ \A w \in Workers : running[w] # j}

\* Where each job is: a queued job is at one position of one queue, and it is
\* neither in the hand of the assigner nor with a worker nor finished; a job
\* is with one worker at most.
QueuedOnce ==
    \A q, r \in DOMAIN queues : \A i \in DOMAIN queues[q], k \in DOMAIN queues[r] :
        queues[q][i] = queues[r][k] => q = r /\ i = k
QueuedUntouched ==
    \A q \in DOMAIN queues : \A i \in DOMAIN queues[q] :
        queues[q][i] \in Untouched /\ held # queues[q][i]
HeldUntouched ==
    /\ assigner = "dispatch" => held \in Jobs
    /\ held \in Jobs => held \in Untouched
RunningOnce ==
    \A w \in Workers :
        /\ running[w] \in Jobs <=> worker[w] \in {"executing", "failing"}
        /\ running[w] \in Jobs =>
             /\ caller[running[w]] # "ready" /\ outcome[running[w]] = "none"
             /\ \A v \in Workers : running[v] = running[w] => v = w
DoneWasAdded == \A j \in Jobs : outcome[j] # "none" => caller[j] # "ready"
IdleUntilStart ==
    assigner = "unstarted" => \A w \in Workers : worker[w] = "unstarted"

JobsPlaced ==
    /\ QueuedOnce /\ QueuedUntouched /\ HeldUntouched
    /\ RunningOnce /\ DoneWasAdded /\ IdleUntilStart

\* getNextJob takes the first job of one queue; the others stay as they are.
LEMMA GetNextJobTakes ==
    ASSUME IInv, getNextJob
    PROVE  \E q \in DOMAIN queues :
             /\ queues[q] \in Seq(Jobs) /\ queues[q] # <<>>
             /\ held' = Head(queues[q])
             /\ DOMAIN queues' \subseteq DOMAIN queues
             /\ \A x \in DOMAIN queues' \ {q} : queues'[x] = queues[x]
             /\ q \in DOMAIN queues' => queues'[q] = Tail(queues[q])
<1> USE DEF IInv
<1> DEFINE n == Len(queuesIndex)
           p == nextQueuePosition
           q == queuesIndex[p + 1]
<1>1. n \in Nat /\ n > 0 /\ DOMAIN queuesIndex = 1 .. n
  <2>1. n \in Nat /\ DOMAIN queuesIndex = 1 .. n
    BY LenProperties DEF TypeOK
  <2>2. ToSet(queuesIndex) # {}
    BY DEF getNextJob, IndexMatchesQueues
  <2>3. n # 0
    BY <2>1, <2>2 DEF ToSet
  <2>. QED  BY <2>1, <2>3
<1>2. p \in 0 .. n - 1
  BY <1>1 DEF nextQueuePosition, TypeOK
<1>3. q \in DOMAIN queues
  BY <1>1, <1>2 DEF IndexMatchesQueues, ToSet
<1>4. queues[q] \in Seq(Jobs) /\ queues[q] # <<>>
  BY <1>3 DEF TypeOK, IndexMatchesQueues
<1>5. held' = Head(queues[q]) /\ takeFront(p)
  BY DEF getNextJob
<1> HIDE DEF n, p
<1>6. CASE Len(queues[q]) = 1
  <2>1. queues' = [x \in DOMAIN queues \ {q} |-> queues[x]]
    BY <1>5, <1>6 DEF takeFront, removeLastQueueAccessed
  <2> HIDE DEF q
  <2>. QED  BY <1>3, <1>4, <1>5, <2>1
<1>7. CASE Len(queues[q]) # 1
  <2>1. queues' = SetQueue(q, Tail(queues[q]))
    BY <1>5, <1>7 DEF takeFront
  <2> HIDE DEF q
  <2>2. queues' = [x \in DOMAIN queues |-> IF x = q THEN Tail(queues[q]) ELSE queues[x]]
    BY <2>1, <1>3 DEF SetQueue
  <2>. QED  BY <1>3, <1>4, <1>5, <2>2
<1>. QED  BY <1>6, <1>7

\* A queue without its first job has its other jobs, one position further on.
LEMMA TailShift ==
    ASSUME NEW S, NEW s \in Seq(S), s # <<>>
    PROVE  /\ Head(s) = s[1] /\ 1 \in DOMAIN s
           /\ \A i \in DOMAIN Tail(s) : /\ i + 1 \in DOMAIN s /\ i + 1 # 1
                                      /\ Tail(s)[i] = s[i + 1]
<1>1. Len(s) \in Nat \ {0} /\ DOMAIN s = 1 .. Len(s)
  BY EmptySeq, LenProperties
<1>2. /\ Tail(s) \in Seq(S) /\ Len(Tail(s)) = Len(s) - 1 /\ Head(s) = s[1]
      /\ \A i \in 1 .. Len(Tail(s)) : Tail(s)[i] = s[i + 1]
  BY HeadTailProperties
<1>3. DOMAIN Tail(s) = 1 .. Len(s) - 1
  BY <1>2, LenProperties
<1>. QED  BY <1>1, <1>2, <1>3

\* A new manager has no jobs.
LEMMA InitJobsPlaced == NewJobManager => JobsPlaced
  BY NoJobAssumption DEF NewJobManager, newDispatcher, JobsPlaced, QueuedOnce, QueuedUntouched,
     HeldUntouched, RunningOnce, DoneWasAdded, IdleUntilStart

\* AddJob: a job that was not added before is nowhere else.
LEMMA AddJobPlaced ==
    ASSUME IInv, JobsPlaced, NEW j \in Jobs, NEW q \in Queues, AddJob(j, q)
    PROVE  JobsPlaced'
<1> USE DEF IInv, JobsPlaced
<1>1. /\ caller[j] = "ready" /\ caller'[j] # "ready"
      /\ \A i \in Jobs \ {j} : caller'[i] = caller[i]
  BY DEF AddJob, TypeOK
<1>2. UNCHANGED <<chanVars, assigner, held, workerVars>>
  BY DEF AddJob
<1>3. ASSUME NEW r \in DOMAIN queues, NEW i \in DOMAIN queues[r]
      PROVE  queues[r][i] \in Jobs \ {j}
  <2>1. queues[r] \in Seq(Jobs)
    BY DEF TypeOK
  <2>2. queues[r][i] \in Jobs
    BY <2>1, ElementOfSeq, LenProperties
  <2>. QED  BY <2>2, <1>1 DEF QueuedUntouched, Untouched
<1>4. ASSUME NEW r \in DOMAIN queues', NEW i \in DOMAIN queues'[r]
      PROVE  \/ /\ r \in DOMAIN queues /\ i \in DOMAIN queues[r]
                /\ queues'[r][i] = queues[r][i]
             \/ /\ r = q /\ queues'[r][i] = j
                /\ i = IF q \in DOMAIN queues THEN Len(queues[q]) + 1 ELSE 1
  <2>1. queues' = PushBack(q, j)
    BY DEF AddJob
  <2>2. CASE r # q
    BY <2>1, <2>2 DEF PushBack, SetQueue
  <2>3. CASE r = q /\ q \notin DOMAIN queues
    <3>1. queues'[q] = <<j>>
      BY <2>1, <2>3 DEF PushBack, SetQueue
    <3>. QED  BY <2>3, <3>1
  <2>4. CASE r = q /\ q \in DOMAIN queues
    <3>1. queues'[q] = Append(queues[q], j)
      BY <2>1, <2>4 DEF PushBack, SetQueue
    <3>2. queues[q] \in Seq(Jobs)
      BY <2>4 DEF TypeOK
    <3>3. /\ DOMAIN Append(queues[q], j) = 1 .. Len(queues[q]) + 1
          /\ DOMAIN queues[q] = 1 .. Len(queues[q]) /\ Len(queues[q]) \in Nat
          /\ \A k \in 1 .. Len(queues[q]) : Append(queues[q], j)[k] = queues[q][k]
          /\ Append(queues[q], j)[Len(queues[q]) + 1] = j
      BY <3>2, LenProperties
    <3>. QED  BY <2>4, <3>1, <3>3
  <2>. QED  BY <2>2, <2>3, <2>4
<1>5. QueuedOnce'
  <2> SUFFICES ASSUME NEW r \in DOMAIN queues', NEW s \in DOMAIN queues',
                      NEW i \in DOMAIN queues'[r], NEW k \in DOMAIN queues'[s],
                      queues'[r][i] = queues'[s][k]
               PROVE  r = s /\ i = k
    BY DEF QueuedOnce
  <2>. QED  BY <1>3, <1>4 DEF QueuedOnce
<1>6. j \in Untouched'
  BY <1>1, <1>2 DEF workerVars, RunningOnce, DoneWasAdded, Untouched, TypeOK
<1>7. held # j
  BY <1>1 DEF HeldUntouched, Untouched
<1>8. Untouched \subseteq Untouched'
  BY <1>1, <1>2 DEF Untouched, workerVars
<1>9. QueuedUntouched'
  <2> SUFFICES ASSUME NEW r \in DOMAIN queues', NEW i \in DOMAIN queues'[r]
               PROVE  queues'[r][i] \in Untouched' /\ held' # queues'[r][i]
    BY DEF QueuedUntouched
  <2>1. CASE queues'[r][i] = j
    BY <2>1, <1>2, <1>6, <1>7
  <2>2. CASE queues'[r][i] # j
    <3>1. r \in DOMAIN queues /\ i \in DOMAIN queues[r] /\ queues'[r][i] = queues[r][i]
      BY <2>2, <1>4
    <3>2. queues[r][i] \in Untouched /\ held # queues[r][i]
      BY <3>1 DEF QueuedUntouched
    <3>. QED  BY <3>1, <3>2, <1>2, <1>8
  <2>. QED  BY <2>1, <2>2
<1>10. HeldUntouched'
  BY <1>2, <1>8 DEF HeldUntouched
<1>11. RunningOnce' /\ DoneWasAdded' /\ IdleUntilStart'
  BY <1>1, <1>2 DEF RunningOnce, DoneWasAdded, IdleUntilStart, workerVars, TypeOK
<1>. QED  BY <1>5, <1>9, <1>10, <1>11

\* getNextJob: the job it takes leaves its only position.
LEMMA GetNextJobPlaced ==
    ASSUME IInv, JobsPlaced, getNextJob
    PROVE  JobsPlaced'
<1> USE DEF IInv, JobsPlaced
<1>1. PICK q \in DOMAIN queues :
             /\ queues[q] \in Seq(Jobs) /\ queues[q] # <<>>
             /\ held' = Head(queues[q])
             /\ DOMAIN queues' \subseteq DOMAIN queues
             /\ \A x \in DOMAIN queues' \ {q} : queues'[x] = queues[x]
             /\ q \in DOMAIN queues' => queues'[q] = Tail(queues[q])
  BY GetNextJobTakes
<1>2. UNCHANGED <<caller, worker, running, outcome>> /\ assigner' = "dispatch"
  BY DEF getNextJob, workerVars
<1>3. Untouched' = Untouched
  BY <1>2 DEF Untouched
<1>4. held' = queues[q][1] /\ 1 \in DOMAIN queues[q]
  BY <1>1, TailShift
<1>5. ASSUME NEW r \in DOMAIN queues', NEW i \in DOMAIN queues'[r]
      PROVE  \E k \in DOMAIN queues[r] :
               /\ r \in DOMAIN queues /\ queues'[r][i] = queues[r][k]
               /\ k = (IF r = q THEN i + 1 ELSE i) /\ ~(r = q /\ k = 1)
  <2>1. CASE r # q
    BY <1>1, <2>1
  <2>2. CASE r = q
    <3>1. queues'[r] = Tail(queues[q])
      BY <1>1, <2>2
    <3>2. /\ i + 1 \in DOMAIN queues[q] /\ i + 1 # 1
          /\ Tail(queues[q])[i] = queues[q][i + 1]
      BY <3>1, <1>1, TailShift
    <3>. QED  BY <3>1, <3>2, <2>2, <1>1
  <2>. QED  BY <2>1, <2>2
<1>6. ASSUME NEW r \in DOMAIN queues' PROVE DOMAIN queues'[r] \subseteq Int
  <2>1. queues'[r] \in Seq(Jobs)
    BY GetNextJobIInv DEF TypeOK
  <2>. QED  BY <2>1, LenProperties
<1>7. QueuedOnce'
  <2> SUFFICES ASSUME NEW r \in DOMAIN queues', NEW s \in DOMAIN queues',
                      NEW i \in DOMAIN queues'[r], NEW k \in DOMAIN queues'[s],
                      queues'[r][i] = queues'[s][k]
               PROVE  r = s /\ i = k
    BY DEF QueuedOnce
  <2>1. i \in Int /\ k \in Int
    BY <1>6
  <2>. QED  BY <1>5, <2>1 DEF QueuedOnce
<1>8. QueuedUntouched'
  <2> SUFFICES ASSUME NEW r \in DOMAIN queues', NEW i \in DOMAIN queues'[r]
               PROVE  queues'[r][i] \in Untouched' /\ held' # queues'[r][i]
    BY DEF QueuedUntouched
  <2>. QED  BY <1>3, <1>4, <1>5 DEF QueuedUntouched, QueuedOnce
<1>9. HeldUntouched'
  <2>1. held' \in Untouched
    BY <1>4 DEF QueuedUntouched
  <2>. QED  BY <2>1, <1>3 DEF HeldUntouched, Untouched
<1>10. RunningOnce' /\ DoneWasAdded' /\ IdleUntilStart'
  BY <1>2 DEF RunningOnce, DoneWasAdded, IdleUntilStart
<1>. QED  BY <1>7, <1>8, <1>9, <1>10

\* A step that leaves the queues alone and takes from Untouched nothing but
\* the job that leaves the hand of the assigner keeps the queued jobs placed.
LEMMA QueuesKept ==
    ASSUME JobsPlaced, UNCHANGED queues, Untouched \ {held} \subseteq Untouched',
           held' \in {held, NoJob}, TypeOK
    PROVE  QueuedOnce' /\ QueuedUntouched'
<1> USE DEF JobsPlaced
<1>1. QueuedOnce'
  BY DEF QueuedOnce
<1>2. ASSUME NEW q \in DOMAIN queues, NEW i \in DOMAIN queues[q]
      PROVE  queues[q][i] \in Untouched' /\ held' # queues[q][i]
  <2>1. queues[q][i] \in Untouched /\ held # queues[q][i]
    BY DEF QueuedUntouched
  <2>. QED  BY <2>1, NoJobAssumption DEF Untouched
<1>. QED  BY <1>1, <1>2 DEF QueuedUntouched

\* The drop of a job by a dispatcher that is shutting down.
LEMMA DropPlaced ==
    ASSUME IInv, JobsPlaced, dispatchQuit
    PROVE  JobsPlaced'
<1> USE DEF IInv, dispatchQuit, queueVars
<1>1. held \in Untouched /\ held \in Jobs
  BY DEF JobsPlaced, HeldUntouched
<1>2. Untouched \ {held} \subseteq Untouched'
  BY DEF Untouched, TypeOK
<1>3. QueuedOnce' /\ QueuedUntouched'
  BY <1>2, QueuesKept
<1>4. HeldUntouched' /\ IdleUntilStart'
  BY NoJobAssumption DEF JobsPlaced, HeldUntouched, IdleUntilStart
<1>5. DoneWasAdded'
  BY <1>1 DEF JobsPlaced, DoneWasAdded, Untouched, TypeOK
<1>6. RunningOnce'
  BY <1>1 DEF JobsPlaced, RunningOnce, Untouched, TypeOK
<1>. QED  BY <1>3, <1>4, <1>5, <1>6 DEF JobsPlaced

\* The hand-over to a worker and the end of an execution.
LEMMA WorkerPlaced ==
    ASSUME IInv, JobsPlaced, NEW w \in Workers,
           dispatch(w) \/ Execute(w) \/ OnFailure(w)
    PROVE  JobsPlaced'
<1> USE DEF IInv
<1>1. CASE dispatch(w)
  <2> USE <1>1 DEF dispatch, queueVars
  <2>1. held \in Untouched /\ held \in Jobs
    BY DEF JobsPlaced, HeldUntouched
  <2>2. running' = [running EXCEPT ![w] = held] /\ worker' = [worker EXCEPT ![w] = "executing"]
    OBVIOUS
  <2>3. Untouched \ {held} \subseteq Untouched'
    BY DEF Untouched, TypeOK
  <2>4. QueuedOnce' /\ QueuedUntouched'
    BY <2>3, QueuesKept
  <2>5. HeldUntouched' /\ DoneWasAdded' /\ IdleUntilStart'
    BY NoJobAssumption DEF JobsPlaced, HeldUntouched, DoneWasAdded, IdleUntilStart
  <2>6. RunningOnce'
    BY <2>1, <2>2 DEF JobsPlaced, RunningOnce, Untouched, TypeOK
  <2>. QED  BY <2>4, <2>5, <2>6 DEF JobsPlaced
<1>3. CASE Execute(w) /\ worker'[w] = "failing"
  <2> USE <1>3 DEF Execute, queueVars
  <2>1. UNCHANGED <<running, outcome>> /\ worker' = [worker EXCEPT ![w] = "failing"]
    BY DEF TypeOK
  <2>2. Untouched' = Untouched
    BY <2>1 DEF Untouched
  <2>3. QueuedOnce' /\ QueuedUntouched'
    BY <2>2, QueuesKept
  <2>4. HeldUntouched' /\ DoneWasAdded'
    BY <2>1, <2>2 DEF JobsPlaced, HeldUntouched, DoneWasAdded
  <2>5. RunningOnce' /\ IdleUntilStart'
    BY <2>1 DEF JobsPlaced, RunningOnce, IdleUntilStart, TypeOK
  <2>. QED  BY <2>3, <2>4, <2>5 DEF JobsPlaced
<1>4. CASE (Execute(w) /\ worker'[w] # "failing") \/ OnFailure(w)
  <2>1. PICK o \in {"ok", "failed"} :
          /\ worker[w] \in {"executing", "failing"}
          /\ worker' = [worker EXCEPT ![w] = "idle"]
          /\ running' = [running EXCEPT ![w] = NoJob]
          /\ outcome' = [outcome EXCEPT ![running[w]] = o]
          /\ UNCHANGED <<queues, caller, assigner, held>>
    BY <1>4 DEF Execute, OnFailure, TypeOK, queueVars
  <2>2. /\ running[w] \in Jobs /\ caller[running[w]] # "ready"
        /\ \A v \in Workers : running[v] = running[w] => v = w
        /\ running[w] \notin Untouched
    BY <2>1 DEF JobsPlaced, RunningOnce, Untouched
  <2>3. Untouched \subseteq Untouched'
    BY <2>1, <2>2, NoJobAssumption DEF Untouched, TypeOK
  <2>4. QueuedOnce' /\ QueuedUntouched'
    BY <2>1, <2>3, QueuesKept
  <2>5. HeldUntouched' /\ IdleUntilStart'
    BY <2>1, <2>3 DEF JobsPlaced, HeldUntouched, IdleUntilStart, TypeOK
  <2>6. DoneWasAdded'
    BY <2>1, <2>2 DEF JobsPlaced, DoneWasAdded, TypeOK
  <2>7. RunningOnce'
    BY <2>1, <2>2, NoJobAssumption DEF JobsPlaced, RunningOnce, TypeOK
  <2>. QED  BY <2>4, <2>5, <2>6, <2>7 DEF JobsPlaced
<1>. QED  BY <1>1, <1>3, <1>4

\* The steps that move no job: wake-ups, starting and stopping.
LEMMA OtherPlaced ==
    ASSUME IInv, JobsPlaced,
           \/ \E j \in Jobs : SendNewWork(j)
           \/ Start \/ Stop \/ StopPool
           \/ PollQuit \/ PollNewWork \/ PollDefault \/ getNoJob
           \/ WaitQuit \/ WaitNewWork
           \/ \E w \in Workers : WorkerQuit(w)
           \/ UNCHANGED vars
    PROVE  /\ JobsPlaced'
           /\ UNCHANGED <<running, outcome>>
           /\ UNCHANGED {j \in Jobs : caller[j] # "ready"}
<1> USE DEF IInv, queueVars, chanVars, workerVars
<1>1. /\ UNCHANGED <<queues, held, running, outcome>>
      /\ \A j \in Jobs : caller'[j] # "ready" <=> caller[j] # "ready"
      /\ assigner' = "dispatch" => assigner = "dispatch"
      /\ assigner' = "unstarted" => assigner = "unstarted" /\ ~Start
  BY DEF vars, SendNewWork, Start, Stop, StopPool, PollQuit, WaitQuit,
         AssignerExit, PollNewWork, PollDefault, getNoJob, WaitNewWork, WorkerQuit,
         TypeOK
<1>2. Untouched' = Untouched
  BY <1>1 DEF Untouched
<1>3. QueuedOnce' /\ QueuedUntouched'
  BY <1>1, <1>2, QueuesKept
<1>4. HeldUntouched' /\ DoneWasAdded'
  BY <1>1, <1>2 DEF JobsPlaced, HeldUntouched, DoneWasAdded
<1>5. \A w \in Workers :
        worker[w] \in {"executing", "failing"} <=> worker'[w] \in {"executing", "failing"}
  <2>1. CASE Start
    BY <2>1 DEF Start, JobsPlaced, IdleUntilStart
  <2>2. ASSUME NEW w \in Workers, WorkerQuit(w)
        PROVE  \A v \in Workers : worker[v] \in {"executing", "failing"}
                                  <=> worker'[v] \in {"executing", "failing"}
    BY <2>2 DEF WorkerQuit, TypeOK
  <2>3. CASE UNCHANGED worker
    BY <2>3
  <2>. QED  BY <2>1, <2>2, <2>3 DEF vars, SendNewWork, Stop, StopPool, PollQuit,
         WaitQuit, AssignerExit, PollNewWork, PollDefault, getNoJob, WaitNewWork
<1>6. RunningOnce'
  BY <1>1, <1>5 DEF JobsPlaced, RunningOnce, TypeOK
<1>7. IdleUntilStart'
  <2>1. ASSUME NEW w \in Workers, WorkerQuit(w) PROVE assigner # "unstarted"
    BY <2>1 DEF WorkerQuit, JobsPlaced, IdleUntilStart
  <2>2. CASE UNCHANGED worker
    BY <2>2, <1>1 DEF JobsPlaced, IdleUntilStart
  <2>3. CASE Start
    BY <2>3, <1>1 DEF IdleUntilStart
  <2>. QED  BY <1>1, <2>1, <2>2, <2>3 DEF IdleUntilStart, vars, SendNewWork, Stop,
         StopPool, PollQuit, WaitQuit, AssignerExit, PollNewWork, PollDefault, getNoJob,
         WaitNewWork
<1>. QED  BY <1>1, <1>3, <1>4, <1>6, <1>7 DEF JobsPlaced

\* Every step keeps every job in its place.
LEMMA NextJobsPlaced == IInv /\ JobsPlaced /\ [Next]_vars => JobsPlaced'
<1> SUFFICES ASSUME IInv, JobsPlaced, [Next]_vars PROVE JobsPlaced'
  OBVIOUS
<1>1. ASSUME NEW j \in Jobs, NEW q \in Queues, AddJob(j, q) PROVE JobsPlaced'
  BY <1>1, AddJobPlaced
<1>2. CASE getNextJob
  BY <1>2, GetNextJobPlaced
<1>3. ASSUME NEW w \in Workers, dispatch(w) \/ Execute(w) \/ OnFailure(w)
      PROVE  JobsPlaced'
  BY <1>3, WorkerPlaced
<1>4. CASE dispatchQuit
  BY <1>4, DropPlaced
<1>. QED  BY <1>1, <1>2, <1>3, <1>4, OtherPlaced DEF Next, AssignerStep, WorkerStep

\* Every step of the manager is a step of the pool, or leaves it alone.
LEMMA NextIsPoolNext ==
    IInv /\ JobsPlaced /\ [Next]_vars => [Pool!Next]_(Pool!poolVars)
<1> SUFFICES ASSUME IInv, JobsPlaced, [Next]_vars
             PROVE  [Pool!Next]_(Pool!poolVars)
  OBVIOUS
<1> USE DEF IInv, queueVars, chanVars, workerVars
<1>1. ASSUME NEW j \in Jobs, NEW q \in Queues, AddJob(j, q) PROVE Pool!Submit(j)
  <2>1. /\ caller[j] = "ready" /\ caller'[j] # "ready"
        /\ \A i \in Jobs \ {j} : caller'[i] = caller[i]
        /\ UNCHANGED <<running, outcome, poolQuit>>
    BY <1>1 DEF AddJob, TypeOK
  <2>. QED  BY <2>1 DEF Pool!Submit
<1>2. CASE getNextJob
  BY <1>2 DEF getNextJob, Pool!poolVars
<1>3. ASSUME NEW w \in Workers, dispatch(w) PROVE held \in Jobs /\ Pool!Take(w, held)
  <2>1. held \in Untouched /\ held \in Jobs
    BY <1>3 DEF dispatch, JobsPlaced, HeldUntouched
  <2>2. running[w] = NoJob
    BY <1>3 DEF dispatch, JobsPlaced, RunningOnce, TypeOK
  <2>. QED  BY <1>3, <2>1, <2>2 DEF dispatch, Untouched, Pool!Take, Pool!Waiting
<1>4. ASSUME NEW w \in Workers, Execute(w) \/ OnFailure(w)
      PROVE  \/ running[w] \in Jobs /\ Pool!Finish(w, running[w])
             \/ UNCHANGED Pool!poolVars
  <2>1. running[w] \in Jobs
    BY <1>4 DEF Execute, OnFailure, JobsPlaced, RunningOnce
  <2>. QED  BY <1>4, <2>1 DEF Execute, OnFailure, Pool!Finish, Pool!poolVars
<1>5. CASE dispatchQuit
  <2>1. held \in Untouched /\ held \in Jobs
    BY <1>5 DEF dispatchQuit, JobsPlaced, HeldUntouched
  <2>2. Pool!Drop(held)
    BY <1>5, <2>1 DEF dispatchQuit, Untouched, Pool!Drop, Pool!Waiting
  <2>. QED  BY <2>1, <2>2 DEF Pool!Next
<1>6. CASE StopPool
  BY <1>6 DEF StopPool, Pool!Next, Pool!Close
<1>7. CASE \/ \E j \in Jobs : SendNewWork(j)
           \/ Start \/ Stop
           \/ PollQuit \/ PollNewWork \/ PollDefault \/ getNoJob
           \/ WaitQuit \/ WaitNewWork
           \/ \E w \in Workers : WorkerQuit(w)
           \/ UNCHANGED vars
  <2>1. UNCHANGED <<running, outcome>> /\ UNCHANGED {j \in Jobs : caller[j] # "ready"}
    BY <1>7, OtherPlaced
  <2>2. UNCHANGED poolQuit
    BY <1>7 DEF vars, SendNewWork, Start, Stop, PollQuit, WaitQuit, AssignerExit,
                PollNewWork, PollDefault, getNoJob, WaitNewWork, WorkerQuit
  <2>. QED  BY <2>1, <2>2 DEF Pool!poolVars
<1>. QED
  BY <1>1, <1>2, <1>3, <1>4, <1>5, <1>6, <1>7
  DEF Next, AssignerStep, WorkerStep, Pool!Next

\* For any number of jobs, queues and workers the job manager implements the
\* pool of jobs: each job AddJob accepted is handed to one worker, once, ends
\* with one outcome, and is dropped only after the dispatcher was stopped.
THEOREM PoolRefinement == Spec => ImplementsPool
<1>1. NewJobManager => Pool!Init
  BY DEF NewJobManager, newDispatcher, Pool!Init
<1>2. Spec => []JobsPlaced
  BY InitJobsPlaced, NextJobsPlaced, JobManagerInvariant, PTL DEF Spec
<1>. QED
  BY <1>1, <1>2, NextIsPoolNext, JobManagerInvariant, PTL
  DEF Spec, ImplementsPool, Pool!Spec

-----------------------------------------------------------------------------
(* The round-robin.  Of two queues with a backlog, one that was overtaken  *)
(* comes first from the cursor on, so it is served before the other is     *)
(* served again.                                                           *)

\* From the cursor on, round the index, position i is served before j.
ServedBefore(i, j) ==
    LET c == lastQueueAccessed + 1 IN
    IF i > c THEN j <= c \/ i < j ELSE j <= c /\ i < j

\* The inductive invariant of RoundRobinForBacklogs.
OvertakenType == overtaken \in [Queues -> [Queues -> {0, 1}]]
NoneOvertookAbsent ==
    \A r, q \in Queues : r \notin DOMAIN queues => overtaken[r][q] = 0
OvertakenComesFirst ==
    \A i, j \in 1 .. Len(queuesIndex) :
        overtaken[queuesIndex[i]][queuesIndex[j]] = 1 => ServedBefore(i, j)
RoundRobinInv == OvertakenType /\ NoneOvertookAbsent /\ OvertakenComesFirst

\* The position after the cursor comes before every other (nextQueuePosition).
LEMMA NextComesFirst ==
    ASSUME NEW n \in Nat \ {0}, lastQueueAccessed \in -1 .. n - 1,
           NEW p \in 1 .. n, p = IF lastQueueAccessed + 1 < n THEN lastQueueAccessed + 2 ELSE 1,
           NEW i \in 1 .. n
    PROVE  ~ServedBefore(i, p)
BY DEF ServedBefore

\* What getNextJob does to the index and the cursor: the queue after the
\* cursor is served, and removed from the index when it is emptied.
LEMMA GetNextJobIndex ==
    ASSUME IInv, getNextJob
    PROVE  \E p \in 1 .. Len(queuesIndex) :
             /\ p = IF lastQueueAccessed + 1 < Len(queuesIndex) THEN lastQueueAccessed + 2 ELSE 1
             /\ ServedQueue = queuesIndex[p]
             /\ \/ /\ queuesIndex' = queuesIndex /\ lastQueueAccessed' = p - 1
                   /\ DOMAIN queues' = DOMAIN queues
                \/ /\ queuesIndex' = RemoveAt(queuesIndex, p)
                   /\ lastQueueAccessed' = IF p > 1 THEN p - 2 ELSE Len(queuesIndex) - 2
                   /\ DOMAIN queues' = DOMAIN queues \ {queuesIndex[p]}
<1> USE DEF IInv
<1> DEFINE n == Len(queuesIndex)
           p == nextQueuePosition
           q == queuesIndex[p + 1]
<1>1. n \in Nat /\ n > 0 /\ DOMAIN queuesIndex = 1 .. n
  <2>1. n \in Nat /\ DOMAIN queuesIndex = 1 .. n
    BY LenProperties DEF TypeOK
  <2>2. ToSet(queuesIndex) # {}
    BY DEF getNextJob, IndexMatchesQueues
  <2>3. n # 0
    BY <2>1, <2>2 DEF ToSet
  <2>. QED  BY <2>1, <2>3
<1>2. lastQueueAccessed \in -1 .. n - 1
  BY DEF IndexMatchesQueues
<1>3. p = IF lastQueueAccessed + 1 < n THEN lastQueueAccessed + 1 ELSE 0
  <2>0. p = (lastQueueAccessed + 1) % n
    BY DEF nextQueuePosition
  <2> HIDE DEF n, p
  <2>1. CASE lastQueueAccessed + 1 < n
    BY <1>1, <1>2, <2>0, <2>1
  <2>2. CASE lastQueueAccessed + 1 = n
    BY <1>1, <1>2, <2>0, <2>2
  <2>. QED  BY <1>1, <1>2, <2>1, <2>2
<1>4. p \in Int /\ p + 1 \in 1 .. n /\ ServedQueue = q
  BY <1>1, <1>2, <1>3 DEF ServedQueue
<1>5. q \in DOMAIN queues
  BY <1>1, <1>4 DEF IndexMatchesQueues, ToSet
<1>6. takeFront(p)
  BY DEF getNextJob
<1> HIDE DEF p
<1>7. CASE Len(queues[q]) = 1
  <2>1. /\ queues' = [x \in DOMAIN queues \ {q} |-> queues[x]]
        /\ queuesIndex' = RemoveAt(queuesIndex, p + 1)
        /\ lastQueueAccessed' = cursorAfterRemoval(p)
    BY <1>6, <1>7 DEF takeFront, removeLastQueueAccessed
  <2>2. lastQueueAccessed' = IF p + 1 > 1 THEN p + 1 - 2 ELSE n - 2
    BY <1>1, <1>4, <2>1 DEF cursorAfterRemoval
  <2>3. p + 1 = IF lastQueueAccessed + 1 < n THEN lastQueueAccessed + 2 ELSE 1
    BY <1>1, <1>2, <1>3
  <2>4. DOMAIN queues' = DOMAIN queues \ {q}
    BY <2>1
  <2>. QED  BY <1>4, <2>1, <2>2, <2>3, <2>4
<1>8. CASE Len(queues[q]) # 1
  <2>1. /\ queues' = SetQueue(q, Tail(queues[q]))
        /\ queuesIndex' = queuesIndex /\ lastQueueAccessed' = p
    BY <1>6, <1>8 DEF takeFront
  <2>2. DOMAIN queues' = DOMAIN queues
    BY <1>5, <2>1 DEF SetQueue
  <2>3. lastQueueAccessed' = p + 1 - 1
    BY <1>1, <1>4, <2>1
  <2>4. p + 1 = IF lastQueueAccessed + 1 < n THEN lastQueueAccessed + 2 ELSE 1
    BY <1>1, <1>2, <1>3
  <2>. QED  BY <1>4, <2>1, <2>2, <2>3, <2>4
<1>. QED  BY <1>7, <1>8

\* What the history counts: a queue that is served or gone is not overtaken,
\* a new one has not overtaken any (Recount).
LEMMA RecountValues ==
    ASSUME NEW served, Recount(served), NEW r \in Queues, NEW q \in Queues
    PROVE  overtaken'[r][q] =
             IF r \in served \/ r \notin DOMAIN queues' \/ Created(q) THEN 0
             ELSE IF q \in served THEN overtaken[r][q] + 1 ELSE overtaken[r][q]
BY DEF Recount

\* The index is a sequence of distinct queues (IndexMatchesQueues).
LEMMA IndexFacts ==
    ASSUME IInv
    PROVE  /\ Len(queuesIndex) \in Nat /\ lastQueueAccessed \in -1 .. Len(queuesIndex) - 1
           /\ \A i \in 1 .. Len(queuesIndex) :
                queuesIndex[i] \in Queues /\ queuesIndex[i] \in DOMAIN queues
           /\ \A i, j \in 1 .. Len(queuesIndex) : queuesIndex[i] = queuesIndex[j] => i = j
           /\ \A q \in DOMAIN queues : \E i \in 1 .. Len(queuesIndex) : q = queuesIndex[i]
           /\ DOMAIN queues \subseteq Queues
<1>1. Len(queuesIndex) \in Nat /\ DOMAIN queuesIndex = 1 .. Len(queuesIndex)
  BY LenProperties DEF IInv, TypeOK
<1>2. ToSet(queuesIndex) = DOMAIN queues /\ IsInjective(queuesIndex) /\ DOMAIN queues \subseteq Queues
  BY DEF IInv, IndexMatchesQueues, TypeOK
<1>3. lastQueueAccessed \in -1 .. Len(queuesIndex) - 1
  BY DEF IInv, IndexMatchesQueues
<1>4. \A i \in 1 .. Len(queuesIndex) : queuesIndex[i] \in DOMAIN queues
  BY <1>1, <1>2 DEF ToSet
<1>5. \A q \in DOMAIN queues : \E i \in 1 .. Len(queuesIndex) : q = queuesIndex[i]
  BY <1>1, <1>2 DEF ToSet
<1>6. \A i, j \in 1 .. Len(queuesIndex) : queuesIndex[i] = queuesIndex[j] => i = j
  BY <1>1, <1>2 DEF IsInjective
<1>. QED  BY <1>1, <1>2, <1>3, <1>4, <1>5, <1>6

\* getNextJob serves a queue that has not overtaken any other (getNextJob).
LEMMA RoundRobinServe ==
    ASSUME IInv, RoundRobinInv, getNextJob, Recount({ServedQueue})
    PROVE  RoundRobinInv'
<1> DEFINE n == Len(queuesIndex)
<1>1. PICK p \in 1 .. n :
         /\ p = IF lastQueueAccessed + 1 < n THEN lastQueueAccessed + 2 ELSE 1
         /\ ServedQueue = queuesIndex[p]
         /\ \/ /\ queuesIndex' = queuesIndex /\ lastQueueAccessed' = p - 1
               /\ DOMAIN queues' = DOMAIN queues
            \/ /\ queuesIndex' = RemoveAt(queuesIndex, p)
               /\ lastQueueAccessed' = IF p > 1 THEN p - 2 ELSE n - 2
               /\ DOMAIN queues' = DOMAIN queues \ {queuesIndex[p]}
  BY GetNextJobIndex
<1> DEFINE q == queuesIndex[p]
<1>2. n \in Nat \ {0} /\ lastQueueAccessed \in -1 .. n - 1 /\ q \in Queues
  BY IndexFacts
<1>3. \A r \in Queues : overtaken[r][q] = 0
  <2> SUFFICES ASSUME NEW r \in Queues, overtaken[r][q] # 0 PROVE FALSE
    OBVIOUS
  <2>1. overtaken[r][q] = 1 /\ r \in DOMAIN queues
    BY <1>2 DEF RoundRobinInv, OvertakenType, NoneOvertookAbsent
  <2>2. PICK i \in 1 .. n : r = queuesIndex[i]
    BY <2>1, IndexFacts
  <2>3. ServedBefore(i, p)
    BY <2>1, <2>2 DEF RoundRobinInv, OvertakenComesFirst
  <2>. QED  BY <1>1, <1>2, <2>3, NextComesFirst
<1>4. \A r, x \in Queues : overtaken'[r][x] =
         IF r = q \/ r \notin DOMAIN queues' THEN 0
         ELSE IF x = q THEN 1 ELSE overtaken[r][x]
  <2> SUFFICES ASSUME NEW r \in Queues, NEW x \in Queues
               PROVE  overtaken'[r][x] =
                        IF r = q \/ r \notin DOMAIN queues' THEN 0
                        ELSE IF x = q THEN 1 ELSE overtaken[r][x]
    OBVIOUS
  <2>1. ~Created(x)
    BY <1>1 DEF Created
  <2>. QED  BY <1>1, <1>3, <2>1, RecountValues
<1>5. OvertakenType'
  <2>1. \A r, x \in Queues : overtaken'[r][x] \in {0, 1}
    BY <1>4 DEF RoundRobinInv, OvertakenType
  <2>2. overtaken' = [r \in Queues |-> [x \in Queues |-> overtaken'[r][x]]]
    BY DEF Recount
  <2>. QED  BY <2>1, <2>2 DEF OvertakenType
<1>6. NoneOvertookAbsent'
  BY <1>4 DEF NoneOvertookAbsent
<1>7. OvertakenComesFirst'
  <2>1. CASE queuesIndex' = queuesIndex /\ lastQueueAccessed' = p - 1
    <3> SUFFICES ASSUME NEW i \in 1 .. n, NEW j \in 1 .. n,
                        overtaken'[queuesIndex[i]][queuesIndex[j]] = 1
                 PROVE  ServedBefore(i, j)'
      BY <2>1 DEF OvertakenComesFirst
    <3>1. queuesIndex[i] \in Queues /\ queuesIndex[j] \in Queues
      BY IndexFacts
    <3>2. i # p
      BY <1>4, <3>1
    <3>3. CASE j = p
      BY <1>2, <2>1, <3>2, <3>3 DEF ServedBefore
    <3>4. CASE j # p
      <4>1. queuesIndex[j] # q
        BY <3>4, IndexFacts
      <4>2. overtaken[queuesIndex[i]][queuesIndex[j]] = 1
        BY <1>4, <3>1, <4>1
      <4>3. ServedBefore(i, j)
        BY <4>2 DEF RoundRobinInv, OvertakenComesFirst
      <4> HIDE DEF n
      <4>. QED  BY <1>1, <1>2, <2>1, <3>2, <3>4, <4>3 DEF ServedBefore
    <3>. QED  BY <3>3, <3>4
  <2>2. CASE /\ queuesIndex' = RemoveAt(queuesIndex, p)
             /\ lastQueueAccessed' = IF p > 1 THEN p - 2 ELSE n - 2
    <3> DEFINE f(i) == IF i < p THEN i ELSE i + 1
    <3>1. /\ Len(queuesIndex') = n - 1
          /\ \A i \in 1 .. n - 1 : queuesIndex'[i] = queuesIndex[f(i)]
      BY <2>2, RemoveAtInjective DEF IInv, TypeOK, IndexMatchesQueues
    <3> SUFFICES ASSUME NEW i \in 1 .. n - 1, NEW j \in 1 .. n - 1,
                        overtaken'[queuesIndex[f(i)]][queuesIndex[f(j)]] = 1
                 PROVE  ServedBefore(i, j)'
      BY <3>1 DEF OvertakenComesFirst
    <3> HIDE DEF n
    <3>2. f(i) \in 1 .. n /\ f(j) \in 1 .. n /\ f(i) # p /\ f(j) # p
      BY <1>1, <1>2
    <3>3. ServedBefore(f(i), f(j))
      <4> HIDE DEF f
      <4>1. /\ queuesIndex[f(i)] \in Queues /\ queuesIndex[f(j)] \in Queues
            /\ queuesIndex[f(j)] # q
        BY <3>2, IndexFacts DEF n
      <4>2. overtaken[queuesIndex[f(i)]][queuesIndex[f(j)]] = 1
        BY <1>4, <4>1
      <4>. QED  BY <3>2, <4>2 DEF RoundRobinInv, OvertakenComesFirst, n
    <3>. QED  BY <1>1, <1>2, <2>2, <3>2, <3>3 DEF ServedBefore
  <2>. QED  BY <1>1, <2>1, <2>2
<1>. QED  BY <1>5, <1>6, <1>7 DEF RoundRobinInv

\* A new queue goes to the end of the index, and has overtaken none (AddJob).
LEMMA RoundRobinAdd ==
    ASSUME IInv, RoundRobinInv, NEW j \in Jobs, NEW q \in Queues, AddJob(j, q), Recount({})
    PROVE  RoundRobinInv'
<1> DEFINE n == Len(queuesIndex)
<1>1. DOMAIN queues' = DOMAIN queues \cup {q} /\ UNCHANGED lastQueueAccessed
  BY DEF AddJob, PushBack, SetQueue
<1>2. \A r, x \in Queues : overtaken'[r][x] \in {0, overtaken[r][x]}
  BY RecountValues
<1>3. OvertakenType'
  <2>1. \A r, x \in Queues : overtaken'[r][x] \in {0, 1}
    BY <1>2 DEF RoundRobinInv, OvertakenType
  <2>2. overtaken' = [r \in Queues |-> [x \in Queues |-> overtaken'[r][x]]]
    BY DEF Recount
  <2>. QED  BY <2>1, <2>2 DEF OvertakenType
<1>4. NoneOvertookAbsent'
  BY RecountValues DEF NoneOvertookAbsent
<1>5. /\ n \in Nat /\ \A i \in 1 .. n : queuesIndex'[i] = queuesIndex[i]
      /\ \/ q \in DOMAIN queues /\ Len(queuesIndex') = n
         \/ q \notin DOMAIN queues /\ Len(queuesIndex') = n + 1 /\ queuesIndex'[n + 1] = q
  BY LenProperties DEF AddJob, addQueue, IInv, TypeOK
<1>6. OvertakenComesFirst'
  <2> SUFFICES ASSUME NEW i \in 1 .. Len(queuesIndex'), NEW k \in 1 .. Len(queuesIndex'),
                      overtaken'[queuesIndex'[i]][queuesIndex'[k]] = 1
               PROVE  ServedBefore(i, k)'
    BY DEF OvertakenComesFirst
  <2>1. queuesIndex'[i] \in Queues /\ queuesIndex'[k] \in Queues
    <3>1. IInv'
      BY AddJobIInv
    <3>. QED  BY <1>5, <3>1, IndexFacts
  <2>2. overtaken[queuesIndex'[i]][queuesIndex'[k]] = 1
    BY <1>2, <2>1
  <2>3. i \in 1 .. n /\ k \in 1 .. n
    <3>1. CASE i = n + 1 /\ q \notin DOMAIN queues
      <4>1. queuesIndex'[i] \notin DOMAIN queues
        BY <1>5, <3>1
      <4>. QED  BY <2>1, <2>2, <4>1 DEF RoundRobinInv, NoneOvertookAbsent
    <3>2. CASE k = n + 1 /\ q \notin DOMAIN queues
      <4>1. Created(queuesIndex'[k])
        BY <1>1, <1>5, <3>2 DEF Created
      <4>. QED  BY <2>1, <4>1, RecountValues
    <3>. QED  BY <1>5, <3>1, <3>2
  <2>4. ServedBefore(i, k)
    BY <1>5, <2>2, <2>3 DEF RoundRobinInv, OvertakenComesFirst
  <2>. QED  BY <1>1, <2>4 DEF ServedBefore
<1>. QED  BY <1>3, <1>4, <1>6 DEF RoundRobinInv

\* The other steps leave the queues and the counts alone.
LEMMA RoundRobinOther ==
    ASSUME IInv, RoundRobinInv, UNCHANGED queueVars, Recount({}) \/ UNCHANGED overtaken
    PROVE  RoundRobinInv'
<1>1. UNCHANGED <<queues, queuesIndex, lastQueueAccessed>>
  BY DEF queueVars
<1>2. overtaken' = overtaken
  <2>1. CASE Recount({})
    <3>1. \A r, x \in Queues : overtaken'[r][x] = overtaken[r][x]
      BY <1>1, <2>1, RecountValues DEF Created, RoundRobinInv, NoneOvertookAbsent
    <3>2. overtaken' = [r \in Queues |-> [x \in Queues |-> overtaken'[r][x]]]
      BY <2>1 DEF Recount
    <3>. QED  BY <3>1, <3>2 DEF RoundRobinInv, OvertakenType
  <2>. QED  BY <2>1
<1>. QED
  BY <1>1, <1>2 DEF RoundRobinInv, OvertakenType, NoneOvertookAbsent, OvertakenComesFirst, ServedBefore

\* Every step keeps RoundRobinInv (NextF).
LEMMA RoundRobinNext ==
    ASSUME IInv, RoundRobinInv, [NextF]_fairVars
    PROVE  IInv' /\ RoundRobinInv'
<1>1. CASE getNextJob /\ Recount({ServedQueue})
  BY <1>1, GetNextJobIInv, RoundRobinServe
<1>2. CASE Next /\ ~getNextJob /\ Recount({})
  <2>1. IInv'
    BY <1>2, NextIInv
  <2>2. ASSUME NEW j \in Jobs, NEW q \in Queues, AddJob(j, q) PROVE RoundRobinInv'
    BY <1>2, <2>2, RoundRobinAdd
  <2>3. CASE \A j \in Jobs, q \in Queues : ~AddJob(j, q)
    <3>1. UNCHANGED queueVars
      BY <1>2, <2>3
         DEF Next, AssignerStep, SendNewWork, Start, Stop, StopPool, PollQuit, WaitQuit,
             AssignerExit, PollNewWork, PollDefault, getNoJob, dispatch, dispatchQuit,
             WaitNewWork, WorkerStep, WorkerQuit, Execute, OnFailure
    <3>2. Recount({}) \/ UNCHANGED overtaken
      BY <1>2
    <3>. QED  BY <2>1, <3>1, <3>2, RoundRobinOther
  <2>. QED  BY <2>1, <2>2, <2>3
<1>3. CASE UNCHANGED fairVars
  <2>1. UNCHANGED vars /\ UNCHANGED overtaken
    BY <1>3 DEF fairVars
  <2>2. UNCHANGED queueVars
    BY <2>1 DEF vars
  <2>. QED  BY <2>1, <2>2, NextIInv, RoundRobinOther
<1>. QED  BY <1>1, <1>2, <1>3 DEF NextF

\* The round-robin of getNextJob is fair for any number of queues, jobs and
\* workers: of two queues that keep their backlog neither is served twice
\* while the other waits, whatever removeLastQueueAccessed does to the index
\* and the cursor around them.
THEOREM RoundRobinSafety == SpecF => []RoundRobinForBacklogs
<1>1. InitF => IInv /\ RoundRobinInv
  <2> SUFFICES ASSUME InitF PROVE IInv /\ RoundRobinInv
    OBVIOUS
  <2>1. IInv
    BY InitIInv DEF InitF
  <2>2. Len(queuesIndex) = 0 /\ overtaken = [r \in Queues |-> [q \in Queues |-> 0]]
    BY DEF InitF, NewJobManager
  <2>. QED
    BY <2>1, <2>2 DEF RoundRobinInv, OvertakenType, NoneOvertookAbsent, OvertakenComesFirst
<1>2. IInv /\ RoundRobinInv /\ [NextF]_fairVars => (IInv /\ RoundRobinInv)'
  BY RoundRobinNext
<1>3. RoundRobinInv => RoundRobinForBacklogs
  BY DEF RoundRobinInv, OvertakenType, RoundRobinForBacklogs
<1>. QED  BY <1>1, <1>2, <1>3, PTL DEF SpecF
=============================================================================
