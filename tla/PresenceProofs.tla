--------------------------- MODULE PresenceProofs ---------------------------
(***************************************************************************)
(* The prompt slot is never shared, leaked or overtaken, the queue is      *)
(* bounded and the coordinator keeps its contract, for every set of        *)
(* attempts and every queue limit.                                         *)
(***************************************************************************)
EXTENDS Presence, FiniteSetTheorems, SequenceTheorems, TLAPS

----------------------------------------------------------------------------
(* The permit and the waiters.                                             *)

\* A dropped permit goes to the first waiter and to nobody else.
LEMMA HandOverFacts ==
  ASSUME queue \in Seq(Attempt), HandOver(queue)
  PROVE  /\ queue' \in Seq(Attempt)
         /\ slot' \in Attempt \cup {None}
         /\ slot' = None => queue' = <<>>
         /\ slot' # None => Len(queue) > 0 /\ slot' = queue[1]
         /\ \A i \in 1..Len(queue') :
              i + 1 \in 1..Len(queue) /\ queue'[i] = queue[i + 1]
<1>1. CASE queue = <<>>
  BY <1>1 DEF HandOver
<1>2. CASE queue # <<>>
  <2>1. /\ Head(queue) \in Attempt
        /\ Tail(queue) \in Seq(Attempt)
        /\ Len(Tail(queue)) = Len(queue) - 1
        /\ \A i \in 1..Len(Tail(queue)) : Tail(queue)[i] = queue[i + 1]
    BY <1>2, HeadTailProperties
  <2>2. Len(queue) > 0 /\ Head(queue) = queue[1]
    BY <1>2
  <2> QED BY <1>2, <2>1, <2>2, NoneAssumption DEF HandOver
<1> QED BY <1>1, <1>2

\* A waiter that leaves takes only itself out of the queue.
LEMMA WithoutFacts ==
  ASSUME queue \in Seq(Attempt), NEW i \in 1..Len(queue), queue' = Without(i)
  PROVE  /\ queue' \in Seq(Attempt)
         /\ Len(queue') = Len(queue) - 1
         /\ \A j \in 1..Len(queue') :
              /\ (IF j < i THEN j ELSE j + 1) \in 1..Len(queue) \ {i}
              /\ queue'[j] = queue[IF j < i THEN j ELSE j + 1]
<1>1. Len(queue) - 1 \in Nat
  OBVIOUS
<1>2. \A j \in 1..(Len(queue) - 1) :
        (IF j < i THEN j ELSE j + 1) \in 1..Len(queue) \ {i}
  OBVIOUS
<1>3. queue' \in [1..(Len(queue) - 1) -> Attempt]
  BY <1>2 DEF Without
<1>4. queue' \in Seq(Attempt) /\ Len(queue') = Len(queue) - 1
  BY <1>1, <1>3
<1> QED BY <1>2, <1>4 DEF Without

----------------------------------------------------------------------------
(* The counter of places.                                                  *)

\* A step that moves nobody in or out of a place keeps the count.
LEMMA SamePlaces ==
  ASSUME PlacesCounted, QueueBounded,
         Places' = Places, InQueue' \subseteq InQueue, waiting' = waiting
  PROVE  PlacesCounted' /\ QueueBounded'
<1>1. PlacesCounted'
  BY DEF PlacesCounted
<1>2. IsFiniteSet(InQueue)
  BY FS_Subset DEF PlacesCounted, InQueue, Places
<1>3. Cardinality(InQueue') <= Cardinality(InQueue)
      /\ Cardinality(InQueue) \in Nat /\ Cardinality(InQueue') \in Nat
  BY <1>2, FS_Subset, FS_CardinalityType
<1> QED BY <1>1, <1>3, LimitAssumption DEF QueueBounded

\* A place given back was counted.
LEMMA PlaceGivenBack ==
  ASSUME PlacesCounted, QueueBounded, NEW a \in Places,
         Places' = Places \ {a}, InQueue' \subseteq InQueue,
         waiting' = waiting - 1
  PROVE  PlacesCounted' /\ QueueBounded' /\ waiting' \in Nat
<1>1. IsFiniteSet(Places') /\ Cardinality(Places') = waiting - 1
  BY FS_RemoveElement DEF PlacesCounted
<1>2. IsFiniteSet(InQueue)
  BY FS_Subset DEF PlacesCounted, InQueue, Places
<1>3. Cardinality(InQueue') <= Cardinality(InQueue)
      /\ Cardinality(InQueue) \in Nat /\ Cardinality(InQueue') \in Nat
  BY <1>2, FS_Subset, FS_CardinalityType
<1>4. waiting' \in Nat
  BY <1>1, FS_CardinalityType
<1> QED BY <1>1, <1>3, <1>4, LimitAssumption DEF PlacesCounted, QueueBounded

\* A place taken is counted, and one within the limit keeps the bound.
LEMMA PlaceTaken ==
  ASSUME PlacesCounted, QueueBounded, NEW a \in Attempt, a \notin Places,
         Places' = Places \cup {a}, waiting' = waiting + 1,
         \/ InQueue' = InQueue
         \/ waiting < MAX_WAITING /\ InQueue' = InQueue \cup {a}
  PROVE  PlacesCounted' /\ QueueBounded' /\ waiting' \in Nat
<1>1. IsFiniteSet(Places') /\ Cardinality(Places') = waiting + 1
  BY FS_AddElement DEF PlacesCounted
<1>2. waiting \in Nat
  BY FS_CardinalityType DEF PlacesCounted
<1>3. /\ IsFiniteSet(InQueue) /\ Cardinality(InQueue) <= waiting
      /\ Cardinality(InQueue) \in Nat
  <2>1. InQueue \in SUBSET Places
    BY DEF InQueue, Places
  <2>2. IsFiniteSet(InQueue) /\ Cardinality(InQueue) <= Cardinality(Places)
    BY <2>1, FS_Subset DEF PlacesCounted
  <2>3. Cardinality(InQueue) \in Nat
    BY <2>2, FS_CardinalityType
  <2> QED BY <2>2, <2>3 DEF PlacesCounted
<1>4. a \notin InQueue
  BY DEF InQueue, Places
<1>5. CASE InQueue' = InQueue
  BY <1>5, <1>1, <1>2 DEF PlacesCounted, QueueBounded
<1>6. CASE waiting < MAX_WAITING /\ InQueue' = InQueue \cup {a}
  <2>1. Cardinality(InQueue') = Cardinality(InQueue) + 1
    BY <1>3, <1>4, <1>6, FS_AddElement
  <2>2. Cardinality(InQueue') <= MAX_WAITING
    BY <2>1, <1>2, <1>3, <1>6, LimitAssumption
  <2> QED BY <2>2, <1>1, <1>2 DEF PlacesCounted, QueueBounded
<1> QED BY <1>5, <1>6
----------------------------------------------------------------------------
(* The inductive invariant.                                                *)

\* A new coordinator satisfies the invariant.
LEMMA InvInit == Init => IInv
<1> SUFFICES ASSUME Init PROVE IInv
  OBVIOUS
<1> USE NoneAssumption, LimitAssumption DEF Init
<1>1. TypeOK
  BY DEF TypeOK, Place, BackendPlace, PresenceResult, Denial
<1>2. SlotOwned
  BY DEF SlotOwned, Running
<1>3. Places = {} /\ InQueue = {}
  BY DEF Places, InQueue
<1>4. PlacesCounted /\ QueueBounded
  BY <1>3, FS_EmptySet DEF PlacesCounted, QueueBounded
<1>5. Waiters
  BY DEF Waiters
<1>6. Progress
  BY DEF Progress
<1> QED BY <1>1, <1>2, <1>4, <1>5, <1>6 DEF IInv

\* The attempt that holds the permit hands it over: SlotOwned and Waiters
\* hold again as soon as that attempt is neither granted, waiting nor
\* running.
LEMMA HandOverInv ==
  ASSUME TypeOK, SlotOwned, Waiters, NEW a \in Attempt, slot = a,
         HandOver(queue), pc'[a] \notin {"granted", "queued"}, ~Running(a)',
         \A b \in Attempt \ {a} : pc'[b] = pc[b] /\ backend'[b] = backend[b]
  PROVE  SlotOwned' /\ Waiters'
<1>1. queue \in Seq(Attempt)
  BY DEF TypeOK
<1> DEFINE HO == /\ queue' \in Seq(Attempt)
                 /\ slot' \in Attempt \cup {None}
                 /\ slot' = None => queue' = <<>>
                 /\ slot' # None => Len(queue) > 0 /\ slot' = queue[1]
                 /\ \A i \in 1..Len(queue') :
                      i + 1 \in 1..Len(queue) /\ queue'[i] = queue[i + 1]
<1>2. HO
  BY <1>1, HandOverFacts
<1>3. \A b \in Attempt : ~(pc'[b] = "granted" \/ Running(b)')
  BY NoneAssumption DEF SlotOwned, Running
<1>4. ASSUME slot' # None PROVE pc'[slot'] = "queued" /\ slot' # a
  BY <1>4, <1>1, <1>2 DEF Waiters
<1>5. SlotOwned'
  BY <1>2, <1>3, <1>4 DEF SlotOwned
<1>6. Waiters'
  <2>1. ASSUME NEW i \in 1..Len(queue')
        PROVE  pc'[queue'[i]] = "queued" /\ queue'[i] # slot'
    <3>1. i + 1 \in 1..Len(queue) /\ queue'[i] = queue[i + 1]
      BY <1>2, <2>1
    <3>2. pc[queue[i + 1]] = "queued" /\ queue[i + 1] # a /\ queue[i + 1] \in Attempt
      BY <3>1, <1>1 DEF Waiters
    <3>3. Len(queue) > 0 => queue[1] # queue[i + 1]
      BY <3>1, <1>1 DEF Waiters
    <3> QED BY <3>1, <3>2, <3>3, <1>2, NoneAssumption
  <2>2. ASSUME NEW i \in 1..Len(queue'), NEW j \in 1..Len(queue'),
               queue'[i] = queue'[j]
        PROVE  i = j
    <3>1. /\ i + 1 \in 1..Len(queue) /\ j + 1 \in 1..Len(queue)
          /\ queue[i + 1] = queue[j + 1]
      BY <1>2, <2>2
    <3>2. i + 1 = j + 1
      BY <3>1 DEF Waiters
    <3> QED BY <3>2, <1>2
  <2> QED BY <2>1, <2>2 DEF Waiters
<1> QED BY <1>5, <1>6

\* A waiting acquire is dropped.
LEMMA LeaveQueueInv ==
  ASSUME TypeOK, SlotOwned, Waiters, Progress, NEW a \in Attempt,
         pc[a] \in {"queueing", "queued"}, LeaveQueue(a),
         backend' = backend, pc'[a] \in {"returned", "dropped"},
         \A b \in Attempt \ {a} : pc'[b] = pc[b]
  PROVE  /\ slot' \in Attempt \cup {None} /\ queue' \in Seq(Attempt)
         /\ SlotOwned' /\ Waiters'
<1>1. queue \in Seq(Attempt) /\ ~Running(a) /\ ~Running(a)'
  BY DEF TypeOK, Progress, Running
<1>2. CASE slot = a /\ HandOver(queue)
  BY <1>1, <1>2, HandOverFacts, HandOverInv
<1>3. ASSUME NEW i \in 1..Len(queue), queue[i] = a, queue' = Without(i),
             slot' = slot
      PROVE  queue' \in Seq(Attempt) /\ SlotOwned' /\ Waiters'
  <2>1. /\ queue' \in Seq(Attempt)
        /\ Len(queue') = Len(queue) - 1
        /\ \A j \in 1..Len(queue') :
             /\ (IF j < i THEN j ELSE j + 1) \in 1..Len(queue) \ {i}
             /\ queue'[j] = queue[IF j < i THEN j ELSE j + 1]
    BY <1>1, <1>3, WithoutFacts
  <2>2. slot # a /\ slot # None
    BY <1>1, <1>3 DEF Waiters, SlotOwned
  <2>3. SlotOwned'
    BY <1>1, <1>3, <2>2 DEF SlotOwned, Running, TypeOK
  <2>4. ASSUME NEW j \in 1..Len(queue')
        PROVE  pc'[queue'[j]] = "queued" /\ queue'[j] # slot'
    <3> DEFINE k == IF j < i THEN j ELSE j + 1
    <3>1. k \in 1..Len(queue) /\ k # i /\ queue'[j] = queue[k]
      BY <2>1, <2>4
    <3> HIDE DEF k
    <3>2. queue[k] \in Attempt /\ queue[k] # a
      BY <3>1, <1>1, <1>3 DEF Waiters
    <3> QED BY <3>1, <3>2, <1>3 DEF Waiters
  <2>5. ASSUME NEW j \in 1..Len(queue'), NEW l \in 1..Len(queue'),
               queue'[j] = queue'[l]
        PROVE  j = l
    <3> DEFINE k == IF j < i THEN j ELSE j + 1
               m == IF l < i THEN l ELSE l + 1
    <3>1. /\ k \in 1..Len(queue) /\ queue'[j] = queue[k]
          /\ m \in 1..Len(queue) /\ queue'[l] = queue[m]
      BY <2>1, <2>5
    <3>2. k = m
      <4> HIDE DEF k, m
      <4> QED BY <3>1, <2>5 DEF Waiters
    <3> QED BY <3>2
  <2> QED BY <2>1, <2>3, <2>4, <2>5 DEF Waiters
<1>4. CASE pc[a] = "queueing" /\ UNCHANGED <<slot, queue>>
  <2>1. slot # a
    BY <1>1, <1>4, NoneAssumption DEF SlotOwned
  <2>2. SlotOwned'
    BY <1>1, <1>4, <2>1 DEF SlotOwned, Running, TypeOK
  <2>3. \A i \in 1..Len(queue) : queue[i] # a /\ queue[i] \in Attempt
    BY <1>1, <1>4 DEF Waiters
  <2> QED BY <1>1, <1>4, <2>2, <2>3 DEF Waiters, TypeOK
<1> QED BY <1>2, <1>3, <1>4 DEF LeaveQueue, TypeOK

\* Steps that leave the permit, the waiters and the places alone.
LEMMA QuietStep ==
  ASSUME IInv, NEW a \in Attempt,
         \/ begin_attempt(a) \/ Spawn(a) \/ GiveUpPrompt(a) \/ TakeResult(a)
         \/ DropAttempt(a) \/ invalidate(a) \/ Deadline(a)
         \/ BackendCheck(a) \/ BackendOpen(a) \/ PromptEnds(a) \/ SendResult(a)
  PROVE  IInv'
<1> USE DEF IInv, TypeOK, begin_attempt, Spawn, GiveUpPrompt, TakeResult,
            DropAttempt, invalidate, Deadline, BackendCheck, BackendOpen,
            PromptEnds, SendResult, Goto, Return, BackendAt, caller
<1>1. TypeOK'
  BY DEF Place, BackendPlace, PresenceResult, Denial, Mapped, StopReason
<1>2. SlotOwned'
  BY NoneAssumption DEF SlotOwned, Running, Progress, BackendPlace
<1>3. Waiters'
  BY DEF Waiters
<1>4. PlacesCounted' /\ QueueBounded'
  <2>1. Places' = Places /\ InQueue' = InQueue /\ waiting' = waiting
    BY DEF Places, InQueue
  <2> QED BY <2>1, SamePlaces
<1>5. Progress'
  BY NoneAssumption DEF Progress, PresenceResult
<1> QED BY <1>1, <1>2, <1>3, <1>4, <1>5

\* Taking the permit, a place, or a place among the waiters.
LEMMA EnterStep ==
  ASSUME IInv, NEW a \in Attempt,
         TryAcquire(a) \/ TakePlace(a) \/ JoinQueue(a) \/ GivenPermit(a)
  PROVE  IInv'
<1> USE DEF IInv, TypeOK, Goto
<1>1. CASE TryAcquire(a)
  <2> USE <1>1 DEF TryAcquire
  <2>1. TypeOK'
    BY DEF Place
  <2>2. SlotOwned'
    BY NoneAssumption DEF SlotOwned, Running, Progress
  <2>3. Waiters'
    BY DEF Waiters, SlotOwned
  <2>4. Places' = Places /\ InQueue' = InQueue /\ waiting' = waiting
    BY DEF Places, InQueue
  <2>5. Progress'
    BY DEF Progress
  <2> QED BY <2>1, <2>2, <2>3, <2>4, <2>5, SamePlaces
<1>2. CASE TakePlace(a)
  <2> USE <1>2 DEF TakePlace
  <2>1. SlotOwned' /\ Waiters' /\ Progress'
    BY NoneAssumption DEF SlotOwned, Running, Progress, Waiters
  <2>2. a \notin Places /\ Places' = Places \cup {a}
    BY DEF Places
  <2>3. \/ InQueue' = InQueue
        \/ waiting < MAX_WAITING /\ InQueue' = InQueue \cup {a}
    BY LimitAssumption DEF InQueue
  <2>4. PlacesCounted' /\ QueueBounded' /\ waiting' \in Nat
    BY <2>2, <2>3, PlaceTaken
  <2>5. TypeOK'
    BY <2>4 DEF Place
  <2> QED BY <2>1, <2>4, <2>5
<1>3. CASE JoinQueue(a) /\ slot = None
  <2> USE <1>3 DEF JoinQueue
  <2>1. SlotOwned' /\ Waiters' /\ Progress'
    BY NoneAssumption DEF SlotOwned, Running, Progress, Waiters
  <2>2. a \in Places /\ Places' = Places \ {a} /\ InQueue' \subseteq InQueue
    BY DEF Places, InQueue
  <2>3. PlacesCounted' /\ QueueBounded' /\ waiting' \in Nat
    BY <2>2, PlaceGivenBack
  <2>4. TypeOK'
    BY <2>3 DEF Place
  <2> QED BY <2>1, <2>3, <2>4
<1>4. CASE JoinQueue(a) /\ slot # None
  <2> USE <1>4 DEF JoinQueue
  <2>1. /\ queue' \in Seq(Attempt)
        /\ Len(queue') = Len(queue) + 1
        /\ \A i \in 1..Len(queue) : queue'[i] = queue[i]
        /\ queue'[Len(queue) + 1] = a
    <3>1. queue \in Seq(Attempt) /\ queue' = Append(queue, a)
      OBVIOUS
    <3> QED BY <3>1, AppendProperties
  <2>2. TypeOK'
    BY <2>1 DEF Place
  <2>3. SlotOwned'
    BY NoneAssumption DEF SlotOwned, Running, Progress
  <2>4. slot # a /\ \A i \in 1..Len(queue) : queue[i] # a
    BY NoneAssumption DEF SlotOwned, Running, Progress, Waiters
  <2>5. Waiters'
    <3>1. \A i \in 1..Len(queue') : i = Len(queue) + 1 \/ i \in 1..Len(queue)
      BY <2>1
    <3>2. \A i \in 1..Len(queue) : queue[i] \in Attempt
      OBVIOUS
    <3>3. \A i \in 1..Len(queue') : pc'[queue'[i]] = "queued" /\ queue'[i] # slot'
      BY <3>1, <3>2, <2>1, <2>4 DEF Waiters
    <3>4. \A i, j \in 1..Len(queue') : queue'[i] = queue'[j] => i = j
      BY <3>1, <2>1, <2>4 DEF Waiters
    <3> QED BY <3>3, <3>4 DEF Waiters
  <2>6. Places' = Places /\ InQueue' = InQueue /\ waiting' = waiting
    BY DEF Places, InQueue
  <2>7. Progress'
    BY DEF Progress
  <2> QED BY <2>2, <2>3, <2>5, <2>6, <2>7, SamePlaces
<1>5. CASE GivenPermit(a)
  <2> USE <1>5 DEF GivenPermit
  <2>1. SlotOwned' /\ Waiters' /\ Progress'
    BY NoneAssumption DEF SlotOwned, Running, Progress, Waiters
  <2>2. a \in Places /\ Places' = Places \ {a} /\ InQueue' \subseteq InQueue
    BY DEF Places, InQueue
  <2>3. PlacesCounted' /\ QueueBounded' /\ waiting' \in Nat
    BY <2>2, PlaceGivenBack
  <2>4. TypeOK'
    BY <2>3 DEF Place
  <2> QED BY <2>1, <2>3, <2>4
<1> QED BY <1>1, <1>2, <1>3, <1>4, <1>5

\* Leaving: turned away, stopped while waiting, stopped with the permit,
\* dropped, and the backend's end.
LEMMA LeaveStep ==
  ASSUME IInv, NEW a \in Attempt,
         \/ QueueFull(a) \/ GiveUpWaiting(a) \/ GrantedStopped(a)
         \/ Abandon(a) \/ DropPermit(a)
  PROVE  IInv'
<1> USE DEF IInv, TypeOK, Goto, Return
<1>1. CASE QueueFull(a)
  <2> USE <1>1 DEF QueueFull
  <2>1. SlotOwned' /\ Waiters' /\ Progress'
    BY NoneAssumption DEF SlotOwned, Running, Progress, Waiters
  <2>2. a \in Places /\ Places' = Places \ {a} /\ InQueue' \subseteq InQueue
    BY DEF Places, InQueue
  <2>3. PlacesCounted' /\ QueueBounded' /\ waiting' \in Nat
    BY <2>2, PlaceGivenBack
  <2>4. TypeOK'
    BY <2>3 DEF Place, Denial
  <2> QED BY <2>1, <2>3, <2>4
<1>2. CASE GiveUpWaiting(a) \/ (Abandon(a) /\ pc[a] = "queued")
  <2> USE <1>2 DEF GiveUpWaiting, Abandon
  <2>1. /\ slot' \in Attempt \cup {None} /\ queue' \in Seq(Attempt)
        /\ SlotOwned' /\ Waiters'
    BY LeaveQueueInv
  <2>2. a \in Places /\ Places' = Places \ {a} /\ InQueue' \subseteq InQueue
    BY DEF Places, InQueue
  <2>3. PlacesCounted' /\ QueueBounded' /\ waiting' \in Nat
    BY <2>2, PlaceGivenBack
  <2>4. TypeOK'
    BY <2>1, <2>3 DEF Place, Denial, StopReason
  <2>5. Progress'
    BY DEF Progress
  <2> QED BY <2>1, <2>3, <2>4, <2>5
<1>3. CASE Abandon(a) /\ pc[a] # "queued"
  <2> USE <1>3 DEF Abandon
  <2>1. TypeOK'
    BY DEF Place
  <2>2. SlotOwned' /\ Waiters' /\ Progress'
    BY NoneAssumption DEF SlotOwned, Running, Progress, Waiters
  <2>3. Places' = Places /\ InQueue' = InQueue /\ waiting' = waiting
    BY DEF Places, InQueue
  <2> QED BY <2>1, <2>2, <2>3, SamePlaces
<1>4. CASE GrantedStopped(a)
  <2> USE <1>4 DEF GrantedStopped
  <2>1. slot = a /\ ~Running(a)'
    BY DEF SlotOwned, Running, Progress
  <2>2. SlotOwned' /\ Waiters'
    BY <2>1, HandOverInv
  <2>3. TypeOK'
    BY HandOverFacts DEF Place, Denial, StopReason
  <2>4. Places' = Places /\ InQueue' = InQueue /\ waiting' = waiting
    BY DEF Places, InQueue
  <2>5. Progress'
    BY DEF Progress
  <2> QED BY <2>2, <2>3, <2>4, <2>5, SamePlaces
<1>5. CASE DropPermit(a)
  <2> USE <1>5 DEF DropPermit, BackendAt, caller
  <2>1. slot = a /\ ~Running(a)' /\ pc[a] \notin {"granted", "queued"}
    BY DEF SlotOwned, Running, Progress
  <2>2. SlotOwned' /\ Waiters'
    BY <2>1, HandOverInv
  <2>3. TypeOK'
    BY HandOverFacts DEF BackendPlace
  <2>4. Places' = Places /\ InQueue' = InQueue /\ waiting' = waiting
    BY DEF Places, InQueue
  <2>5. Progress'
    BY DEF Progress
  <2> QED BY <2>2, <2>3, <2>4, <2>5, SamePlaces
<1> QED BY <1>1, <1>2, <1>3, <1>4, <1>5

\* Every step of a caller, a backend or an owner preserves it.
LEMMA InvNext == IInv /\ [Next]_vars => IInv'
<1> SUFFICES ASSUME IInv, [Next]_vars PROVE IInv'
  OBVIOUS
<1>1. CASE UNCHANGED vars
  BY <1>1 DEF vars, caller, IInv, TypeOK, SlotOwned, QueueBounded, InQueue,
              Waiters, Places, PlacesCounted, Progress, Running
<1>2. ASSUME NEW a \in Attempt,
             \/ begin_attempt(a) \/ CallerStep(a) \/ BackendStep(a)
             \/ PromptEnds(a) \/ DropAttempt(a) \/ Abandon(a)
             \/ invalidate(a) \/ Deadline(a)
      PROVE  IInv'
  BY <1>2, QuietStep, EnterStep, LeaveStep DEF CallerStep, BackendStep
<1> QED BY <1>1, <1>2 DEF Next

\* The inductive invariant holds in every reachable state.
THEOREM PresenceInvariant == Spec => []IInv
<1> QED BY InvInit, InvNext, PTL DEF Spec

\* One prompt slot, with its owner: no prompt runs without the permit and no
\* path through cancellation, deadline or a dropped future loses it.
THEOREM PresenceSlotOwned == Spec => []SlotOwned
<1>1. IInv => SlotOwned
  BY DEF IInv
<1> QED BY <1>1, PresenceInvariant, PTL

\* The queue is bounded by MAX_WAITING, for any number of callers.
THEOREM PresenceQueueBounded == Spec => []QueueBounded
<1>1. IInv => QueueBounded
  BY DEF IInv
<1> QED BY <1>1, PresenceInvariant, PTL

----------------------------------------------------------------------------
(* The contract.                                                           *)

\* At most one prompt is open, the one of the attempt with the permit.
LEMMA PromptFacts ==
  ASSUME SlotOwned
  PROVE  /\ \A a \in Attempt : backend[a] = "open" => Prompt = a
         /\ (\A a \in Attempt : backend[a] # "open") => Prompt = None
<1>1. ASSUME NEW a \in Attempt, backend[a] = "open" PROVE Prompt = a
  <2>1. Open = {a}
    BY <1>1 DEF SlotOwned, Running, Open
  <2> QED BY <2>1 DEF Prompt
<1>2. ASSUME \A a \in Attempt : backend[a] # "open" PROVE Prompt = None
  BY <1>2 DEF Prompt, Open
<1> QED BY <1>1, <1>2

\* The prompt does not change as long as no backend opens or ends one.
LEMMA PromptKept ==
  ASSUME Open' = Open
  PROVE  Prompt' = Prompt
  BY DEF Prompt

AbsVars == <<Prompt, Confirmed, Cancelled, result>>

\* Every step is a step of the contract or invisible to it.
LEMMA ContractStep ==
  ASSUME IInv, IInv', NEW a \in Attempt,
         \/ begin_attempt(a) \/ CallerStep(a) \/ BackendStep(a)
         \/ PromptEnds(a) \/ DropAttempt(a) \/ Abandon(a)
         \/ invalidate(a) \/ Deadline(a)
  PROVE  Contract!Next \/ UNCHANGED AbsVars
<1> USE DEF caller, Goto, Return, BackendAt
<1>1. TypeOK /\ Progress /\ SlotOwned /\ SlotOwned'
  BY DEF IInv
<1>2. ASSUME Contract!Open(a) \/ Contract!Close(a) \/ Contract!Cancel(a)
             \/ Contract!Verify(a) \/ \E d \in Denial : Contract!Deny(a, d)
      PROVE  Contract!Next
  BY <1>2 DEF Contract!Next
<1>3. CASE \/ begin_attempt(a) \/ TryAcquire(a) \/ TakePlace(a)
           \/ JoinQueue(a) \/ GivenPermit(a) \/ Spawn(a) \/ BackendCheck(a)
           \/ DropPermit(a) \/ SendResult(a) \/ Deadline(a)
  <2> USE <1>3 DEF begin_attempt, TryAcquire, TakePlace, JoinQueue, GivenPermit,
        Spawn, BackendCheck, DropPermit, SendResult, Deadline
  <2>1. Open' = Open
    <3>1. \/ backend' = backend
          \/ \E p \in BackendPlace \ {"open"} :
               backend' = [backend EXCEPT ![a] = p] /\ backend[a] # "open"
      <4>1. CASE Spawn(a)
        BY ONLY <4>1, <1>1, a \in Attempt DEF Spawn, BackendPlace, Progress
      <4>2. CASE BackendCheck(a)
        BY ONLY <4>2 DEF BackendCheck, BackendPlace, BackendAt
      <4>3. CASE DropPermit(a)
        BY ONLY <4>3 DEF DropPermit, BackendPlace, BackendAt
      <4>4. CASE SendResult(a)
        BY ONLY <4>4 DEF SendResult, BackendPlace, BackendAt
      <4> QED BY <4>1, <4>2, <4>3, <4>4
    <3>2. backend \in [Attempt -> BackendPlace]
      BY <1>1 DEF TypeOK
    <3>3. \A b \in Attempt : backend'[b] = "open" <=> backend[b] = "open"
      BY ONLY <3>1, <3>2, a \in Attempt
    <3> QED BY ONLY <3>3 DEF Open
  <2>2. Confirmed' = Confirmed
    <3>1. \A b \in Attempt : said'[b] = "ok" <=> said[b] = "ok"
      BY <1>1, NoneAssumption DEF TypeOK, Progress
    <3> QED BY ONLY <3>1 DEF Confirmed
  <2>3. Cancelled' = Cancelled /\ result' = result
    BY DEF Cancelled
  <2> QED BY <2>1, <2>2, <2>3, PromptKept DEF AbsVars
<1>4. CASE \/ QueueFull(a) \/ GiveUpWaiting(a) \/ GrantedStopped(a)
           \/ GiveUpPrompt(a)
  <2> USE <1>4 DEF QueueFull, GiveUpWaiting, GrantedStopped, GiveUpPrompt
  <2>1. Prompt' = Prompt
    BY PromptKept DEF Open
  <2>2. Confirmed' = Confirmed
    BY DEF Confirmed
  <2>3. Cancelled' \in {Cancelled, Cancelled \cup {a}}
    BY <1>1 DEF Cancelled, TypeOK
  <2>4. PICK d \in Denial : result' = [result EXCEPT ![a] = d]
    BY DEF Denial, StopReason
  <2>5. result[a] = None
    BY <1>1 DEF Progress
  <2> QED BY <2>1, <2>2, <2>3, <2>4, <2>5, <1>2 DEF Contract!Deny
<1>5. CASE TakeResult(a)
  <2> USE <1>5 DEF TakeResult
  <2>1. Prompt' = Prompt /\ Confirmed' = Confirmed /\ Cancelled' = Cancelled
    BY PromptKept DEF Open, Confirmed, Cancelled
  <2>2. result[a] = None /\ said[a] \in PresenceResult /\ a \notin Cancelled
    BY <1>1 DEF Progress, TypeOK, Cancelled, Stopped
  <2>3. CASE said[a] = "ok"
    <3>1. a \in Confirmed /\ result' = [result EXCEPT ![a] = "Verified"]
      BY <2>3 DEF Confirmed, Mapped
    <3> QED BY <2>1, <2>2, <3>1, <1>2 DEF Contract!Verify
  <2>4. CASE said[a] # "ok"
    <3>1. PICK d \in Denial : result' = [result EXCEPT ![a] = d]
      BY <2>2, <2>4 DEF PresenceResult, Mapped, Denial
    <3> QED BY <2>1, <2>2, <3>1, <1>2 DEF Contract!Deny
  <2> QED BY <2>3, <2>4
<1>6. CASE DropAttempt(a) \/ Abandon(a) \/ invalidate(a)
  <2> USE <1>6 DEF DropAttempt, Abandon, invalidate
  <2>1. Prompt' = Prompt /\ Confirmed' = Confirmed /\ result' = result
    BY PromptKept DEF Open, Confirmed
  <2>2. Cancelled' = Cancelled \cup {a}
    BY <1>1 DEF Cancelled, TypeOK
  <2> QED BY <2>1, <2>2, <1>2 DEF Contract!Cancel
<1>7. CASE BackendOpen(a)
  <2> USE <1>7 DEF BackendOpen
  <2>1. Confirmed' = Confirmed
    <3>1. \A b \in Attempt : said'[b] = "ok" <=> said[b] = "ok"
      BY <1>1, NoneAssumption DEF TypeOK, Progress
    <3> QED BY ONLY <3>1 DEF Confirmed
  <2>4. Cancelled' = Cancelled /\ result' = result
    BY DEF Cancelled
  <2>2. CASE backend' = [backend EXCEPT ![a] = "open"]
    <3>1. slot = a /\ \A b \in Attempt : backend[b] # "open"
      BY <1>1 DEF SlotOwned, Running
    <3>2. Prompt = None
      BY <3>1, <1>1, PromptFacts
    <3>4. Open' = {a}
      BY <3>1, <2>2, <1>1 DEF Open, TypeOK
    <3>5. Prompt' = a
      BY <3>4 DEF Prompt
    <3>3. a \notin Confirmed
      BY <1>1, NoneAssumption DEF Confirmed, Progress
    <3> QED BY <2>1, <2>4, <3>2, <3>3, <3>5, <1>2 DEF Contract!Open
  <2>3. CASE backend' = [backend EXCEPT ![a] = "ended"]
    <3>1. Open' = Open
      BY <2>3, <1>1 DEF Open, TypeOK
    <3> QED BY <2>1, <2>4, <3>1, PromptKept DEF AbsVars
  <2> QED BY <2>2, <2>3
<1>8. CASE PromptEnds(a)
  <2> USE <1>8 DEF PromptEnds
  <2>1. Cancelled' = Cancelled /\ result' = result
    BY DEF Cancelled
  <2>2. Prompt = a
    BY <1>1, PromptFacts
  <2>3. \A b \in Attempt : backend'[b] # "open"
    BY <1>1 DEF SlotOwned, Running, TypeOK
  <2>4. Prompt' = None
    BY <2>3 DEF Prompt, Open
  <2>5. Confirmed' \in {Confirmed, Confirmed \cup {a}}
    <3>1. a \notin Confirmed
      BY <1>1, NoneAssumption DEF Confirmed, Progress
    <3> QED BY <3>1, <1>1 DEF Confirmed, TypeOK
  <2> QED BY <2>1, <2>2, <2>4, <2>5, <1>2 DEF Contract!Close
<1> QED BY <1>3, <1>4, <1>5, <1>6, <1>7, <1>8 DEF CallerStep, BackendStep

\* PresenceCoordinator implements its contract: one native prompt at a time,
\* and "Verified" only for an attempt confirmed in its own prompt and not
\* invalidated when verify took the result.
THEOREM PresenceKeepsContract == Spec => KeepsContract
<1>1. Init => Contract!Init
  <2> SUFFICES ASSUME Init PROVE Contract!Init
    OBVIOUS
  <2>1. Prompt = None
    BY DEF Prompt, Open, Init
  <2>2. Confirmed = {} /\ Cancelled = {}
    BY NoneAssumption DEF Confirmed, Cancelled, Init
  <2> QED BY <2>1, <2>2 DEF Contract!Init, Init
<1>2. IInv /\ IInv' /\ [Next]_vars => [Contract!Next]_AbsVars
  <2> SUFFICES ASSUME IInv, IInv', [Next]_vars
               PROVE  Contract!Next \/ UNCHANGED AbsVars
    OBVIOUS
  <2>1. CASE UNCHANGED vars
    BY <2>1 DEF vars, caller, AbsVars, Prompt, Open, Confirmed, Cancelled
  <2>2. CASE Next
    BY <2>2, ContractStep DEF Next
  <2> QED BY <2>1, <2>2
<1> QED BY <1>1, <1>2, PresenceInvariant, PTL
      DEF Spec, KeepsContract, Contract!Spec, AbsVars
=============================================================================
