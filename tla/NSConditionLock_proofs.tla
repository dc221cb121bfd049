---------------------- MODULE NSConditionLock_proofs ----------------------
(***************************************************************************)
(* For any number of threads and any conditions: NSConditionLock excludes, *)
(* loses no wake-up and implements the safety part of the abstract lock.   *)
(***************************************************************************)
EXTENDS NSConditionLock, TLAPS

(* What is known of the request of a thread at each point of its call.      *)
RequestInv ==
  \A t \in Threads :
    /\ pc[t] \in {"idle"} \cup Granted <=> request[t] = NoRequest
    /\ pc[t] \notin {"idle", "entering"} \cup Granted => request[t].want # Any
    /\ pc[t] \in {"waiting", "woken", "expired"} => request[t].patience # "now"
    /\ pc[t] = "expired" => request[t].patience = "limit"
    /\ pc[t] = "leaving" => request[t].patience \in {"limit", "now"}

IInv == TypeOK /\ RequestInv /\ MutualExclusion /\ NoLostWakeup

LEMMA NoRequestIsNone == NoRequest \notin Request
BY DEF NoRequest, Request

LEMMA ToIntType == ASSUME NEW v \in Int PROVE ToInt(v) \in Int
BY HalfRangeAssumption DEF ToInt

(* The initial states satisfy the invariant.                                *)
LEMMA InitInv == Init => IInv
<1> SUFFICES ASSUME Init PROVE IInv
  OBVIOUS
<1>1. TypeOK
  BY ToIntType, ValuesAssumption DEF Init, TypeOK, WithoutMutex, WithMutex
<1>2. RequestInv
  BY DEF Init, RequestInv, Granted, NoRequest
<1>3. MutualExclusion /\ NoLostWakeup
  BY NoThreadAssumption
  DEF Init, MutualExclusion, NoLostWakeup, WithMutex, Granted
<1> QED BY <1>1, <1>2, <1>3 DEF IInv

LEMMA NextType == TypeOK /\ [Next]_vars => TypeOK'
<1> SUFFICES ASSUME TypeOK, [Next]_vars PROVE TypeOK'
  OBVIOUS
<1> USE DEF TypeOK, WithoutMutex, WithMutex, Granted
<1>1. CASE UNCHANGED vars
  BY <1>1 DEF vars
<1>2. ASSUME NEW t \in Threads,
             \/ Call(t) \/ Acquire(t) \/ Proceed(t) \/ SpuriousWakeup(t)
             \/ Unlock(t) \/ Store(t)
      PROVE  TypeOK'
  <2>1. CASE Call(t)
    BY <2>1 DEF Call
  <2>2. CASE Enter(t)
    BY <2>2 DEF Enter
  <2>3. CASE Reacquire(t)
    BY <2>3 DEF Reacquire
  <2>4. CASE Refused(t) \/ TestMeets(t) \/ Leave(t)
    BY <2>4 DEF Refused, TestMeets, Leave
  <2>5. CASE TestWaits(t) \/ TestFails(t) \/ TimeOut(t) \/ SpuriousWakeup(t)
    BY <2>5 DEF TestWaits, TestFails, TimeOut, SpuriousWakeup
  <2>6. CASE Broadcast(t)
    BY <2>6 DEF Broadcast, Woken
  <2>7. CASE Unlock(t) \/ UnlockTold(t)
    BY <2>7 DEF Unlock, UnlockTold
  <2>8. CASE Store(t)
    BY <2>8, ToIntType, ValuesAssumption DEF Store
  <2> QED
    BY <1>2, <2>1, <2>2, <2>3, <2>4, <2>5, <2>6, <2>7, <2>8
    DEF Acquire, Proceed
<1> QED BY <1>1, <1>2 DEF Next

(* Every step preserves what relates a thread's pc and its request.         *)
LEMMA NextRequest == IInv /\ [Next]_vars => RequestInv'
<1> SUFFICES ASSUME IInv, [Next]_vars PROVE RequestInv'
  OBVIOUS
<1> USE NoRequestIsNone
    DEF IInv, TypeOK, WithoutMutex, WithMutex, Granted, RequestInv
<1>1. CASE UNCHANGED vars
  BY <1>1 DEF vars
<1>2. ASSUME NEW t \in Threads,
             \/ Call(t) \/ Acquire(t) \/ Proceed(t) \/ SpuriousWakeup(t)
             \/ Unlock(t) \/ Store(t)
      PROVE  RequestInv'
  <2>1. CASE Call(t)
    BY <2>1 DEF Call
  <2>2. CASE Enter(t)
    BY <2>2 DEF Enter
  <2>3. CASE Reacquire(t)
    BY <2>3 DEF Reacquire
  <2>4. CASE Refused(t) \/ TestMeets(t) \/ Leave(t)
    BY <2>4 DEF Refused, TestMeets, Leave
  <2>5. CASE TestWaits(t) \/ TestFails(t) \/ TimeOut(t) \/ SpuriousWakeup(t)
    BY <2>5 DEF TestWaits, TestFails, TimeOut, SpuriousWakeup, Request
  <2>6. CASE Broadcast(t)
    BY <2>6 DEF Broadcast, Woken
  <2>7. CASE Unlock(t) \/ UnlockTold(t)
    BY <2>7 DEF Unlock, UnlockTold
  <2>8. CASE Store(t)
    BY <2>8 DEF Store
  <2> QED
    BY <1>2, <2>1, <2>2, <2>3, <2>4, <2>5, <2>6, <2>7, <2>8
    DEF Acquire, Proceed
<1> QED BY <1>1, <1>2 DEF Next

(* Every step preserves the owner's exclusiveness and the waiters' hope.    *)
LEMMA NextExclusion ==
  IInv /\ [Next]_vars => MutualExclusion' /\ NoLostWakeup'
<1> SUFFICES ASSUME IInv, [Next]_vars PROVE MutualExclusion' /\ NoLostWakeup'
  OBVIOUS
<1> USE NoThreadAssumption DEF IInv, TypeOK, WithoutMutex, WithMutex, Granted,
        MutualExclusion, NoLostWakeup
<1>1. CASE UNCHANGED vars
  BY <1>1 DEF vars
<1>2. ASSUME NEW t \in Threads,
             \/ Call(t) \/ Acquire(t) \/ Proceed(t) \/ SpuriousWakeup(t)
             \/ Unlock(t) \/ Store(t)
      PROVE  MutualExclusion' /\ NoLostWakeup'
  <2>1. CASE Call(t)
    BY <2>1 DEF Call
  <2>2. CASE Enter(t)
    BY <2>2 DEF Enter
  <2>3. CASE Reacquire(t)
    BY <2>3 DEF Reacquire
  <2>4. CASE Refused(t) \/ TestMeets(t)
    BY <2>4 DEF Refused, TestMeets
  <2>5. CASE TestWaits(t) \/ TestFails(t)
    BY <2>5 DEF TestWaits, TestFails
  <2>6. CASE TimeOut(t) \/ SpuriousWakeup(t)
    BY <2>6 DEF TimeOut, SpuriousWakeup
  <2>7. CASE Broadcast(t)
    BY <2>7 DEF Broadcast, Woken
  <2>8. CASE Unlock(t) \/ UnlockTold(t) \/ Leave(t)
    BY <2>8 DEF Unlock, UnlockTold, Leave
  <2>9. CASE Store(t)
    BY <2>9 DEF Store
  <2> QED
    BY <1>2, <2>1, <2>2, <2>3, <2>4, <2>5, <2>6, <2>7, <2>8, <2>9
    DEF Acquire, Proceed
<1> QED BY <1>1, <1>2 DEF Next

(* The inductive invariant holds of the lock, fair or not.                  *)
THEOREM Invariant == SafeSpec => []IInv
<1>1. IInv /\ [Next]_vars => IInv'
  BY NextType, NextRequest, NextExclusion DEF IInv
<1> QED BY InitInv, <1>1, PTL DEF SafeSpec

(* Whatever the threads do, the mutex is held by the thread whose call says *)
(* so, and by no other.                                                     *)
THEOREM LockExcludes == SafeSpec => []MutualExclusion
<1>1. IInv => MutualExclusion
  BY DEF IInv
<1> QED BY Invariant, <1>1, PTL

(* No thread sleeps on a condition that is met and was broadcast.           *)
THEOREM WakeupsAreKept == SafeSpec => []NoLostWakeup
<1>1. IInv => NoLostWakeup
  BY DEF IInv
<1> QED BY Invariant, <1>1, PTL

(* Every step of the lock is one of the abstract lock or changes nothing of *)
(* it.                                                                      *)
LEMMA StepSimulation ==
  ASSUME Values \subseteq -HalfRange .. HalfRange - 1,
         IInv, [Next]_vars
  PROVE  [Abs!ANext]_(Abs!avars)
<1> USE NoThreadAssumption, ValuesAssumption, NoRequestIsNone
    DEF IInv, TypeOK, MutualExclusion, RequestInv, WithoutMutex, WithMutex,
        Granted, AbstractHolder, Abs!ANext, Abs!avars,
        Request, NoRequest, Abs!Request, Abs!NoRequest
<1>1. CASE UNCHANGED vars
  BY <1>1 DEF vars
<1>2. ASSUME NEW t \in Threads, Call(t) PROVE Abs!Ask(t)
  BY <1>2 DEF Call, Abs!Ask
<1>3. ASSUME NEW t \in Threads, Enter(t) PROVE [Abs!ANext]_(Abs!avars)
  <2>1. CASE request[t].want = Any
    <3>1. Abs!Grant(t)
      BY <1>3, <2>1 DEF Enter, Abs!Grant
    <3> QED BY <3>1
  <2>2. CASE request[t].want # Any
    BY <1>3, <2>2 DEF Enter
  <2> QED BY <2>1, <2>2
<1>4. ASSUME NEW t \in Threads, TestMeets(t) PROVE Abs!Grant(t)
  BY <1>4 DEF TestMeets, Abs!Grant
<1>5. ASSUME NEW t \in Threads, Refused(t) \/ Leave(t) PROVE Abs!Refuse(t)
  BY <1>5 DEF Refused, Leave, Abs!Refuse
<1>6. ASSUME NEW t \in Threads,
             TestWaits(t) \/ TestFails(t) \/ TimeOut(t) \/ SpuriousWakeup(t)
      PROVE  UNCHANGED Abs!avars
  BY <1>6 DEF TestWaits, TestFails, TimeOut, SpuriousWakeup
<1>7. ASSUME NEW t \in Threads, Reacquire(t) PROVE UNCHANGED Abs!avars
  BY <1>7 DEF Reacquire
<1>8. ASSUME NEW t \in Threads, Broadcast(t) PROVE UNCHANGED Abs!avars
  BY <1>8 DEF Broadcast, Woken
<1>9. ASSUME NEW t \in Threads, Unlock(t) \/ UnlockTold(t) PROVE Abs!Release(t)
  BY <1>9 DEF Unlock, UnlockTold, Abs!Release
<1>10. ASSUME NEW t \in Threads, Store(t) PROVE Abs!SetCondition(t)
  <2>1. \A v \in Values : ToInt(v) = v
    BY DEF ToInt
  <2> QED BY <1>10, <2>1 DEF Store, Abs!SetCondition
<1> QED
  BY <1>1, <1>2, <1>3, <1>4, <1>5, <1>6, <1>7, <1>8, <1>9, <1>10
  DEF Next, Acquire, Proceed

(* As long as the conditions fit an int, NSConditionLock is the lock its    *)
(* header describes: the safety part of ImplementsLock, for any threads.    *)
THEOREM ImplementsLockSafely ==
  ASSUME Values \subseteq -HalfRange .. HalfRange - 1
  PROVE  SafeSpec => Abs!ASafeSpec
<1>1. Init => Abs!AInit
  <2>1. \A v \in Values : ToInt(v) = v
    BY DEF ToInt
  <2> QED
    BY <2>1 DEF Init, Abs!AInit, AbstractHolder, NoRequest, Abs!NoRequest
<1>2. IInv /\ [Next]_vars => [Abs!ANext]_(Abs!avars)
  BY StepSimulation
<1> QED BY Invariant, <1>1, <1>2, PTL DEF SafeSpec, Abs!ASafeSpec
==========================================================================
