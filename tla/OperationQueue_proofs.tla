----------------------- MODULE OperationQueue_proofs -----------------------
(***************************************************************************)
(* For any operations, dependencies, threads of the program and size of    *)
(* pool: every variable keeps its type, the queue at rest holds back no    *)
(* operation it could start, it sees each of its operations become ready,  *)
(* and an operation that waits is told when its dependencies finish - but  *)
(* for the two windows in which a change and its being observed fall       *)
(* together; no operation of the queue is lost and none is run twice that  *)
(* the program does not start itself, because each of them is in one place *)
(* and one thread at most has it; what the queue and the pool count is     *)
(* what there is; and -main is entered after what it depends on.           *)
(***************************************************************************)
EXTENDS OperationQueue, FiniteSetTheorems, TLAPS

(* The type invariant by groups of variables.                               *)
Pcs == {"free", "depending", "readying", "adding", "announcing", "owes",
        "loop", "gone", "idle", "expired", "taken", "main", "finishing",
        "notifying"}

OpType ==
  /\ ready \in [Ops -> BOOLEAN] /\ cancelled \in [Ops -> BOOLEAN]
  /\ finished \in [Ops -> BOOLEAN] /\ isExecuting \in [Ops -> BOOLEAN]
  /\ priority \in [Ops -> Priorities]
  /\ dependencies \in [Ops -> SUBSET Ops]
  /\ watching \in [Ops -> SUBSET Ops]
  /\ mains \in [Ops -> Nat]
QueueType ==
  /\ operations \subseteq Ops /\ awaited \subseteq Ops
  /\ waiting \subseteq Ops /\ watched \subseteq Ops /\ async \subseteq Ops
  /\ late \subseteq Ops /\ byHand \subseteq Ops /\ missed \subseteq Ops \X Ops
  /\ executing \in Int /\ suspended \in BOOLEAN /\ count \in Counts
  /\ strays \in Nat
PoolType ==
  /\ threadCount \in Int /\ starting \in Seq(Ops) /\ cond \in {0, 1}
ThreadType ==
  /\ lock \in Threads \cup {NoThread}
  /\ pc \in [Threads -> Pcs]
  /\ resume \in [Threads -> {"free", "announcing", "notifying"}]
  /\ cur \in [Threads -> Ops \cup {NoOp}]
  /\ held \in [Threads -> Ops \cup {NoOp}]
  /\ todo \in [Threads -> SUBSET (Ops \cup {Queue})]

Types == OpType /\ QueueType /\ PoolType /\ ThreadType

LEMMA TypesAreType == Types => TypeOK
BY DEF Types, TypeOK, OpType, QueueType, PoolType, ThreadType, Pcs

LEMMA InitTypes == Init => Types
<1> SUFFICES ASSUME Init PROVE Types
  OBVIOUS
<1> USE DEF Init
<1>1. OpType
  <2>1. /\ ready \in [Ops -> BOOLEAN] /\ cancelled \in [Ops -> BOOLEAN]
        /\ finished \in [Ops -> BOOLEAN] /\ isExecuting \in [Ops -> BOOLEAN]
    OBVIOUS
  <2>2. /\ dependencies \in [Ops -> SUBSET Ops]
        /\ watching \in [Ops -> SUBSET Ops] /\ mains \in [Ops -> Nat]
    OBVIOUS
  <2> QED BY <2>1, <2>2 DEF OpType
<1>2. QueueType
  <2>1. suspended \in BOOLEAN
    BY Zenon
  <2> QED BY <2>1 DEF QueueType
<1>3. PoolType
  BY DEF PoolType
<1>4. ThreadType
  <2>1. pc \in [Threads -> Pcs]
    BY DEF Pcs
  <2>2. resume \in [Threads -> {"free", "announcing", "notifying"}]
    OBVIOUS
  <2>3. /\ cur \in [Threads -> Ops \cup {NoOp}]
        /\ held \in [Threads -> Ops \cup {NoOp}]
    OBVIOUS
  <2>4. todo \in [Threads -> SUBSET (Ops \cup {Queue})]
    OBVIOUS
  <2> QED BY <2>1, <2>2, <2>3, <2>4 DEF ThreadType
<1> QED BY <1>1, <1>2, <1>3, <1>4 DEF Types

(* A thread of the program or of the pool is a thread, and no operation is  *)
(* the observer that stands for the queue.                                  *)
LEMMA AreThreads == Clients \subseteq Threads /\ Workers \subseteq Threads
BY DEF Threads

LEMMA NoOpIsNone == NoOp \notin Ops /\ NoOp = Queue
BY OpsAssumption DEF NoOp

--------------------------------------------------------------------------
(* What the pc of a thread says of its other variables.                     *)
Announcing(t) == pc[t] = "announcing"
                 \/ (pc[t] = "loop" /\ resume[t] = "announcing")
Notifying(t) == \/ pc[t] = "notifying"
                \/ /\ pc[t] \in {"owes", "loop", "readying"}
                   /\ resume[t] = "notifying"
Running(t) == pc[t] \in {"taken", "main", "finishing"}

ThreadOK(t) ==
  /\ lock = t <=> pc[t] \in {"announcing", "loop"}
  /\ pc[t] \notin {"owes", "loop", "readying"} => resume[t] = "free"
  /\ pc[t] \in {"owes", "readying"} => resume[t] # "announcing"
  /\ Running(t) => cur[t] \in Ops
  /\ Notifying(t) => cur[t] \in Ops /\ finished[cur[t]] = TRUE
  /\ ~ (Running(t) \/ Notifying(t)) => cur[t] = NoOp
  /\ \/ todo[t] = {} \/ pc[t] \in {"depending", "adding"}
     \/ Notifying(t) \/ Announcing(t)
  /\ Queue \in todo[t] => Notifying(t)
  /\ pc[t] \in {"depending", "readying"} => held[t] \in Ops
  /\ pc[t] \notin {"depending", "readying", "owes", "loop"} => held[t] = NoOp
  /\ Announcing(t) => held[t] = NoOp

ThreadInv == \A t \in Threads : ThreadOK(t)

(* The steps that leave the operations alone.                               *)
LEMMA OpsUnchanged ==
  ASSUME NEW t, NEW o, NEW new,
         \/ LeaveMain(t) \/ Finished(t) \/ TellQueue(t) \/ Announce(t, o)
         \/ FinishConcurrent(t, o) \/ AddOperation(t, o)
         \/ AddOperations(t, new) \/ Insert(t) \/ SetSuspended(t)
         \/ SetMaxConcurrentOperationCount(t) \/ Execute(t) \/ Executed(t)
         \/ Take(t) \/ TimeOut(t) \/ Exit(t)
  PROVE  UNCHANGED <<opVars, mains>>
BY DEF LeaveMain, Finished, TellQueue, Announce, FinishConcurrent,
       AddOperation, AddOperations, Insert, SetSuspended, histVars,
       SetMaxConcurrentOperationCount, Execute, Executed, Take, TimeOut, Exit

LEMMA OpTypeKept == Types /\ [Next]_vars => OpType'
<1> SUFFICES ASSUME Types, [Next]_vars PROVE OpType'
  OBVIOUS
<1>0. ASSUME UNCHANGED <<opVars, mains>> PROVE OpType'
  BY <1>0 DEF OpType, Types, opVars
<1>1. ASSUME NEW t, NEW o \in Ops, NEW d \in Ops, AddDependency(t, o, d)
      PROVE  OpType'
  <2>1. UNCHANGED <<ready, cancelled, finished, isExecuting, priority, watching,
                    mains>>
    BY <1>1 DEF AddDependency, histVars
  <2>2. dependencies' \in [Ops -> SUBSET Ops]
    BY <1>1 DEF AddDependency, Types, OpType
  <2> QED BY <2>1, <2>2 DEF Types, OpType
<1>2. ASSUME NEW t, NEW o \in Ops, NEW d \in Ops, RemoveDependency(t, o, d)
      PROVE  OpType'
  <2>1. UNCHANGED <<ready, cancelled, finished, isExecuting, priority, mains>>
    BY <1>2 DEF RemoveDependency, histVars
  <2>2. /\ dependencies' \in [Ops -> SUBSET Ops]
        /\ watching' \in [Ops -> SUBSET Ops]
    BY <1>2 DEF RemoveDependency, Types, OpType
  <2> QED BY <2>1, <2>2 DEF Types, OpType
<1>3. ASSUME NEW t, NEW o \in Ops, Cancel(t, o)
      PROVE  OpType'
  <2>1. UNCHANGED <<ready, finished, isExecuting, priority, dependencies,
                    watching, mains>>
    BY <1>3 DEF Cancel, histVars
  <2>2. cancelled' \in [Ops -> BOOLEAN]
    BY <1>3 DEF Cancel, Types, OpType
  <2> QED BY <2>1, <2>2 DEF Types, OpType
<1>4. ASSUME NEW t, NEW o \in Ops, SetQueuePriority(t, o)
      PROVE  OpType'
  BY <1>4 DEF SetQueuePriority, Types, OpType, histVars
<1>5. ASSUME NEW t, NEW o \in Ops, Start(t, o)
      PROVE  OpType'
  <2>1. UNCHANGED <<ready, cancelled, finished, priority, dependencies,
                    watching, mains>>
    BY <1>5 DEF Start
  <2>2. isExecuting' \in [Ops -> BOOLEAN]
    BY <1>5 DEF Start, Types, OpType
  <2> QED BY <2>1, <2>2 DEF Types, OpType
<1>6. ASSUME NEW t, EnterMain(t)
      PROVE  OpType'
  <2>1. UNCHANGED opVars
    BY <1>6 DEF EnterMain
  <2>2. mains' \in [Ops -> Nat]
    <3>1. CASE cur[t] \in Ops
      BY <1>6, <3>1 DEF EnterMain, Types, OpType
    <3>2. CASE cur[t] \notin Ops
      BY <1>6, <3>2 DEF EnterMain, Types, OpType
    <3> QED BY <3>1, <3>2
  <2> QED BY <2>1, <2>2 DEF Types, OpType, opVars
<1>7. ASSUME NEW t, Finish(t)
      PROVE  OpType'
  <2>1. UNCHANGED <<ready, cancelled, priority, dependencies, watching, mains>>
    BY <1>7 DEF Finish, histVars
  <2>2. finished' \in [Ops -> BOOLEAN]
    BY <1>7 DEF Finish, Types, OpType
  <2>3. isExecuting' \in [Ops -> BOOLEAN]
    BY <1>7, Zenon DEF Finish, Types, OpType
  <2> QED BY <2>1, <2>2, <2>3 DEF Types, OpType
<1>8. ASSUME NEW t, NEW d \in Ops, TellDependent(t, d)
      PROVE  OpType'
  <2>1. UNCHANGED <<ready, cancelled, finished, isExecuting, priority,
                    dependencies, mains>>
    BY <1>8 DEF TellDependent, histVars
  <2>2. watching' \in [Ops -> SUBSET Ops]
    BY <1>8 DEF TellDependent, Types, OpType
  <2> QED BY <2>1, <2>2 DEF Types, OpType
<1>9. ASSUME NEW t, NEW o \in Ops, StartFirst(t, o)
      PROVE  OpType'
  <2>1. UNCHANGED <<ready, cancelled, finished, priority, dependencies,
                    watching>>
    BY <1>9 DEF StartFirst
  <2>2. isExecuting' \in [Ops -> BOOLEAN]
    BY <1>9 DEF StartFirst, Types, OpType
  <2>3. mains' \in [Ops -> Nat]
    BY <1>9 DEF StartFirst, Types, OpType
  <2> QED BY <2>1, <2>2, <2>3 DEF Types, OpType
<1>10. ASSUME NEW t \in Threads, Depend(t)
       PROVE  OpType'
  <2>1. UNCHANGED <<cancelled, finished, isExecuting, priority, dependencies,
                    mains>>
    BY <1>10 DEF Depend
  <2>2. ready' \in [Ops -> BOOLEAN]
    BY <1>10 DEF Depend, Types, OpType
  <2>3. watching' \in [Ops -> SUBSET Ops]
    <3>1. todo[t] \ {Queue} \subseteq Ops
      BY DEF Types, ThreadType
    <3> QED BY <1>10, <3>1 DEF Depend, Types, OpType
  <2> QED BY <2>1, <2>2, <2>3 DEF Types, OpType
<1>11. ASSUME NEW t, MakeReady(t)
       PROVE  OpType'
  <2>1. UNCHANGED <<cancelled, finished, isExecuting, priority, dependencies,
                    watching, mains>>
    BY <1>11 DEF MakeReady
  <2>2. ready' \in [Ops -> BOOLEAN]
    BY <1>11 DEF MakeReady, Types, OpType
  <2> QED BY <2>1, <2>2 DEF Types, OpType
<1>12. UNCHANGED vars => OpType'
  BY <1>0 DEF vars, histVars
<1> QED
  BY <1>0, <1>1, <1>2, <1>3, <1>4, <1>5, <1>6, <1>7, <1>8, <1>9, <1>10, <1>11,
     <1>12, OpsUnchanged
  DEF Next, Program, Work, Pool

(* The steps that leave the queue's variables alone.                        *)
LEMMA QueueUnchanged ==
  ASSUME NEW t, NEW o, NEW d, NEW new,
         \/ AddDependency(t, o, d) \/ SetQueuePriority(t, o)
         \/ Start(t, o) \/ AddOperations(t, new)
         \/ EnterMain(t) \/ LeaveMain(t) \/ Finish(t) \/ Finished(t)
         \/ Execute(t) \/ Executed(t) \/ Take(t) \/ TimeOut(t) \/ Exit(t)
  PROVE  UNCHANGED <<queueVars, missed, strays>>
BY DEF AddDependency, SetQueuePriority, Start, EnterMain, LeaveMain, Finish,
       Finished, Execute, Executed, Take, TimeOut, Exit, AddOperations, histVars

(* The changes of the three variables the queue's observations alone make.  *)
LEMMA QueueSeesType ==
  ASSUME QueueType, NEW o \in Ops, NEW r, QueueSees(o, r)
  PROVE  /\ operations' \subseteq Ops /\ awaited' \subseteq Ops
         /\ waiting' \subseteq Ops /\ watched' \subseteq Ops
         /\ executing' \in Int /\ strays' \in Nat
<1> USE DEF QueueType
<1>1. CASE finished[o]
  BY <1>1 DEF QueueSees
<1>2. CASE ~ finished[o]
  BY <1>2 DEF QueueSees
<1> QED BY <1>1, <1>2

LEMMA QueueTypeKept == Types /\ ThreadInv /\ [Next]_vars => QueueType'
<1> SUFFICES ASSUME Types, ThreadInv, [Next]_vars PROVE QueueType'
  OBVIOUS
<1> USE DEF Types, QueueType
<1>0. UNCHANGED <<queueVars, byHand, missed, strays>> => QueueType'
  BY DEF queueVars
<1>a. \A t \in Threads : ThreadOK(t)
  BY DEF ThreadInv
<1>1. ASSUME NEW t \in Threads, NEW o \in Ops, NEW d \in Ops,
             RemoveDependency(t, o, d) \/ Cancel(t, o) \/ TellDependent(t, o)
      PROVE  QueueType'
  <2>1. /\ UNCHANGED <<operations, awaited, waiting, watched, executing,
                       suspended, count, async, byHand, missed, strays>>
        /\ late' \subseteq late
    BY <1>1 DEF RemoveDependency, Cancel, TellDependent, BeginReady, histVars
  <2> QED BY <2>1
<1>2. ASSUME NEW t \in Threads, NEW o \in Ops, FinishConcurrent(t, o)
      PROVE  QueueType'
  BY <1>2 DEF FinishConcurrent, histVars
<1>3. ASSUME NEW t \in Threads, NEW o \in Ops, Announce(t, o)
      PROVE  QueueType'
  BY <1>3, QueueSeesType DEF Announce
<1>4. ASSUME NEW t \in Threads, TellQueue(t)
      PROVE  QueueType'
  <2>1. cur[t] \in Ops
    BY <1>4, <1>a DEF TellQueue, ThreadOK, Notifying
  <2> QED BY <1>4, <2>1, QueueSeesType DEF TellQueue
<1>5. ASSUME NEW t \in Threads, MakeReady(t)
      PROVE  QueueType'
  <2>1. held[t] \in Ops
    BY <1>5, <1>a DEF MakeReady, ThreadOK
  <2>2. UNCHANGED <<suspended, count, async, late, byHand, missed>>
    BY <1>5 DEF MakeReady
  <2>3. \/ QueueSees(held[t], TRUE)
        \/ UNCHANGED <<awaited, waiting, executing, watched, operations, strays>>
    BY <1>5 DEF MakeReady
  <2> QED BY <2>1, <2>2, <2>3, QueueSeesType
<1>6. ASSUME NEW t \in Threads, Depend(t)
      PROVE  QueueType'
  <2>1. held[t] \in Ops /\ todo[t] \ {Queue} \subseteq Ops
    BY <1>6, <1>a DEF Depend, ThreadOK, ThreadType
  <2>2. missed' \subseteq Ops \X Ops
    BY <1>6, <2>1 DEF Depend
  <2>3. /\ UNCHANGED <<operations, awaited, waiting, watched, executing,
                       suspended, count, async, byHand, strays>>
        /\ late' \subseteq late
    BY <1>6 DEF Depend
  <2> QED BY <2>2, <2>3
<1>7. ASSUME NEW t \in Threads, Insert(t) \/ \E o \in Ops : AddOperation(t, o)
      PROVE  QueueType'
  <2>1. PICK new \in SUBSET Ops : Enter(t, new)
    BY <1>7 DEF AddOperation, Insert, ThreadType
  <2>2. UNCHANGED <<waiting, watched, executing, suspended, count, async, byHand,
                    missed, strays>>
    BY <1>7 DEF AddOperation, Insert, histVars
  <2> QED BY <2>1, <2>2 DEF Enter
<1>8. ASSUME NEW t, SetSuspended(t)
      PROVE  QueueType'
  <2>1. UNCHANGED <<operations, awaited, waiting, watched, executing, count,
                    async, late, byHand, missed, strays>>
    BY <1>8 DEF SetSuspended, histVars
  <2>2. suspended' \in BOOLEAN
    BY <1>8, Zenon DEF SetSuspended
  <2> QED BY <2>1, <2>2
<1>9. ASSUME NEW t, SetMaxConcurrentOperationCount(t)
      PROVE  QueueType'
  BY <1>9 DEF SetMaxConcurrentOperationCount, histVars
<1>10. ASSUME NEW t, NEW o \in Ops, StartFirst(t, o)
      PROVE  QueueType'
  <2>1. UNCHANGED <<operations, awaited, suspended, count, late, byHand, missed,
                    strays>>
    BY <1>10 DEF StartFirst
  <2>2. /\ waiting' = waiting \ {o} /\ watched' = watched \cup {o}
        /\ executing' = executing + 1 /\ async' \in {async, async \cup {o}}
    BY <1>10 DEF StartFirst
  <2> QED BY <2>1, <2>2
<1>11. ASSUME NEW t, NEW o \in Ops, Start(t, o)
       PROVE  QueueType'
  BY <1>11 DEF Start, queueVars
<1>12. ASSUME NEW t, NEW o, NEW d, NEW new,
         \/ AddDependency(t, o, d) \/ SetQueuePriority(t, o)
         \/ AddOperations(t, new)
         \/ EnterMain(t) \/ LeaveMain(t) \/ Finish(t) \/ Finished(t)
         \/ Execute(t) \/ Executed(t) \/ Take(t) \/ TimeOut(t) \/ Exit(t)
       PROVE  UNCHANGED <<queueVars, byHand, missed, strays>>
  BY <1>12 DEF AddDependency, SetQueuePriority, EnterMain, LeaveMain, Finish,
       Finished, Execute, Executed, Take, TimeOut, Exit, AddOperations, histVars
<1>13. UNCHANGED vars => QueueType'
  BY <1>0 DEF vars, histVars
<1>14. ASSUME NEW t \in Clients, Program(t) PROVE QueueType'
  <2>1. ASSUME NEW o \in Ops, NEW d \in Ops,
               \/ AddDependency(t, o, d) \/ RemoveDependency(t, o, d)
               \/ Cancel(t, o) \/ SetQueuePriority(t, o) \/ Start(t, o)
               \/ AddOperation(t, o)
        PROVE  QueueType'
    BY <2>1, <1>0, <1>1, <1>7, <1>11, <1>12, AreThreads
  <2>2. ASSUME NEW new, AddOperations(t, new) PROVE QueueType'
    BY <2>2, <1>0, <1>12
  <2> QED BY <2>1, <2>2, <1>8, <1>9, <1>14 DEF Program
<1>15. ASSUME NEW t \in Threads, Work(t) PROVE QueueType'
  BY <1>0, <1>1, <1>2, <1>3, <1>4, <1>5, <1>6, <1>7, <1>10, <1>12, <1>15
  DEF Work
<1>16. ASSUME NEW w \in Workers, Pool(w) PROVE QueueType'
  BY <1>0, <1>12, <1>16 DEF Pool
<1> QED
  BY <1>13, <1>14, <1>15, <1>16 DEF Next

(* The steps that leave the pool's variables alone.                         *)
LEMMA PoolUnchanged ==
  ASSUME NEW t, NEW o, NEW d, NEW new,
         \/ AddDependency(t, o, d) \/ RemoveDependency(t, o, d) \/ Cancel(t, o)
         \/ SetQueuePriority(t, o) \/ Start(t, o) \/ AddOperation(t, o)
         \/ AddOperations(t, new) \/ Insert(t) \/ Depend(t) \/ MakeReady(t)
         \/ SetSuspended(t) \/ SetMaxConcurrentOperationCount(t)
         \/ EnterMain(t) \/ LeaveMain(t) \/ Finish(t) \/ Finished(t)
         \/ TellDependent(t, o) \/ Announce(t, o) \/ FinishConcurrent(t, o)
         \/ TellQueue(t) \/ Execute(t) \/ Executed(t) \/ TimeOut(t)
  PROVE  UNCHANGED poolVars
BY DEF AddDependency, RemoveDependency, Cancel, SetQueuePriority, Start,
       AddOperation, AddOperations, Insert, Depend, MakeReady, SetSuspended,
       SetMaxConcurrentOperationCount, EnterMain, LeaveMain, Finish, Finished,
       TellDependent, Announce, FinishConcurrent, TellQueue, Execute, Executed,
       TimeOut

LEMMA PoolTypeKept == Types /\ [Next]_vars => PoolType'
<1> SUFFICES ASSUME Types, [Next]_vars PROVE PoolType'
  OBVIOUS
<1> USE DEF Types, PoolType
<1>0. UNCHANGED poolVars => PoolType'
  BY DEF poolVars
<1>1. ASSUME NEW t, NEW o \in Ops, StartFirst(t, o)
      PROVE  PoolType'
  <2>1. CASE o \in Concurrent
    BY <1>1, <2>1, <1>0 DEF StartFirst
  <2>2. CASE o \notin Concurrent
    <3>1. Hand(t, o)
      BY <1>1, <2>2 DEF StartFirst
    <3> QED BY <3>1 DEF Hand
  <2> QED BY <2>1, <2>2
<1>2. ASSUME NEW t, Take(t)
      PROVE  PoolType'
  <2>1. CondFor(Len(starting')) \in {0, 1}
    BY DEF CondFor
  <2>2. starting' \in Seq(Ops)
    <3>1. CASE starting = <<>>
      BY <1>2, <3>1 DEF Take
    <3>2. CASE starting # <<>>
      BY <1>2, <3>2 DEF Take, Rest
    <3> QED BY <3>1, <3>2
  <2> QED BY <1>2, <2>1, <2>2 DEF Take
<1>3. ASSUME NEW t, Exit(t)
      PROVE  PoolType'
  BY <1>3 DEF Exit
<1>4. UNCHANGED vars => PoolType'
  BY <1>0 DEF vars
<1> QED
  BY <1>0, <1>1, <1>2, <1>3, <1>4, PoolUnchanged DEF Next, Program, Work, Pool

LEMMA ThreadTypeKept == Types /\ [Next]_vars => ThreadType'
<1> SUFFICES ASSUME Types, [Next]_vars PROVE ThreadType'
  OBVIOUS
<1> USE AreThreads
    DEF Types, ThreadType, Pcs, threadVars, Home, ThenExecute, Keep, BeginReady
<1>1. ASSUME NEW t \in Clients, NEW o \in Ops,
             SetQueuePriority(t, o) \/ Start(t, o)
      PROVE  ThreadType'
  BY <1>1 DEF SetQueuePriority, Start
<1>2. ASSUME NEW t \in Threads, NEW o \in Ops, NEW d \in Ops,
             AddDependency(t, o, d)
      PROVE  ThreadType'
  BY <1>2 DEF AddDependency
<1>3. ASSUME NEW t \in Threads, NEW o \in Ops, NEW d \in Ops,
             RemoveDependency(t, o, d) \/ Cancel(t, o)
      PROVE  ThreadType'
  BY <1>3 DEF RemoveDependency, Cancel
<1>4. ASSUME NEW t \in Threads, NEW d \in Ops, TellDependent(t, d)
      PROVE  ThreadType'
  BY <1>4 DEF TellDependent
<1>5. ASSUME NEW t \in Clients, NEW new \in SUBSET Ops, AddOperations(t, new)
      PROVE  ThreadType'
  BY <1>5 DEF AddOperations
<1>6. ASSUME NEW t \in Threads, NEW new \in SUBSET Ops, Enter(t, new),
             UNCHANGED <<resume, cur, held>>
      PROVE  ThreadType'
  BY <1>6 DEF Enter
<1>7. ASSUME NEW t \in Threads, Insert(t) \/ \E o \in Ops : AddOperation(t, o)
      PROVE  ThreadType'
  <2>1. PICK new \in SUBSET Ops : Enter(t, new)
    BY <1>7 DEF AddOperation, Insert
  <2> QED BY <1>6, <1>7, <2>1 DEF AddOperation, Insert
<1>8. ASSUME NEW t \in Threads,
             SetSuspended(t) \/ SetMaxConcurrentOperationCount(t)
      PROVE  ThreadType'
  BY <1>8 DEF SetSuspended, SetMaxConcurrentOperationCount
<1>9. ASSUME NEW t \in Threads, EnterMain(t) \/ LeaveMain(t) \/ Finished(t)
      PROVE  ThreadType'
  BY <1>9 DEF EnterMain, LeaveMain, Finished
<1>10. ASSUME NEW t \in Threads, Finish(t)
       PROVE  ThreadType'
  <2>1. todo' \in [Threads -> SUBSET (Ops \cup {Queue})]
    BY <1>10 DEF Finish
  <2> QED BY <1>10, <2>1 DEF Finish
<1>11. ASSUME NEW t \in Threads, NEW o \in Ops,
              Announce(t, o) \/ FinishConcurrent(t, o)
       PROVE  ThreadType'
  BY <1>11 DEF Announce, FinishConcurrent
<1>12. ASSUME NEW t \in Threads, TellQueue(t)
       PROVE  ThreadType'
  BY <1>12 DEF TellQueue
<1>13. ASSUME NEW t \in Threads, Execute(t) \/ Executed(t)
       PROVE  ThreadType'
  BY <1>13 DEF Execute, Executed
<1>14. ASSUME NEW t \in Threads, NEW o \in Ops, StartFirst(t, o)
       PROVE  ThreadType'
  <2>1. UNCHANGED <<lock, resume, cur, todo, held>>
    BY <1>14 DEF StartFirst
  <2>2. pc' = pc \/ \E w \in Workers : pc' = [pc EXCEPT ![w] = "idle"]
    BY <1>14 DEF StartFirst, Hand
  <2> QED BY <2>1, <2>2
<1>15. ASSUME NEW t \in Threads, Depend(t)
       PROVE  ThreadType'
  BY <1>15 DEF Depend
<1>16. ASSUME NEW t \in Threads, MakeReady(t)
       PROVE  ThreadType'
  BY <1>16 DEF MakeReady
<1>17. ASSUME NEW w \in Workers, Take(w)
       PROVE  ThreadType'
  <2>1. CASE starting = <<>>
    BY <1>17, <2>1 DEF Take
  <2>2. CASE starting # <<>>
    <3>1. Head(starting) \in Ops
      BY <2>2 DEF PoolType
    <3> QED BY <1>17, <2>2, <3>1 DEF Take
  <2> QED BY <2>1, <2>2
<1>18. ASSUME NEW w \in Workers, TimeOut(w) \/ Exit(w)
       PROVE  ThreadType'
  BY <1>18 DEF TimeOut, Exit
<1>19. UNCHANGED vars => ThreadType'
  BY DEF vars
<1>20. ASSUME NEW t \in Clients, Program(t) PROVE ThreadType'
  <2>1. ASSUME NEW new \in Batches, AddOperations(t, new) PROVE ThreadType'
    BY <2>1, <1>5, ProgramAssumption
  <2> QED BY <2>1, <1>1, <1>2, <1>3, <1>7, <1>8, <1>20 DEF Program
<1>21. ASSUME NEW t \in Threads, Work(t) PROVE ThreadType'
  BY <1>4, <1>7, <1>9, <1>10, <1>11, <1>12, <1>13, <1>14, <1>15, <1>16, <1>21
  DEF Work
<1>22. ASSUME NEW w \in Workers, Pool(w) PROVE ThreadType'
  BY <1>17, <1>18, <1>22 DEF Pool
<1> QED BY <1>19, <1>20, <1>21, <1>22 DEF Next

LEMMA TypesKept == Types /\ ThreadInv /\ [Next]_vars => Types'
BY OpTypeKept, QueueTypeKept, PoolTypeKept, ThreadTypeKept DEF Types

--------------------------------------------------------------------------
(* A step of another thread disturbs nothing a thread relies on.            *)
Undisturbed(t) ==
  /\ pc'[t] = pc[t] /\ resume'[t] = resume[t]
  /\ cur'[t] = cur[t] /\ todo'[t] = todo[t] /\ held'[t] = held[t]
  /\ lock = t <=> lock' = t

LEMMA FinishedStays ==
  ASSUME Types, [Next]_vars, NEW o \in Ops, finished[o] = TRUE
  PROVE  finished'[o] = TRUE
<1>1. ASSUME NEW t, Finish(t)
      PROVE  finished'[o] = TRUE
  BY <1>1 DEF Finish, Types, OpType
<1>2. ASSUME NEW t, NEW p \in Ops, NEW d \in Ops,
             \/ AddDependency(t, p, d) \/ RemoveDependency(t, p, d)
             \/ Cancel(t, p) \/ SetQueuePriority(t, p) \/ Start(t, p)
             \/ TellDependent(t, p) \/ StartFirst(t, p)
      PROVE  UNCHANGED finished
  BY <1>2 DEF AddDependency, RemoveDependency, Cancel, SetQueuePriority, Start,
              TellDependent, StartFirst, opVars
<1>3. ASSUME NEW t, EnterMain(t) \/ Depend(t) \/ MakeReady(t)
      PROVE  UNCHANGED finished
  BY <1>3 DEF EnterMain, Depend, MakeReady, opVars
<1>4. UNCHANGED <<opVars, mains>> \/ UNCHANGED vars => UNCHANGED finished
  BY DEF opVars, vars
<1> QED
  BY <1>1, <1>2, <1>3, <1>4, OpsUnchanged DEF Next, Program, Work, Pool

LEMMA UndisturbedOK ==
  ASSUME Types, [Next]_vars, NEW t \in Threads, ThreadOK(t), Undisturbed(t)
  PROVE  ThreadOK(t)'
<1>1. Notifying(t) => finished'[cur[t]] = TRUE
  BY FinishedStays DEF ThreadOK
<1> QED
  BY <1>1 DEF ThreadOK, Undisturbed, Notifying, Announcing, Running

LEMMA ThreadInvInit == Init => ThreadInv
<1> SUFFICES ASSUME Init, NEW t \in Threads PROVE ThreadOK(t)
  BY DEF ThreadInv
<1>1. /\ pc[t] \in {"gone", "free"} /\ resume[t] = "free"
      /\ cur[t] = NoOp /\ held[t] = NoOp /\ todo[t] = {} /\ lock # t
  BY ThreadsAssumption DEF Init
<1> QED BY <1>1 DEF ThreadOK, Notifying, Announcing, Running

(* It is enough to look at the thread that takes the step.                  *)
LEMMA OnlyOneMoves ==
  ASSUME Types, ThreadInv, [Next]_vars, NEW t \in Threads, ThreadOK(t)',
         \A u \in Threads \ {t} : Undisturbed(u)
  PROVE  ThreadInv'
BY UndisturbedOK DEF ThreadInv

(* A step of the program or of work moves one thread only, but for a new    *)
(* one that the queue gives the pool.                                       *)
LEMMA OthersUndisturbed ==
  ASSUME Types, ThreadInv, NEW t \in Threads, NEW o, NEW d, NEW new,
         \/ AddDependency(t, o, d) \/ RemoveDependency(t, o, d) \/ Cancel(t, o)
         \/ SetQueuePriority(t, o) \/ Start(t, o) \/ AddOperation(t, o)
         \/ AddOperations(t, new) \/ Insert(t) \/ Depend(t) \/ MakeReady(t)
         \/ SetSuspended(t) \/ SetMaxConcurrentOperationCount(t)
         \/ EnterMain(t) \/ LeaveMain(t) \/ Finish(t) \/ Finished(t)
         \/ TellDependent(t, o) \/ Announce(t, o) \/ FinishConcurrent(t, o)
         \/ TellQueue(t) \/ Execute(t) \/ Executed(t) \/ Take(t) \/ TimeOut(t)
         \/ Exit(t)
  PROVE  \A u \in Threads \ {t} : Undisturbed(u)
<1> USE ThreadsAssumption
    DEF Types, ThreadType, Undisturbed, ThenExecute, Keep, BeginReady, threadVars
<1>1. CASE \/ AddDependency(t, o, d) \/ RemoveDependency(t, o, d)
           \/ Cancel(t, o) \/ TellDependent(t, o) \/ Depend(t) \/ MakeReady(t)
  BY <1>1 DEF AddDependency, RemoveDependency, Cancel, TellDependent, Depend,
              MakeReady
<1>2. CASE \/ SetQueuePriority(t, o) \/ Start(t, o) \/ AddOperations(t, new)
           \/ SetSuspended(t) \/ SetMaxConcurrentOperationCount(t)
           \/ EnterMain(t) \/ LeaveMain(t) \/ Finish(t) \/ Finished(t)
           \/ Announce(t, o) \/ FinishConcurrent(t, o) \/ TellQueue(t)
           \/ Take(t) \/ TimeOut(t) \/ Exit(t)
  BY <1>2 DEF SetQueuePriority, Start, AddOperations, SetSuspended,
     SetMaxConcurrentOperationCount, EnterMain, LeaveMain, Finish, Finished,
     Announce, FinishConcurrent, TellQueue, Take, TimeOut, Exit
<1>3. CASE AddOperation(t, o) \/ Insert(t)
  BY <1>3 DEF AddOperation, Insert, Enter
<1>4. CASE Execute(t)
  BY <1>4 DEF Execute
<1>5. CASE Executed(t)
  <2>1. lock = t
    BY <1>5 DEF Executed, ThreadInv, ThreadOK
  <2> QED BY <1>5, <2>1 DEF Executed
<1> QED BY <1>1, <1>2, <1>3, <1>4, <1>5

LEMMA EnterOK ==
  ASSUME Types, NEW t \in Threads, NEW new \in SUBSET Ops, Enter(t, new),
         UNCHANGED <<resume, cur, held, finished>>, lock = NoThread,
         resume[t] = "free", cur[t] = NoOp, held[t] = NoOp
  PROVE  ThreadOK(t)'
<1>1. todo'[t] \subseteq Ops /\ Queue \notin todo'[t]
  BY OpsAssumption DEF Enter, Types, ThreadType
<1>2. \/ pc'[t] = "free" /\ lock' # t /\ todo'[t] = {}
      \/ pc'[t] = "announcing" /\ lock' = t
  BY ThreadsAssumption DEF Enter, Types, ThreadType
<1> QED BY <1>1, <1>2 DEF ThreadOK, Notifying, Announcing, Running

LEMMA ThreadInvKept == Types /\ ThreadInv /\ [Next]_vars => ThreadInv'
<1> SUFFICES ASSUME Types, ThreadInv, [Next]_vars PROVE ThreadInv'
  OBVIOUS
<1>a. \A t \in Threads : ThreadOK(t)
  BY DEF ThreadInv
<1>b. NoThread \notin Threads /\ Queue \notin Ops /\ NoOp = Queue
  BY ThreadsAssumption, OpsAssumption DEF NoOp
<1> USE AreThreads DEF Types, ThreadType, Pcs, Home
<1>1. ASSUME NEW t \in Clients, NEW o \in Ops, NEW d \in Ops,
             \/ AddDependency(t, o, d) \/ SetQueuePriority(t, o)
             \/ Start(t, o) \/ RemoveDependency(t, o, d) \/ Cancel(t, o)
      PROVE  ThreadInv'
  <2>1. pc[t] = "free" /\ UNCHANGED lock
    BY <1>1 DEF AddDependency, SetQueuePriority, Start, RemoveDependency,
                Cancel, threadVars
  <2>2. resume[t] = "free" /\ cur[t] = NoOp /\ held[t] = NoOp /\ todo[t] = {}
    BY <2>1, <1>a DEF ThreadOK, Notifying, Announcing, Running
  <2>3. \/ pc'[t] = "free" /\ UNCHANGED <<cur, resume, held, todo>>
        \/ /\ pc'[t] = "depending" /\ UNCHANGED <<cur, resume>>
           /\ held'[t] \in Ops /\ todo'[t] \subseteq Ops
        \/ /\ pc'[t] = "readying" /\ UNCHANGED <<cur, todo>>
           /\ held'[t] \in Ops /\ resume'[t] = "free"
        \/ pc'[t] = "taken" /\ cur'[t] \in Ops /\ UNCHANGED <<resume, held, todo>>
    <3>1. CASE AddDependency(t, o, d)
      BY <3>1, <2>1 DEF AddDependency, Keep
    <3>2. CASE SetQueuePriority(t, o) \/ Start(t, o)
      BY <3>2, <2>1 DEF SetQueuePriority, Start, threadVars
    <3>3. CASE RemoveDependency(t, o, d) \/ Cancel(t, o)
      BY <3>3, <2>1 DEF RemoveDependency, Cancel, BeginReady, Keep
    <3> QED BY <1>1, <3>1, <3>2, <3>3
  <2>4. ThreadOK(t)'
    BY <2>1, <2>2, <2>3, <1>a, <1>b DEF ThreadOK, Notifying, Announcing, Running
  <2> QED BY <1>1, <2>4, OthersUndisturbed, OnlyOneMoves
<1>2. ASSUME NEW t \in Clients, NEW new \in SUBSET Ops, AddOperations(t, new)
      PROVE  ThreadInv'
  <2>1. ThreadOK(t)'
    BY <1>2, <1>a, <1>b
    DEF AddOperations, opVars, ThreadOK, Notifying, Announcing, Running
  <2> QED BY <1>2, <2>1, OthersUndisturbed, OnlyOneMoves
<1>3. ASSUME NEW t \in Threads, Insert(t) \/ \E o \in Ops : AddOperation(t, o)
      PROVE  ThreadInv'
  <2>1. /\ lock = NoThread /\ UNCHANGED <<resume, cur, held, finished>>
        /\ pc[t] \in {"free", "adding"}
    BY <1>3 DEF Insert, AddOperation, opVars
  <2>2. PICK new \in SUBSET Ops : Enter(t, new)
    BY <1>3 DEF Insert, AddOperation
  <2>3. resume[t] = "free" /\ cur[t] = NoOp /\ held[t] = NoOp
    BY <2>1, <1>a DEF ThreadOK, Notifying, Running
  <2>4. ThreadOK(t)'
    BY <2>1, <2>2, <2>3, EnterOK
  <2> QED BY <1>3, <2>4, OthersUndisturbed, OnlyOneMoves
<1>4. ASSUME NEW t \in Clients,
             SetSuspended(t) \/ SetMaxConcurrentOperationCount(t)
      PROVE  ThreadInv'
  <2>1. ThreadOK(t)'
    BY <1>4, <1>a
    DEF SetSuspended, SetMaxConcurrentOperationCount, ThenExecute, opVars,
        ThreadOK, Notifying, Announcing, Running
  <2> QED BY <1>4, <2>1, OthersUndisturbed, OnlyOneMoves
<1>5. ASSUME NEW t \in Threads, EnterMain(t) \/ LeaveMain(t)
      PROVE  ThreadInv'
  <2>1. ThreadOK(t)'
    BY <1>5, <1>a, <1>b
    DEF EnterMain, LeaveMain, opVars, ThreadOK, Notifying, Announcing, Running
  <2> QED BY <1>5, <2>1, OthersUndisturbed, OnlyOneMoves
<1>6. ASSUME NEW t \in Threads, Finish(t)
      PROVE  ThreadInv'
  <2>1. ThreadOK(t)'
    <3>1. pc[t] = "finishing" /\ UNCHANGED <<lock, resume, held>>
      BY <1>6 DEF Finish
    <3>2. /\ cur[t] \in Ops /\ todo[t] = {} /\ resume[t] = "free"
          /\ held[t] = NoOp /\ lock # t
      BY <3>1, <1>a DEF ThreadOK, Notifying, Announcing, Running
    <3>3. CASE finished[cur[t]]
      <4>1. cur'[t] = NoOp /\ pc'[t] \in {"idle", "free"} /\ todo' = todo
        BY <1>6, <3>3 DEF Finish
      <4> QED BY <4>1, <3>1, <3>2, <1>b
              DEF ThreadOK, Notifying, Announcing, Running
    <3>4. CASE ~ finished[cur[t]]
      <4>1. finished'[cur[t]] = TRUE /\ cur' = cur /\ pc'[t] = "notifying"
        BY <1>6, <3>2, <3>4 DEF Finish, OpType
      <4> QED BY <4>1, <3>1, <3>2, <1>b
              DEF ThreadOK, Notifying, Announcing, Running
    <3> QED BY <3>3, <3>4
  <2> QED BY <1>6, <2>1, OthersUndisturbed, OnlyOneMoves
<1>7. ASSUME NEW t \in Threads, NEW d \in Ops, TellDependent(t, d)
      PROVE  ThreadInv'
  <2>1. /\ pc[t] = "notifying" /\ UNCHANGED <<lock, cur, finished>>
        /\ \/ pc'[t] = "notifying" /\ UNCHANGED <<resume, held>>
           \/ /\ pc'[t] = "readying" /\ resume'[t] = "notifying"
              /\ held'[t] \in Ops
    BY <1>7 DEF TellDependent, BeginReady, Keep
  <2>2. ThreadOK(t)'
    BY <2>1, <1>a, <1>b DEF ThreadOK, Notifying, Announcing, Running
  <2> QED BY <1>7, <2>2, OthersUndisturbed, OnlyOneMoves
<1>8. ASSUME NEW t \in Threads, TellQueue(t) \/ Finished(t)
      PROVE  ThreadInv'
  <2>1. ThreadOK(t)'
    BY <1>8, <1>a, <1>b
    DEF TellQueue, Finished, ThenExecute, opVars, ThreadOK, Notifying,
        Announcing, Running
  <2> QED BY <1>8, <2>1, OthersUndisturbed, OnlyOneMoves
<1>9. ASSUME NEW t \in Threads, NEW o \in Ops,
             FinishConcurrent(t, o) \/ Announce(t, o)
      PROVE  ThreadInv'
  <2>1. ThreadOK(t)'
    BY <1>9, <1>a, <1>b
    DEF FinishConcurrent, Announce, opVars, ThreadOK, Notifying, Announcing,
        Running
  <2> QED BY <1>9, <2>1, OthersUndisturbed, OnlyOneMoves
<1>10. ASSUME NEW t \in Threads, Execute(t)
       PROVE  ThreadInv'
  <2>1. ThreadOK(t)'
    BY <1>10, <1>a DEF Execute, opVars, ThreadOK, Notifying, Announcing, Running
  <2> QED BY <1>10, <2>1, OthersUndisturbed, OnlyOneMoves
<1>11. ASSUME NEW t \in Threads, NEW o \in Ops, StartFirst(t, o)
       PROVE  ThreadInv'
  <2>1. UNCHANGED <<lock, resume, cur, todo, held>>
    BY <1>11 DEF StartFirst
  <2>2. CASE UNCHANGED pc
    <3>1. \A u \in Threads : Undisturbed(u)
      BY <2>1, <2>2 DEF Undisturbed
    <3> QED BY <3>1, <1>a, UndisturbedOK DEF ThreadInv
  <2>3. CASE \E w \in Workers : pc[w] = "gone" /\ pc' = [pc EXCEPT ![w] = "idle"]
    <3>1. PICK w \in Workers : pc[w] = "gone" /\ pc' = [pc EXCEPT ![w] = "idle"]
      BY <2>3
    <3>2. \A u \in Threads \ {w} : Undisturbed(u)
      BY <2>1, <3>1 DEF Undisturbed
    <3>3. ThreadOK(w)'
      BY <2>1, <3>1, <1>a DEF ThreadOK, Notifying, Announcing, Running
    <3> QED BY <3>2, <3>3, OnlyOneMoves
  <2> QED BY <1>11, <2>2, <2>3 DEF StartFirst, Hand
<1>12. ASSUME NEW t \in Threads, Executed(t)
       PROVE  ThreadInv'
  <2>1. lock = t /\ pc[t] = "loop"
    BY <1>12, <1>a DEF Executed, ThreadOK
  <2>2. /\ UNCHANGED <<cur, todo, finished>> /\ resume'[t] = "free"
        /\ held'[t] = NoOp
    BY <1>12 DEF Executed, opVars
  <2>3. ThreadOK(t)'
    <3>1. CASE resume[t] = "announcing" /\ todo[t] # {}
      <4>1. pc'[t] = "announcing" /\ lock' = t
        BY <1>12, <2>1, <3>1 DEF Executed
      <4> QED BY <2>1, <2>2, <3>1, <4>1, <1>a, <1>b
              DEF ThreadOK, Notifying, Announcing, Running
    <3>2. CASE ~ (resume[t] = "announcing" /\ todo[t] # {})
      <4>1. /\ lock' = NoThread
            /\ pc'[t] = IF resume[t] = "notifying" THEN "notifying" ELSE "free"
        BY <1>12, <3>2 DEF Executed
      <4> QED BY <2>1, <2>2, <3>2, <4>1, <1>a, <1>b
              DEF ThreadOK, Notifying, Announcing, Running
    <3> QED BY <3>1, <3>2
  <2> QED BY <1>12, <2>3, OthersUndisturbed, OnlyOneMoves
<1>13. ASSUME NEW t \in Threads, Depend(t)
       PROVE  ThreadInv'
  <2>1. /\ pc[t] = "depending" /\ UNCHANGED <<lock, cur, finished>>
        /\ todo'[t] = {}
        /\ \/ pc'[t] = "owes" /\ resume'[t] = "free"
           \/ pc'[t] = "free" /\ UNCHANGED resume /\ held'[t] = NoOp
    BY <1>13 DEF Depend, ThenExecute, Keep
  <2>2. ThreadOK(t)'
    BY <2>1, <1>a, <1>b DEF ThreadOK, Notifying, Announcing, Running
  <2> QED BY <1>13, <2>2, OthersUndisturbed, OnlyOneMoves
<1>14. ASSUME NEW t \in Threads, MakeReady(t)
       PROVE  ThreadInv'
  <2>1. /\ pc[t] = "readying" /\ UNCHANGED <<lock, cur, finished, todo>>
        /\ \/ pc'[t] = "owes" /\ resume'[t] = resume[t]
           \/ pc'[t] = resume[t] /\ resume'[t] = "free" /\ held'[t] = NoOp
    BY <1>14 DEF MakeReady, ThenExecute, Keep
  <2>2. resume[t] \in {"free", "notifying"}
    BY <2>1, <1>a DEF ThreadOK
  <2>3. ThreadOK(t)'
    BY <2>1, <2>2, <1>a, <1>b DEF ThreadOK, Notifying, Announcing, Running
  <2> QED BY <1>14, <2>3, OthersUndisturbed, OnlyOneMoves
<1>15. ASSUME NEW w \in Workers, Take(w)
       PROVE  ThreadInv'
  <2>1. ThreadOK(w)'
    <3>1. CASE starting = <<>>
      BY <1>15, <3>1, <1>a
      DEF Take, opVars, ThreadOK, Notifying, Announcing, Running
    <3>2. CASE starting # <<>>
      <4>1. cur'[w] \in Ops
        BY <1>15, <3>2 DEF Take, PoolType
      <4>2. /\ pc[w] = "idle" /\ pc'[w] = "taken"
            /\ UNCHANGED <<lock, resume, todo, held>>
        BY <1>15, <3>2 DEF Take
      <4> QED BY <4>1, <4>2, <1>a
              DEF ThreadOK, Notifying, Announcing, Running
    <3> QED BY <3>1, <3>2
  <2> QED BY <1>15, <2>1, OthersUndisturbed, OnlyOneMoves
<1>16. ASSUME NEW w \in Workers, TimeOut(w) \/ Exit(w)
       PROVE  ThreadInv'
  <2>1. ThreadOK(w)'
    BY <1>16, <1>a
    DEF TimeOut, Exit, opVars, ThreadOK, Notifying, Announcing, Running
  <2> QED BY <1>16, <2>1, OthersUndisturbed, OnlyOneMoves
<1>17. UNCHANGED vars => ThreadInv'
  BY <1>a, UndisturbedOK DEF vars, threadVars, Undisturbed, ThreadInv
<1>18. ASSUME NEW t \in Clients, Program(t) PROVE ThreadInv'
  <2>1. ASSUME NEW new \in Batches, AddOperations(t, new) PROVE ThreadInv'
    BY <2>1, <1>2, ProgramAssumption
  <2> QED BY <2>1, <1>1, <1>3, <1>4, <1>18 DEF Program
<1>19. ASSUME NEW t \in Threads, Work(t) PROVE ThreadInv'
  BY <1>3, <1>5, <1>6, <1>7, <1>8, <1>9, <1>10, <1>11, <1>12, <1>13, <1>14,
     <1>19 DEF Work
<1>20. ASSUME NEW w \in Workers, Pool(w) PROVE ThreadInv'
  BY <1>15, <1>16, <1>20 DEF Pool
<1> QED BY <1>17, <1>18, <1>19, <1>20 DEF Next

LEMMA ThreadsInvariant == SafeSpec => [](Types /\ ThreadInv)
BY InitTypes, ThreadInvInit, TypesKept, ThreadInvKept, PTL DEF SafeSpec

(* Every variable keeps its type: in particular the pool's condition is 0   *)
(* or 1, one of those its threads wait for and the queue tests.             *)
THEOREM TypeCorrect == SafeSpec => []TypeOK
BY ThreadsInvariant, TypesAreType, PTL

--------------------------------------------------------------------------
(* The queue is work-conserving by its type and the lock alone: each step   *)
(* that could let it start an operation leaves an _execute to be done.      *)
LEMMA WorkConservingKept ==
  Types /\ ThreadInv /\ WorkConserving /\ [Next]_vars => WorkConserving'
<1> SUFFICES ASSUME Types, ThreadInv, WorkConserving, [Next]_vars,
                    lock' = NoThread, \A t \in Threads : pc'[t] # "owes"
             PROVE  ~ MayStart'
  BY DEF WorkConserving
<1>a. \A t \in Threads : lock = t <=> pc[t] \in {"announcing", "loop"}
  BY DEF ThreadInv, ThreadOK
<1>b. NoThread \notin Threads
  BY ThreadsAssumption
<1>c. ASSUME UNCHANGED <<waiting, executing, suspended, count, lock>>,
             \A t \in Threads : pc[t] = "owes" => pc'[t] = "owes"
      PROVE  ~ MayStart'
  BY <1>c DEF WorkConserving, MayStart, Max
<1>d. ASSUME NEW t \in Threads, NEW back, ThenExecute(t, back)
      PROVE  FALSE
  BY <1>d DEF ThenExecute, Types, ThreadType
<1> USE AreThreads DEF Types, ThreadType
<1>1. ASSUME NEW t \in Threads, NEW o, NEW d, NEW new,
             \/ AddDependency(t, o, d) \/ RemoveDependency(t, o, d)
             \/ Cancel(t, o) \/ TellDependent(t, o) \/ SetQueuePriority(t, o)
             \/ Start(t, o) \/ AddOperations(t, new)
             \/ EnterMain(t) \/ LeaveMain(t)
             \/ FinishConcurrent(t, o) \/ Finish(t) \/ Finished(t)
             \/ Take(t) \/ TimeOut(t) \/ Exit(t)
      PROVE  ~ MayStart'
  <2>1. UNCHANGED <<waiting, executing, suspended, count, lock>>
    BY <1>1 DEF AddDependency, RemoveDependency, Cancel, TellDependent,
       SetQueuePriority, Start, AddOperations, EnterMain, LeaveMain,
       FinishConcurrent, Finish, Finished, Take, TimeOut, Exit, queueVars,
       threadVars
  <2>2. pc[t] # "owes"
    BY <1>1 DEF AddDependency, RemoveDependency, Cancel, TellDependent,
       SetQueuePriority, Start, AddOperations, EnterMain, LeaveMain,
       FinishConcurrent, Finish, Finished, Take, TimeOut, Exit
  <2>3. \A u \in Threads \ {t} : pc'[u] = pc[u]
    BY <1>1, OthersUndisturbed DEF Undisturbed
  <2> QED BY <2>1, <2>2, <2>3, <1>c
<1>2. ASSUME NEW t \in Threads, Depend(t) \/ MakeReady(t)
      PROVE  ~ MayStart'
  <2>1. /\ UNCHANGED <<suspended, count, lock>>
        /\ pc[t] # "owes"
        /\ UNCHANGED <<waiting, executing>> \/ \E back : ThenExecute(t, back)
    BY <1>2 DEF Depend, MakeReady
  <2>2. \A u \in Threads \ {t} : pc'[u] = pc[u]
    BY <1>2, OthersUndisturbed DEF Undisturbed
  <2> QED BY <2>1, <2>2, <1>c, <1>d
<1>3. ASSUME NEW t \in Threads,
             \/ TellQueue(t) \/ SetSuspended(t)
             \/ SetMaxConcurrentOperationCount(t)
      PROVE  ~ MayStart'
  BY <1>3, <1>d DEF TellQueue, SetSuspended, SetMaxConcurrentOperationCount
<1>4. ASSUME NEW t \in Threads, NEW o \in Ops, Announce(t, o) \/ StartFirst(t, o)
      PROVE  FALSE
  BY <1>4, <1>a, <1>b DEF Announce, StartFirst
<1>5. ASSUME NEW t \in Threads, Insert(t) \/ \E o \in Ops : AddOperation(t, o)
      PROVE  ~ MayStart'
  <2>1. PICK new : Enter(t, new)
    BY <1>5 DEF AddOperation, Insert
  <2>2. /\ UNCHANGED <<waiting, executing, suspended, count>>
        /\ pc[t] # "owes" /\ lock = NoThread
    BY <1>5 DEF AddOperation, Insert
  <2>3. UNCHANGED lock /\ \A u \in Threads \ {t} : pc'[u] = pc[u]
    BY <2>1, <2>2, <1>b DEF Enter
  <2> QED BY <2>2, <2>3, <1>c
<1>6. ASSUME NEW t \in Threads, Execute(t)
      PROVE  FALSE
  BY <1>6, <1>b DEF Execute
<1>7. ASSUME NEW t \in Threads, Executed(t)
      PROVE  ~ MayStart'
  BY <1>7 DEF Executed, queueVars, MayStart, Max
<1>8. UNCHANGED vars => ~ MayStart'
  BY <1>c DEF vars, queueVars, threadVars
<1>9. ASSUME NEW t \in Clients, Program(t)
      PROVE  ~ MayStart'
  BY <1>9, <1>1, <1>3, <1>5 DEF Program
<1>10. ASSUME NEW t \in Threads, Work(t)
       PROVE  ~ MayStart'
  BY <1>10, <1>1, <1>2, <1>3, <1>4, <1>5, <1>6, <1>7 DEF Work
<1>11. ASSUME NEW w \in Workers, Pool(w)
       PROVE  ~ MayStart'
  BY <1>11, <1>1 DEF Pool
<1> QED BY <1>8, <1>9, <1>10, <1>11 DEF Next

(* However operations are added, end, are cancelled or become ready, and    *)
(* the queue is suspended, resumed or given another limit: at rest it holds *)
(* back no operation it could start.                                        *)
THEOREM QueueIsWorkConserving == SafeSpec => []WorkConserving
<1>1. Init => WorkConserving
  BY DEF Init, WorkConserving, MayStart
<1>2. Types /\ ThreadInv /\ WorkConserving /\ [Next]_vars => WorkConserving'
  BY WorkConservingKept
<1> QED BY ThreadsInvariant, <1>1, <1>2, PTL DEF SafeSpec

--------------------------------------------------------------------------
(* While a ready operation is still observed, the thread that added it has  *)
(* the lock and will announce it - unless the queue began to observe it in  *)
(* the middle of the change.                                                *)
ReadyInv ==
  \A o \in (awaited \cap operations) \ late :
    ready[o] => \E t \in Threads : lock = t /\ o \in todo[t] /\ Announcing(t)

LEMMA ReadyInvKept == Types /\ ThreadInv /\ ReadyInv /\ [Next]_vars => ReadyInv'
<1> SUFFICES ASSUME Types, ThreadInv, ReadyInv, [Next]_vars,
                    NEW o \in (awaited' \cap operations') \ late', ready'[o]
             PROVE  \E t \in Threads :
                      lock' = t /\ o \in todo'[t] /\ Announcing(t)'
  BY DEF ReadyInv
<1> DEFINE Soon == \E t \in Threads :
                     lock' = t /\ o \in todo'[t] /\ Announcing(t)'
           Open == o \in (awaited \cap operations) \ late /\ ready[o]
<1>a. \A t \in Threads : ThreadOK(t)
  BY DEF ThreadInv
<1>b. NoThread \notin Threads
  BY ThreadsAssumption
<1>c. ASSUME Open, UNCHANGED lock,
             lock \in Threads => /\ pc'[lock] = pc[lock]
                                 /\ resume'[lock] = resume[lock]
                                 /\ todo'[lock] = todo[lock]
      PROVE  Soon
  BY <1>c DEF ReadyInv, Announcing
<1>d. ASSUME Open, NEW t \in Threads, UNCHANGED lock,
             pc[t] \notin {"announcing", "loop"},
             \A u \in Threads \ {t} : Undisturbed(u)
      PROVE  Soon
  BY <1>d, <1>c, <1>a DEF ThreadOK, Undisturbed
<1>e. Open => \E t \in Threads : lock = t /\ o \in todo[t] /\ Announcing(t)
  BY DEF ReadyInv
<1>f. o \in Ops /\ Ops \cap {Queue} = {}
  BY QueueTypeKept, OpsAssumption DEF QueueType
<1>g. ASSUME NEW p, NEW r, QueueSees(p, r), UNCHANGED late,
             o = p \/ ready[o]
      PROVE  /\ Open \/ ~ ready[o]
             /\ o = p => ~ finished[p] /\ ~ r
  BY <1>g DEF QueueSees
<1> HIDE DEF Soon
<1> USE AreThreads DEF Types, ThreadType
<1>1. ASSUME NEW t \in Threads, NEW p, NEW d, NEW new,
             \/ SetQueuePriority(t, p) \/ Start(t, p) \/ AddDependency(t, p, d)
             \/ AddOperations(t, new)
             \/ EnterMain(t) \/ LeaveMain(t) \/ FinishConcurrent(t, p)
             \/ Finish(t) \/ Finished(t)
             \/ SetSuspended(t) \/ SetMaxConcurrentOperationCount(t)
             \/ Take(t) \/ TimeOut(t) \/ Exit(t)
      PROVE  Soon
  <2>1. /\ UNCHANGED <<awaited, operations, late, lock, ready>>
        /\ pc[t] \notin {"announcing", "loop"}
    BY <1>1 DEF SetQueuePriority, Start, AddDependency, AddOperations,
       EnterMain, LeaveMain, FinishConcurrent, Finish, Finished, SetSuspended,
       SetMaxConcurrentOperationCount, Take, TimeOut, Exit, queueVars, opVars,
       threadVars
  <2>2. \A u \in Threads \ {t} : Undisturbed(u)
    BY <1>1, OthersUndisturbed
  <2> QED BY <2>1, <2>2, <1>d
<1>2. ASSUME NEW t \in Threads, NEW p \in Ops, NEW d \in Ops,
             RemoveDependency(t, p, d) \/ Cancel(t, p) \/ TellDependent(t, p)
      PROVE  Soon
  <2>1. /\ UNCHANGED <<lock, ready, awaited, operations>>
        /\ pc[t] \notin {"announcing", "loop"}
        /\ late' = late \/ (~ ready[p] /\ late' = late \ {p})
    BY <1>2 DEF RemoveDependency, Cancel, TellDependent, BeginReady
  <2>2. \A u \in Threads \ {t} : Undisturbed(u)
    BY <1>2, OthersUndisturbed
  <2> QED BY <2>1, <2>2, <1>d
<1>3. ASSUME NEW t \in Threads, Depend(t)
      PROVE  Soon
  <2>1. /\ UNCHANGED <<lock, awaited, operations>> /\ pc[t] = "depending"
        /\ ready' = [ready EXCEPT ![held[t]] = FALSE]
        /\ late' = late \/ late' = late \ {held[t]}
    BY <1>3 DEF Depend
  <2>2. held[t] \in Ops
    BY <2>1, <1>a DEF ThreadOK
  <2>3. o # held[t] /\ ready[o]
    BY <1>f, <2>1, <2>2 DEF OpType
  <2>4. \A u \in Threads \ {t} : Undisturbed(u)
    BY <1>3, OthersUndisturbed
  <2> QED BY <2>1, <2>3, <2>4, <1>d
<1>4. ASSUME NEW t \in Threads, MakeReady(t)
      PROVE  Soon
  <2>1. /\ pc[t] = "readying" /\ UNCHANGED <<lock, late>>
        /\ ready' = [ready EXCEPT ![held[t]] = TRUE]
    BY <1>4 DEF MakeReady
  <2>2. held[t] \in Ops
    BY <2>1, <1>a DEF ThreadOK
  <2>3. o # held[t] => ready[o]
    BY <1>f, <2>1, <2>2 DEF OpType
  <2>4. \A u \in Threads \ {t} : Undisturbed(u)
    BY <1>4, OthersUndisturbed
  <2>5. CASE Told(held[t])
    <3>1. QueueSees(held[t], TRUE)
      BY <1>4, <2>5 DEF MakeReady
    <3>2. o # held[t]
      BY <3>1, <2>1, <1>g
    <3> QED BY <3>1, <3>2, <2>1, <2>3, <2>4, <1>d, <1>g
  <2>6. CASE ~ Told(held[t])
    <3>1. UNCHANGED <<awaited, operations>>
      BY <1>4, <2>6 DEF MakeReady
    <3>2. o # held[t]
      BY <2>1, <2>6, <3>1 DEF Told
    <3> QED BY <3>1, <3>2, <2>1, <2>3, <2>4, <1>d
  <2> QED BY <2>5, <2>6
<1>5. ASSUME NEW t \in Threads, TellQueue(t)
      PROVE  Soon
  <2>1. /\ pc[t] = "notifying" /\ UNCHANGED <<lock, late, ready>>
        /\ QueueSees(cur[t], ready[cur[t]])
    BY <1>5 DEF TellQueue, opVars
  <2>2. Open
    BY <2>1, <1>g
  <2>3. \A u \in Threads \ {t} : Undisturbed(u)
    BY <1>5, OthersUndisturbed
  <2> QED BY <2>1, <2>2, <2>3, <1>d
<1>6. ASSUME NEW t \in Threads, Insert(t) \/ \E p \in Ops : AddOperation(t, p)
      PROVE  Soon
  <2>1. lock = NoThread /\ UNCHANGED ready
    BY <1>6 DEF AddOperation, Insert, opVars
  <2>2. ~ Open
    BY <2>1, <1>b, <1>e
  <2>3. PICK new : Enter(t, new)
    BY <1>6 DEF AddOperation, Insert
  <2>4. o \in new \ operations
    BY <2>1, <2>2, <2>3 DEF Enter
  <2>5. o \in todo'[t] /\ lock' = t /\ pc'[t] = "announcing"
    BY <2>1, <2>3, <2>4 DEF Enter
  <2> QED BY <2>5 DEF Soon, Announcing
<1>7. ASSUME NEW t \in Threads, NEW p \in Ops, Announce(t, p)
      PROVE  Soon
  <2>1. lock = t /\ UNCHANGED <<lock, ready, late>>
    BY <1>7, <1>a DEF Announce, ThreadOK, opVars
  <2>2. Open /\ o # p
    <3>1. QueueSees(p, ready[p])
      BY <1>7 DEF Announce
    <3> QED BY <2>1, <3>1, <1>g
  <2>3. o \in todo'[t] /\ pc'[t] = "loop" /\ resume'[t] = "announcing"
    BY <1>7, <2>1, <2>2, <1>e DEF Announce
  <2> QED BY <2>1, <2>3 DEF Soon, Announcing
<1>8. ASSUME NEW t \in Threads, Execute(t)
      PROVE  Soon
  <2>1. lock = NoThread /\ UNCHANGED <<ready, awaited, operations, late>>
    BY <1>8 DEF Execute, opVars, queueVars
  <2> QED BY <2>1, <1>b, <1>e
<1>9. ASSUME NEW t \in Threads, NEW p \in Ops, StartFirst(t, p)
      PROVE  Soon
  <2>1. /\ UNCHANGED <<ready, awaited, operations, late, lock, resume, todo>>
        /\ lock = t /\ pc'[t] = pc[t]
    BY <1>9, <1>a DEF StartFirst, Hand, ThreadOK
  <2> QED BY <2>1, <1>c
<1>10. ASSUME NEW t \in Threads, Executed(t)
       PROVE  Soon
  <2>1. /\ UNCHANGED <<ready, awaited, operations, late, todo>>
        /\ lock = t /\ pc[t] = "loop"
    BY <1>10, <1>a DEF Executed, opVars, queueVars, ThreadOK
  <2>2. o \in todo[t] /\ resume[t] = "announcing"
    BY <2>1, <1>e DEF Announcing
  <2>3. lock' = t /\ pc'[t] = "announcing"
    BY <1>10, <2>1, <2>2 DEF Executed
  <2> QED BY <2>1, <2>2, <2>3 DEF Soon, Announcing
<1>11. UNCHANGED vars => Soon
  BY <1>c DEF vars, opVars, queueVars, threadVars
<1>12. ASSUME NEW t \in Clients, Program(t)
       PROVE  Soon
  BY <1>12, <1>1, <1>2, <1>6 DEF Program
<1>13. ASSUME NEW t \in Threads, Work(t)
       PROVE  Soon
  BY <1>13, <1>1, <1>2, <1>3, <1>4, <1>5, <1>6, <1>7, <1>8, <1>9, <1>10
  DEF Work
<1>14. ASSUME NEW w \in Workers, Pool(w)
       PROVE  Soon
  BY <1>14, <1>1 DEF Pool
<1> QED BY <1>11, <1>12, <1>13, <1>14 DEF Next, Soon

(* The queue sees each of its operations become ready: one that is ready is *)
(* no longer observed, or the thread that adds it is about to announce it,  *)
(* or it was added in the middle of the change that made it ready.          *)
THEOREM ReadinessIsSeen == SafeSpec => []NoReadinessMissed
<1>1. Init => ReadyInv
  BY DEF Init, ReadyInv
<1>2. Types /\ ThreadInv /\ ReadyInv /\ [Next]_vars => ReadyInv'
  BY ReadyInvKept
<1>3. ReadyInv => NoReadinessMissed
  BY ThreadsAssumption DEF ReadyInv, NoReadinessMissed
<1> QED BY ThreadsInvariant, <1>1, <1>2, <1>3, PTL DEF SafeSpec

--------------------------------------------------------------------------
(* No two threads hold the lock of one operation, and one that is being     *)
(* given a dependency has it.                                               *)
Locks(t) == ({held[t]} \cup (IF InFinish(t) THEN {cur[t]} ELSE {})) \ {NoOp}

OneLock == \A t, u \in Threads : t # u => Locks(t) \cap Locks(u) = {}

DependOK(t) ==
  pc[t] = "depending" => todo[t] # {} /\ todo[t] \subseteq dependencies[held[t]]

LockInv == OneLock /\ \A t \in Threads : DependOK(t)

LEMMA UnlockedIsFree ==
  ASSUME NEW o \in Ops, Unlocked(o), NEW t \in Threads
  PROVE  o \notin Locks(t)
BY DEF Unlocked, Locks

LEMMA FinishingLocks ==
  ASSUME NEW t \in Threads, ThreadOK(t)
  PROVE  InFinish(t) <=> Notifying(t)
BY DEF ThreadOK, InFinish, Notifying

LEMMA LockInvKept ==
  Types /\ ThreadInv /\ LockInv /\ [Next]_vars => LockInv'
<1> SUFFICES ASSUME Types, ThreadInv, LockInv, [Next]_vars PROVE LockInv'
  OBVIOUS
<1>a. /\ \A t \in Threads : ThreadOK(t) /\ ThreadOK(t)'
      /\ \A t \in Threads : InFinish(t) <=> Notifying(t)
      /\ \A t \in Threads : DependOK(t)
      /\ OneLock
  BY ThreadInvKept, FinishingLocks DEF ThreadInv, LockInv
<1>b. Queue \notin Ops /\ NoOp = Queue
  BY OpsAssumption DEF NoOp
<1>c. ASSUME NEW t \in Threads, \A u \in Threads \ {t} : Undisturbed(u),
             UNCHANGED dependencies, pc'[t] # "depending",
             \/ Locks(t)' \subseteq Locks(t)
             \/ \E o \in Ops : Unlocked(o) /\ Locks(t)' \subseteq Locks(t) \cup {o}
      PROVE  LockInv'
  <2>1. \A u \in Threads \ {t} : Locks(u)' = Locks(u) /\ DependOK(u)'
    BY <1>a, <1>c DEF Undisturbed, Locks, InFinish, DependOK
  <2>2. \A u \in Threads \ {t} : Locks(t)' \cap Locks(u) = {}
    BY <1>a, <1>c, UnlockedIsFree DEF OneLock
  <2>3. DependOK(t)'
    BY <1>c DEF DependOK
  <2> QED BY <1>a, <2>1, <2>2, <2>3 DEF OneLock, LockInv
<1> USE AreThreads DEF Types, ThreadType
<1>1. ASSUME NEW t \in Threads, NEW o \in Ops, NEW d \in Ops,
             AddDependency(t, o, d)
      PROVE  LockInv'
  <2>1. /\ pc[t] = "free" /\ Unlocked(o) /\ UNCHANGED <<cur, resume>>
        /\ dependencies' = [dependencies EXCEPT ![o] = @ \cup {d}]
        /\ \/ UNCHANGED <<held, pc, todo>>
           \/ pc'[t] = "depending" /\ held'[t] = o /\ todo'[t] = {d}
    BY <1>1 DEF AddDependency, Keep
  <2>2. \A u \in Threads \ {t} : Undisturbed(u)
    BY <1>1, OthersUndisturbed
  <2>3. \A u \in Threads : dependencies[held[u]] \subseteq dependencies'[held[u]]
                           \/ held[u] \notin Ops
    BY <2>1 DEF OpType
  <2>4. \A u \in Threads \ {t} : Locks(u)' = Locks(u) /\ DependOK(u)'
    BY <1>a, <2>2, <2>3 DEF Undisturbed, Locks, InFinish, DependOK, ThreadOK
  <2>a. DependOK(t)'
    <3>1. CASE pc'[t] = "depending" /\ held'[t] = o /\ todo'[t] = {d}
      BY <3>1, <2>1 DEF DependOK, OpType
    <3>2. CASE UNCHANGED <<held, pc, todo>>
      BY <3>2, <2>1 DEF DependOK
    <3> QED BY <2>1, <3>1, <3>2
  <2>5. Locks(t)' \subseteq Locks(t) \cup {o} /\ DependOK(t)'
    BY <2>a, <1>a, <2>1 DEF Locks, InFinish
  <2>6. \A u \in Threads \ {t} : Locks(t)' \cap Locks(u) = {}
    BY <1>a, <2>1, <2>5, UnlockedIsFree DEF OneLock
  <2> QED BY <1>a, <2>4, <2>5, <2>6 DEF OneLock, LockInv
<1>2. ASSUME NEW t \in Threads, NEW o \in Ops, NEW d \in Ops,
             RemoveDependency(t, o, d)
      PROVE  LockInv'
  <2>1. /\ pc[t] = "free" /\ Unlocked(o) /\ UNCHANGED cur
        /\ dependencies' = [dependencies EXCEPT ![o] = @ \ {d}]
        /\ \/ UNCHANGED <<held, pc, resume>>
           \/ pc'[t] = "readying" /\ held'[t] = o /\ resume'[t] = "free"
    BY <1>2 DEF RemoveDependency, BeginReady, Keep
  <2>2. \A u \in Threads \ {t} : Undisturbed(u)
    BY <1>2, OthersUndisturbed
  <2>3. \A u \in Threads : /\ held[u] # o
                           /\ held[u] \in Ops => dependencies'[held[u]] = dependencies[held[u]]
    BY <2>1 DEF OpType, Unlocked
  <2>4. \A u \in Threads \ {t} : Locks(u)' = Locks(u) /\ DependOK(u)'
    BY <1>a, <2>2, <2>3 DEF Undisturbed, Locks, InFinish, DependOK, ThreadOK
  <2>5. Locks(t)' \subseteq Locks(t) \cup {o} /\ DependOK(t)'
    BY <1>a, <2>1 DEF Locks, InFinish, DependOK
  <2>6. \A u \in Threads \ {t} : Locks(t)' \cap Locks(u) = {}
    BY <1>a, <2>1, <2>5, UnlockedIsFree DEF OneLock
  <2> QED BY <1>a, <2>4, <2>5, <2>6 DEF OneLock, LockInv
<1>3. ASSUME NEW t \in Threads, NEW o \in Ops, Cancel(t, o) \/ TellDependent(t, o)
      PROVE  LockInv'
  <2>1. /\ pc[t] \in {"free", "notifying"} /\ Unlocked(o)
        /\ UNCHANGED <<cur, dependencies>>
        /\ \/ UNCHANGED <<held, pc, resume>>
           \/ /\ pc'[t] = "readying" /\ held'[t] = o
              /\ resume'[t] = pc[t]
    BY <1>3 DEF Cancel, TellDependent, BeginReady, Keep
  <2>2. Locks(t)' \subseteq Locks(t) \cup {o} /\ pc'[t] # "depending"
    BY <2>1 DEF Locks, InFinish
  <2> QED BY <1>3, <2>1, <2>2, <1>c, OthersUndisturbed
<1>4. ASSUME NEW t \in Threads, Finish(t)
      PROVE  LockInv'
  <2>1. /\ cur[t] \in Ops /\ Unlocked(cur[t]) /\ UNCHANGED <<held, resume, dependencies>>
        /\ pc[t] = "finishing" /\ pc'[t] # "depending"
        /\ cur'[t] \in {cur[t], NoOp}
    BY <1>4, <1>a DEF Finish, ThreadOK, Running, Home
  <2>2. Locks(t)' \subseteq Locks(t) \cup {cur[t]}
    BY <2>1 DEF Locks
  <2> QED BY <1>4, <2>1, <2>2, <1>c, OthersUndisturbed
<1>5. ASSUME NEW t \in Threads, Depend(t) \/ MakeReady(t)
      PROVE  LockInv'
  <2>1. /\ held'[t] \in {held[t], NoOp} /\ UNCHANGED <<cur, dependencies>>
        /\ pc[t] \in {"depending", "readying"}
        /\ pc'[t] \in {"owes", "free", resume[t]}
        /\ resume'[t] \in {resume[t], "free"}
    BY <1>5 DEF Depend, MakeReady, ThenExecute, Keep
  <2>2. pc'[t] # "depending" /\ (InFinish(t)' => InFinish(t))
    BY <2>1, <1>a DEF InFinish
  <2> QED BY <1>5, <2>1, <2>2, <1>c, OthersUndisturbed DEF Locks
<1>6. ASSUME NEW t \in Threads, NEW o, NEW new,
             \/ SetQueuePriority(t, o) \/ Start(t, o) \/ AddOperations(t, new)
             \/ EnterMain(t) \/ LeaveMain(t) \/ FinishConcurrent(t, o)
             \/ Take(t) \/ TimeOut(t) \/ Exit(t)
      PROVE  LockInv'
  <2>1. /\ pc[t] \in {"free", "taken", "main", "idle", "expired"}
        /\ pc'[t] \in Pcs \ {"notifying", "depending"}
        /\ UNCHANGED <<resume, held, dependencies>>
    BY <1>6 DEF SetQueuePriority, Start, AddOperations, EnterMain, LeaveMain,
       FinishConcurrent, Take, TimeOut, Exit, threadVars, opVars, Pcs
  <2>2. resume[t] = "free"
    BY <2>1, <1>a DEF ThreadOK
  <2>3. Locks(t)' \subseteq Locks(t)
    BY <2>1, <2>2 DEF Locks, InFinish
  <2> QED BY <1>6, <2>1, <2>3, <1>c, OthersUndisturbed
<1>7. ASSUME NEW t \in Threads, NEW o,
             \/ SetSuspended(t) \/ SetMaxConcurrentOperationCount(t)
             \/ Announce(t, o) \/ AddOperation(t, o) \/ Insert(t)
      PROVE  LockInv'
  <2>1. /\ pc[t] \in {"free", "announcing", "adding"}
        /\ pc'[t] \in {"free", "announcing", "owes", "loop"}
        /\ resume'[t] \in {"free", "announcing", resume[t]}
        /\ UNCHANGED <<held, dependencies>>
    BY <1>7 DEF SetSuspended, SetMaxConcurrentOperationCount, Announce,
       AddOperation, Insert, Enter, ThenExecute, opVars
  <2>2. resume[t] = "free"
    BY <2>1, <1>a DEF ThreadOK
  <2>3. Locks(t)' \subseteq Locks(t)
    BY <2>1, <2>2 DEF Locks, InFinish
  <2> QED BY <1>7, <2>1, <2>3, <1>c, OthersUndisturbed
<1>8. ASSUME NEW t \in Threads,
             Finished(t) \/ TellQueue(t) \/ Execute(t) \/ Executed(t)
      PROVE  LockInv'
  <2>1. /\ pc'[t] \in Pcs \ {"depending"}
        /\ held'[t] \in {held[t], NoOp} /\ cur'[t] \in {cur[t], NoOp}
        /\ pc'[t] = "notifying" \/ resume'[t] = "notifying" =>
             pc[t] = "notifying" \/ resume[t] = "notifying"
        /\ UNCHANGED dependencies
    BY <1>8 DEF Finished, TellQueue, Execute, Executed, ThenExecute, Home,
                opVars, Pcs
  <2>2. Locks(t)' \subseteq Locks(t)
    BY <2>1 DEF Locks, InFinish
  <2> QED BY <1>8, <2>1, <2>2, <1>c, OthersUndisturbed
<1>9. ASSUME NEW t \in Threads, NEW o \in Ops, StartFirst(t, o)
      PROVE  LockInv'
  <2>1. /\ UNCHANGED <<resume, cur, todo, held, dependencies>>
        /\ \A u \in Threads : pc'[u] = pc[u] \/ pc'[u] = "idle"
    BY <1>9 DEF StartFirst, Hand
  <2>2. \A u \in Threads : Locks(u)' \subseteq Locks(u) /\ DependOK(u)'
    BY <1>a, <2>1 DEF Locks, InFinish, DependOK
  <2> QED BY <1>a, <2>2 DEF OneLock, LockInv
<1>10. CASE UNCHANGED vars
  BY <1>10 DEF vars, opVars, threadVars, LockInv, OneLock, Locks, InFinish, DependOK
<1>11. ASSUME NEW t \in Clients, Program(t)
       PROVE  LockInv'
  BY <1>11, <1>1, <1>2, <1>3, <1>6, <1>7 DEF Program
<1>12. ASSUME NEW t \in Threads, Work(t)
       PROVE  LockInv'
  BY <1>12, <1>3, <1>4, <1>5, <1>6, <1>7, <1>8, <1>9 DEF Work
<1>13. ASSUME NEW w \in Workers, Pool(w)
       PROVE  LockInv'
  BY <1>13, <1>6 DEF Pool
<1> QED BY <1>10, <1>11, <1>12, <1>13 DEF Next

LEMMA LocksInvariant == SafeSpec => [](Types /\ ThreadInv /\ LockInv)
<1>1. Init => LockInv
  BY DEF Init, LockInv, OneLock, Locks, InFinish, DependOK
<1> QED BY ThreadsInvariant, <1>1, LockInvKept, PTL DEF SafeSpec

--------------------------------------------------------------------------
(* A dependency that an operation still has to wait for is observed, or is  *)
(* about to be.                                                             *)
Depending(o, e) ==
  \E t \in Threads : pc[t] = "depending" /\ held[t] = o /\ e \in todo[t]

WatchInv ==
  \A o \in Ops : Pending(o) =>
    \A e \in dependencies[o] :
      finished[e] \/ e \in watching[o] \/ Depending(o, e)

(* An operation that was cancelled, started or finished stays so.           *)
LEMMA PendingBefore ==
  ASSUME Types, ThreadInv, [Next]_vars, NEW o \in Ops, Pending(o)'
  PROVE  Pending(o)
<1> USE DEF Pending, Types, OpType
<1>1. ASSUME NEW t, NEW p, NEW d,
             \/ AddDependency(t, p, d) \/ RemoveDependency(t, p, d)
             \/ SetQueuePriority(t, p) \/ TellDependent(t, p) \/ EnterMain(t)
             \/ Depend(t) \/ MakeReady(t)
      PROVE  UNCHANGED <<cancelled, isExecuting, finished>>
  BY <1>1 DEF AddDependency, RemoveDependency, SetQueuePriority, TellDependent,
              EnterMain, Depend, MakeReady, opVars
<1>2. ASSUME NEW t, NEW p, Cancel(t, p)
      PROVE  Pending(o)
  BY <1>2 DEF Cancel
<1>3. ASSUME NEW t, NEW p, Start(t, p) \/ StartFirst(t, p)
      PROVE  Pending(o)
  <2>1. UNCHANGED <<cancelled, finished>>
    BY <1>3 DEF Start, StartFirst
  <2>2. isExecuting[o] => isExecuting'[o]
    BY <1>3 DEF Start, StartFirst
  <2> QED BY <2>1, <2>2
<1>4. ASSUME NEW t \in Threads, Finish(t)
      PROVE  Pending(o)
  <2>1. UNCHANGED cancelled /\ cur[t] \in Ops
    BY <1>4 DEF Finish, ThreadInv, ThreadOK, Running
  <2>2. CASE finished[cur[t]]
    BY <1>4, <2>1, <2>2 DEF Finish
  <2>3. CASE ~ finished[cur[t]]
    <3>1. cur[t] # o
      BY <1>4, <2>1, <2>3 DEF Finish
    <3> QED BY <1>4, <2>1, <2>3, <3>1 DEF Finish
  <2> QED BY <2>2, <2>3
<1>5. UNCHANGED <<opVars, mains>> \/ UNCHANGED vars => Pending(o)
  BY DEF opVars, vars
<1> QED
  BY <1>1, <1>2, <1>3, <1>4, <1>5, OpsUnchanged DEF Next, Program, Work, Pool

(* A thread that is about to observe a dependency does so itself.           *)
LEMMA DependingStays ==
  ASSUME Types, ThreadInv, [Next]_vars, NEW o, NEW e, Depending(o, e),
         \A t \in Threads : ~ Depend(t)
  PROVE  Depending(o, e)'
<1>1. PICK u \in Threads : pc[u] = "depending" /\ held[u] = o /\ e \in todo[u]
  BY DEF Depending
<1> USE AreThreads
<1>2. ASSUME NEW t \in Threads, NEW p, NEW d, NEW new,
         \/ AddDependency(t, p, d) \/ RemoveDependency(t, p, d) \/ Cancel(t, p)
         \/ SetQueuePriority(t, p) \/ Start(t, p) \/ AddOperation(t, p)
         \/ AddOperations(t, new) \/ Insert(t) \/ MakeReady(t)
         \/ SetSuspended(t) \/ SetMaxConcurrentOperationCount(t)
         \/ EnterMain(t) \/ LeaveMain(t) \/ Finish(t) \/ Finished(t)
         \/ TellDependent(t, p) \/ Announce(t, p) \/ FinishConcurrent(t, p)
         \/ TellQueue(t) \/ Execute(t) \/ Executed(t) \/ Take(t) \/ TimeOut(t)
         \/ Exit(t)
      PROVE  Depending(o, e)'
  <2>1. pc[t] # "depending"
    BY <1>2 DEF AddDependency, RemoveDependency, Cancel, SetQueuePriority,
       Start, AddOperation, AddOperations, Insert, MakeReady, SetSuspended,
       SetMaxConcurrentOperationCount, EnterMain, LeaveMain, Finish, Finished,
       TellDependent, Announce, FinishConcurrent, TellQueue, Execute, Executed,
       Take, TimeOut, Exit
  <2>2. Undisturbed(u)
    BY <1>1, <1>2, <2>1, OthersUndisturbed
  <2> QED BY <1>1, <2>2 DEF Depending, Undisturbed
<1>3. ASSUME NEW t \in Threads, NEW p \in Ops, StartFirst(t, p)
      PROVE  Depending(o, e)'
  <2>1. UNCHANGED <<todo, held>> /\ pc'[u] = pc[u]
    BY <1>1, <1>3 DEF StartFirst, Hand, Types, ThreadType
  <2> QED BY <1>1, <2>1 DEF Depending
<1>4. UNCHANGED vars => Depending(o, e)'
  BY DEF Depending, vars, threadVars
<1>5. ASSUME NEW t \in Clients, Program(t)
      PROVE  Depending(o, e)'
  BY <1>5, <1>2 DEF Program
<1>6. ASSUME NEW t \in Threads, Work(t)
      PROVE  Depending(o, e)'
  BY <1>6, <1>2, <1>3 DEF Work
<1>7. ASSUME NEW w \in Workers, Pool(w)
      PROVE  Depending(o, e)'
  BY <1>7, <1>2 DEF Pool
<1> QED BY <1>4, <1>5, <1>6, <1>7 DEF Next

LEMMA WatchInvKept ==
  Types /\ ThreadInv /\ LockInv /\ WatchInv /\ [Next]_vars => WatchInv'
<1> SUFFICES ASSUME Types, ThreadInv, LockInv, WatchInv, [Next]_vars,
                    NEW o \in Ops, Pending(o)', NEW e \in dependencies'[o]
             PROVE  finished'[e] \/ e \in watching'[o] \/ Depending(o, e)'
  BY DEF WatchInv
<1> DEFINE Kept == finished'[e] \/ e \in watching'[o] \/ Depending(o, e)'
<1>p. Pending(o)
  BY PendingBefore
<1>q. e \in Ops
  BY OpTypeKept DEF OpType
<1>a. ASSUME e \in dependencies[o],
             e \in watching[o] => e \in watching'[o] \/ finished[e],
             \A t \in Threads : ~ Depend(t)
      PROVE  Kept
  BY <1>a, <1>p, <1>q, FinishedStays, DependingStays DEF WatchInv, Types, OpType
<1> HIDE DEF Kept
<1> USE AreThreads DEF Types, OpType, ThreadType
<1>x. ASSUME NEW t \in Threads, pc[t] # "depending", NEW u \in Threads, Depend(u)
      PROVE  u # t
  BY <1>x DEF Depend
<1>1. ASSUME NEW t \in Threads, Depend(t)
      PROVE  Kept
  <2>1. /\ UNCHANGED <<finished, dependencies>> /\ pc[t] = "depending"
        /\ watching' = [watching EXCEPT ![held[t]] = @ \cup (todo[t] \ {Queue})]
    BY <1>1 DEF Depend
  <2>2. finished[e] \/ e \in watching[o] \/ Depending(o, e)
    BY <1>p, <2>1 DEF WatchInv
  <2>3. watching[o] \subseteq watching'[o]
    BY <2>1
  <2>4. CASE Depending(o, e)
    <3>1. PICK u \in Threads : pc[u] = "depending" /\ held[u] = o /\ e \in todo[u]
      BY <2>4 DEF Depending
    <3>2. CASE u = t
      <4>1. e \in watching'[o]
        BY <2>1, <3>1, <3>2, <1>q, OpsAssumption
      <4> QED BY <4>1 DEF Kept
    <3>3. CASE u # t
      <4>1. Undisturbed(u)
        BY <1>1, <3>3, OthersUndisturbed
      <4> QED BY <3>1, <4>1 DEF Kept, Depending, Undisturbed
    <3> QED BY <3>2, <3>3
  <2> QED BY <2>1, <2>2, <2>3, <2>4 DEF Kept
<1>2. ASSUME \A t \in Threads : ~ Depend(t), NEW t \in Threads, NEW p \in Ops,
             NEW d \in Ops, AddDependency(t, p, d)
      PROVE  Kept
  <2>1. UNCHANGED watching /\ UNCHANGED finished
    BY <1>2 DEF AddDependency
  <2>2. CASE e \in dependencies[o]
    BY <1>a, <1>2, <2>1, <2>2
  <2>3. CASE e \notin dependencies[o]
    <3>1. p = o /\ d = e
      BY <1>2, <2>3 DEF AddDependency
    <3>2. CASE finished[e]
      BY <2>1, <3>2 DEF Kept
    <3>3. CASE ~ finished[e]
      <4>1. pc'[t] = "depending" /\ held'[t] = o /\ todo'[t] = {e}
        BY <1>2, <1>p, <3>1, <3>3 DEF AddDependency, Matters, Keep
      <4> QED BY <4>1 DEF Kept, Depending
    <3> QED BY <3>2, <3>3
  <2> QED BY <2>2, <2>3
<1>3. ASSUME \A t \in Threads : ~ Depend(t), NEW t \in Threads, NEW p \in Ops,
             NEW d \in Ops, RemoveDependency(t, p, d)
      PROVE  Kept
  BY <1>3, <1>a DEF RemoveDependency
<1>4. ASSUME \A t \in Threads : ~ Depend(t), NEW t \in Threads, NEW p \in Ops,
             TellDependent(t, p)
      PROVE  Kept
  <2>1. finished[cur[t]]
    BY <1>4 DEF TellDependent, ThreadInv, ThreadOK, Notifying
  <2>2. /\ UNCHANGED dependencies
        /\ \A x \in watching[o] : x \in watching'[o] \/ x = cur[t]
    BY <1>4 DEF TellDependent
  <2> QED BY <1>4, <2>1, <2>2, <1>a
<1>5. ASSUME \A t \in Threads : ~ Depend(t), UNCHANGED <<dependencies, watching>>
      PROVE  Kept
  BY <1>5, <1>a
<1>6. ASSUME NEW t, NEW p,
             \/ SetQueuePriority(t, p) \/ Start(t, p) \/ EnterMain(t)
             \/ Finish(t) \/ StartFirst(t, p) \/ Cancel(t, p) \/ MakeReady(t)
      PROVE  UNCHANGED <<dependencies, watching>>
  BY <1>6 DEF SetQueuePriority, Start, EnterMain, Finish, StartFirst, Cancel,
              MakeReady, opVars
<1>7. UNCHANGED <<opVars, mains>> \/ UNCHANGED vars
        => UNCHANGED <<dependencies, watching>>
  BY DEF opVars, vars
<1>8. CASE \E t \in Threads : Depend(t)
  BY <1>8, <1>1 DEF Kept
<1>9. CASE \A t \in Threads : ~ Depend(t)
  BY <1>9, <1>2, <1>3, <1>4, <1>5, <1>6, <1>7, OpsUnchanged
  DEF Kept, Next, Program, Work, Pool
<1> QED BY <1>8, <1>9 DEF Kept

(* Who will tell operation o that its dependency d has finished, or that it *)
(* had when it was observed.                                                *)
Tells(o, d) == \/ ~ finished[d] \/ <<o, d>> \in missed
               \/ \E t \in Threads : cur[t] = d /\ o \in todo[t]

LEMMA MissedStays == [Next]_vars => missed \subseteq missed'
<1> SUFFICES ASSUME [Next]_vars PROVE missed \subseteq missed'
  OBVIOUS
<1>1. ASSUME NEW t, Depend(t) PROVE missed \subseteq missed'
  BY <1>1 DEF Depend
<1>2. ASSUME NEW t, NEW o, NEW d, NEW new,
         \/ AddDependency(t, o, d) \/ RemoveDependency(t, o, d) \/ Cancel(t, o)
         \/ SetQueuePriority(t, o) \/ Start(t, o) \/ AddOperation(t, o)
         \/ AddOperations(t, new) \/ Insert(t) \/ MakeReady(t)
         \/ SetSuspended(t) \/ SetMaxConcurrentOperationCount(t)
         \/ EnterMain(t) \/ LeaveMain(t) \/ Finish(t) \/ Finished(t)
         \/ TellDependent(t, o) \/ Announce(t, o) \/ FinishConcurrent(t, o)
         \/ StartFirst(t, o)
         \/ TellQueue(t) \/ Execute(t) \/ Executed(t) \/ Take(t) \/ TimeOut(t)
         \/ Exit(t)
      PROVE  UNCHANGED missed
  BY <1>2 DEF AddDependency, RemoveDependency, Cancel, SetQueuePriority,
       Start, AddOperation, AddOperations, Insert, MakeReady, SetSuspended,
       SetMaxConcurrentOperationCount, EnterMain, LeaveMain, Finish, Finished,
       TellDependent, Announce, FinishConcurrent, TellQueue, Execute, Executed,
       Take, TimeOut, Exit, StartFirst, histVars
<1>3. UNCHANGED vars => UNCHANGED missed
  BY DEF vars, histVars
<1> QED BY <1>1, <1>2, <1>3 DEF Next, Program, Work, Pool

LEMMA ToldStays ==
  ASSUME Types, ThreadInv, [Next]_vars, NEW o \in Ops, NEW d \in Ops,
         Tells(o, d), d \in watching'[o]
  PROVE  Tells(o, d)'
<1> USE DEF Types, OpType, ThreadType
<1>a. /\ \A t \in Threads : ThreadOK(t)
      /\ NoOp \notin Ops
  BY OpsAssumption DEF ThreadInv, NoOp
<1>m. <<o, d>> \in missed => Tells(o, d)'
  BY MissedStays DEF Tells
<1>b. ASSUME NEW t \in Threads, \A u \in Threads \ {t} : Undisturbed(u),
             UNCHANGED finished,
             cur[t] = d /\ o \in todo[t] => cur'[t] = d /\ o \in todo'[t]
      PROVE  Tells(o, d)'
  BY <1>b, <1>m DEF Tells, Undisturbed
<1> USE AreThreads
<1>1. ASSUME NEW t \in Threads, NEW p, NEW e, NEW new,
             \/ AddDependency(t, p, e)
             \/ Start(t, p) \/ FinishConcurrent(t, p) \/ AddOperation(t, p)
             \/ AddOperations(t, new) \/ Insert(t) \/ Depend(t)
             \/ Announce(t, p) \/ Finished(t) \/ Take(t) \/ LeaveMain(t)
      PROVE  Tells(o, d)'
  <2>1. UNCHANGED finished
    BY <1>1 DEF AddDependency, Start, FinishConcurrent, AddOperation,
       AddOperations, Insert, Depend, Announce, Finished, Take, LeaveMain, opVars
  <2>2. cur[t] = NoOp \/ todo[t] = {}
    <3>1. \/ pc[t] \in {"free", "adding", "depending", "announcing", "idle", "main"}
          \/ todo[t] = {}
      BY <1>1 DEF AddDependency, Start, FinishConcurrent, AddOperation,
       AddOperations, Insert, Depend, Announce, Finished, Take, LeaveMain
    <3> QED BY <3>1, <1>a DEF ThreadOK, Announcing, Notifying, Running
  <2> QED BY <1>1, <2>1, <2>2, <1>a, <1>b, OthersUndisturbed
<1>2. ASSUME NEW t \in Threads, NEW p, NEW e,
             \/ RemoveDependency(t, p, e)
             \/ Cancel(t, p) \/ SetQueuePriority(t, p) \/ SetSuspended(t)
             \/ SetMaxConcurrentOperationCount(t) \/ EnterMain(t)
             \/ Execute(t) \/ Executed(t) \/ MakeReady(t)
             \/ TimeOut(t) \/ Exit(t)
      PROVE  Tells(o, d)'
  <2>1. UNCHANGED <<finished, cur, todo>>
    BY <1>2 DEF RemoveDependency, Cancel, SetQueuePriority,
       SetSuspended, SetMaxConcurrentOperationCount, EnterMain,
       Execute, Executed, MakeReady, TimeOut, Exit, opVars, threadVars
  <2> QED BY <2>1, <1>m DEF Tells
<1>3. ASSUME NEW t \in Threads, NEW p \in Ops, StartFirst(t, p)
      PROVE  Tells(o, d)'
  <2>1. UNCHANGED <<finished, cur, todo>>
    BY <1>3 DEF StartFirst
  <2> QED BY <2>1, <1>m DEF Tells
<1>4. ASSUME NEW t \in Threads, Finish(t)
      PROVE  Tells(o, d)'
  <2>1. cur[t] \in Ops /\ todo[t] = {} /\ UNCHANGED watching
    BY <1>4, <1>a DEF Finish, ThreadOK, Running, Announcing, Notifying
  <2>2. CASE finished[cur[t]]
    <3>1. UNCHANGED finished
      BY <1>4, <2>2 DEF Finish
    <3> QED BY <1>4, <2>1, <3>1, <1>b, OthersUndisturbed
  <2>3. CASE ~ finished[cur[t]] /\ d = cur[t]
    <3>1. o \in todo'[t] /\ cur'[t] = d
      BY <1>4, <2>1, <2>3 DEF Finish
    <3> QED BY <3>1 DEF Tells
  <2>4. CASE ~ finished[cur[t]] /\ d # cur[t]
    <3>1. finished'[d] = finished[d]
      BY <1>4, <2>1, <2>4 DEF Finish
    <3>2. \A u \in Threads \ {t} : Undisturbed(u)
      BY <1>4, OthersUndisturbed
    <3> QED BY <3>1, <3>2, <2>1, <1>m DEF Tells, Undisturbed
  <2> QED BY <2>2, <2>3, <2>4
<1>5. ASSUME NEW t \in Threads, TellQueue(t)
      PROVE  Tells(o, d)'
  <2>1. UNCHANGED <<finished, cur>> /\ todo' = [todo EXCEPT ![t] = @ \ {Queue}]
    BY <1>5 DEF TellQueue, opVars
  <2>2. o # Queue
    BY OpsAssumption
  <2> QED BY <2>1, <2>2, <1>m DEF Tells
<1>6. ASSUME NEW t \in Threads, NEW p \in Ops, TellDependent(t, p)
      PROVE  Tells(o, d)'
  <2>1. UNCHANGED <<finished, cur>> /\ todo' = [todo EXCEPT ![t] = @ \ {p}]
    BY <1>6 DEF TellDependent
  <2>2. p = o => d # cur[t]
    BY <1>6 DEF TellDependent
  <2> QED BY <2>1, <2>2, <1>m DEF Tells
<1>7. UNCHANGED vars => Tells(o, d)'
  BY DEF vars, opVars, threadVars, histVars, Tells
<1>8. ASSUME NEW t \in Clients, Program(t)
      PROVE  Tells(o, d)'
  BY <1>8, <1>1, <1>2 DEF Program
<1>9. ASSUME NEW t \in Threads, Work(t)
      PROVE  Tells(o, d)'
  BY <1>9, <1>1, <1>2, <1>3, <1>4, <1>5, <1>6 DEF Work
<1>10. ASSUME NEW w \in Workers, Pool(w)
      PROVE  Tells(o, d)'
  BY <1>10, <1>1, <1>2 DEF Pool
<1> QED BY <1>7, <1>8, <1>9, <1>10 DEF Next

LEMMA NoDependencyMissedKept ==
  Types /\ ThreadInv /\ LockInv /\ WatchInv /\ NoDependencyMissed /\ [Next]_vars
    => NoDependencyMissed'
<1> DEFINE Seen(o) == \/ Changing(o)
                      \/ \E d \in dependencies[o] \cap watching[o] : Tells(o, d)
<1>0. NoDependencyMissed <=> \A o \in Ops : Pending(o) /\ ~ ready[o] => Seen(o)
  BY DEF NoDependencyMissed, Tells
<1> SUFFICES ASSUME Types, ThreadInv, LockInv, WatchInv, NoDependencyMissed,
                    [Next]_vars, NEW o \in Ops, Pending(o)', ~ ready'[o]
             PROVE  Seen(o)'
  BY DEF NoDependencyMissed, Tells
<1>a. Pending(o)
  BY PendingBefore
<1>b. ASSUME ~ ready[o], Changing(o) => Changing(o)',
             dependencies[o] \subseteq dependencies'[o],
             watching[o] \subseteq watching'[o]
      PROVE  Seen(o)'
  <2>1. CASE Changing(o)
    BY <1>b, <2>1
  <2>2. CASE ~ Changing(o)
    <3>1. PICK d \in dependencies[o] \cap watching[o] : Tells(o, d)
      BY <1>0, <1>a, <1>b, <2>2
    <3>2. d \in Ops
      BY DEF Types, OpType
    <3>3. Tells(o, d)'
      BY <3>1, <3>2, <1>b, ToldStays
    <3> QED BY <3>1, <3>3, <1>b
  <2> QED BY <2>1, <2>2
<1>c. ASSUME NEW e \in dependencies'[o], ~ finished'[e], e \in watching'[o]
      PROVE  Seen(o)'
  BY <1>c DEF Tells
<1>d. Changing(o)' => Seen(o)'
  OBVIOUS
<1> HIDE DEF Seen
<1> USE AreThreads DEF Types, OpType, ThreadType
<1>e. ASSUME NEW t \in Threads, \A u \in Threads \ {t} : Undisturbed(u),
             pc[t] # "readying" \/ held[t] # o, Changing(o)
      PROVE  Changing(o)'
  BY <1>e DEF Changing, Undisturbed
<1>f. \A t \in Threads : ThreadOK(t)
  BY DEF ThreadInv
<1>1. ASSUME NEW t \in Threads, NEW p \in Ops, NEW d \in Ops,
             AddDependency(t, p, d)
      PROVE  Seen(o)'
  <2>1. /\ UNCHANGED <<ready, watching>> /\ pc[t] = "free"
        /\ dependencies[o] \subseteq dependencies'[o]
    BY <1>1 DEF AddDependency
  <2> QED BY <1>1, <2>1, <1>b, <1>e, OthersUndisturbed
<1>2. ASSUME NEW t \in Threads, NEW p \in Ops, NEW d \in Ops,
             RemoveDependency(t, p, d)
      PROVE  Seen(o)'
  <2>1. UNCHANGED ready /\ pc[t] = "free" /\ Unlocked(p)
    BY <1>2 DEF RemoveDependency
  <2>2. CASE p = o /\ AllFinished(dependencies[o] \ {d})
    <3>1. pc'[t] = "readying" /\ held'[t] = o
      BY <1>2, <2>1, <2>2 DEF RemoveDependency, BeginReady, Keep
    <3> QED BY <3>1, <1>d DEF Changing
  <2>3. CASE p = o /\ ~ AllFinished(dependencies[o] \ {d})
    <3>1. PICK e \in dependencies[o] \ {d} : ~ finished[e]
      BY <2>3 DEF AllFinished
    <3>2. ~ Depending(o, e)
      BY <2>1, <2>3 DEF Depending, Unlocked
    <3>3. e \in watching[o]
      BY <1>a, <3>1, <3>2 DEF WatchInv
    <3>4. e \in dependencies'[o] /\ ~ finished'[e] /\ e \in watching'[o]
      BY <1>2, <2>3, <3>1, <3>3 DEF RemoveDependency
    <3> QED BY <3>4, <1>c
  <2>4. CASE p # o
    <3>1. /\ dependencies[o] \subseteq dependencies'[o]
          /\ watching[o] \subseteq watching'[o]
      BY <1>2, <2>4 DEF RemoveDependency
    <3> QED BY <1>2, <2>1, <3>1, <1>b, <1>e, OthersUndisturbed
  <2> QED BY <2>2, <2>3, <2>4
<1>3. ASSUME NEW t \in Threads, NEW p \in Ops, TellDependent(t, p)
      PROVE  Seen(o)'
  <2>1. /\ UNCHANGED <<ready, dependencies>> /\ pc[t] = "notifying"
        /\ Unlocked(p)
    BY <1>3 DEF TellDependent
  <2>2. CASE p = o /\ AllFinished(dependencies[o])
    <3>1. pc'[t] = "readying" /\ held'[t] = o
      BY <1>3, <2>1, <2>2 DEF TellDependent, BeginReady, Keep
    <3> QED BY <3>1, <1>d DEF Changing
  <2>3. CASE p = o /\ ~ AllFinished(dependencies[o])
    <3>1. PICK e \in dependencies[o] : ~ finished[e]
      BY <2>3 DEF AllFinished
    <3>2. ~ Depending(o, e)
      BY <2>1, <2>3 DEF Depending, Unlocked
    <3>3. e \in watching[o]
      BY <1>a, <3>1, <3>2 DEF WatchInv
    <3>4. e # cur[t]
      BY <1>f, <2>1, <3>1 DEF ThreadOK, Notifying
    <3>5. e \in dependencies'[o] /\ ~ finished'[e] /\ e \in watching'[o]
      BY <1>3, <2>3, <3>1, <3>3, <3>4 DEF TellDependent
    <3> QED BY <3>5, <1>c
  <2>4. CASE p # o
    <3>1. watching'[o] = watching[o]
      BY <1>3, <2>4 DEF TellDependent
    <3> QED BY <1>3, <2>1, <3>1, <1>b, <1>e, OthersUndisturbed
  <2> QED BY <2>2, <2>3, <2>4
<1>4. ASSUME NEW t \in Threads, Depend(t)
      PROVE  Seen(o)'
  <2>1. /\ pc[t] = "depending" /\ UNCHANGED <<dependencies, finished>>
        /\ watching' = [watching EXCEPT ![held[t]] = @ \cup (todo[t] \ {Queue})]
        /\ missed' = missed \cup
             {<<held[t], d>> : d \in {e \in todo[t] \ {Queue} : finished[e]}}
        /\ ready' = [ready EXCEPT ![held[t]] = FALSE]
    BY <1>4 DEF Depend
  <2>2. CASE held[t] = o
    <3>1. todo[t] # {} /\ todo[t] \subseteq dependencies[o]
      BY <2>1, <2>2 DEF LockInv, DependOK
    <3>2. PICK d \in todo[t] : d \in dependencies[o]
      BY <3>1
    <3>3. d # Queue /\ d \in Ops
      BY <3>2, OpsAssumption
    <3>4. d \in dependencies'[o] /\ d \in watching'[o]
      BY <2>1, <2>2, <3>2, <3>3
    <3>5. finished'[d] => <<o, d>> \in missed'
      BY <2>1, <2>2, <3>2, <3>3
    <3> QED BY <3>4, <3>5 DEF Seen, Tells
  <2>3. CASE held[t] # o
    <3>1. ~ ready[o] /\ watching[o] \subseteq watching'[o]
      BY <2>1, <2>3
    <3> QED BY <1>4, <2>1, <2>3, <3>1, <1>b, <1>e, OthersUndisturbed
  <2> QED BY <2>2, <2>3
<1>5. ASSUME NEW t \in Threads, MakeReady(t)
      PROVE  Seen(o)'
  <2>1. /\ pc[t] = "readying" /\ UNCHANGED <<dependencies, watching>>
        /\ ready' = [ready EXCEPT ![held[t]] = TRUE]
    BY <1>5 DEF MakeReady
  <2>2. held[t] # o /\ ~ ready[o]
    BY <2>1
  <2> QED BY <1>5, <2>1, <2>2, <1>b, <1>e, OthersUndisturbed
<1>6. ASSUME NEW t \in Threads, NEW p \in Ops, NEW new,
             \/ Cancel(t, p) \/ SetQueuePriority(t, p) \/ Start(t, p)
             \/ AddOperation(t, p) \/ AddOperations(t, new)
             \/ Announce(t, p) \/ FinishConcurrent(t, p)
      PROVE  Seen(o)'
  <2>1. UNCHANGED <<ready, dependencies, watching>> /\ pc[t] # "readying"
    BY <1>6 DEF Cancel, SetQueuePriority, Start, AddOperation, AddOperations,
       Announce, FinishConcurrent, opVars
  <2> QED BY <1>6, <2>1, <1>b, <1>e, OthersUndisturbed
<1>7. ASSUME NEW t \in Threads,
             \/ SetSuspended(t) \/ SetMaxConcurrentOperationCount(t)
             \/ EnterMain(t) \/ LeaveMain(t) \/ Finish(t) \/ Finished(t)
             \/ TellQueue(t) \/ Execute(t) \/ Executed(t) \/ Insert(t)
             \/ Take(t) \/ TimeOut(t) \/ Exit(t)
      PROVE  Seen(o)'
  <2>1. UNCHANGED <<ready, dependencies, watching>> /\ pc[t] # "readying"
    BY <1>7 DEF SetSuspended, SetMaxConcurrentOperationCount, EnterMain,
       LeaveMain, Finish, Finished, TellQueue, Execute, Executed, Insert, Take,
       TimeOut, Exit, opVars
  <2> QED BY <1>7, <2>1, <1>b, <1>e, OthersUndisturbed
<1>8. ASSUME NEW t \in Threads, NEW p \in Ops, StartFirst(t, p)
      PROVE  Seen(o)'
  <2>1. /\ UNCHANGED <<ready, dependencies, watching, held>>
        /\ \A u \in Threads : pc'[u] = pc[u] \/ pc[u] = "gone"
    BY <1>8 DEF StartFirst, Hand
  <2> QED BY <2>1, <1>b DEF Changing
<1>9. CASE UNCHANGED vars
  BY <1>9, <1>b DEF vars, opVars, threadVars, Changing
<1>10. ASSUME NEW t \in Clients, Program(t)
       PROVE  Seen(o)'
  <2>1. ASSUME NEW new, AddOperations(t, new) PROVE Seen(o)'
    BY <2>1, <1>6
  <2> QED BY <2>1, <1>1, <1>2, <1>6, <1>7, <1>10 DEF Program
<1>11. ASSUME NEW t \in Threads, Work(t)
       PROVE  Seen(o)'
  BY <1>11, <1>3, <1>4, <1>5, <1>6, <1>7, <1>8 DEF Work
<1>12. ASSUME NEW w \in Workers, Pool(w)
       PROVE  Seen(o)'
  BY <1>12, <1>7 DEF Pool
<1> QED BY <1>9, <1>10, <1>11, <1>12 DEF Next, Seen

(* An operation that waits is told: whatever dependencies are added or      *)
(* removed while others finish, one that has not started and is not ready   *)
(* is becoming so, or observes a dependency that is unfinished, or whose    *)
(* end it is being told, or that had finished when it was observed.         *)
THEOREM DependenciesAreSeen == SafeSpec => []NoDependencyMissed
<1>1. Init => WatchInv /\ NoDependencyMissed
  BY DEF Init, WatchInv, NoDependencyMissed
<1>2. Types /\ ThreadInv /\ LockInv /\ WatchInv /\ NoDependencyMissed /\ [Next]_vars
        => WatchInv' /\ NoDependencyMissed'
  BY WatchInvKept, NoDependencyMissedKept
<1> QED BY LocksInvariant, <1>1, <1>2, PTL DEF SafeSpec

--------------------------------------------------------------------------
(* Where each operation is, and how many there are in each place.           *)
(* An operation nobody has begun to run.                                    *)
Fresh(o) == ~ isExecuting[o] /\ ~ finished[o] /\ mains[o] = 0

(* The places of the queue's sets: one that has finished may be added again *)
(* by mistake, and then stays among the observed.                           *)
SetsOK(o) ==
  /\ o \in operations => o \in awaited \cup waiting \cup watched
  /\ o \in waiting \cup watched => o \in operations
  /\ o \in awaited \ operations => finished[o]
  /\ o \in waiting => o \notin awaited
  /\ o \in watched => o \notin awaited \cup waiting

(* Those the queue has started are with the pool or on their own.           *)
StartedOK(o) ==
  /\ o \in Handed \cup async => o \notin waiting /\ (o \in awaited => finished[o])
  /\ o \in Handed => /\ o \notin Concurrent
                     /\ o \in watched \/ (o \in byHand /\ finished[o])
  /\ o \in async => o \in Concurrent /\ o \in watched /\ ~ finished[o]

(* What the program starts itself may be anywhere; the others are run once. *)
RunOK(o) ==
  /\ o \in byHand => isExecuting[o] /\ o \notin Concurrent
  /\ o \notin byHand =>
       /\ o \in waiting \cup Handed => Fresh(o)
       /\ ~ finished[o] /\ (o \in awaited \/ o \notin operations) => Fresh(o)
       /\ mains[o] <= 1

OpOK(o) == SetsOK(o) /\ StartedOK(o) /\ RunOK(o)

(* A thread has the operation it runs, and the one it has finished until    *)
(* the queue is told.                                                       *)
Telling(t) == Queue \in todo[t]
Holds(t) == Running(t) \/ Telling(t)

HolderOK(t) ==
  /\ Running(t) /\ cur[t] \notin byHand =>
       /\ ~ finished[cur[t]] /\ cur[t] \in watched
       /\ cur[t] \notin Handed \cup async
       /\ pc[t] = "taken" => mains[cur[t]] = 0
  /\ Telling(t) => cur[t] \in watched
  /\ Announcing(t) => todo[t] \subseteq awaited \cap operations
  /\ pc[t] \in {"taken", "main"} /\ t \in Clients => cur[t] \in byHand

OneHolder ==
  \A t, u \in Threads :
    Holds(t) /\ Holds(u) /\ cur[t] = cur[u] /\ cur[t] \notin byHand => t = u

(* What the queue has started is with the pool, on its own or with a thread.*)
NoneAstray ==
  \A o \in watched \ byHand :
    o \in Handed \cup async \/ \E t \in Threads : Holds(t) /\ cur[t] = o

HandedOnce ==
  \A i, j \in 1 .. Len(starting) : starting[i] = starting[j] => i = j

PlaceInv ==
  /\ \A o \in Ops : OpOK(o)
  /\ \A t \in Threads : HolderOK(t)
  /\ OneHolder
  /\ NoneAstray
  /\ HandedOnce

(* What holds of a thread and of what it has, said in one place.            *)
LEMMA HolderFacts ==
  ASSUME Types, ThreadInv, PlaceInv, NEW t \in Threads
  PROVE  /\ Holds(t) => cur[t] \in Ops
         /\ Telling(t) => /\ Notifying(t) /\ ~ Running(t)
                          /\ finished[cur[t]] = TRUE /\ cur[t] \in watched
         /\ Announcing(t) => lock = t
         /\ NoOp \notin Ops
<1>1. ThreadOK(t) /\ HolderOK(t)
  BY DEF ThreadInv, PlaceInv
<1> QED BY <1>1, NoOpIsNone
        DEF ThreadOK, HolderOK, Holds, Running, Telling, Notifying, Announcing

(* The operations handed to the pool are those in its array.                *)
LEMMA HandedAppend ==
  ASSUME PoolType, NEW o \in Ops, starting' = Append(starting, o)
  PROVE  /\ Handed' = Handed \cup {o}
         /\ HandedOnce /\ o \notin Handed => HandedOnce'
<1>1. /\ Len(starting') = Len(starting) + 1 /\ Len(starting) \in Nat
      /\ \A i \in 1 .. Len(starting) : starting'[i] = starting[i]
      /\ starting'[Len(starting) + 1] = o
  BY DEF PoolType
<1>2. 1 .. Len(starting') = 1 .. Len(starting) \cup {Len(starting) + 1}
  BY <1>1
<1>3. Handed' = Handed \cup {o}
  <2>1. ASSUME NEW p \in Handed' PROVE p \in Handed \cup {o}
    BY <1>1, <1>2, <2>1 DEF Handed
  <2>2. ASSUME NEW p \in Handed \cup {o} PROVE p \in Handed'
    BY <1>1, <1>2, <2>2 DEF Handed
  <2> QED BY <2>1, <2>2
<1>4. HandedOnce /\ o \notin Handed => HandedOnce'
  BY <1>1, <1>2 DEF HandedOnce, Handed
<1> QED BY <1>3, <1>4

LEMMA HandedTail ==
  ASSUME PoolType, HandedOnce, starting # <<>>, starting' = Tail(starting)
  PROVE  /\ Head(starting) \in Handed
         /\ Handed' = Handed \ {Head(starting)}
         /\ HandedOnce'
<1>1. /\ Len(starting') = Len(starting) - 1 /\ Len(starting) \in Nat \ {0}
      /\ \A i \in 1 .. Len(starting) - 1 : starting'[i] = starting[i + 1]
      /\ Head(starting) = starting[1]
  BY DEF PoolType
<1>2. Head(starting) \in Handed
  BY <1>1 DEF Handed
<1>3. ASSUME NEW p \in Handed' PROVE p \in Handed \ {Head(starting)}
  <2>1. PICK i \in 1 .. Len(starting) - 1 : p = starting[i + 1]
    BY <1>1, <1>3 DEF Handed
  <2>2. i + 1 \in 1 .. Len(starting) /\ 1 \in 1 .. Len(starting) /\ i + 1 # 1
    BY <1>1
  <2> QED BY <1>1, <2>1, <2>2 DEF Handed, HandedOnce
<1>4. ASSUME NEW p \in Handed \ {Head(starting)} PROVE p \in Handed'
  <2>1. PICK i \in 1 .. Len(starting) : p = starting[i]
    BY <1>4 DEF Handed
  <2>2. i - 1 \in 1 .. Len(starting')
    BY <1>1, <1>4, <2>1
  <2>3. starting'[i - 1] = p
    BY <1>1, <2>1, <2>2
  <2> QED BY <2>2, <2>3 DEF Handed
<1>5. HandedOnce'
  BY <1>1 DEF HandedOnce
<1> QED BY <1>2, <1>3, <1>4, <1>5

(* The steps after which each operation is where it was: in the same sets,  *)
(* and with the same thread unless the program has started it itself.       *)
Quiet ==
  /\ UNCHANGED <<isExecuting, finished, mains, operations, awaited, waiting,
                 watched, async, starting, byHand>>
  /\ \A t \in Threads : /\ Running(t)' => Running(t)
                        /\ Telling(t)' <=> Telling(t)
                        /\ Holds(t)' => cur'[t] = cur[t]
                        /\ Holds(t) /\ ~ Holds(t)' => cur[t] \in byHand
                        /\ Announcing(t)' => todo'[t] \subseteq awaited \cap operations
                        /\ pc'[t] = "taken" => pc[t] = "taken"
                        /\ pc'[t] = "main" => pc[t] = "main"

LEMMA QuietKeepsPlaces == PlaceInv /\ Quiet => PlaceInv'
<1> SUFFICES ASSUME PlaceInv, Quiet PROVE PlaceInv'
  OBVIOUS
<1> USE DEF Quiet
<1>1. Handed' = Handed
  BY DEF Handed
<1>2. \A o \in Ops : OpOK(o)'
  BY <1>1 DEF PlaceInv, OpOK, SetsOK, StartedOK, RunOK, Fresh
<1>3. ASSUME NEW t \in Threads PROVE HolderOK(t)'
  BY <1>1 DEF PlaceInv, HolderOK, Holds, Running
<1>4. OneHolder'
  BY DEF PlaceInv, OneHolder, Holds
<1>5. NoneAstray'
  BY <1>1 DEF PlaceInv, NoneAstray, Holds
<1>6. HandedOnce'
  BY DEF PlaceInv, HandedOnce
<1> QED BY <1>2, <1>3, <1>4, <1>5, <1>6 DEF PlaceInv

LEMMA QuietThread ==
  ASSUME Types, ThreadInv, PlaceInv, NEW t \in Threads,
         \A u \in Threads \ {t} : Undisturbed(u),
         UNCHANGED <<isExecuting, finished, mains, operations, awaited, waiting,
                     watched, async, starting, byHand>>,
         /\ Running(t)' => Running(t)
         /\ Telling(t)' <=> Telling(t)
         /\ Holds(t)' => cur'[t] = cur[t]
         /\ Holds(t) /\ ~ Holds(t)' => cur[t] \in byHand
         /\ Announcing(t)' => todo'[t] \subseteq awaited \cap operations
         /\ pc'[t] = "taken" => pc[t] = "taken"
         /\ pc'[t] = "main" => pc[t] = "main"
  PROVE  Quiet
<1>1. ASSUME NEW u \in Threads \ {t}
      PROVE  /\ Running(u)' => Running(u)
             /\ Telling(u)' <=> Telling(u)
             /\ Holds(u)' => cur'[u] = cur[u]
             /\ Holds(u) => Holds(u)'
             /\ Announcing(u)' => todo'[u] \subseteq awaited \cap operations
             /\ pc'[u] = "taken" => pc[u] = "taken"
             /\ pc'[u] = "main" => pc[u] = "main"
  BY DEF PlaceInv, HolderOK, Undisturbed, Running, Telling, Holds, Announcing
<1> QED BY <1>1 DEF Quiet

LEMMA QuietSteps ==
  ASSUME Types, ThreadInv, PlaceInv, NEW t \in Threads, NEW o, NEW d,
         \/ AddDependency(t, o, d) \/ RemoveDependency(t, o, d)
         \/ Cancel(t, o) \/ SetQueuePriority(t, o)
         \/ \E new \in SUBSET Ops : AddOperations(t, new)
         \/ SetSuspended(t) \/ SetMaxConcurrentOperationCount(t)
         \/ LeaveMain(t) \/ Finished(t) \/ TellDependent(t, o)
         \/ Depend(t) \/ Execute(t) \/ Executed(t) \/ TimeOut(t) \/ Exit(t)
         \/ (MakeReady(t) /\ ~ Told(held[t]))
         \/ (Take(t) /\ starting = <<>>)
         \/ (Finish(t) /\ finished[cur[t]])
  PROVE  Quiet
<1>a. /\ ThreadOK(t) /\ HolderOK(t)
      /\ \A u \in Threads \ {t} : Undisturbed(u)
      /\ Queue \notin Ops
  BY OthersUndisturbed, OpsAssumption DEF ThreadInv, PlaceInv
<1> USE DEF Types, ThreadType, Home, ThenExecute, Keep, BeginReady
<1>1. UNCHANGED <<isExecuting, finished, mains, operations, awaited, waiting,
                  watched, async, starting, byHand>>
  <2>1. CASE \/ (MakeReady(t) /\ ~ Told(held[t])) \/ (Take(t) /\ starting = <<>>)
             \/ (Finish(t) /\ finished[cur[t]])
    BY <2>1 DEF MakeReady, Take, Finish, opVars, queueVars, poolVars, histVars
  <2> QED BY <2>1 DEF AddDependency, RemoveDependency, Cancel,
    SetQueuePriority, AddOperations, SetSuspended,
    SetMaxConcurrentOperationCount, LeaveMain, Finished, TellDependent, Depend,
    Execute, Executed, TimeOut, Exit, opVars, queueVars, poolVars, histVars
<1>2. CASE \/ AddDependency(t, o, d) \/ RemoveDependency(t, o, d)
           \/ Cancel(t, o) \/ SetQueuePriority(t, o)
           \/ \E new \in SUBSET Ops : AddOperations(t, new)
           \/ SetSuspended(t) \/ SetMaxConcurrentOperationCount(t) \/ Depend(t)
           \/ TimeOut(t) \/ Exit(t) \/ (Take(t) /\ starting = <<>>)
  <2>1. /\ pc[t] \in {"free", "depending", "idle", "expired"}
        /\ pc'[t] \in {"free", "depending", "readying", "adding", "owes",
                       "idle", "expired", "gone"}
        /\ pc'[t] = "owes" => resume'[t] = "free"
    BY <1>2, <1>a DEF AddDependency, RemoveDependency, Cancel,
       SetQueuePriority, AddOperations, SetSuspended, Take, TimeOut, Exit,
       SetMaxConcurrentOperationCount, Depend, threadVars, ThreadOK
  <2>2. Queue \notin todo[t]
    BY <2>1, <1>a DEF ThreadOK, Notifying
  <2>3. todo'[t] \subseteq todo[t] \cup Ops
    BY <1>2, DependAssumption DEF AddDependency, RemoveDependency, Cancel,
       SetQueuePriority, AddOperations, SetSuspended, Take, TimeOut, Exit,
       SetMaxConcurrentOperationCount, Depend, threadVars
  <2>4. ~ Holds(t) /\ ~ Holds(t)' /\ ~ Telling(t) /\ ~ Announcing(t)'
    BY <2>1, <2>2, <2>3, <1>a DEF Holds, Running, Telling, Announcing
  <2> QED BY <1>1, <1>a, <2>1, <2>4, QuietThread DEF Holds
<1>3. CASE LeaveMain(t) \/ (Finish(t) /\ finished[cur[t]])
  <2>1. /\ pc[t] \in {"main", "finishing"}
        /\ \/ pc'[t] = "finishing" /\ UNCHANGED cur
           \/ /\ pc'[t] \in {"free", "idle"}
              /\ cur[t] \in byHand
        /\ UNCHANGED todo
    BY <1>3, <1>a DEF LeaveMain, Finish, HolderOK, Running
  <2>2. ~ Telling(t) /\ ~ Telling(t)' /\ Running(t) /\ ~ Announcing(t)'
    BY <2>1, <1>a DEF ThreadOK, Notifying, Telling, Running, Announcing
  <2>3. Running(t)' => UNCHANGED cur
    BY <2>1 DEF Running
  <2>4. ~ Running(t)' => cur[t] \in byHand
    BY <2>1 DEF Running
  <2> QED BY <1>1, <1>a, <2>1, <2>2, <2>3, <2>4, QuietThread DEF Holds
<1>4. CASE Finished(t) \/ TellDependent(t, o)
  <2>1. /\ pc[t] = "notifying"
        /\ \/ todo[t] = {} /\ UNCHANGED todo /\ pc'[t] \in {"free", "idle"}
           \/ /\ UNCHANGED cur /\ todo'[t] = todo[t] \ {o} /\ o # Queue
              /\ pc'[t] \in {"notifying", "readying"}
    BY <1>4 DEF Finished, TellDependent
  <2>2. /\ ~ Running(t) /\ ~ Running(t)' /\ Telling(t)' = Telling(t)
        /\ ~ Announcing(t)' /\ (Telling(t) => UNCHANGED cur)
    BY <2>1, <1>a DEF Telling, Running, Announcing
  <2> QED BY <1>1, <1>a, <2>1, <2>2, QuietThread DEF Holds
<1>5. CASE Execute(t) \/ Executed(t) \/ (MakeReady(t) /\ ~ Told(held[t]))
  <2>1. /\ pc[t] \in {"owes", "loop", "readying"}
        /\ UNCHANGED <<cur, todo>>
        /\ pc'[t] \in {"loop", "announcing", "notifying", "free"}
        /\ pc'[t] = "announcing" => pc[t] = "loop" /\ resume[t] = "announcing"
        /\ pc'[t] = "loop" => pc[t] = "owes" /\ resume'[t] = resume[t]
    BY <1>5, <1>a DEF Execute, Executed, MakeReady, ThreadOK
  <2>2. ~ Running(t) /\ ~ Running(t)' /\ Telling(t)' = Telling(t)
    BY <2>1 DEF Telling, Running
  <2>3. Announcing(t)' => Announcing(t)
    BY <2>1, <1>a DEF Announcing, ThreadOK
  <2>4. Announcing(t)' => todo'[t] \subseteq awaited \cap operations
    BY <2>1, <2>3, <1>a DEF HolderOK
  <2> QED BY <1>1, <1>a, <2>1, <2>2, <2>4, QuietThread DEF Holds
<1> QED BY <1>2, <1>3, <1>4, <1>5

(* What all those steps have in common that only move one thread.           *)
LEMMA OthersHold ==
  ASSUME NEW t, \A u \in Threads \ {t} : Undisturbed(u)
  PROVE  \A u \in Threads \ {t} :
           /\ Running(u)' <=> Running(u)
           /\ Telling(u)' <=> Telling(u)
           /\ Holds(u)' <=> Holds(u)
           /\ Announcing(u)' <=> Announcing(u)
           /\ cur'[u] = cur[u] /\ todo'[u] = todo[u] /\ pc'[u] = pc[u]
BY DEF Undisturbed, Running, Telling, Holds, Announcing

(* The queue is told of an operation it observes.                           *)
LEMMA SeenKeepsPlaces ==
  ASSUME Types, ThreadInv, PlaceInv, NEW t \in Threads, NEW o \in awaited,
         NEW r, QueueSees(o, r),
         \A u \in Threads \ {t} : Undisturbed(u) /\ ~ Announcing(u),
         UNCHANGED <<isExecuting, finished, mains, async, starting, cur, byHand>>,
         ~ Running(t), ~ Running(t)', Telling(t)' <=> Telling(t),
         Announcing(t)' => Announcing(t) /\ todo'[t] = todo[t] \ {o}
  PROVE  PlaceInv'
<1> USE DEF Types
<1>1. /\ Handed' = Handed /\ o \in Ops
      /\ \A p \in Ops : OpOK(p)
      /\ \A u \in Threads : HolderOK(u)
  BY DEF Handed, PlaceInv, QueueType
<1>2. o \notin waiting \cup watched /\ (o \in operations \/ finished[o])
  BY <1>1 DEF OpOK, SetsOK
<1>3. /\ operations' \in {operations, operations \ {o}} /\ UNCHANGED watched
      /\ o \notin operations' => finished[o]
      /\ \/ UNCHANGED <<awaited, waiting>>
         \/ /\ awaited' = awaited \ {o} /\ waiting' = waiting \cup {o}
            /\ ~ finished[o]
  BY <1>2 DEF QueueSees
<1>4. ASSUME NEW p \in Ops PROVE OpOK(p)'
  <2>1. CASE p = o
    BY <2>1, <1>1, <1>2, <1>3 DEF OpOK, SetsOK, StartedOK, RunOK, Fresh
  <2>2. CASE p # o
    BY <2>2, <1>1, <1>3 DEF OpOK, SetsOK, StartedOK, RunOK, Fresh
  <2> QED BY <2>1, <2>2
<1>5. ASSUME NEW u \in Threads PROVE HolderOK(u)'
  <2>1. CASE u = t
    BY <2>1, <1>1, <1>3 DEF HolderOK, Running
  <2>2. CASE u # t
    BY <2>2, <1>1, <1>3, OthersHold DEF HolderOK
  <2> QED BY <2>1, <2>2
<1>6. \A u \in Threads : Holds(u)' <=> Holds(u)
  BY OthersHold DEF Holds
<1>7. OneHolder' /\ NoneAstray' /\ HandedOnce'
  BY <1>1, <1>3, <1>6 DEF PlaceInv, OneHolder, NoneAstray, HandedOnce
<1> QED BY <1>4, <1>5, <1>7 DEF PlaceInv

LEMMA SeenPlaces ==
  ASSUME Types, ThreadInv, PlaceInv, NEW t \in Threads, NEW o,
         Announce(t, o) \/ (MakeReady(t) /\ Told(held[t]))
  PROVE  PlaceInv'
<1> USE DEF Types, ThreadType
<1>1. /\ \A u \in Threads \ {t} : Undisturbed(u)
      /\ \A u \in Threads : ThreadOK(u) /\ HolderOK(u)
  BY OthersUndisturbed DEF ThreadInv, PlaceInv
<1>2. CASE Announce(t, o)
  <2>1. /\ UNCHANGED <<isExecuting, finished, mains, async, starting, cur, byHand>>
        /\ pc[t] = "announcing" /\ pc'[t] = "loop"
        /\ todo'[t] = todo[t] \ {o} /\ QueueSees(o, ready[o])
        /\ o \in todo[t]
    BY <1>2 DEF Announce, opVars, poolVars
  <2>2. /\ \A u \in Threads \ {t} : ~ Announcing(u)
        /\ Announcing(t) /\ o \in awaited
        /\ ~ Running(t) /\ ~ Running(t)'
    BY <2>1, <1>1 DEF ThreadOK, HolderOK, Announcing, Running
  <2>3. Telling(t)' <=> Telling(t)
    BY <2>1, <2>2, OpsAssumption DEF Telling, QueueType
  <2> QED BY <1>1, <2>1, <2>2, <2>3, SeenKeepsPlaces
<1>3. CASE MakeReady(t) /\ Told(held[t])
  <2>1. /\ UNCHANGED <<isExecuting, finished, mains, async, starting, cur, todo,
                       byHand>>
        /\ pc[t] = "readying" /\ pc'[t] = "owes"
        /\ QueueSees(held[t], TRUE) /\ lock = NoThread
        /\ held[t] \in awaited
    BY <1>3 DEF MakeReady, Told, ThenExecute, poolVars
  <2>2. /\ \A u \in Threads \ {t} : ~ Announcing(u)
        /\ ~ Announcing(t)' /\ ~ Running(t) /\ ~ Running(t)'
        /\ Telling(t)' <=> Telling(t)
    BY <2>1, <1>1, ThreadsAssumption DEF ThreadOK, Announcing, Running, Telling
  <2> QED BY <1>1, <2>1, <2>2, SeenKeepsPlaces
<1> QED BY <1>2, <1>3

LEMMA ToldPlaces ==
  ASSUME Types, ThreadInv, LockInv, PlaceInv, NEW t \in Threads, TellQueue(t)
  PROVE  PlaceInv'
<1> USE DEF Types, ThreadType
<1> DEFINE o == cur[t]
<1>1. /\ UNCHANGED <<isExecuting, finished, mains, async, starting, cur, byHand>>
      /\ pc[t] = "notifying" /\ pc'[t] = "owes" /\ resume'[t] = "notifying"
      /\ Telling(t) /\ todo'[t] = todo[t] \ {Queue}
      /\ QueueSees(o, ready[o]) /\ lock = NoThread
      /\ \A u \in Threads \ {t} : Undisturbed(u)
  BY OthersUndisturbed DEF TellQueue, ThenExecute, opVars, poolVars, Telling
<1>2. /\ Handed' = Handed
      /\ \A p \in Ops : OpOK(p)
      /\ \A u \in Threads : HolderOK(u) /\ ThreadOK(u)
  BY <1>1 DEF Handed, PlaceInv, ThreadInv
<1>3. /\ o \in Ops /\ finished[o] /\ o \in watched /\ o # NoOp
      /\ ~ Running(t)' /\ ~ Telling(t)' /\ ~ Announcing(t)'
  BY <1>1, <1>2, NoOpIsNone
  DEF HolderOK, ThreadOK, Notifying, Running, Telling, Announcing
<1>4. /\ watched' = watched \ {o} /\ operations' = operations \ {o}
      /\ UNCHANGED <<awaited, waiting>>
  BY <1>1, <1>3 DEF QueueSees
<1>5. ASSUME NEW u \in Threads \ {t}
      PROVE  ~ Announcing(u) /\ (Telling(u) => cur[u] # o)
  <2>1. ~ Announcing(u)
    BY <1>1, <1>2, ThreadsAssumption DEF ThreadOK, Announcing
  <2>2. Telling(u) => Notifying(u) /\ Notifying(t)
    BY <1>1, <1>2 DEF ThreadOK, Telling
  <2>3. Notifying(u) /\ Notifying(t) => cur[u] # o
    BY <1>2, <1>3, FinishingLocks DEF LockInv, OneLock, Locks
  <2> QED BY <2>1, <2>2, <2>3
<1> HIDE DEF o
<1>6. ASSUME NEW p \in Ops PROVE OpOK(p)'
  <2>1. CASE p = o
    BY <2>1, <1>1, <1>2, <1>3, <1>4
    DEF OpOK, SetsOK, StartedOK, RunOK, Fresh
  <2>2. CASE p # o
    BY <2>2, <1>1, <1>2, <1>4 DEF OpOK, SetsOK, StartedOK, RunOK, Fresh
  <2> QED BY <2>1, <2>2
<1>7. ASSUME NEW u \in Threads PROVE HolderOK(u)'
  <2>1. CASE u = t
    BY <2>1, <1>1, <1>3 DEF HolderOK, Running
  <2>2. CASE u # t
    BY <2>2, <1>1, <1>2, <1>3, <1>4, <1>5, OthersHold DEF HolderOK
  <2> QED BY <2>1, <2>2
<1>8. OneHolder'
  BY <1>1, <1>3, OthersHold DEF PlaceInv, OneHolder, Holds
<1>9. NoneAstray'
  BY <1>1, <1>2, <1>4, OthersHold DEF PlaceInv, NoneAstray, o
<1>10. HandedOnce'
  BY <1>1 DEF PlaceInv, HandedOnce
<1> QED BY <1>6, <1>7, <1>8, <1>9, <1>10 DEF PlaceInv

LEMMA AddedPlaces ==
  ASSUME Types, ThreadInv, PlaceInv, NEW t \in Threads,
         Insert(t) \/ \E o \in Ops : AddOperation(t, o)
  PROVE  PlaceInv'
<1> USE DEF Types, ThreadType
<1>1. PICK new \in SUBSET Ops : Enter(t, new)
  BY DEF AddOperation, Insert
<1>a. /\ UNCHANGED <<isExecuting, finished, mains, watched, async, starting,
                     waiting, cur, byHand>>
      /\ lock = NoThread /\ pc[t] \in {"free", "adding"}
  BY DEF AddOperation, Insert, opVars, poolVars, histVars
<1>b. /\ operations' = operations \cup (new \ operations)
      /\ awaited' = awaited \cup (new \ operations)
      /\ pc'[t] \in {"free", "announcing"}
      /\ todo'[t] = {o \in new \ operations : ready[o]}
  BY <1>1 DEF Enter
<1>2. /\ operations' = operations \cup new
      /\ Handed' = Handed
      /\ todo'[t] \subseteq new \ operations
  BY <1>a, <1>b DEF Handed
<1>3. /\ \A u \in Threads : ThreadOK(u) /\ HolderOK(u)
      /\ \A p \in Ops : OpOK(p)
      /\ \A u \in Threads \ {t} : Undisturbed(u)
  BY OthersUndisturbed DEF ThreadInv, PlaceInv
<1>4. \A u \in Threads : ~ Announcing(u)
  BY <1>a, <1>b, <1>2, <1>3, ThreadsAssumption DEF ThreadOK, Announcing
<1>5. /\ ~ Running(t) /\ ~ Running(t)' /\ ~ Telling(t) /\ ~ Telling(t)'
  BY <1>a, <1>b, <1>2, <1>3, OpsAssumption DEF ThreadOK, Running, Telling, Notifying
<1>6. \A u \in Threads : Holds(u)' <=> Holds(u)
  BY <1>3, <1>5, OthersHold DEF Holds
<1>7. ASSUME NEW p \in Ops PROVE OpOK(p)'
  <2>1. p \in awaited' => p \in awaited \/ p \notin operations
    BY <1>a, <1>b, <1>2
  <2>2. p \in operations' /\ p \notin operations => p \in awaited'
    BY <1>a, <1>b, <1>2
  <2> QED BY <1>a, <1>b, <1>2, <1>3, <2>1, <2>2 DEF OpOK, SetsOK, StartedOK, RunOK, Fresh
<1>8. ASSUME NEW u \in Threads PROVE HolderOK(u)'
  <2>1. CASE u = t
    BY <2>1, <1>b, <1>2, <1>5 DEF HolderOK
  <2>2. CASE u # t
    BY <2>2, <1>a, <1>b, <1>2, <1>3, <1>4, OthersHold DEF HolderOK
  <2> QED BY <2>1, <2>2
<1>9. OneHolder' /\ NoneAstray' /\ HandedOnce'
  BY <1>a, <1>b, <1>2, <1>6 DEF PlaceInv, OneHolder, NoneAstray, HandedOnce
<1> QED BY <1>7, <1>8, <1>9 DEF PlaceInv

LEMMA StartedPlaces ==
  ASSUME Types, ThreadInv, PlaceInv, NEW t \in Threads, NEW o \in Ops,
         StartFirst(t, o)
  PROVE  PlaceInv'
<1> USE DEF Types, ThreadType
<1>1. /\ UNCHANGED <<finished, operations, awaited, lock, resume, cur, todo,
                     byHand>>
      /\ o \in waiting /\ waiting' = waiting \ {o}
      /\ watched' = watched \cup {o}
  BY DEF StartFirst, First
<1>2. \/ /\ async' = async \cup {o} /\ Handed' = Handed /\ o \in Concurrent
         /\ isExecuting' = [isExecuting EXCEPT ![o] = TRUE]
         /\ mains' = [mains EXCEPT ![o] = @ + 1]
         /\ UNCHANGED <<starting, pc>>
      \/ /\ starting' = Append(starting, o) /\ Handed' = Handed \cup {o}
         /\ UNCHANGED <<async, isExecuting, mains>> /\ o \notin Concurrent
         /\ \/ UNCHANGED pc
            \/ \E w \in Workers : /\ pc[w] = "gone"
                                  /\ pc' = [pc EXCEPT ![w] = "idle"]
  <2>1. CASE o \in Concurrent
    <3>1. starting' = starting
      BY <2>1 DEF StartFirst, poolVars
    <3>2. Handed' = Handed
      BY <3>1 DEF Handed
    <3> QED BY <2>1, <3>1, <3>2 DEF StartFirst
  <2>2. CASE o \notin Concurrent
    <3>1. Hand(t, o) /\ UNCHANGED <<async, isExecuting, mains>>
      BY <2>2 DEF StartFirst
    <3>2. starting' = Append(starting, o)
      BY <3>1 DEF Hand
    <3>3. Handed' = Handed \cup {o}
      BY <3>2, HandedAppend
    <3> QED BY <2>2, <3>1, <3>2, <3>3 DEF Hand
  <2> QED BY <2>1, <2>2
<1>3. /\ \A u \in Threads : ThreadOK(u) /\ HolderOK(u)
      /\ \A p \in Ops : OpOK(p)
  BY DEF ThreadInv, PlaceInv
<1>4. /\ o \notin byHand => Fresh(o)
      /\ o \notin watched \cup awaited \cup Handed \cup async
      /\ o \in operations
  BY <1>1, <1>3 DEF OpOK, SetsOK, StartedOK, RunOK
<1>5. ASSUME NEW u \in Threads
      PROVE  /\ Running(u)' <=> Running(u)
             /\ Telling(u)' <=> Telling(u)
             /\ Holds(u)' <=> Holds(u)
             /\ Announcing(u)' <=> Announcing(u)
             /\ pc'[u] = "taken" => pc[u] = "taken"
             /\ pc'[u] = "main" => pc[u] = "main"
             /\ pc[u] = "taken" => Running(u)
             /\ Running(u) => cur[u] \in Ops
             /\ Running(u) /\ cur[u] \notin byHand => cur[u] # o
  <2>1. pc'[u] = pc[u] \/ (pc[u] = "gone" /\ pc'[u] = "idle")
    BY <1>2
  <2>2. Running(u) => cur[u] \in Ops /\ (cur[u] \notin byHand => cur[u] # o)
    BY <1>3, <1>4 DEF HolderOK, ThreadOK
  <2> QED BY <2>1, <2>2, <1>1 DEF Running, Telling, Holds, Announcing
<1>6. ASSUME NEW p \in Ops PROVE OpOK(p)'
  <2>1. CASE p = o
    <3>1. SetsOK(o)'
      BY <1>1, <1>4 DEF SetsOK
    <3>2. /\ o \in byHand => isExecuting'[o] = isExecuting[o]
          /\ o \notin byHand => mains'[o] <= 1 /\ ~ finished[o]
                                /\ (o \in Handed' => Fresh(o)')
      BY <1>1, <1>2, <1>3, <1>4 DEF OpType, OpOK, RunOK, Fresh
    <3>3. StartedOK(o)'
      BY <1>1, <1>2, <1>3, <1>4, <3>2 DEF OpOK, StartedOK, RunOK
    <3>4. RunOK(o)'
      BY <1>1, <1>2, <1>3, <1>4, <3>2 DEF OpOK, RunOK
    <3> QED BY <2>1, <3>1, <3>3, <3>4 DEF OpOK
  <2>2. CASE p # o
    <3>1. isExecuting'[p] = isExecuting[p] /\ mains'[p] = mains[p]
          /\ finished'[p] = finished[p]
      BY <1>1, <1>2, <2>2 DEF OpType
    <3> QED BY <3>1, <1>1, <1>2, <1>3, <2>2
            DEF OpOK, SetsOK, StartedOK, RunOK, Fresh
  <2> QED BY <2>1, <2>2
<1>7. ASSUME NEW u \in Threads PROVE HolderOK(u)'
  <2>1. Running(u) /\ cur[u] \notin byHand => mains'[cur[u]] = mains[cur[u]]
    BY <1>2, <1>5 DEF OpType
  <2> QED BY <2>1, <1>1, <1>2, <1>3, <1>5 DEF HolderOK
<1>8. OneHolder' /\ NoneAstray'
  BY <1>1, <1>2, <1>5 DEF PlaceInv, OneHolder, NoneAstray
<1>9. HandedOnce'
  BY <1>2, <1>4, HandedAppend DEF PlaceInv, HandedOnce
<1> QED BY <1>6, <1>7, <1>8, <1>9 DEF PlaceInv

LEMMA TakenPlaces ==
  ASSUME Types, ThreadInv, PlaceInv, NEW w \in Workers, Take(w), starting # <<>>
  PROVE  PlaceInv'
<1> USE AreThreads DEF Types, ThreadType
<1> DEFINE o == Head(starting)
<1>1. /\ UNCHANGED <<isExecuting, finished, mains, operations, awaited,
                     waiting, watched, async, resume, todo, lock, byHand>>
      /\ pc[w] = "idle" /\ pc'[w] = "taken" /\ cur'[w] = o
      /\ starting' = Tail(starting)
  BY DEF Take, opVars, queueVars, histVars, Rest
<1>2. /\ o \in Handed /\ Handed' = Handed \ {o} /\ HandedOnce'
  BY <1>1, HandedTail DEF PlaceInv
<1>3. /\ \A u \in Threads : ThreadOK(u) /\ HolderOK(u)
      /\ \A p \in Ops : OpOK(p)
      /\ \A u \in Threads \ {w} : Undisturbed(u)
      /\ o \in Ops
  BY <1>2, OthersUndisturbed DEF ThreadInv, PlaceInv, Handed, PoolType
<1> HIDE DEF o
<1>4. /\ o \notin async
      /\ o \notin byHand => o \in watched /\ Fresh(o)
  BY <1>2, <1>3 DEF OpOK, StartedOK, RunOK
<1>5. /\ ~ Holds(w) /\ Running(w)' /\ ~ Telling(w)' /\ ~ Announcing(w)'
      /\ w \notin Clients
  BY <1>1, <1>3, ThreadsAssumption
  DEF ThreadOK, Holds, Running, Telling, Notifying, Announcing
<1>6. \A u \in Threads : Holds(u) /\ cur[u] \notin byHand => cur[u] # o
  BY <1>2, <1>3, <1>4 DEF HolderOK, Holds, ThreadOK, Telling, Fresh
<1>7. \A p \in Ops : OpOK(p)'
  BY <1>1, <1>2, <1>3 DEF OpOK, SetsOK, StartedOK, RunOK, Fresh
<1>8. ASSUME NEW u \in Threads PROVE HolderOK(u)'
  <2>1. CASE u = w
    BY <2>1, <1>1, <1>2, <1>4, <1>5 DEF HolderOK, Fresh
  <2>2. CASE u # w
    <3>1. /\ Running(u)' <=> Running(u)
          /\ Telling(u)' <=> Telling(u)
          /\ Announcing(u)' <=> Announcing(u)
          /\ cur'[u] = cur[u] /\ todo'[u] = todo[u] /\ pc'[u] = pc[u]
      BY <2>2, <1>3 DEF Undisturbed, Running, Telling, Announcing
    <3>2. HolderOK(u) /\ (cur[u] \notin Handed => cur[u] \notin Handed')
      BY <1>2, <1>3
    <3>3. UNCHANGED <<finished, mains, operations, awaited, watched, async, byHand>>
      BY <1>1
    <3> QED BY <3>1, <3>2, <3>3 DEF HolderOK
  <2> QED BY <2>1, <2>2
<1>9. OneHolder'
  BY <1>1, <1>3, <1>5, <1>6, OthersHold DEF PlaceInv, OneHolder
<1>10. NoneAstray'
  <2>1. Holds(w)'
    BY <1>5 DEF Holds
  <2>2. ASSUME NEW p \in watched \ byHand
        PROVE  p \in Handed' \cup async \/ \E u \in Threads : Holds(u)' /\ cur'[u] = p
    <3>1. p \in Handed \cup async \/ \E u \in Threads \ {w} : Holds(u) /\ cur[u] = p
      BY <1>5 DEF PlaceInv, NoneAstray
    <3>2. p = o => Holds(w)' /\ cur'[w] = p
      BY <2>1, <1>1
    <3>3. \A u \in Threads \ {w} : Holds(u) => Holds(u)' /\ cur'[u] = cur[u]
      BY <1>3, OthersHold
    <3> QED BY <3>1, <3>2, <3>3, <1>2
  <2> QED BY <2>2, <1>1 DEF NoneAstray
<1> QED BY <1>2, <1>7, <1>8, <1>9, <1>10 DEF PlaceInv

(* The steps that only say who has an operation, and what it has done.      *)
LEMMA HeldPlaces ==
  ASSUME Types, ThreadInv, PlaceInv, NEW t \in Threads, NEW o \in Ops,
         Start(t, o) \/ FinishConcurrent(t, o)
  PROVE  PlaceInv'
<1> USE DEF Types, ThreadType
<1>1. /\ UNCHANGED <<finished, mains, operations, awaited, waiting, watched,
                     starting, resume, todo, lock>>
      /\ Handed' = Handed
      /\ pc[t] = "free" /\ pc'[t] \in {"taken", "finishing"} /\ cur'[t] = o
  BY DEF Start, FinishConcurrent, queueVars, opVars, poolVars, histVars, Handed
<1>2. /\ \A u \in Threads : ThreadOK(u) /\ HolderOK(u)
      /\ \A p \in Ops : OpOK(p)
      /\ \A u \in Threads \ {t} : Undisturbed(u)
  BY OthersUndisturbed DEF ThreadInv, PlaceInv
<1>3. /\ ~ Holds(t) /\ Running(t)' /\ Holds(t)' /\ ~ Telling(t)' /\ ~ Announcing(t)'
  BY <1>1, <1>2 DEF ThreadOK, Holds, Running, Telling, Notifying, Announcing
<1>4. CASE Start(t, o)
  <2>1. /\ UNCHANGED async /\ byHand' = byHand \cup {o}
        /\ isExecuting' = [isExecuting EXCEPT ![o] = TRUE]
        /\ ~ isExecuting[o] /\ ~ finished[o] /\ o \notin Concurrent
    BY <1>4 DEF Start, queueVars
  <2>2. ASSUME NEW p \in Ops PROVE OpOK(p)'
    <3>1. CASE p = o
      BY <3>1, <1>1, <1>2, <2>1
      DEF OpOK, SetsOK, StartedOK, RunOK, Fresh, OpType
    <3>2. CASE p # o
      <4>1. isExecuting'[p] = isExecuting[p] /\ (p \in byHand' <=> p \in byHand)
        BY <3>2, <2>1 DEF OpType
      <4> QED BY <4>1, <1>1, <1>2, <2>1
              DEF OpOK, SetsOK, StartedOK, RunOK, Fresh
    <3> QED BY <3>1, <3>2
  <2>3. ASSUME NEW u \in Threads PROVE HolderOK(u)'
    <3>1. CASE u = t
      BY <3>1, <1>1, <1>3, <2>1 DEF HolderOK
    <3>2. CASE u # t
      BY <3>2, <1>1, <1>2, <2>1, OthersHold DEF HolderOK
    <3> QED BY <3>1, <3>2
  <2>4. OneHolder'
    BY <1>1, <1>2, <2>1, OthersHold DEF PlaceInv, OneHolder
  <2>5. NoneAstray' /\ HandedOnce'
    BY <1>1, <1>2, <1>3, <2>1, OthersHold DEF PlaceInv, NoneAstray, HandedOnce
  <2> QED BY <2>2, <2>3, <2>4, <2>5 DEF PlaceInv
<1>5. CASE FinishConcurrent(t, o)
  <2>1. /\ UNCHANGED <<isExecuting, byHand>>
        /\ async' = async \ {o} /\ o \in async /\ pc'[t] = "finishing"
    BY <1>5 DEF FinishConcurrent, opVars, histVars
  <2>2. o \in watched /\ o \notin Handed /\ ~ finished[o] /\ o \notin byHand
    BY <2>1, <1>2 DEF OpOK, StartedOK, RunOK
  <2>3. \A u \in Threads : Holds(u) => cur[u] # o
    BY <2>1, <2>2, <1>2 DEF HolderOK, Holds, ThreadOK, Telling
  <2>4. ASSUME NEW p \in Ops PROVE OpOK(p)'
    BY <1>1, <1>2, <2>1 DEF OpOK, SetsOK, StartedOK, RunOK, Fresh
  <2>5. ASSUME NEW u \in Threads PROVE HolderOK(u)'
    <3>1. CASE u = t
      BY <3>1, <1>1, <1>3, <2>1, <2>2 DEF HolderOK
    <3>2. CASE u # t
      BY <3>2, <1>1, <1>2, <2>1, OthersHold DEF HolderOK
    <3> QED BY <3>1, <3>2
  <2>6. OneHolder'
    BY <1>1, <1>2, <1>3, <2>1, <2>3, OthersHold DEF PlaceInv, OneHolder
  <2>7. NoneAstray' /\ HandedOnce'
    BY <1>1, <1>2, <1>3, <2>1, OthersHold DEF PlaceInv, NoneAstray, HandedOnce
  <2> QED BY <2>4, <2>5, <2>6, <2>7 DEF PlaceInv
<1> QED BY <1>4, <1>5

LEMMA EnteredPlaces ==
  ASSUME Types, ThreadInv, PlaceInv, NEW t \in Threads, EnterMain(t)
  PROVE  PlaceInv'
<1> USE DEF Types, ThreadType
<1> DEFINE o == cur[t]
<1>1. /\ UNCHANGED <<isExecuting, finished, operations, awaited, waiting,
                     watched, async, starting, resume, cur, todo, byHand>>
      /\ Handed' = Handed
      /\ pc[t] = "taken" /\ pc'[t] \in {"main", "finishing"}
      /\ mains' \in {mains, [mains EXCEPT ![o] = @ + 1]}
  BY DEF EnterMain, queueVars, opVars, poolVars, Handed
<1>2. /\ \A u \in Threads : ThreadOK(u) /\ HolderOK(u)
      /\ \A p \in Ops : OpOK(p)
      /\ \A u \in Threads \ {t} : Undisturbed(u)
  BY OthersUndisturbed DEF ThreadInv, PlaceInv
<1>3. /\ o \in Ops /\ Running(t) /\ Running(t)' /\ ~ Announcing(t)'
      /\ o \notin byHand => /\ mains[o] = 0 /\ ~ finished[o] /\ o \in watched
                            /\ o \notin Handed \cup async
  BY <1>1, <1>2 DEF ThreadOK, HolderOK, Running, Announcing
<1>4. o \notin byHand => o \notin awaited \cup waiting /\ o \in operations
  BY <1>3, <1>2 DEF OpOK, SetsOK
<1>5. \A u \in Threads : /\ Running(u)' <=> Running(u)
                         /\ Telling(u)' <=> Telling(u)
                         /\ Holds(u)' <=> Holds(u)
  BY <1>1, <1>2, <1>3, OthersHold DEF Telling, Holds
<1>6. \A u \in Threads \ {t} : Holds(u) /\ cur[u] \notin byHand => cur[u] # o
  BY <1>3 DEF PlaceInv, OneHolder, Holds
<1> HIDE DEF o
<1>7. ASSUME NEW p \in Ops PROVE OpOK(p)'
  <2>1. CASE p = o
    BY <2>1, <1>1, <1>2, <1>3, <1>4
    DEF OpOK, SetsOK, StartedOK, RunOK, Fresh, OpType
  <2>2. CASE p # o
    <3>1. mains'[p] = mains[p]
      BY <2>2, <1>1 DEF OpType
    <3> QED BY <3>1, <1>1, <1>2 DEF OpOK, SetsOK, StartedOK, RunOK, Fresh
  <2> QED BY <2>1, <2>2
<1>8. ASSUME NEW u \in Threads PROVE HolderOK(u)'
  <2>1. CASE u = t
    BY <2>1, <1>1, <1>2, <1>3, <1>5 DEF HolderOK, o
  <2>2. CASE u # t
    <3>1. Running(u) /\ cur[u] \notin byHand => mains'[cur[u]] = mains[cur[u]]
      BY <2>2, <1>1, <1>2, <1>6 DEF Holds, ThreadOK, OpType
    <3>2. pc[u] = "taken" => Running(u)
      BY DEF Running
    <3> QED BY <2>2, <3>1, <3>2, <1>1, <1>2, <1>5, OthersHold DEF HolderOK
  <2> QED BY <2>1, <2>2
<1>9. OneHolder' /\ NoneAstray' /\ HandedOnce'
  BY <1>1, <1>5 DEF PlaceInv, OneHolder, NoneAstray, HandedOnce
<1> QED BY <1>7, <1>8, <1>9 DEF PlaceInv

LEMMA FinishedPlaces ==
  ASSUME Types, ThreadInv, PlaceInv, NEW t \in Threads, Finish(t),
         ~ finished[cur[t]]
  PROVE  PlaceInv'
<1> USE DEF Types, ThreadType
<1> DEFINE o == cur[t]
<1>1. /\ UNCHANGED <<mains, operations, awaited, waiting, watched, async,
                     starting, resume, cur, lock, byHand>>
      /\ Handed' = Handed
      /\ pc[t] = "finishing" /\ pc'[t] = "notifying"
  BY DEF Finish, queueVars, poolVars, histVars, Handed
<1>2. /\ \A u \in Threads : ThreadOK(u) /\ HolderOK(u)
      /\ \A p \in Ops : OpOK(p)
      /\ \A u \in Threads \ {t} : Undisturbed(u)
  BY OthersUndisturbed DEF ThreadInv, PlaceInv
<1>3. /\ o \in Ops /\ Running(t) /\ ~ Telling(t)
      /\ o \notin byHand => o \in watched /\ o \notin Handed \cup async
      /\ o \in async => o \notin byHand
  BY <1>1, <1>2
  DEF ThreadOK, HolderOK, Running, Telling, Notifying, OpOK, StartedOK, RunOK
<1>4. /\ finished' = [finished EXCEPT ![o] = TRUE]
      /\ isExecuting' = [isExecuting EXCEPT ![o] = @ /\ o \notin Concurrent]
      /\ Telling(t)' <=> o \in watched
  BY OpsAssumption DEF Finish, Telling
<1>5. /\ ~ Running(t)' /\ ~ Announcing(t)'
  BY <1>1 DEF Running, Announcing
<1>6. \A u \in Threads \ {t} : Holds(u) /\ cur[u] \notin byHand => cur[u] # o
  BY <1>3 DEF PlaceInv, OneHolder, Holds
<1> HIDE DEF o
<1>7. ASSUME NEW p \in Ops PROVE OpOK(p)'
  <2>1. CASE p = o
    <3>1. finished'[o] /\ isExecuting'[o] = (isExecuting[o] /\ o \notin Concurrent)
      BY <1>3, <1>4 DEF OpType
    <3> QED BY <2>1, <3>1, <1>1, <1>2, <1>3
            DEF OpOK, SetsOK, StartedOK, RunOK, Fresh
  <2>2. CASE p # o
    <3>1. finished'[p] = finished[p] /\ isExecuting'[p] = isExecuting[p]
      BY <2>2, <1>4 DEF OpType
    <3> QED BY <3>1, <1>1, <1>2 DEF OpOK, SetsOK, StartedOK, RunOK, Fresh
  <2> QED BY <2>1, <2>2
<1>8. ASSUME NEW u \in Threads PROVE HolderOK(u)'
  <2>1. CASE u = t
    BY <2>1, <1>1, <1>4, <1>5 DEF HolderOK, o
  <2>2. CASE u # t
    <3>1. Running(u) /\ cur[u] \notin byHand => finished'[cur[u]] = finished[cur[u]]
      BY <2>2, <1>2, <1>4, <1>6 DEF ThreadOK, Holds, OpType
    <3> QED BY <2>2, <3>1, <1>1, <1>2, OthersHold DEF HolderOK
  <2> QED BY <2>1, <2>2
<1>9. OneHolder'
  BY <1>1, <1>2, <1>3, OthersHold DEF PlaceInv, OneHolder, Holds
<1>10. NoneAstray'
  BY <1>1, <1>2, <1>4, OthersHold DEF PlaceInv, NoneAstray, Holds, o
<1>11. HandedOnce'
  BY <1>1 DEF PlaceInv, HandedOnce
<1> QED BY <1>7, <1>8, <1>9, <1>10, <1>11 DEF PlaceInv

LEMMA PlaceInvKept ==
  Types /\ ThreadInv /\ LockInv /\ PlaceInv /\ [Next]_vars => PlaceInv'
<1> SUFFICES ASSUME Types, ThreadInv, LockInv, PlaceInv, [Next]_vars
             PROVE  PlaceInv'
  OBVIOUS
<1>0. Quiet => PlaceInv'
  BY QuietKeepsPlaces
<1>1. ASSUME NEW t \in Clients, Program(t)
      PROVE  PlaceInv'
  <2>1. ASSUME NEW new \in Batches, AddOperations(t, new)
        PROVE  PlaceInv'
    BY <2>1, <1>0, AreThreads, QuietSteps, ProgramAssumption
  <2>2. ASSUME NEW o, NEW d,
               \/ AddDependency(t, o, d) \/ RemoveDependency(t, o, d)
               \/ Cancel(t, o) \/ SetQueuePriority(t, o)
               \/ SetSuspended(t) \/ SetMaxConcurrentOperationCount(t)
        PROVE  PlaceInv'
    BY <2>2, <1>0, AreThreads, QuietSteps
  <2>3. ASSUME NEW o \in Ops, Start(t, o) \/ AddOperation(t, o)
        PROVE  PlaceInv'
    BY <2>3, AreThreads, HeldPlaces, AddedPlaces
  <2> QED BY <1>1, <2>1, <2>2, <2>3 DEF Program
<1>2. ASSUME NEW t \in Threads, Work(t)
      PROVE  PlaceInv'
  <2>1. CASE MakeReady(t)
    BY <2>1, <1>0, QuietSteps, SeenPlaces
  <2>2. CASE Finish(t)
    BY <2>2, <1>0, QuietSteps, FinishedPlaces
  <2>3. ASSUME NEW o \in Ops,
               \/ Announce(t, o) \/ StartFirst(t, o) \/ FinishConcurrent(t, o)
               \/ TellDependent(t, o)
        PROVE  PlaceInv'
    BY <2>3, <1>0, QuietSteps, SeenPlaces, StartedPlaces, HeldPlaces
  <2>4. CASE \/ LeaveMain(t) \/ Finished(t) \/ Depend(t) \/ Execute(t)
             \/ Executed(t)
    BY <2>4, <1>0, QuietSteps
  <2>5. CASE EnterMain(t) \/ TellQueue(t) \/ Insert(t)
    BY <2>5, EnteredPlaces, ToldPlaces, AddedPlaces
  <2> QED BY <1>2, <2>1, <2>2, <2>3, <2>4, <2>5 DEF Work
<1>3. ASSUME NEW w \in Workers, Pool(w)
      PROVE  PlaceInv'
  <2>1. CASE Take(w)
    BY <2>1, <1>0, AreThreads, QuietSteps, TakenPlaces
  <2>2. CASE TimeOut(w) \/ Exit(w)
    BY <2>2, <1>0, AreThreads, QuietSteps
  <2> QED BY <1>3, <2>1, <2>2 DEF Pool
<1>4. CASE UNCHANGED vars
  <2>1. Quiet
    BY <1>4
    DEF Quiet, vars, opVars, queueVars, poolVars, threadVars, histVars, PlaceInv,
        HolderOK, Running, Telling, Announcing, Holds
  <2> QED BY <2>1, <1>0
<1> QED BY <1>1, <1>2, <1>3, <1>4 DEF Next

LEMMA PlaceInvInit == Init => PlaceInv
<1> SUFFICES ASSUME Init PROVE PlaceInv
  OBVIOUS
<1>1. Handed = {}
  BY DEF Init, Handed
<1>2. \A t \in Threads : ~ Running(t) /\ ~ Telling(t) /\ ~ Announcing(t)
                         /\ pc[t] \notin {"taken", "main"}
  BY DEF Init, Running, Telling, Announcing
<1>3. \A o \in Ops : OpOK(o)
  BY <1>1 DEF Init, OpOK, SetsOK, StartedOK, RunOK, Fresh
<1>4. \A t \in Threads : HolderOK(t)
  BY <1>2 DEF HolderOK
<1>5. OneHolder /\ NoneAstray /\ HandedOnce
  BY <1>2 DEF Init, OneHolder, NoneAstray, HandedOnce, Holds
<1> QED BY <1>3, <1>4, <1>5 DEF PlaceInv

LEMMA PlacesInvariant ==
  SafeSpec => [](Types /\ ThreadInv /\ LockInv /\ PlaceInv)
BY LocksInvariant, PlaceInvInit, PlaceInvKept, PTL DEF SafeSpec

(* Between being added and having finished, whatever the threads do and     *)
(* whoever cancels it, makes it ready or adds it again, an operation of the *)
(* queue is in one place from which it goes on: observed, waiting, or       *)
(* started and then - unless the program has started it itself - with the   *)
(* pool, with a thread or about to be taken off the queue.                  *)
THEOREM NoOperationIsLost == SafeSpec => []NoOperationLost
<1>1. Types /\ ThreadInv /\ PlaceInv => NoOperationLost
  <2> SUFFICES ASSUME Types, ThreadInv, PlaceInv PROVE NoOperationLost
    OBVIOUS
  <2> DEFINE going == Handed \cup async \cup
                        UNION {RunBy(t) \cup ToldBy(t) : t \in Threads}
  <2>1. /\ \A o \in Ops : SetsOK(o) /\ StartedOK(o)
        /\ \A t \in Threads : HolderOK(t)
        /\ Handed \subseteq Ops /\ async \subseteq Ops
        /\ awaited \cup waiting \cup watched \cup operations \subseteq Ops
    BY DEF PlaceInv, OpOK, Types, QueueType, PoolType, Handed
  <2>2. /\ waiting \cup watched \subseteq operations
        /\ operations \subseteq awaited \cup waiting \cup watched
        /\ awaited \cap waiting = {}
        /\ (awaited \cup waiting) \cap watched = {}
        /\ \A o \in awaited \ operations : finished[o]
    BY <2>1 DEF SetsOK
  <2>3. ASSUME NEW o
        PROVE  o \in going <=> \/ o \in Handed \cup async
                               \/ \E t \in Threads : Holds(t) /\ cur[t] = o
    BY DEF RunBy, ToldBy, Holds, Running, Telling
  <2>4. ASSUME NEW o, o \notin byHand
        PROVE  o \in watched <=> o \in going
    <3>1. o \in watched => o \in going
      BY <2>3, <2>4 DEF PlaceInv, NoneAstray
    <3>2. o \in Handed \cup async => o \in watched
      BY <2>1, <2>4 DEF StartedOK
    <3>3. ASSUME NEW t \in Threads, Holds(t), cur[t] = o PROVE o \in watched
      BY <2>1, <2>4, <3>3 DEF HolderOK, Holds
    <3> QED BY <2>3, <3>1, <3>2, <3>3
  <2>5. watched \ byHand = going \ byHand
    BY <2>4
  <2> QED BY <2>2, <2>5 DEF NoOperationLost
<1> QED BY PlacesInvariant, <1>1, PTL

(* However the program adds, cancels and finishes operations, and whatever  *)
(* it starts itself, no other is entered twice, run by two threads or run   *)
(* once it has finished.                                                    *)
THEOREM OperationsRunOnce == SafeSpec => []RunsOnce
<1>1. Types /\ ThreadInv /\ PlaceInv => RunsOnce
  <2> SUFFICES ASSUME Types, ThreadInv, PlaceInv PROVE RunsOnce
    OBVIOUS
  <2>1. \A t \in Threads : RunBy(t) = IF Running(t) THEN {cur[t]} ELSE {}
    BY DEF RunBy, Running
  <2>2. \A o \in Ops \ byHand : mains[o] <= 1
    BY DEF PlaceInv, OpOK, RunOK
  <2>3. ASSUME NEW t \in Threads, NEW u \in Threads, t # u
        PROVE  RunBy(t) \cap RunBy(u) \subseteq byHand
    BY <2>1, <2>3 DEF PlaceInv, OneHolder, Holds
  <2>4. \A t \in Threads : \A o \in RunBy(t) \ byHand : ~ finished[o]
    BY <2>1 DEF PlaceInv, HolderOK
  <2> QED BY <2>2, <2>3, <2>4 DEF RunsOnce
<1> QED BY PlacesInvariant, <1>1, PTL

--------------------------------------------------------------------------
(* The threads of the pool that there are.                                  *)
Alive == {w \in Workers : pc[w] # "gone"}

CountInv ==
  /\ IsFiniteSet(watched) /\ executing = Cardinality(watched) - strays
  /\ threadCount = Cardinality(Alive)
  /\ cond = 1 <=> starting # <<>>

(* Only the pool's own steps make a thread or end one.                      *)
LEMMA AliveKept ==
  ASSUME Types, ThreadInv, NEW t \in Threads, NEW o, NEW d, NEW new,
         \/ AddDependency(t, o, d) \/ RemoveDependency(t, o, d) \/ Cancel(t, o)
         \/ SetQueuePriority(t, o) \/ Start(t, o) \/ AddOperation(t, o)
         \/ AddOperations(t, new) \/ Insert(t) \/ Depend(t) \/ MakeReady(t)
         \/ SetSuspended(t) \/ SetMaxConcurrentOperationCount(t)
         \/ EnterMain(t) \/ LeaveMain(t) \/ Finish(t) \/ Finished(t)
         \/ TellDependent(t, o) \/ Announce(t, o) \/ FinishConcurrent(t, o)
         \/ TellQueue(t) \/ Execute(t) \/ Executed(t) \/ Take(t) \/ TimeOut(t)
  PROVE  Alive' = Alive
<1>1. \A u \in Threads \ {t} : pc'[u] = pc[u]
  BY OthersUndisturbed DEF Undisturbed
<1> USE DEF Types, ThreadType
<1>2. pc[t] # "gone" /\ pc'[t] # "gone"
  <2>1. CASE \/ AddOperation(t, o) \/ Insert(t) \/ Depend(t) \/ MakeReady(t)
    BY <2>1 DEF AddOperation, Insert, Enter, Depend, MakeReady, ThenExecute, Keep
  <2>2. CASE ~ (\/ AddOperation(t, o) \/ Insert(t) \/ Depend(t) \/ MakeReady(t))
    BY <2>2 DEF AddDependency, RemoveDependency, Cancel, SetQueuePriority,
       Start, AddOperations, SetSuspended, SetMaxConcurrentOperationCount,
       EnterMain, LeaveMain, Finish, Finished, TellDependent, Announce,
       FinishConcurrent, TellQueue, Execute, Executed, Take, TimeOut,
       BeginReady, ThenExecute, Keep, threadVars, Home
  <2> QED BY <2>1, <2>2
<1> QED BY <1>1, <1>2, AreThreads DEF Alive

LEMMA WatchedKept ==
  ASSUME NEW t, NEW o, NEW d, NEW new,
         \/ AddDependency(t, o, d) \/ RemoveDependency(t, o, d) \/ Cancel(t, o)
         \/ SetQueuePriority(t, o) \/ Start(t, o) \/ AddOperation(t, o)
         \/ AddOperations(t, new) \/ Insert(t) \/ Depend(t)
         \/ SetSuspended(t) \/ SetMaxConcurrentOperationCount(t)
         \/ EnterMain(t) \/ LeaveMain(t) \/ Finish(t) \/ Finished(t)
         \/ TellDependent(t, o) \/ FinishConcurrent(t, o)
         \/ Execute(t) \/ Executed(t) \/ Take(t) \/ TimeOut(t) \/ Exit(t)
  PROVE  UNCHANGED <<watched, executing, strays>>
BY DEF AddDependency, RemoveDependency, Cancel, SetQueuePriority, Start,
       AddOperation, AddOperations, Insert, Depend, SetSuspended,
       SetMaxConcurrentOperationCount, EnterMain, LeaveMain, Finish, Finished,
       TellDependent, FinishConcurrent, Execute, Executed, Take, TimeOut, Exit,
       queueVars, histVars

(* The queue takes one off its count for one it takes off those it watches, *)
(* and one for each that was never among them.                              *)
LEMMA SeenCount ==
  ASSUME QueueType, CountInv, NEW o, NEW r, QueueSees(o, r)
  PROVE  IsFiniteSet(watched') /\ executing' = Cardinality(watched') - strays'
<1>1. /\ IsFiniteSet(watched) /\ executing = Cardinality(watched) - strays
      /\ strays \in Nat /\ Cardinality(watched) \in Nat
  BY FS_CardinalityType DEF CountInv, QueueType
<1>2. CASE finished[o]
  <2>1. /\ watched' = watched \ {o} /\ executing' = executing - 1
        /\ strays' = IF o \in watched THEN strays ELSE strays + 1
    BY <1>2 DEF QueueSees
  <2>2. CASE o \in watched
    <3>1. /\ IsFiniteSet(watched')
          /\ Cardinality(watched') = Cardinality(watched) - 1
      BY <2>1, <2>2, <1>1, FS_RemoveElement
    <3> QED BY <2>1, <2>2, <3>1, <1>1
  <2>3. CASE o \notin watched
    <3>1. watched' = watched
      BY <2>1, <2>3
    <3>2. /\ IsFiniteSet(watched')
          /\ Cardinality(watched') = Cardinality(watched)
      BY <3>1, <1>1
    <3>3. strays' = strays + 1
      BY <2>1, <2>3
    <3> QED BY <2>1, <3>2, <3>3, <1>1
  <2> QED BY <2>2, <2>3
<1>3. CASE ~ finished[o]
  BY <1>3 DEF QueueSees, CountInv
<1> QED BY <1>2, <1>3

LEMMA CountInvKept ==
  Types /\ ThreadInv /\ PlaceInv /\ CountInv /\ [Next]_vars => CountInv'
<1> SUFFICES ASSUME Types, ThreadInv, PlaceInv, CountInv, [Next]_vars
             PROVE  CountInv'
  OBVIOUS
<1> USE AreThreads
<1>a. IsFiniteSet(Alive)
  BY ThreadsAssumption, FS_Subset DEF Alive
<1>b. UNCHANGED poolVars => UNCHANGED <<threadCount, starting, cond>>
  BY DEF poolVars
<1>1. ASSUME NEW t \in Threads, NEW o, NEW d, NEW new,
         \/ AddDependency(t, o, d) \/ RemoveDependency(t, o, d) \/ Cancel(t, o)
         \/ SetQueuePriority(t, o) \/ Start(t, o) \/ AddOperation(t, o)
         \/ AddOperations(t, new) \/ Insert(t) \/ Depend(t)
         \/ SetSuspended(t) \/ SetMaxConcurrentOperationCount(t)
         \/ EnterMain(t) \/ LeaveMain(t) \/ Finish(t) \/ Finished(t)
         \/ TellDependent(t, o) \/ FinishConcurrent(t, o)
         \/ Execute(t) \/ Executed(t) \/ TimeOut(t)
      PROVE  CountInv'
  BY <1>1, <1>b, AliveKept, WatchedKept, PoolUnchanged DEF CountInv
<1>2. ASSUME NEW t \in Threads, NEW o \in Ops, StartFirst(t, o)
      PROVE  CountInv'
  <2>1. /\ o \notin watched /\ watched' = watched \cup {o}
        /\ executing' = executing + 1 /\ UNCHANGED strays
    BY <1>2 DEF StartFirst, First, PlaceInv, OpOK, SetsOK
  <2>2. IsFiniteSet(watched') /\ executing' = Cardinality(watched') - strays'
    <3>1. /\ IsFiniteSet(watched) /\ executing = Cardinality(watched) - strays
          /\ strays \in Nat /\ Cardinality(watched) \in Nat
      BY FS_CardinalityType DEF CountInv, Types, QueueType
    <3>2. /\ IsFiniteSet(watched')
          /\ Cardinality(watched') = Cardinality(watched) + 1
      BY <2>1, <3>1, FS_AddElement
    <3> QED BY <2>1, <3>1, <3>2
  <2>3. threadCount' = Cardinality(Alive') /\ (cond' = 1 <=> starting' # <<>>)
    <3>1. CASE o \in Concurrent
      <4>1. UNCHANGED <<poolVars, pc>>
        BY <1>2, <3>1 DEF StartFirst
      <4>2. Alive' = Alive
        BY <4>1 DEF Alive
      <4> QED BY <4>1, <4>2, <1>b DEF CountInv
    <3>2. CASE o \notin Concurrent
      <4>1. /\ starting' = Append(starting, o) /\ cond' = 1
            /\ IF Needed
               THEN /\ threadCount' = threadCount + 1
                    /\ \E w \in Workers : /\ pc[w] = "gone"
                                          /\ pc' = [pc EXCEPT ![w] = "idle"]
               ELSE UNCHANGED <<threadCount, pc>>
        BY <1>2, <3>2 DEF StartFirst, Hand
      <4>2. starting' # <<>>
        BY <4>1 DEF Types, PoolType
      <4>3. threadCount' = Cardinality(Alive')
        <5>1. CASE Needed
          <6>1. PICK w \in Workers : /\ pc[w] = "gone"
                                     /\ pc' = [pc EXCEPT ![w] = "idle"]
            BY <4>1, <5>1
          <6>2. Alive' = Alive \cup {w} /\ w \notin Alive
            BY <6>1 DEF Alive, Types, ThreadType
          <6> QED BY <4>1, <5>1, <6>2, <1>a, FS_AddElement DEF CountInv
        <5>2. CASE ~ Needed
          BY <4>1, <5>2 DEF CountInv, Alive
        <5> QED BY <5>1, <5>2
      <4> QED BY <4>1, <4>2, <4>3
    <3> QED BY <3>1, <3>2
  <2> QED BY <2>2, <2>3 DEF CountInv
<1>3. ASSUME NEW t \in Threads, NEW o, Announce(t, o) \/ TellQueue(t) \/ MakeReady(t)
      PROVE  CountInv'
  <2>1. \/ UNCHANGED <<watched, executing, strays>>
        \/ \E p, r : QueueSees(p, r)
    BY <1>3 DEF Announce, TellQueue, MakeReady
  <2>2. IsFiniteSet(watched') /\ executing' = Cardinality(watched') - strays'
    BY <2>1, SeenCount DEF CountInv, Types
  <2>3. Alive' = Alive
    BY <1>3, AliveKept
  <2>4. UNCHANGED poolVars
    BY <1>3 DEF Announce, TellQueue, MakeReady
  <2> QED BY <2>2, <2>3, <2>4, <1>b DEF CountInv
<1>4. ASSUME NEW w \in Workers, Take(w)
      PROVE  CountInv'
  <2>1. Alive' = Alive /\ UNCHANGED <<watched, executing, strays>>
    BY <1>4, AliveKept, WatchedKept
  <2>2. /\ threadCount' = threadCount /\ starting # <<>>
        /\ starting' = Tail(starting) /\ cond' = CondFor(Len(starting'))
    BY <1>4 DEF Take, CountInv, Rest
  <2>3. cond' = 1 <=> starting' # <<>>
    <3>1. starting' \in Seq(Ops)
      BY <2>2 DEF Types, PoolType
    <3>2. Len(starting') \in Nat /\ (Len(starting') > 0 <=> starting' # <<>>)
      BY <3>1
    <3> QED BY <2>2, <3>2 DEF CondFor
  <2> QED BY <2>1, <2>2, <2>3 DEF CountInv
<1>5. ASSUME NEW w \in Workers, Exit(w)
      PROVE  CountInv'
  <2>1. Alive' = Alive \ {w} /\ w \in Alive
    BY <1>5 DEF Exit, Alive, Types, ThreadType
  <2>2. threadCount' = threadCount - 1 /\ UNCHANGED <<starting, cond>>
    BY <1>5 DEF Exit
  <2>3. threadCount' = Cardinality(Alive')
    BY <2>1, <2>2, <1>a, FS_RemoveElement DEF CountInv
  <2>4. UNCHANGED <<watched, executing, strays>>
    BY <1>5, WatchedKept
  <2> QED BY <2>2, <2>3, <2>4 DEF CountInv
<1>6. CASE UNCHANGED vars
  BY <1>6, <1>b DEF vars, queueVars, threadVars, histVars, CountInv, Alive
<1> QED
  BY <1>1, <1>2, <1>3, <1>4, <1>5, <1>6 DEF Next, Program, Work, Pool

(* The queue's count of the operations it started, by which it limits them, *)
(* and its count of the pool's threads, by which it makes more, are those   *)
(* of the operations and of the threads, however they end - but for each    *)
(* operation that was added when it had finished; and the pool's condition  *)
(* tells whether there is an operation to take.                             *)
THEOREM CountsAreExact == SafeSpec => []CountsExact
<1>1. Init => CountInv
  <2> SUFFICES ASSUME Init PROVE CountInv
    OBVIOUS
  <2>1. Alive = {} /\ watched = {}
    BY AreThreads DEF Init, Alive
  <2> QED BY <2>1, FS_EmptySet DEF Init, CountInv
<1>2. Types /\ ThreadInv /\ PlaceInv /\ CountInv /\ [Next]_vars => CountInv'
  BY CountInvKept
<1>3. CountInv => CountsExact
  <2>1. Alive \subseteq Workers
    BY DEF Alive
  <2>2. Cardinality(Alive) <= POOL
    BY <2>1, ThreadsAssumption, FS_Subset DEF POOL
  <2> QED BY <2>2 DEF CountInv, CountsExact, Alive
<1> QED BY PlacesInvariant, <1>1, <1>2, <1>3, PTL DEF SafeSpec

--------------------------------------------------------------------------
(* What must hold when -main is entered, if no dependency is added to an    *)
(* operation of the queue: an operation that is given one meanwhile is not  *)
(* the queue's and not started; one that is ready, or becoming so, has no   *)
(* other unfinished dependency; and one that was ready when it began to     *)
(* wait still is.                                                           *)
ApartInv ==
  \A t \in Threads :
    pc[t] = "depending" => ~ Queued(held[t]) /\ Pending(held[t])

DepInv ==
  /\ ApartInv
  /\ \A o \in Ops : ready[o] /\ ~ cancelled[o] =>
         \A e \in dependencies[o] : finished[e] \/ Depending(o, e)
  /\ \A t \in Threads : pc[t] = "readying" =>
         cancelled[held[t]] \/ AllFinished(dependencies[held[t]])
  /\ \A o \in waiting \cup Handed : ready[o]
  /\ \A t \in Threads : pc[t] = "taken" => ready[cur[t]]

(* An operation that is being given a dependency is not given to the queue. *)
LEMMA QueuedBefore ==
  ASSUME Types, ThreadInv, [Next]_vars, ~ LateDependencies,
         NEW u \in Threads, pc[u] = "depending", NEW o \in Ops, held[u] = o,
         Queued(o)'
  PROVE  Queued(o)
<1> USE AreThreads DEF Types, ThreadType
<1>a. ASSUME operations' \subseteq operations, NEW t \in Threads,
             pc'[t] = "adding" => o \notin todo'[t],
             \A w \in Threads \ {t} : Undisturbed(w)
      PROVE  Queued(o)
  BY <1>a DEF Queued, Undisturbed
<1>1. ASSUME NEW t \in Threads, NEW p, NEW d,
         \/ AddDependency(t, p, d) \/ RemoveDependency(t, p, d) \/ Cancel(t, p)
         \/ SetQueuePriority(t, p) \/ Start(t, p) \/ Depend(t) \/ MakeReady(t)
         \/ SetSuspended(t) \/ SetMaxConcurrentOperationCount(t)
         \/ EnterMain(t) \/ LeaveMain(t) \/ Finish(t) \/ Finished(t)
         \/ TellDependent(t, p) \/ Announce(t, p) \/ FinishConcurrent(t, p)
         \/ TellQueue(t) \/ Execute(t) \/ Executed(t) \/ Take(t) \/ TimeOut(t)
         \/ Exit(t)
      PROVE  Queued(o)
  <2>1. pc'[t] # "adding"
    BY <1>1 DEF AddDependency, RemoveDependency, Cancel, SetQueuePriority,
       Start, Depend, MakeReady, SetSuspended, SetMaxConcurrentOperationCount,
       EnterMain, LeaveMain, Finish, Finished, TellDependent, Announce,
       FinishConcurrent, TellQueue, Execute, Executed, Take, TimeOut, Exit,
       ThenExecute, Keep, BeginReady, Home, threadVars
  <2>2. CASE MakeReady(t) \/ Announce(t, p) \/ TellQueue(t)
    <3>1. operations' \subseteq operations
      BY <2>2 DEF MakeReady, Announce, TellQueue, QueueSees
    <3> QED BY <1>1, <2>1, <3>1, <1>a, OthersUndisturbed
  <2>3. CASE ~ (MakeReady(t) \/ Announce(t, p) \/ TellQueue(t))
    <3>1. UNCHANGED operations
      BY <1>1, <2>3 DEF AddDependency, RemoveDependency, Cancel,
         SetQueuePriority, Start, Depend, SetSuspended,
         SetMaxConcurrentOperationCount, EnterMain, LeaveMain, Finish, Finished,
         TellDependent, FinishConcurrent, Execute, Executed, Take, TimeOut,
         Exit, queueVars
    <3> QED BY <1>1, <2>1, <3>1, <1>a, OthersUndisturbed
  <2> QED BY <2>2, <2>3
<1>2. ASSUME NEW t \in Threads, NEW p \in Ops, AddOperation(t, p)
      PROVE  Queued(o)
  <2>1. p # o
    BY <1>2 DEF AddOperation, MayAdd
  <2>2. operations' = operations \cup {p} /\ pc'[t] \in {"free", "announcing"}
    BY <1>2 DEF AddOperation, Enter
  <2>3. \A w \in Threads \ {t} : Undisturbed(w)
    BY <1>2, OthersUndisturbed
  <2> QED BY <2>1, <2>2, <2>3 DEF Queued, Undisturbed
<1>3. ASSUME NEW t \in Threads, NEW new, AddOperations(t, new)
      PROVE  Queued(o)
  <2>1. o \notin new /\ UNCHANGED operations
    BY <1>3 DEF AddOperations, MayAdd, queueVars
  <2>2. todo'[t] = new
    BY <1>3 DEF AddOperations
  <2> QED BY <1>3, <2>1, <2>2, <1>a, OthersUndisturbed
<1>4. ASSUME NEW t \in Threads, Insert(t)
      PROVE  Queued(o)
  <2>1. /\ pc[t] = "adding" /\ pc'[t] \in {"free", "announcing"}
        /\ operations' \subseteq operations \cup todo[t]
    BY <1>4 DEF Insert, Enter
  <2>2. \A w \in Threads \ {t} : Undisturbed(w)
    BY <1>4, OthersUndisturbed
  <2> QED BY <2>1, <2>2 DEF Queued, Undisturbed
<1>5. ASSUME NEW t \in Threads, NEW p \in Ops, StartFirst(t, p)
      PROVE  Queued(o)
  <2>1. /\ UNCHANGED <<operations, todo>>
        /\ \A w \in Threads : pc'[w] = pc[w] \/ pc'[w] = "idle"
    BY <1>5 DEF StartFirst, Hand
  <2> QED BY <2>1 DEF Queued
<1>6. UNCHANGED vars => Queued(o)
  BY DEF Queued, vars, queueVars, threadVars
<1>7. ASSUME NEW t \in Clients, Program(t)
      PROVE  Queued(o)
  BY <1>7, <1>1, <1>2, <1>3 DEF Program
<1>8. ASSUME NEW t \in Threads, Work(t)
      PROVE  Queued(o)
  BY <1>8, <1>1, <1>4, <1>5 DEF Work
<1>9. ASSUME NEW w \in Workers, Pool(w)
      PROVE  Queued(o)
  BY <1>9, <1>1 DEF Pool
<1> QED BY <1>6, <1>7, <1>8, <1>9 DEF Next

(* It is neither started nor cancelled, because its lock is held.           *)
LEMMA StillPending ==
  ASSUME Types, ThreadInv, PlaceInv, [Next]_vars, NEW u \in Threads,
         pc[u] = "depending", NEW o \in Ops, held[u] = o,
         Pending(o), ~ Queued(o)
  PROVE  Pending(o)'
<1> USE DEF Types, OpType, Pending
<1>a. ASSUME UNCHANGED <<cancelled, isExecuting, finished>> PROVE Pending(o)'
  BY <1>a
<1>b. \A p : Unlocked(p) => p # o
  BY DEF Unlocked
<1>1. ASSUME NEW t, NEW p, NEW d,
             \/ AddDependency(t, p, d) \/ RemoveDependency(t, p, d)
             \/ SetQueuePriority(t, p) \/ EnterMain(t) \/ TellDependent(t, p)
             \/ Depend(t) \/ MakeReady(t)
      PROVE  Pending(o)'
  BY <1>1, <1>a DEF AddDependency, RemoveDependency, SetQueuePriority,
     EnterMain, TellDependent, Depend, MakeReady, opVars
<1>2. ASSUME NEW t, NEW p, Cancel(t, p) \/ Start(t, p)
      PROVE  Pending(o)'
  BY <1>2, <1>b DEF Cancel, Start
<1>3. ASSUME NEW t \in Threads, Finish(t)
      PROVE  Pending(o)'
  <2>1. cur[t] # o
    BY <1>3, <1>b DEF Finish
  <2> QED BY <1>3, <2>1 DEF Finish
<1>4. ASSUME NEW t, NEW p \in Ops, StartFirst(t, p)
      PROVE  Pending(o)'
  <2>1. p # o
    BY <1>4 DEF StartFirst, First, PlaceInv, OpOK, SetsOK, Queued
  <2> QED BY <1>4, <2>1 DEF StartFirst
<1>5. UNCHANGED <<opVars, mains>> \/ UNCHANGED vars => Pending(o)'
  BY <1>a DEF opVars, vars
<1> QED
  BY <1>1, <1>2, <1>3, <1>4, <1>5, OpsUnchanged, AreThreads
  DEF Next, Program, Work, Pool

LEMMA ApartInvKept ==
  ASSUME Types, ThreadInv, PlaceInv, ApartInv, [Next]_vars, ~ LateDependencies
  PROVE  ApartInv'
<1> SUFFICES ASSUME NEW u \in Threads, pc'[u] = "depending"
             PROVE  ~ Queued(held[u])' /\ Pending(held[u])'
  BY DEF ApartInv
<1> USE AreThreads DEF Types, ThreadType
<1>a. ASSUME pc[u] = "depending", held'[u] = held[u]
      PROVE  ~ Queued(held[u])' /\ Pending(held[u])'
  <2>1. PICK o \in Ops : held[u] = o
    BY <1>a DEF ThreadInv, ThreadOK
  <2>2. ~ Queued(o) /\ Pending(o)
    BY <1>a, <2>1 DEF ApartInv
  <2>3. ~ Queued(o)' /\ Pending(o)'
    BY <1>a, <2>1, <2>2, QueuedBefore, StillPending
  <2>4. held'[u] = o
    BY <1>a, <2>1
  <2> QED BY <2>3, <2>4 DEF Queued, Pending
<1>b. ASSUME NEW t \in Threads, pc'[t] # "depending",
             \A w \in Threads \ {t} : Undisturbed(w)
      PROVE  ~ Queued(held[u])' /\ Pending(held[u])'
  BY <1>a, <1>b DEF Undisturbed
<1>1. ASSUME NEW t \in Threads, NEW o \in Ops, NEW d \in Ops,
             AddDependency(t, o, d), pc'[t] = "depending"
      PROVE  ~ Queued(held[u])' /\ Pending(held[u])'
  <2>1. /\ ~ Queued(o) /\ Pending(o) /\ held'[t] = o
        /\ UNCHANGED <<cancelled, isExecuting, finished, operations>>
    BY <1>1 DEF AddDependency, Keep, queueVars
  <2>2. \A w \in Threads \ {t} : Undisturbed(w)
    BY <1>1, OthersUndisturbed
  <2>3. CASE u = t
    <3>1. ~ Queued(o)' /\ Pending(o)'
      BY <1>1, <2>1, <2>2 DEF Queued, Pending, Undisturbed
    <3>2. held'[u] = o
      BY <2>1, <2>3
    <3> QED BY <3>1, <3>2 DEF Queued, Pending
  <2>4. CASE u # t
    BY <2>2, <2>4, <1>a DEF Undisturbed
  <2> QED BY <2>3, <2>4
<1>2. ASSUME NEW t \in Threads, NEW p, NEW d, NEW new,
         \/ RemoveDependency(t, p, d) \/ Cancel(t, p) \/ SetQueuePriority(t, p)
         \/ Start(t, p) \/ AddOperation(t, p) \/ AddOperations(t, new)
         \/ Insert(t) \/ Depend(t) \/ MakeReady(t)
         \/ SetSuspended(t) \/ SetMaxConcurrentOperationCount(t)
         \/ EnterMain(t) \/ LeaveMain(t) \/ Finish(t) \/ Finished(t)
         \/ TellDependent(t, p) \/ Announce(t, p) \/ FinishConcurrent(t, p)
         \/ TellQueue(t) \/ Execute(t) \/ Executed(t) \/ Take(t) \/ TimeOut(t)
         \/ Exit(t)
      PROVE  ~ Queued(held[u])' /\ Pending(held[u])'
  <2>1. pc'[t] # "depending"
    <3>1. CASE \/ AddOperation(t, p) \/ Insert(t) \/ Depend(t) \/ MakeReady(t)
      BY <3>1 DEF AddOperation, Insert, Enter, Depend, MakeReady, ThenExecute,
                  Keep
    <3>2. CASE ~ (AddOperation(t, p) \/ Insert(t) \/ Depend(t) \/ MakeReady(t))
      BY <1>2, <3>2 DEF RemoveDependency, Cancel, SetQueuePriority, Start,
         AddOperations, SetSuspended, SetMaxConcurrentOperationCount, EnterMain,
         LeaveMain, Finish, Finished, TellDependent, Announce, FinishConcurrent,
         TellQueue, Execute, Executed, Take, TimeOut, Exit, ThenExecute, Keep,
         BeginReady, Home, threadVars
    <3> QED BY <3>1, <3>2
  <2> QED BY <1>2, <2>1, <1>b, OthersUndisturbed
<1>3. ASSUME NEW t \in Threads, NEW p \in Ops, StartFirst(t, p)
      PROVE  ~ Queued(held[u])' /\ Pending(held[u])'
  <2>1. /\ UNCHANGED held
        /\ \A w \in Threads : pc'[w] = pc[w] \/ pc'[w] = "idle"
    BY <1>3 DEF StartFirst, Hand
  <2> QED BY <2>1, <1>a
<1>4. CASE UNCHANGED vars
  BY <1>4, <1>a DEF vars, threadVars
<1>5. ASSUME NEW t \in Clients, Program(t)
      PROVE  ~ Queued(held[u])' /\ Pending(held[u])'
  <2>1. ASSUME NEW o \in Ops, NEW d \in Ops, AddDependency(t, o, d)
        PROVE  ~ Queued(held[u])' /\ Pending(held[u])'
    BY <2>1, <1>1, <1>b, OthersUndisturbed
  <2> QED BY <1>5, <2>1, <1>2 DEF Program
<1>6. ASSUME NEW t \in Threads, Work(t)
      PROVE  ~ Queued(held[u])' /\ Pending(held[u])'
  BY <1>6, <1>2, <1>3 DEF Work
<1>7. ASSUME NEW w \in Workers, Pool(w)
      PROVE  ~ Queued(held[u])' /\ Pending(held[u])'
  BY <1>7, <1>2 DEF Pool
<1> QED BY <1>4, <1>5, <1>6, <1>7 DEF Next

(* Once it is the queue's, or started, what was ready stays so.             *)
LEMMA ReadyStays ==
  ASSUME Types, ThreadInv, ApartInv, [Next]_vars, NEW o \in Ops, ready[o],
         o \in operations \/ ~ Pending(o)
  PROVE  ready'[o]
<1> USE DEF Types, OpType
<1>1. ASSUME NEW t \in Threads, Depend(t)
      PROVE  ready'[o]
  <2>1. ready' = [ready EXCEPT ![held[t]] = FALSE] /\ pc[t] = "depending"
    BY <1>1 DEF Depend
  <2>2. o # held[t]
    BY <2>1 DEF ApartInv, Queued
  <2> QED BY <2>1, <2>2
<1>2. ASSUME NEW t, MakeReady(t)
      PROVE  ready'[o]
  BY <1>2 DEF MakeReady
<1>3. ASSUME NEW t, NEW p, NEW d,
             \/ AddDependency(t, p, d) \/ RemoveDependency(t, p, d)
             \/ Cancel(t, p) \/ TellDependent(t, p) \/ SetQueuePriority(t, p)
             \/ Start(t, p) \/ EnterMain(t) \/ Finish(t) \/ StartFirst(t, p)
      PROVE  UNCHANGED ready
  BY <1>3 DEF AddDependency, RemoveDependency, Cancel, TellDependent,
     SetQueuePriority, Start, EnterMain, Finish, StartFirst, opVars
<1>4. UNCHANGED <<opVars, mains>> \/ UNCHANGED vars => UNCHANGED ready
  BY DEF opVars, vars
<1> QED
  BY <1>1, <1>2, <1>3, <1>4, OpsUnchanged, AreThreads
  DEF Next, Program, Work, Pool

LEMMA ReadyIsReady ==
  ASSUME Types, ThreadInv, [Next]_vars, ~ LateDependencies, DepInv,
         NEW o \in Ops, ready'[o], ~ cancelled'[o], NEW e \in dependencies'[o]
  PROVE  finished'[e] \/ Depending(o, e)'
<1> USE AreThreads DEF Types, OpType
<1>a. e \in Ops /\ \A d \in Ops : finished[d] => finished'[d]
  BY FinishedStays, OpTypeKept
<1>b. ASSUME ready[o], ~ cancelled[o], e \in dependencies[o],
             \A t \in Threads : ~ Depend(t)
      PROVE  finished'[e] \/ Depending(o, e)'
  BY <1>a, <1>b, DependingStays DEF DepInv
<1>1. ASSUME NEW t \in Threads, Depend(t)
      PROVE  finished'[e] \/ Depending(o, e)'
  <2>1. /\ ready' = [ready EXCEPT ![held[t]] = FALSE]
        /\ UNCHANGED <<cancelled, dependencies, finished>>
        /\ \A u \in Threads \ {t} : Undisturbed(u)
    BY <1>1, OthersUndisturbed DEF Depend
  <2>2. o # held[t] /\ ready[o]
    BY <2>1
  <2>3. finished[e] \/ Depending(o, e)
    BY <2>1, <2>2 DEF DepInv
  <2>4. Depending(o, e) => Depending(o, e)'
    BY <2>1, <2>2 DEF Depending, Undisturbed
  <2> QED BY <2>1, <2>3, <2>4
<1>2. ASSUME \A t \in Threads : ~ Depend(t)
      PROVE  finished'[e] \/ Depending(o, e)'
  <2>1. ASSUME NEW t \in Threads, NEW p \in Ops, NEW d \in Ops,
               AddDependency(t, p, d)
        PROVE  finished'[e] \/ Depending(o, e)'
    <3>1. /\ UNCHANGED <<ready, cancelled, finished>> /\ Pending(p)
          /\ dependencies' = [dependencies EXCEPT ![p] = @ \cup {d}]
          /\ Matters(p, d) => /\ pc'[t] = "depending" /\ held'[t] = p
                              /\ todo'[t] = {d}
      BY <2>1 DEF AddDependency, Keep, ThreadType
    <3>2. CASE e \in dependencies[o]
      BY <3>1, <3>2, <1>2, <1>b
    <3>3. CASE e \notin dependencies[o]
      <4>1. o = p /\ e = d
        BY <3>1, <3>3
      <4> QED BY <3>1, <4>1 DEF Matters, Depending
    <3> QED BY <3>2, <3>3
  <2>2. ASSUME NEW t, NEW p, NEW d, RemoveDependency(t, p, d)
        PROVE  finished'[e] \/ Depending(o, e)'
    <3>1. UNCHANGED <<ready, cancelled>> /\ e \in dependencies[o]
      BY <2>2 DEF RemoveDependency
    <3> QED BY <3>1, <1>2, <1>b
  <2>3. ASSUME NEW t, NEW p, Cancel(t, p)
        PROVE  finished'[e] \/ Depending(o, e)'
    <3>1. UNCHANGED <<ready, dependencies>> /\ ~ cancelled[o]
      BY <2>3 DEF Cancel
    <3> QED BY <3>1, <1>2, <1>b
  <2>4. ASSUME NEW t \in Threads, MakeReady(t)
        PROVE  finished'[e] \/ Depending(o, e)'
    <3>1. /\ pc[t] = "readying" /\ UNCHANGED <<cancelled, finished, dependencies>>
          /\ ready' = [ready EXCEPT ![held[t]] = TRUE]
      BY <2>4 DEF MakeReady
    <3>2. CASE o = held[t]
      BY <3>1, <3>2 DEF DepInv, AllFinished
    <3>3. CASE o # held[t]
      BY <3>1, <3>3, <1>2, <1>b
    <3> QED BY <3>2, <3>3
  <2>5. ASSUME UNCHANGED <<ready, cancelled, dependencies>>
        PROVE  finished'[e] \/ Depending(o, e)'
    BY <2>5, <1>2, <1>b
  <2>6. ASSUME NEW t, NEW p,
               \/ SetQueuePriority(t, p) \/ Start(t, p) \/ EnterMain(t)
               \/ Finish(t) \/ StartFirst(t, p) \/ TellDependent(t, p)
        PROVE  UNCHANGED <<ready, cancelled, dependencies>>
    BY <2>6 DEF SetQueuePriority, Start, EnterMain, Finish, StartFirst,
                TellDependent, opVars
  <2>7. UNCHANGED <<opVars, mains>> \/ UNCHANGED vars
          => UNCHANGED <<ready, cancelled, dependencies>>
    BY DEF opVars, vars
  <2>8. ASSUME NEW t \in Clients, Program(t)
        PROVE  finished'[e] \/ Depending(o, e)'
    BY <2>8, <2>1, <2>2, <2>3, <2>5, <2>6, <2>7, OpsUnchanged DEF Program
  <2>9. ASSUME NEW t \in Threads, Work(t)
        PROVE  finished'[e] \/ Depending(o, e)'
    BY <2>9, <1>2, <2>4, <2>5, <2>6, <2>7, OpsUnchanged DEF Work
  <2>10. ASSUME NEW w \in Workers, Pool(w)
         PROVE  finished'[e] \/ Depending(o, e)'
    BY <2>10, <2>5, <2>7, OpsUnchanged DEF Pool
  <2> QED BY <2>5, <2>7, <2>8, <2>9, <2>10 DEF Next
<1> QED BY <1>1, <1>2

(* What is becoming ready has the lock that its dependencies are added with.*)
LEMMA ReadyingKept ==
  ASSUME Types, ThreadInv, [Next]_vars, DepInv, NEW u \in Threads,
         pc'[u] = "readying", NEW o \in Ops, held'[u] = o
  PROVE  cancelled'[o] \/ \A e \in dependencies'[o] : finished'[e]
<1> DEFINE Good == cancelled'[o] \/ \A e \in dependencies'[o] : finished'[e]
<1>a. ASSUME pc[u] = "readying", held[u] = o,
             dependencies'[o] = dependencies[o],
             cancelled[o] => cancelled'[o]
      PROVE  Good
  <2>1. \A e \in dependencies[o] : e \in Ops
    BY DEF Types, OpType
  <2> QED BY <1>a, <2>1, FinishedStays DEF DepInv, AllFinished, Types, OpType
<1>b. ASSUME NEW t \in Threads, pc'[t] # "readying",
             \A w \in Threads \ {t} : Undisturbed(w),
             UNCHANGED <<dependencies, cancelled>>
      PROVE  Good
  <2>1. pc[u] = "readying" /\ held[u] = o
    BY <1>b DEF Undisturbed
  <2> QED BY <1>b, <2>1, <1>a
<1>c. ASSUME NEW p, Unlocked(p), held[u] = o
      PROVE  p # o
  BY <1>c DEF Unlocked
<1> HIDE DEF Good
<1> USE AreThreads DEF Types, ThreadType, OpType
<1>1. ASSUME NEW t \in Threads, NEW p \in Ops, NEW d \in Ops,
             \/ AddDependency(t, p, d) \/ RemoveDependency(t, p, d)
             \/ Cancel(t, p) \/ TellDependent(t, p)
      PROVE  Good
  <2>1. \A w \in Threads \ {t} : Undisturbed(w)
    BY <1>1, OthersUndisturbed
  <2>2. CASE u # t
    <3>1. pc[u] = "readying" /\ held[u] = o
      BY <2>1, <2>2 DEF Undisturbed
    <3>2. Unlocked(p)
      BY <1>1 DEF AddDependency, RemoveDependency, Cancel, TellDependent
    <3>3. p # o
      BY <3>1, <3>2, <1>c
    <3>4. dependencies'[o] = dependencies[o] /\ (cancelled[o] => cancelled'[o])
      BY <1>1, <3>3 DEF AddDependency, RemoveDependency, Cancel, TellDependent
    <3> QED BY <3>1, <3>4, <1>a
  <2>3. CASE u = t
    <3>1. ~ AddDependency(t, p, d)
      BY <2>3 DEF AddDependency, Keep
    <3>2. held'[t] = p /\ p = o
      BY <1>1, <2>3, <3>1
      DEF RemoveDependency, Cancel, TellDependent, BeginReady, Keep
    <3>3. CASE Cancel(t, p)
      BY <3>2, <3>3 DEF Cancel, Good
    <3>4. CASE RemoveDependency(t, p, d)
      <4>1. AllFinished(dependencies[o] \ {d})
        BY <2>3, <3>2, <3>4 DEF RemoveDependency, BeginReady, Keep
      <4>2. dependencies'[o] = dependencies[o] \ {d} /\ UNCHANGED finished
        BY <3>2, <3>4 DEF RemoveDependency
      <4> QED BY <4>1, <4>2 DEF AllFinished, Good
    <3>5. CASE TellDependent(t, p)
      <4>1. AllFinished(dependencies[o])
        BY <2>3, <3>2, <3>5 DEF TellDependent, BeginReady, Keep
      <4>2. UNCHANGED <<dependencies, finished>>
        BY <3>5 DEF TellDependent
      <4> QED BY <4>1, <4>2 DEF AllFinished, Good
    <3> QED BY <1>1, <3>1, <3>3, <3>4, <3>5
  <2> QED BY <2>2, <2>3
<1>2. ASSUME NEW t \in Threads, NEW p, NEW new,
         \/ SetQueuePriority(t, p) \/ Start(t, p) \/ AddOperation(t, p)
         \/ AddOperations(t, new) \/ Insert(t) \/ Depend(t) \/ MakeReady(t)
         \/ SetSuspended(t) \/ SetMaxConcurrentOperationCount(t)
         \/ EnterMain(t) \/ LeaveMain(t) \/ Finish(t) \/ Finished(t)
         \/ Announce(t, p) \/ FinishConcurrent(t, p)
         \/ TellQueue(t) \/ Execute(t) \/ Executed(t) \/ Take(t) \/ TimeOut(t)
         \/ Exit(t)
      PROVE  Good
  <2>1. pc'[t] # "readying"
    <3>1. CASE \/ AddOperation(t, p) \/ Insert(t) \/ Depend(t) \/ MakeReady(t)
      BY <3>1 DEF AddOperation, Insert, Enter, Depend, MakeReady, ThenExecute,
                  Keep
    <3>2. CASE ~ (AddOperation(t, p) \/ Insert(t) \/ Depend(t) \/ MakeReady(t))
      BY <1>2, <3>2 DEF SetQueuePriority, Start, AddOperations, SetSuspended,
         SetMaxConcurrentOperationCount, EnterMain, LeaveMain, Finish, Finished,
         Announce, FinishConcurrent, TellQueue, Execute, Executed, Take, TimeOut,
         Exit, ThenExecute, Home, threadVars
    <3> QED BY <3>1, <3>2
  <2>2. UNCHANGED <<dependencies, cancelled>>
    BY <1>2 DEF SetQueuePriority, Start, AddOperation, AddOperations, Insert,
       Depend, MakeReady, SetSuspended, SetMaxConcurrentOperationCount,
       EnterMain, LeaveMain, Finish, Finished, Announce, FinishConcurrent,
       TellQueue, Execute, Executed, Take, TimeOut, Exit, opVars
  <2> QED BY <1>2, <2>1, <2>2, <1>b, OthersUndisturbed
<1>3. ASSUME NEW t \in Threads, NEW p \in Ops, StartFirst(t, p)
      PROVE  Good
  <2>1. /\ UNCHANGED <<held, dependencies, cancelled>>
        /\ \A w \in Threads : pc'[w] = pc[w] \/ pc'[w] = "idle"
    BY <1>3 DEF StartFirst, Hand
  <2> QED BY <2>1, <1>a
<1>4. ASSUME UNCHANGED vars PROVE Good
  <2>1. UNCHANGED <<pc, held, dependencies, cancelled>>
    BY <1>4 DEF vars, opVars, threadVars
  <2> QED BY <2>1, <1>a
<1>5. ASSUME NEW t \in Clients, Program(t) PROVE Good
  BY <1>5, <1>1, <1>2 DEF Program
<1>6. ASSUME NEW t \in Threads, Work(t) PROVE Good
  <2>1. ASSUME NEW p \in Ops, TellDependent(t, p) PROVE Good
    BY <2>1, <1>1
  <2> QED BY <1>6, <2>1, <1>2, <1>3 DEF Work
<1>7. ASSUME NEW w \in Workers, Pool(w) PROVE Good
  BY <1>7, <1>2 DEF Pool
<1> QED BY <1>4, <1>5, <1>6, <1>7 DEF Next, Good

(* What waits, or has been handed to the pool, is ready.                    *)
LEMMA WaitingReady ==
  ASSUME Types, ThreadInv, PlaceInv, DepInv, [Next]_vars,
         NEW o \in waiting' \cup Handed'
  PROVE  ready'[o]
<1> USE DEF Types, ThreadType
<1>1. ASSUME o \in waiting \cup Handed PROVE ready'[o]
  <2>1. o \in Ops /\ ready[o] /\ OpOK(o)
    BY <1>1 DEF DepInv, PlaceInv, QueueType, PoolType, Handed
  <2>2. o \in operations \/ ~ Pending(o)
    BY <1>1, <2>1 DEF OpOK, SetsOK, StartedOK, Pending
  <2> QED BY <2>1, <2>2, ReadyStays DEF DepInv
<1>a. UNCHANGED <<waiting, starting>> => ready'[o]
  BY <1>1 DEF Handed
<1>2. ASSUME NEW p, NEW r, QueueSees(p, r), UNCHANGED starting, o \notin waiting \cup Handed
      PROVE  o = p /\ r
  <2>1. waiting' \in {waiting, waiting \cup {p}} /\ (waiting' # waiting => r)
    BY <1>2 DEF QueueSees
  <2> QED BY <1>2, <2>1 DEF Handed
<1>3. ASSUME NEW t \in Threads, MakeReady(t)
      PROVE  ready'[o]
  <2>1. /\ ready' = [ready EXCEPT ![held[t]] = TRUE] /\ pc[t] = "readying"
        /\ UNCHANGED starting
        /\ UNCHANGED waiting \/ QueueSees(held[t], TRUE)
    BY <1>3 DEF MakeReady, poolVars
  <2>2. held[t] \in Ops
    BY <2>1 DEF ThreadInv, ThreadOK
  <2>3. UNCHANGED waiting \/ o = held[t] \/ o \in waiting \cup Handed
    BY <2>1, <1>2
  <2> QED BY <2>1, <2>2, <2>3, <1>1, <1>a DEF OpType
<1>4. ASSUME NEW t \in Threads, NEW p \in Ops, Announce(t, p)
      PROVE  ready'[o]
  BY <1>4, <1>1, <1>2 DEF Announce, poolVars, opVars
<1>5. ASSUME NEW t \in Threads, TellQueue(t)
      PROVE  ready'[o]
  BY <1>5, <1>1, <1>2 DEF TellQueue, poolVars, opVars
<1>6. ASSUME NEW t, NEW p \in Ops, StartFirst(t, p)
      PROVE  ready'[o]
  <2>1. /\ p \in waiting /\ waiting' = waiting \ {p}
        /\ UNCHANGED starting \/ starting' = Append(starting, p)
    BY <1>6 DEF StartFirst, First, Hand, poolVars
  <2>2. Handed' = Handed \/ Handed' = Handed \cup {p}
    BY <2>1, HandedAppend DEF Handed
  <2> QED BY <2>1, <2>2, <1>1
<1>7. ASSUME NEW w, Take(w)
      PROVE  ready'[o]
  <2>1. /\ UNCHANGED waiting
        /\ \/ UNCHANGED starting
           \/ starting # <<>> /\ starting' = Tail(starting)
    BY <1>7 DEF Take, queueVars, Rest
  <2>2. Handed' = Handed \/ Handed' = Handed \ {Head(starting)}
    BY <2>1, HandedTail DEF Handed, PlaceInv
  <2> QED BY <2>1, <2>2, <1>1
<1>8. ASSUME NEW t, NEW p, NEW d, NEW new,
             \/ AddDependency(t, p, d) \/ RemoveDependency(t, p, d)
             \/ Cancel(t, p) \/ TellDependent(t, p) \/ SetQueuePriority(t, p)
             \/ Start(t, p) \/ AddOperation(t, p) \/ AddOperations(t, new)
             \/ Insert(t) \/ Depend(t)
             \/ SetSuspended(t) \/ SetMaxConcurrentOperationCount(t)
             \/ EnterMain(t) \/ LeaveMain(t) \/ Finish(t) \/ Finished(t)
             \/ FinishConcurrent(t, p) \/ Execute(t)
             \/ Executed(t) \/ TimeOut(t) \/ Exit(t)
      PROVE  UNCHANGED <<waiting, starting>>
  BY <1>8 DEF AddDependency, RemoveDependency, Cancel, TellDependent,
     SetQueuePriority, Start, AddOperation, AddOperations, Insert, Depend,
     SetSuspended, SetMaxConcurrentOperationCount, EnterMain, LeaveMain, Finish,
     Finished, FinishConcurrent, Execute, Executed, TimeOut, Exit, queueVars,
     poolVars
<1>9. UNCHANGED vars => UNCHANGED <<waiting, starting>>
  BY DEF vars, queueVars, poolVars
<1> QED
  BY <1>a, <1>3, <1>4, <1>5, <1>6, <1>7, <1>8, <1>9, AreThreads
  DEF Next, Program, Work, Pool

(* And so is what a thread has taken.                                       *)
LEMMA TakenReady ==
  ASSUME Types, ThreadInv, PlaceInv, DepInv, [Next]_vars, NEW u \in Threads,
         pc'[u] = "taken"
  PROVE  ready'[cur'[u]]
<1> USE AreThreads DEF Types, ThreadType
<1>1. ASSUME pc[u] = "taken", cur'[u] = cur[u] PROVE ready'[cur'[u]]
  <2>1. /\ cur[u] \in Ops /\ ready[cur[u]] /\ OpOK(cur[u])
        /\ cur[u] \notin byHand => cur[u] \in watched
    BY <1>1 DEF DepInv, PlaceInv, HolderOK, ThreadInv, ThreadOK, Running
  <2>2. cur[u] \in operations \/ ~ Pending(cur[u])
    BY <2>1 DEF OpOK, SetsOK, RunOK, Pending
  <2> QED BY <1>1, <2>1, <2>2, ReadyStays DEF DepInv
<1>2. ASSUME NEW t \in Threads, NEW o \in Ops, Start(t, o)
      PROVE  ready'[cur'[u]]
  <2>1. CASE u = t
    BY <2>1, <1>2 DEF Start
  <2>2. CASE u # t
    BY <2>2, <1>1, <1>2, OthersUndisturbed DEF Undisturbed
  <2> QED BY <2>1, <2>2
<1>3. ASSUME NEW w \in Workers, Take(w)
      PROVE  ready'[cur'[u]]
  <2>1. CASE u # w
    BY <2>1, <1>1, <1>3, OthersUndisturbed DEF Undisturbed
  <2>2. CASE u = w
    <3>1. starting # <<>> /\ cur'[u] = Head(starting) /\ UNCHANGED opVars
          /\ starting' = Tail(starting)
      BY <1>3, <2>2 DEF Take, Rest
    <3>2. Head(starting) \in Handed
      BY <3>1, HandedTail DEF PlaceInv
    <3> QED BY <3>1, <3>2 DEF DepInv, opVars
  <2> QED BY <2>1, <2>2
<1>4. ASSUME NEW t \in Threads, NEW p, NEW d, NEW new,
         \/ AddDependency(t, p, d) \/ RemoveDependency(t, p, d) \/ Cancel(t, p)
         \/ SetQueuePriority(t, p) \/ AddOperation(t, p)
         \/ AddOperations(t, new) \/ Insert(t) \/ Depend(t) \/ MakeReady(t)
         \/ SetSuspended(t) \/ SetMaxConcurrentOperationCount(t)
         \/ EnterMain(t) \/ LeaveMain(t) \/ Finish(t) \/ Finished(t)
         \/ TellDependent(t, p) \/ Announce(t, p) \/ FinishConcurrent(t, p)
         \/ TellQueue(t) \/ Execute(t) \/ Executed(t) \/ TimeOut(t) \/ Exit(t)
      PROVE  ready'[cur'[u]]
  <2>1. pc'[t] = "taken" => pc[t] = "taken" /\ cur'[t] = cur[t]
    <3>1. CASE \/ AddOperation(t, p) \/ Insert(t) \/ Depend(t) \/ MakeReady(t)
      BY <3>1 DEF AddOperation, Insert, Enter, Depend, MakeReady, ThenExecute,
                  Keep
    <3>2. CASE ~ (AddOperation(t, p) \/ Insert(t) \/ Depend(t) \/ MakeReady(t))
      BY <1>4, <3>2 DEF AddDependency, RemoveDependency, Cancel,
         SetQueuePriority, AddOperations, SetSuspended, TellDependent,
         SetMaxConcurrentOperationCount, EnterMain, LeaveMain, Finish, Finished,
         Announce, FinishConcurrent, TellQueue, Execute, Executed, TimeOut,
         Exit, ThenExecute, Keep, BeginReady, Home, threadVars
    <3> QED BY <3>1, <3>2
  <2>2. CASE u = t
    BY <2>1, <2>2, <1>1
  <2>3. CASE u # t
    BY <2>3, <1>1, <1>4, OthersUndisturbed DEF Undisturbed
  <2> QED BY <2>2, <2>3
<1>5. ASSUME NEW t \in Threads, NEW p \in Ops, StartFirst(t, p)
      PROVE  ready'[cur'[u]]
  <2>1. UNCHANGED cur /\ \A w \in Threads : pc'[w] = pc[w] \/ pc'[w] = "idle"
    BY <1>5 DEF StartFirst, Hand
  <2> QED BY <2>1, <1>1
<1>6. CASE UNCHANGED vars
  BY <1>6, <1>1 DEF vars, threadVars
<1>7. ASSUME NEW t \in Clients, Program(t) PROVE ready'[cur'[u]]
  BY <1>7, <1>2, <1>4 DEF Program
<1>8. ASSUME NEW t \in Threads, Work(t) PROVE ready'[cur'[u]]
  BY <1>8, <1>4, <1>5 DEF Work
<1>9. ASSUME NEW w \in Workers, Pool(w) PROVE ready'[cur'[u]]
  BY <1>9, <1>3, <1>4 DEF Pool
<1> QED BY <1>6, <1>7, <1>8, <1>9 DEF Next

LEMMA DepInvKept ==
  ASSUME Types, ThreadInv, PlaceInv, DepInv, [Next]_vars, ~ LateDependencies
  PROVE  DepInv'
<1>1. ApartInv'
  BY ApartInvKept DEF DepInv
<1>2. \A o \in Ops : ready'[o] /\ ~ cancelled'[o] =>
          \A e \in dependencies'[o] : finished'[e] \/ Depending(o, e)'
  BY ReadyIsReady
<1>3. ASSUME NEW t \in Threads, pc'[t] = "readying"
      PROVE  cancelled'[held'[t]] \/ AllFinished(dependencies[held[t]])'
  <2>1. held'[t] \in Ops
    BY <1>3, ThreadInvKept DEF ThreadInv, ThreadOK
  <2>2. PICK o \in Ops : o = held'[t]
    BY <2>1
  <2> QED BY <1>3, <2>2, ReadyingKept DEF AllFinished
<1> QED BY <1>1, <1>2, <1>3, WaitingReady, TakenReady DEF DepInv

(* Where no dependency is added to an operation that a queue has, or is     *)
(* about to have, an operation's -main is entered only when all it depends  *)
(* on has finished, or it is a concurrent one that was cancelled.           *)
THEOREM DependenciesComeFirst ==
  ~ LateDependencies /\ SafeSpec => DependenciesFirst
<1> SUFFICES ASSUME ~ LateDependencies PROVE SafeSpec => DependenciesFirst
  OBVIOUS
<1>1. Init => DepInv
  <2> SUFFICES ASSUME Init PROVE DepInv
    OBVIOUS
  <2>1. Handed = {} /\ waiting = {}
        /\ \A t \in Threads : pc[t] \notin {"taken", "depending", "readying"}
    BY DEF Init, Handed
  <2> QED BY <2>1 DEF Init, DepInv, ApartInv
<1>2. Types /\ ThreadInv /\ PlaceInv /\ DepInv /\ [Next]_vars => DepInv'
  BY DepInvKept
<1>3. Types /\ ThreadInv /\ PlaceInv /\ DepInv /\ [Next]_vars =>
        [\A o \in Ops : mains'[o] > mains[o] =>
           cancelled[o] \/ \A d \in dependencies[o] : finished[d]]_vars
  <2> SUFFICES ASSUME Types, ThreadInv, PlaceInv, DepInv, [Next]_vars,
                      NEW o \in Ops, mains'[o] > mains[o], ~ cancelled[o]
               PROVE  \A d \in dependencies[o] : finished[d]
    OBVIOUS
  <2>a. mains[o] \in Nat /\ mains'[o] # mains[o]
    BY DEF Types, OpType
  <2>1. ASSUME NEW t \in Threads, EnterMain(t)
        PROVE  ready[o] /\ (o \in operations \/ ~ Pending(o))
    <3>1. pc[t] = "taken" /\ cur[t] = o
      BY <2>1, <2>a DEF EnterMain, Types, OpType
    <3>2. HolderOK(t) /\ OpOK(o)
      BY DEF PlaceInv
    <3> QED BY <3>1, <3>2 DEF DepInv, HolderOK, Running, OpOK, SetsOK, RunOK, Pending
  <2>2. ASSUME NEW t \in Threads, NEW p \in Ops, StartFirst(t, p)
        PROVE  ready[o] /\ o \in operations
    <3>1. p = o /\ o \in waiting
      BY <2>2, <2>a DEF StartFirst, First, Types, OpType
    <3> QED BY <3>1 DEF DepInv, PlaceInv, OpOK, SetsOK
  <2>3. ASSUME NEW t, NEW p, NEW d, NEW new,
               \/ AddDependency(t, p, d) \/ RemoveDependency(t, p, d)
               \/ Cancel(t, p) \/ SetQueuePriority(t, p) \/ Start(t, p)
               \/ AddOperation(t, p) \/ AddOperations(t, new) \/ Insert(t)
               \/ Depend(t) \/ MakeReady(t) \/ SetSuspended(t)
               \/ SetMaxConcurrentOperationCount(t)
               \/ LeaveMain(t) \/ Finish(t) \/ Finished(t)
               \/ TellDependent(t, p) \/ Announce(t, p)
               \/ FinishConcurrent(t, p) \/ TellQueue(t) \/ Execute(t)
               \/ Executed(t) \/ Take(t) \/ TimeOut(t) \/ Exit(t)
        PROVE  UNCHANGED mains
    BY <2>3
    DEF AddDependency, RemoveDependency, Cancel, SetQueuePriority, Start,
        AddOperation, AddOperations, Insert, Depend, MakeReady, SetSuspended,
        SetMaxConcurrentOperationCount, LeaveMain, Finish, Finished,
        TellDependent, Announce, FinishConcurrent, TellQueue, Execute, Executed,
        Take, TimeOut, Exit, histVars
  <2>4. UNCHANGED vars => UNCHANGED mains
    BY DEF vars, histVars
  <2>5. ready[o] /\ (o \in operations \/ ~ Pending(o))
    BY <2>a, <2>1, <2>2, <2>3, <2>4, AreThreads
    DEF Next, Program, Work, Pool
  <2>6. \A d : ~ Depending(o, d)
    BY <2>5 DEF DepInv, ApartInv, Depending, Queued
  <2> QED BY <2>5, <2>6 DEF DepInv
<1> QED
  BY PlacesInvariant, <1>1, <1>2, <1>3, PTL DEF SafeSpec, DependenciesFirst
=============================================================================
