-------------------------- MODULE OperationQueue --------------------------
(***************************************************************************)
(* NSOperation and NSOperationQueue of Source/NSOperation.m: operations    *)
(* with dependencies, the queue that holds, orders and limits them, and    *)
(* the pool of threads that runs them.                                     *)
(*                                                                         *)
(* A step is a section under the queue's lock, one iteration of the loop   *)
(* of _execute (which keeps the lock), a section under the pool's          *)
(* condition lock, or a step of one operation under its own lock.  A       *)
(* change of isReady has two steps, what comes before it is announced and  *)
(* the change, and so has a test of isFinished that an observation follows.*)
(* KVO's own locks are in OperationReadiness.                              *)
(***************************************************************************)
EXTENDS Integers, Sequences, FiniteSets

CONSTANTS
  Ops,          \* the operations
  Concurrent,   \* those whose isConcurrent is YES: they run where they like
  MayDepend,    \* pairs <<op, dependency>> the program may make, acyclic
  HandStarted,  \* those the program may start itself
  Batches,      \* the sets of operations it may add together
  Priorities,   \* the values of queuePriority
  Counts,       \* the values of maxConcurrentOperationCount
  Clients,      \* the program's threads
  Workers,      \* the pool's threads, as many as POOL allows
  NoThread,     \* the lock is free
  Queue,        \* the queue, as an observer of its operations
  IdleTimeout,  \* may a thread of the pool be idle for five seconds?
  LateDependencies  \* may a dependency be added to a queued operation?

Threads == Clients \cup Workers
POOL == Cardinality(Workers)

ASSUME OpsAssumption == Concurrent \subseteq Ops /\ Queue \notin Ops
ASSUME DependAssumption == /\ MayDepend \subseteq Ops \X Ops
                           /\ \A p \in MayDepend : p[1] # p[2]
ASSUME ProgramAssumption == HandStarted \subseteq Ops /\ Batches \subseteq SUBSET Ops
ASSUME NumbersAssumption == Priorities \subseteq Int /\ Counts \subseteq Nat \cup {-1}
ASSUME ThreadsAssumption == /\ Clients \cap Workers = {}
                            /\ NoThread \notin Threads
                            /\ IsFiniteSet(Workers) /\ POOL > 0
ASSUME FlagsAssumption == {IdleTimeout, LateDependencies} \subseteq BOOLEAN

VARIABLES
  ready, cancelled, finished, isExecuting,  \* the flags of each operation
  priority,     \* its queuePriority
  dependencies, \* the operations it depends on
  watching,     \* those of them whose isFinished it observes
  operations,   \* the queue's operations
  awaited,      \* those whose isReady it observes
  waiting,      \* those that are ready to be started
  watched,      \* those it has started, whose isFinished it observes
  executing,    \* its count of them
  starting,     \* those handed to the pool, in order
  cond,         \* the condition of the pool's lock
  threadCount,  \* the queue's count of the pool's threads
  suspended, count,  \* isSuspended, maxConcurrentOperationCount
  lock,         \* who holds the queue's lock from one step to the next
  async,        \* concurrent operations that have started and not finished
  pc,           \* what each thread does next
  resume,       \* and what after an _execute
  cur,          \* the operation it runs or finishes
  todo,         \* the observers, or new operations, it has still to tell of
  held,         \* the operation it is changing, with its lock
  late,         \* those the queue began to observe in the middle of a change
  mains,        \* history: how often -main has been entered
  byHand,       \* history: the operations the program has started itself
  missed,       \* history: <<op, dependency>>, observed after it had finished
  strays        \* history: how many left finished that the queue did not start

opVars == <<ready, cancelled, finished, isExecuting, priority, dependencies,
            watching>>
queueVars == <<operations, awaited, waiting, watched, executing, suspended,
               count, async, late>>
poolVars == <<starting, cond, threadCount>>
threadVars == <<lock, pc, resume, cur, todo, held>>
histVars == <<mains, byHand, missed, strays>>
vars == <<opVars, queueVars, poolVars, threadVars, histVars>>

NoOp == Queue  \* the value of cur and held of a thread without an operation

TypeOK ==
  /\ ready \in [Ops -> BOOLEAN] /\ cancelled \in [Ops -> BOOLEAN]
  /\ finished \in [Ops -> BOOLEAN] /\ isExecuting \in [Ops -> BOOLEAN]
  /\ priority \in [Ops -> Priorities]
  /\ dependencies \in [Ops -> SUBSET Ops]
  /\ watching \in [Ops -> SUBSET Ops]
  /\ operations \subseteq Ops /\ awaited \subseteq Ops
  /\ waiting \subseteq Ops /\ watched \subseteq Ops /\ async \subseteq Ops
  /\ late \subseteq Ops /\ byHand \subseteq Ops /\ missed \subseteq Ops \X Ops
  /\ executing \in Int /\ threadCount \in Int
  /\ starting \in Seq(Ops) /\ cond \in {0, 1}
  /\ suspended \in BOOLEAN /\ count \in Counts
  /\ lock \in Threads \cup {NoThread}
  /\ pc \in [Threads -> {"free", "depending", "readying", "adding", "announcing",
                         "owes", "loop", "gone", "idle", "expired", "taken",
                         "main", "finishing", "notifying"}]
  /\ resume \in [Threads -> {"free", "announcing", "notifying"}]
  /\ cur \in [Threads -> Ops \cup {NoOp}] /\ held \in [Threads -> Ops \cup {NoOp}]
  /\ todo \in [Threads -> SUBSET (Ops \cup {Queue})]
  /\ mains \in [Ops -> Nat] /\ strays \in Nat

Home(t) == IF t \in Workers THEN "idle" ELSE "free"

Init ==
  /\ ready = [o \in Ops |-> TRUE]
  /\ cancelled = [o \in Ops |-> FALSE]
  /\ finished = [o \in Ops |-> FALSE]
  /\ isExecuting = [o \in Ops |-> FALSE]
  /\ priority \in [Ops -> Priorities]
  /\ dependencies = [o \in Ops |-> {}]
  /\ watching = [o \in Ops |-> {}]
  /\ operations = {} /\ awaited = {} /\ waiting = {} /\ watched = {}
  /\ executing = 0 /\ threadCount = 0
  /\ starting = <<>> /\ cond = 0
  /\ suspended = FALSE /\ count \in Counts
  /\ lock = NoThread /\ async = {}
  /\ pc = [t \in Threads |-> IF t \in Workers THEN "gone" ELSE "free"]
  /\ resume = [t \in Threads |-> "free"]
  /\ cur = [t \in Threads |-> NoOp]
  /\ todo = [t \in Threads |-> {}]
  /\ held = [t \in Threads |-> NoOp] /\ late = {}
  /\ mains = [o \in Ops |-> 0]
  /\ byHand = {} /\ missed = {} /\ strays = 0

--------------------------------------------------------------------------
(* The observation of a change by the queue ends with _execute, in thread t *)
(* as soon as it gets the lock; t goes on at pc "back" afterwards.          *)
ThenExecute_never(t, back) == UNCHANGED <<pc, resume>>  \* mutant

ThenExecute(t, back) == /\ pc' = [pc EXCEPT ![t] = "owes"]
                        /\ resume' = [resume EXCEPT ![t] = back]

(* An operation has a lock of its own, which _finish keeps until everybody  *)
(* has been told.                                                           *)
InFinish(t) == pc[t] = "notifying" \/ resume[t] = "notifying"
Unlocked_always(o) == TRUE  \* mutant: changed without its lock
Unlocked(o) ==
  \A t \in Threads : held[t] # o /\ ~ (InFinish(t) /\ cur[t] = o)

Keep(t, o, where) == /\ held' = [held EXCEPT ![t] = o]
                     /\ pc' = [pc EXCEPT ![t] = where]

(* observeValueForKeyPath: of the queue, but for the _execute it ends with. *)
(* It goes by what the operation is, not by the key it is told of.          *)
QueueSees(o, isReady) ==
  \/ /\ finished[o]
     /\ executing' = executing - 1
     /\ watched' = watched \ {o}
     /\ operations' = operations \ {o}
     /\ strays' = IF o \in watched THEN strays ELSE strays + 1
     /\ UNCHANGED <<awaited, waiting>>
  \/ /\ ~ finished[o] /\ isReady
     /\ awaited' = awaited \ {o}
     /\ waiting' = waiting \cup {o}
     /\ UNCHANGED <<executing, watched, operations, strays>>
  \/ /\ ~ finished[o] /\ ~ isReady
     /\ UNCHANGED <<awaited, waiting, executing, watched, operations, strays>>

(* isReady becomes YES: willChangeValueForKey:, and then the assignment and *)
(* didChangeValueForKey:, which tells the queue if it observed when the     *)
(* change began.                                                            *)
BeginReady(t, o, back) ==
  /\ Keep(t, o, "readying")
  /\ resume' = [resume EXCEPT ![t] = back]
  /\ late' = late \ {o}

Told_never(o) == FALSE  \* mutant: KVO does not tell the queue
Told(o) == o \in awaited \ late

MakeReady(t) ==
  /\ pc[t] = "readying"
  /\ ready' = [ready EXCEPT ![held[t]] = TRUE]
  /\ \/ /\ Told(held[t])
        /\ lock = NoThread
        /\ QueueSees(held[t], TRUE)
        /\ ThenExecute(t, resume[t])
        /\ UNCHANGED held
     \/ /\ ~ Told(held[t])
        /\ Keep(t, NoOp, resume[t])
        /\ resume' = [resume EXCEPT ![t] = "free"]
        /\ UNCHANGED <<awaited, waiting, executing, watched, operations, strays>>
  /\ UNCHANGED <<cancelled, finished, isExecuting, priority, dependencies,
                 watching, suspended, count, async, late, poolVars, lock, cur,
                 todo, mains, byHand, missed>>

Pending(o) == ~ (cancelled[o] \/ isExecuting[o] \/ finished[o])

(* Operations.  A dependency is observed, and stops the operation from      *)
(* being ready, only when it has still to finish; that is tested first.     *)
Matters(o, d) == Pending(o) /\ ~ finished[d]

AllFinished_some(D) == D # {} /\ \A e \in D : finished[e]  \* mutant
AllFinished(D) == \A e \in D : finished[e]

\* Given to the queue, or about to be.
Queued(o) == \/ o \in operations
             \/ \E t \in Threads : pc[t] = "adding" /\ o \in todo[t]

AddDependency(t, o, d) ==
  /\ pc[t] = "free"
  /\ <<o, d>> \in MayDepend
  /\ Unlocked(o)
  /\ d \notin dependencies[o]
  /\ LateDependencies \/ (~ Queued(o) /\ Pending(o))
  /\ dependencies' = [dependencies EXCEPT ![o] = @ \cup {d}]
  /\ IF Matters(o, d)
     THEN Keep(t, o, "depending") /\ todo' = [todo EXCEPT ![t] = {d}]
     ELSE UNCHANGED <<held, pc, todo>>
  /\ UNCHANGED <<ready, cancelled, finished, isExecuting, priority, watching,
                 queueVars, poolVars, lock, resume, cur, histVars>>

(* The dependency may have finished since it was tested, and will not tell. *)
Depend(t) ==
  /\ pc[t] = "depending"
  /\ LET o == held[t]
         D == todo[t] \ {Queue}
     IN
     /\ watching' = [watching EXCEPT ![o] = @ \cup D]
     /\ missed' = missed \cup {<<o, d>> : d \in {e \in D : finished[e]}}
     /\ ready' = [ready EXCEPT ![o] = FALSE]
     /\ late' = IF ready[o] THEN late \ {o} ELSE late
     /\ IF ready[o] /\ o \in awaited
        THEN ThenExecute(t, "free") /\ UNCHANGED held
        ELSE Keep(t, NoOp, "free") /\ UNCHANGED resume
  /\ todo' = [todo EXCEPT ![t] = {}]
  /\ UNCHANGED <<cancelled, finished, isExecuting, priority, dependencies,
                 operations, awaited, waiting, watched, executing, suspended,
                 count, async, poolVars, lock, cur, mains, byHand, strays>>

RemoveDependency(t, o, d) ==
  /\ pc[t] = "free"
  /\ Unlocked(o)
  /\ d \in dependencies[o]
  /\ dependencies' = [dependencies EXCEPT ![o] = @ \ {d}]
  /\ watching' = [watching EXCEPT ![o] = @ \ {d}]
  /\ IF ~ ready[o] /\ AllFinished(dependencies[o] \ {d})
     THEN BeginReady(t, o, "free")
     ELSE UNCHANGED <<held, pc, resume, late>>
  /\ UNCHANGED <<ready, cancelled, finished, isExecuting, priority, operations,
                 awaited, waiting, watched, executing, suspended, count, async,
                 poolVars, lock, cur, todo, histVars>>

Cancel(t, o) ==
  /\ pc[t] = "free"
  /\ Unlocked(o)
  /\ ~ cancelled[o] /\ ~ finished[o]
  /\ cancelled' = [cancelled EXCEPT ![o] = TRUE]
  /\ IF ready[o]
     THEN UNCHANGED <<held, pc, resume, late>>
     ELSE BeginReady(t, o, "free")
  /\ UNCHANGED <<ready, finished, isExecuting, priority, dependencies, watching,
                 operations, awaited, waiting, watched, executing, suspended,
                 count, async, poolVars, lock, cur, todo, histVars>>

SetQueuePriority(t, o) ==
  /\ pc[t] = "free"
  /\ Unlocked(o)
  /\ \E p \in Priorities \ {priority[o]} :
       priority' = [priority EXCEPT ![o] = p]
  /\ UNCHANGED <<ready, cancelled, finished, isExecuting, dependencies,
                 watching, queueVars, poolVars, threadVars, histVars>>

(* An operation started by the program, be it the queue's or not.           *)
Start(t, o) ==
  /\ pc[t] = "free"
  /\ Unlocked(o)
  /\ o \in HandStarted \ Concurrent
  /\ ready[o] /\ ~ isExecuting[o] /\ ~ finished[o]
  /\ isExecuting' = [isExecuting EXCEPT ![o] = TRUE]
  /\ cur' = [cur EXCEPT ![t] = o]
  /\ pc' = [pc EXCEPT ![t] = "taken"]
  /\ byHand' = byHand \cup {o}
  /\ UNCHANGED <<ready, cancelled, finished, priority, dependencies, watching,
                 queueVars, poolVars, lock, resume, todo, held, mains, missed,
                 strays>>

(* -start and _thread call -main unless the operation is cancelled.         *)
EnterMain(t) ==
  /\ pc[t] = "taken"
  /\ IF cancelled[cur[t]]
     THEN /\ pc' = [pc EXCEPT ![t] = "finishing"]
          /\ UNCHANGED mains
     ELSE /\ pc' = [pc EXCEPT ![t] = "main"]
          /\ mains' = [mains EXCEPT ![cur[t]] = @ + 1]
  /\ UNCHANGED <<opVars, queueVars, poolVars, lock, resume, cur, todo, held,
                 byHand, missed, strays>>

(* -main returns, or raises, which _thread catches and -start does not.     *)
LeaveMain(t) ==
  /\ pc[t] = "main"
  /\ \/ /\ pc' = [pc EXCEPT ![t] = "finishing"]
        /\ UNCHANGED cur
     \/ /\ t \in Clients
        /\ pc' = [pc EXCEPT ![t] = "free"]
        /\ cur' = [cur EXCEPT ![t] = NoOp]
  /\ UNCHANGED <<opVars, queueVars, poolVars, lock, resume, todo, held, histVars>>

(* The end of a concurrent operation, in whatever thread it comes.          *)
FinishConcurrent(t, o) ==
  /\ pc[t] = "free"
  /\ o \in async
  /\ async' = async \ {o}
  /\ cur' = [cur EXCEPT ![t] = o]
  /\ pc' = [pc EXCEPT ![t] = "finishing"]
  /\ UNCHANGED <<opVars, operations, awaited, waiting, watched, executing,
                 suspended, count, late, poolVars, lock, resume, todo, held,
                 histVars>>

(* _finish: isFinished becomes YES and KVO has its observers to tell; that  *)
(* of one that another thread has finished does nothing.  Of the operations *)
(* that were executing only a concurrent one says that it no longer is.     *)
Finish(t) ==
  /\ pc[t] = "finishing"
  /\ Unlocked(cur[t])
  /\ IF finished[cur[t]]
     THEN /\ cur' = [cur EXCEPT ![t] = NoOp]
          /\ pc' = [pc EXCEPT ![t] = Home(t)]
          /\ UNCHANGED <<isExecuting, finished, todo>>
     ELSE /\ isExecuting' = [isExecuting EXCEPT ![cur[t]] = @ /\ cur[t] \notin Concurrent]
          /\ finished' = [finished EXCEPT ![cur[t]] = TRUE]
          /\ todo' = [todo EXCEPT ![t] =
                        {d \in Ops : cur[t] \in watching[d]}
                          \cup {q \in {Queue} : cur[t] \in watched}]
          /\ pc' = [pc EXCEPT ![t] = "notifying"]
          /\ UNCHANGED cur
  /\ UNCHANGED <<ready, cancelled, priority, dependencies, watching, queueVars,
                 poolVars, lock, resume, held, histVars>>

(* observeValueForKeyPath: of an operation that depends on the finished one.*)
TellDependent(t, d) ==
  /\ pc[t] = "notifying"
  /\ d \in todo[t] \ {Queue}
  /\ Unlocked(d)
  /\ todo' = [todo EXCEPT ![t] = @ \ {d}]
  /\ watching' = [watching EXCEPT ![d] = @ \ {cur[t]}]
  /\ IF ~ ready[d] /\ AllFinished(dependencies[d])
     THEN BeginReady(t, d, "notifying")
     ELSE UNCHANGED <<held, pc, resume, late>>
  /\ UNCHANGED <<ready, cancelled, finished, isExecuting, priority, dependencies,
                 operations, awaited, waiting, watched, executing, suspended,
                 count, async, poolVars, lock, cur, histVars>>

(* The queue that ran it is told.                                           *)
TellQueue(t) ==
  /\ pc[t] = "notifying"
  /\ Queue \in todo[t]
  /\ lock = NoThread
  /\ QueueSees(cur[t], ready[cur[t]])
  /\ todo' = [todo EXCEPT ![t] = @ \ {Queue}]
  /\ ThenExecute(t, "notifying")
  /\ UNCHANGED <<opVars, suspended, count, async, late, poolVars, lock, cur,
                 held, mains, byHand, missed>>

Finished(t) ==
  /\ pc[t] = "notifying"
  /\ todo[t] = {}
  /\ cur' = [cur EXCEPT ![t] = NoOp]
  /\ pc' = [pc EXCEPT ![t] = Home(t)]
  /\ UNCHANGED <<opVars, queueVars, poolVars, lock, resume, todo, held, histVars>>

--------------------------------------------------------------------------
(* The queue.                                                               *)

\* In the middle of a change of its isReady.
Changing(o) == \E t \in Threads : pc[t] = "readying" /\ held[t] = o

(* The operations of new that the queue has not yet; those that are ready   *)
(* are announced, one after the other, under the same lock.                 *)
Enter(t, new) ==
  LET added == new \ operations
      announce == {o \in added : ready[o]}
  IN /\ operations' = operations \cup added
     /\ awaited' = awaited \cup added
     /\ late' = (late \ added) \cup {o \in added : Changing(o)}
     /\ todo' = [todo EXCEPT ![t] = announce]
     /\ IF announce = {}
        THEN UNCHANGED lock /\ pc' = [pc EXCEPT ![t] = "free"]
        ELSE lock' = t /\ pc' = [pc EXCEPT ![t] = "announcing"]

\* No thread is giving it a dependency, or late ones are allowed.
MayAdd(o) == \/ LateDependencies
             \/ \A t \in Threads : ~ (pc[t] = "depending" /\ held[t] = o)

(* addOperation: tests isFinished under the lock ...                        *)
AddOperation(t, o) ==
  /\ pc[t] = "free"
  /\ lock = NoThread
  /\ o \notin operations /\ ~ finished[o] /\ MayAdd(o)
  /\ Enter(t, {o})
  /\ UNCHANGED <<opVars, waiting, watched, executing, suspended, count, async,
                 poolVars, resume, cur, held, histVars>>

(* ... and addOperations:waitUntilFinished: before it asks for the lock.    *)
AddOperations(t, new) ==
  /\ pc[t] = "free"
  /\ \A o \in new : ~ finished[o] /\ MayAdd(o)
  /\ todo' = [todo EXCEPT ![t] = new]
  /\ pc' = [pc EXCEPT ![t] = "adding"]
  /\ UNCHANGED <<opVars, queueVars, poolVars, lock, resume, cur, held, histVars>>

Insert(t) ==
  /\ pc[t] = "adding"
  /\ lock = NoThread
  /\ Enter(t, todo[t] \ {Queue})
  /\ UNCHANGED <<opVars, waiting, watched, executing, suspended, count, async,
                 poolVars, resume, cur, held, histVars>>

Announce(t, o) ==
  /\ pc[t] = "announcing"
  /\ o \in todo[t]
  /\ todo' = [todo EXCEPT ![t] = @ \ {o}]
  /\ QueueSees(o, ready[o])
  /\ pc' = [pc EXCEPT ![t] = "loop"]
  /\ resume' = [resume EXCEPT ![t] = "announcing"]
  /\ UNCHANGED <<opVars, suspended, count, async, late, poolVars, lock, cur,
                 held, mains, byHand, missed>>

SetSuspended(t) ==
  /\ pc[t] = "free"
  /\ lock = NoThread
  /\ suspended' = ~ suspended
  /\ ThenExecute(t, "free")
  /\ UNCHANGED <<opVars, operations, awaited, waiting, watched, executing,
                 count, async, late, poolVars, lock, cur, todo, held, histVars>>

SetMaxConcurrentOperationCount(t) ==
  /\ pc[t] = "free"
  /\ lock = NoThread
  /\ count' \in Counts \ {count}
  /\ ThenExecute(t, "free")
  /\ UNCHANGED <<opVars, operations, awaited, waiting, watched, executing,
                 suspended, async, late, poolVars, lock, cur, todo, held,
                 histVars>>

(* _execute.                                                                *)
Execute(t) ==
  /\ pc[t] = "owes"
  /\ lock = NoThread
  /\ lock' = t
  /\ pc' = [pc EXCEPT ![t] = "loop"]
  /\ UNCHANGED <<opVars, queueVars, poolVars, resume, cur, todo, held, histVars>>

Max == IF count = -1 THEN 200 ELSE count
MayStart == ~ suspended /\ Max > executing /\ waiting # {}

(* sortUsingFunction: is not stable: of equal priorities any may be first.  *)
First(o) == o \in waiting /\ \A p \in waiting : priority[p] <= priority[o]

Needed == threadCount = 0 \/ (Len(starting) > 0 /\ threadCount < POOL)

(* An operation for the pool, which gets a new thread when it needs one.    *)
Hand(t, o) ==
  /\ starting' = Append(starting, o)
  /\ cond' = 1
  /\ IF Needed
     THEN /\ threadCount' = threadCount + 1
          /\ \E w \in Workers : pc[w] = "gone" /\ pc' = [pc EXCEPT ![w] = "idle"]
     ELSE UNCHANGED <<threadCount, pc>>

StartFirst(t, o) ==
  /\ pc[t] = "loop"
  /\ MayStart
  /\ First(o)
  /\ waiting' = waiting \ {o}
  /\ watched' = watched \cup {o}
  /\ executing' = executing + 1
  /\ IF o \in Concurrent
     THEN /\ async' = async \cup {o}
          /\ isExecuting' = [isExecuting EXCEPT ![o] = TRUE]
          /\ mains' = [mains EXCEPT ![o] = @ + 1]
          /\ UNCHANGED <<poolVars, pc>>
     ELSE /\ Hand(t, o)
          /\ UNCHANGED <<async, isExecuting, mains>>
  /\ UNCHANGED <<ready, cancelled, finished, priority, dependencies, watching,
                 operations, awaited, suspended, count, late, lock, resume, cur,
                 todo, held, byHand, missed, strays>>

Executed(t) ==
  /\ pc[t] = "loop"
  /\ ~ MayStart
  /\ IF resume[t] = "announcing" /\ todo[t] # {}
     THEN /\ pc' = [pc EXCEPT ![t] = "announcing"]
          /\ UNCHANGED lock
     ELSE /\ pc' = [pc EXCEPT ![t] = IF resume[t] = "notifying"
                                     THEN "notifying" ELSE "free"]
          /\ lock' = NoThread
  /\ resume' = [resume EXCEPT ![t] = "free"]
  /\ held' = [held EXCEPT ![t] = NoOp]
  /\ UNCHANGED <<opVars, queueVars, poolVars, cur, todo, histVars>>

--------------------------------------------------------------------------
(* A thread of the pool (_thread).  lockWhenCondition:beforeDate: is what   *)
(* NSConditionLock implements: it may time out while the condition is not   *)
(* met, and answers NO even if it is met when the thread runs again.        *)
Rest_all == starting  \* mutant: the operation stays in starting
Rest_first == SubSeq(starting, 1, Len(starting) - 1)  \* mutant: wrong one
Rest == Tail(starting)

CondFor_one(n) == 1    \* mutant: never "no more operations starting"
CondFor(n) == IF n > 0 THEN 1 ELSE 0

Take(w) ==
  /\ pc[w] = "idle"
  /\ cond = 1
  /\ IF starting = <<>>
     THEN UNCHANGED <<starting, cur, pc>>
     ELSE /\ cur' = [cur EXCEPT ![w] = Head(starting)]
          /\ starting' = Rest
          /\ pc' = [pc EXCEPT ![w] = "taken"]
  /\ cond' = CondFor(Len(starting'))
  /\ UNCHANGED <<opVars, queueVars, threadCount, lock, resume, todo, held,
                 histVars>>

TimeOut(w) ==
  /\ IdleTimeout
  /\ pc[w] = "idle"
  /\ cond # 1
  /\ pc' = [pc EXCEPT ![w] = "expired"]
  /\ UNCHANGED <<opVars, queueVars, poolVars, lock, resume, cur, todo, held, histVars>>

Exit(w) ==
  /\ pc[w] = "expired"
  /\ lock = NoThread
  /\ threadCount' = threadCount - 1
  /\ pc' = [pc EXCEPT ![w] = "gone"]
  /\ UNCHANGED <<opVars, queueVars, starting, cond, lock, resume, cur, todo,
                 held, histVars>>

--------------------------------------------------------------------------
Program(t) ==
  \/ \E o, d \in Ops : AddDependency(t, o, d) \/ RemoveDependency(t, o, d)
  \/ \E o \in Ops : Cancel(t, o) \/ SetQueuePriority(t, o) \/ Start(t, o)
                   \/ AddOperation(t, o)
  \/ \E new \in Batches : AddOperations(t, new)
  \/ SetSuspended(t) \/ SetMaxConcurrentOperationCount(t)

Work(t) == \/ EnterMain(t) \/ LeaveMain(t) \/ Finish(t) \/ Finished(t)
           \/ \E o \in Ops : \/ TellDependent(t, o) \/ Announce(t, o)
                             \/ StartFirst(t, o) \/ FinishConcurrent(t, o)
           \/ TellQueue(t) \/ Execute(t) \/ Executed(t)
           \/ Depend(t) \/ MakeReady(t) \/ Insert(t)

Pool(w) == Take(w) \/ TimeOut(w) \/ Exit(w)

Next == \/ \E t \in Clients : Program(t)
        \/ \E t \in Threads : Work(t)
        \/ \E w \in Workers : Pool(w)

(* Threads keep running and a contended lock is granted some time; -main    *)
(* returns and concurrent operations end.  The program need not call.       *)
Fairness == /\ \A t \in Threads : SF_vars(Work(t))
            /\ \A w \in Workers : SF_vars(Take(w)) /\ WF_vars(Exit(w))

SafeSpec == Init /\ [][Next]_vars
Spec == SafeSpec /\ Fairness

--------------------------------------------------------------------------
RunBy(t) == IF pc[t] \in {"taken", "main", "finishing"} THEN {cur[t]} ELSE {}
ToldBy(t) == IF Queue \in todo[t] THEN {cur[t]} ELSE {}
Handed == {starting[i] : i \in 1 .. Len(starting)}

(* An operation of the queue is always in one place, from which it goes on: *)
(* observed until it is ready, waiting, or started - and then handed to the *)
(* pool, run somewhere, or finished with the queue about to be told.  One   *)
(* that the program has started itself may have finished behind the queue's *)
(* back, and stays with those it has started.                               *)
NoOperationLost ==
  /\ waiting \cup watched \subseteq operations
  /\ operations \subseteq awaited \cup waiting \cup watched
  /\ \A o \in awaited \ operations : finished[o]
  /\ awaited \cap waiting = {}
  /\ (awaited \cup waiting) \cap watched = {}
  /\ LET going == Handed \cup async \cup
                    UNION {RunBy(t) \cup ToldBy(t) : t \in Threads}
     IN watched \ byHand = going \ byHand

(* One that is ready and still observed is about to be announced, unless    *)
(* the queue began to observe it in the middle of the change, which KVO     *)
(* does not tell it of.                                                     *)
NoReadinessMissed ==
  \A o \in (awaited \cap operations) \ late :
    ready[o] => lock # NoThread /\ o \in todo[lock]

(* One that has not started and is not ready is becoming so, or has a       *)
(* dependency that will tell it: observed, and unfinished or finished by a  *)
(* thread that has not yet told it - unless it had finished when it was     *)
(* observed.                                                                *)
NoDependencyMissed ==
  \A o \in Ops :
    Pending(o) /\ ~ ready[o] =>
      \/ Changing(o)
      \/ \E d \in dependencies[o] \cap watching[o] :
           \/ ~ finished[d] \/ <<o, d>> \in missed
           \/ \E t \in Threads : cur[t] = d /\ o \in todo[t]

(* Whatever ends, is added, cancelled, resumed or allowed: when the queue   *)
(* is at rest it is not holding back an operation it could start.           *)
WorkConserving ==
  lock = NoThread /\ (\A t \in Threads : pc[t] # "owes") => ~ MayStart

(* The counts the queue decides by are those of what they count, but that   *)
(* one that was added when it had finished is taken off the count of the    *)
(* started ones without having been one.                                    *)
CountsExact ==
  /\ executing = Cardinality(watched) - strays
  /\ threadCount = Cardinality({w \in Workers : pc[w] # "gone"})
  /\ threadCount <= POOL
  /\ cond = 1 <=> starting # <<>>

(* No operation is run twice, by two threads, or after it has finished,     *)
(* however it is added, but one that the program starts itself.             *)
RunsOnce ==
  /\ \A o \in Ops \ byHand : mains[o] <= 1
  /\ \A t, u \in Threads : t # u => RunBy(t) \cap RunBy(u) \subseteq byHand
  /\ \A t \in Threads : \A o \in RunBy(t) \ byHand : ~ finished[o]

(* -main is entered only when every dependency has finished, or in a        *)
(* concurrent operation that was cancelled.                                 *)
DependenciesFirst ==
  [][\A o \in Ops : mains'[o] > mains[o] =>
       cancelled[o] \/ \A d \in dependencies[o] : finished[d]]_vars

(* An operation whose dependencies have finished leaves the queue, unless   *)
(* the queue is suspended or limited to less than may be lost behind its    *)
(* back, it gets a new dependency, the program starts it itself, or the     *)
(* change that makes it ready falls together with its being observed.       *)
Held(o) == \/ suspended \/ count \in 0 .. Cardinality(byHand)
           \/ o \in late \cup byHand
           \/ \E d \in dependencies[o] : ~ finished[d] \/ <<o, d>> \in missed
QueueDrains == \A o \in Ops : o \in operations ~> o \notin operations \/ Held(o)
==========================================================================
