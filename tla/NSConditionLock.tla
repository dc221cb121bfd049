------------------------- MODULE NSConditionLock -------------------------
(***************************************************************************)
(* NSConditionLock of Source/NSLock.m: an NSCondition (a mutex and a       *)
(* condition variable) and an integer.  A step is one pthread call, or the *)
(* code between two of them.  Users are disciplined: only the thread that  *)
(* holds the lock unlocks it, and it does not acquire it again.            *)
(***************************************************************************)
EXTENDS Integers

CONSTANTS Threads, Values, NoThread, Any,
          HalfRange  \* the int that stores the condition is in
                     \* -HalfRange .. HalfRange-1 (2^31 in the program)

ASSUME NoThreadAssumption == NoThread \notin Threads
ASSUME ValuesAssumption == Values \subseteq Int /\ Any \notin Int
ASSUME HalfRangeAssumption == HalfRange \in Nat \ {0}

VARIABLES owner,   \* the thread that holds the mutex of _condition
          value,   \* _condition_value
          pc,      \* where each thread is in its call
          request  \* the arguments of each thread's acquiring call

vars == <<owner, value, pc, request>>

Request == [want : Values \cup {Any}, patience : {"forever", "limit", "now"}]
NoRequest == [want |-> Any, patience |-> "none"]

(* The pcs of a thread inside its call or after it with the mutex, without  *)
(* it, and those of a thread to which the lock was granted.                 *)
Granted == {"holding", "stored", "told"}
WithMutex == Granted \cup {"testing", "leaving"}
WithoutMutex == {"idle", "entering", "waiting", "woken", "expired"}

(* NSInteger to int: _condition_value is narrower than what sets it.        *)
ToInt(v) == IF v \in -HalfRange .. HalfRange - 1
            THEN v
            ELSE ((v + HalfRange) % (2 * HalfRange)) - HalfRange

TypeOK == /\ owner \in Threads \cup {NoThread}
          /\ value \in Int
          /\ pc \in [Threads -> WithMutex \cup WithoutMutex]
          /\ request \in [Threads -> Request \cup {NoRequest}]

Init == /\ owner = NoThread
        /\ \E v \in Values : value = ToInt(v)
        /\ pc = [t \in Threads |-> "idle"]
        /\ request = [t \in Threads |-> NoRequest]

--------------------------------------------------------------------------
Call(t) == /\ pc[t] = "idle"
           /\ \E r \in Request : request' = [request EXCEPT ![t] = r]
           /\ pc' = [pc EXCEPT ![t] = "entering"]
           /\ UNCHANGED <<owner, value>>

(* pthread_mutex_lock, or a pthread_mutex_trylock that succeeds.            *)
Enter_ignoresError(t) ==  \* mutant: any result of trylock is a success
            /\ pc[t] = "entering"
            /\ owner' = t
            /\ pc' = [pc EXCEPT ![t] = IF request[t].want = Any
                                       THEN "holding" ELSE "testing"]
            /\ request' = [request EXCEPT ![t] = IF request[t].want = Any
                                                 THEN NoRequest ELSE @]
            /\ UNCHANGED value

Enter(t) == /\ pc[t] = "entering"
            /\ owner = NoThread
            /\ owner' = t
            /\ IF request[t].want = Any
               THEN /\ pc' = [pc EXCEPT ![t] = "holding"]
                    /\ request' = [request EXCEPT ![t] = NoRequest]
               ELSE /\ pc' = [pc EXCEPT ![t] = "testing"]
                    /\ UNCHANGED request
            /\ UNCHANGED value

(* A failed trylock ends a try call, and a call with a limit when the date  *)
(* has passed.                                                              *)
Refused(t) == /\ pc[t] = "entering"
              /\ request[t].patience \in {"limit", "now"}
              /\ owner # NoThread
              /\ pc' = [pc EXCEPT ![t] = "idle"]
              /\ request' = [request EXCEPT ![t] = NoRequest]
              /\ UNCHANGED <<owner, value>>

(* The comparison of the condition with the wanted one; waiting releases    *)
(* the mutex in the same step (pthread_cond_wait, pthread_cond_timedwait).  *)
TestMeets(t) == /\ pc[t] = "testing"
                /\ value = request[t].want
                /\ pc' = [pc EXCEPT ![t] = "holding"]
                /\ request' = [request EXCEPT ![t] = NoRequest]
                /\ UNCHANGED <<owner, value>>

TestWaits(t) == /\ pc[t] = "testing"
                /\ value # request[t].want
                /\ request[t].patience # "now"
                /\ pc' = [pc EXCEPT ![t] = "waiting"]
                /\ owner' = NoThread
                /\ UNCHANGED <<value, request>>

TestFails(t) == /\ pc[t] = "testing"
                /\ value # request[t].want
                /\ request[t].patience = "now"
                /\ pc' = [pc EXCEPT ![t] = "leaving"]
                /\ UNCHANGED <<owner, value, request>>

(* POSIX lets a wait return without a broadcast.                            *)
SpuriousWakeup(t) == /\ pc[t] = "waiting"
                     /\ pc' = [pc EXCEPT ![t] = "woken"]
                     /\ UNCHANGED <<owner, value, request>>

TimeOut(t) == /\ pc[t] = "waiting"
              /\ request[t].patience = "limit"
              /\ pc' = [pc EXCEPT ![t] = "expired"]
              /\ UNCHANGED <<owner, value, request>>

(* A wait returns only with the mutex, also when it has timed out.          *)
Reacquire_noRetest(t) ==  \* mutant: if instead of while
                /\ pc[t] \in {"woken", "expired"}
                /\ owner = NoThread
                /\ owner' = t
                /\ pc' = [pc EXCEPT ![t] =
                            IF pc[t] = "woken" THEN "holding" ELSE "leaving"]
                /\ request' = [request EXCEPT ![t] =
                                 IF pc[t] = "woken" THEN NoRequest ELSE @]
                /\ UNCHANGED value

Reacquire(t) == /\ pc[t] \in {"woken", "expired"}
                /\ owner = NoThread
                /\ owner' = t
                /\ pc' = [pc EXCEPT ![t] =
                            IF pc[t] = "woken" THEN "testing" ELSE "leaving"]
                /\ UNCHANGED <<value, request>>

(* The unlock before a NO.                                                  *)

Leave(t) == /\ pc[t] = "leaving"
            /\ owner' = NoThread
            /\ pc' = [pc EXCEPT ![t] = "idle"]
            /\ request' = [request EXCEPT ![t] = NoRequest]
            /\ UNCHANGED value

--------------------------------------------------------------------------
Unlock(t) == /\ pc[t] = "holding"
             /\ owner' = NoThread
             /\ pc' = [pc EXCEPT ![t] = "idle"]
             /\ UNCHANGED <<value, request>>

(* unlockWithCondition: in its three steps.                                 *)
Store(t) == /\ pc[t] = "holding"
            /\ \E v \in Values : value' = ToInt(v)
            /\ pc' = [pc EXCEPT ![t] = "stored"]
            /\ UNCHANGED <<owner, request>>

Woken(u) == IF pc[u] = "waiting" THEN "woken" ELSE pc[u]

Broadcast_signals(t) ==  \* mutant: pthread_cond_signal wakes one waiter
                /\ pc[t] = "stored"
                /\ \/ /\ \A u \in Threads : pc[u] # "waiting"
                      /\ pc' = [pc EXCEPT ![t] = "told"]
                   \/ \E u \in Threads :
                        /\ pc[u] = "waiting"
                        /\ pc' = [pc EXCEPT ![t] = "told", ![u] = "woken"]
                /\ UNCHANGED <<owner, value, request>>

Broadcast(t) == /\ pc[t] = "stored"
                /\ pc' = [u \in Threads |-> IF u = t THEN "told" ELSE Woken(u)]
                /\ UNCHANGED <<owner, value, request>>

UnlockTold(t) == /\ pc[t] = "told"
                 /\ owner' = NoThread
                 /\ pc' = [pc EXCEPT ![t] = "idle"]
                 /\ UNCHANGED <<value, request>>

Acquire(t) == Enter(t) \/ Reacquire(t)
Proceed(t) == \/ Refused(t) \/ TestMeets(t) \/ TestWaits(t) \/ TestFails(t)
              \/ TimeOut(t) \/ Leave(t) \/ Broadcast(t) \/ UnlockTold(t)

Next == \E t \in Threads :
          \/ Call(t) \/ Acquire(t) \/ Proceed(t) \/ SpuriousWakeup(t)
          \/ Unlock(t) \/ Store(t)

(* A thread inside a call keeps running, a limit date passes, and a thread  *)
(* that contends for a mutex freed again and again gets it some time.       *)
(* Nothing makes a holder unlock, or an idle thread call.                   *)
Fairness == \A t \in Threads : SF_vars(Acquire(t)) /\ WF_vars(Proceed(t))

SafeSpec == Init /\ [][Next]_vars
Spec == SafeSpec /\ Fairness

--------------------------------------------------------------------------
(* The mutex is held by exactly the thread whose call says so: two threads  *)
(* never both have the lock, whichever calls, time-outs and wake-ups race.  *)
MutualExclusion ==
  \A t \in Threads : pc[t] \in WithMutex <=> owner = t

(* A waiter whose condition is met is about to be told: only between the    *)
(* store of _condition_value and the broadcast does a thread sleep on the   *)
(* condition it asked for.  No order of unlocks, time-outs and tests loses  *)
(* a wake-up.                                                               *)
NoLostWakeup ==
  \A t \in Threads :
    pc[t] = "waiting" /\ request[t].want = value
      => owner # NoThread /\ pc[owner] = "stored"

(* The lock is the one AbstractConditionLock promises: holder is who it was *)
(* granted to, not who has the mutex for an instant to look at the value.   *)
AbstractHolder == IF owner # NoThread /\ pc[owner] \in Granted
                  THEN owner ELSE NoThread

Abs == INSTANCE AbstractConditionLock
         WITH holder <- AbstractHolder, condition <- value, asked <- request

(* Each call of NSConditionLock does what its header says: a refinement of  *)
(* the abstract lock, with its promise that no waiter is forgotten.         *)
ImplementsLock == Abs!ASpec
==========================================================================
