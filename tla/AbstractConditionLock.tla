---------------------- MODULE AbstractConditionLock ----------------------
(***************************************************************************)
(* What an NSConditionLock promises its users, whatever mutex, condition   *)
(* variable or wake-up it is made of: one holder at a time, a condition    *)
(* only the holder changes, and a request that names a condition granted   *)
(* only while the condition is the one it names.                           *)
(***************************************************************************)
EXTENDS Integers

CONSTANTS Threads,   \* the threads that use the lock
          Values,    \* the conditions they ask for and set
          NoThread,  \* the lock is free
          Any        \* a request that does not name a condition

VARIABLES holder,    \* the thread the lock was granted to, or NoThread
          condition, \* what -condition answers
          asked      \* the threads that are inside a call that acquires,
                     \* each with the request it made

avars == <<holder, condition, asked>>

(* "forever": lock and lockWhenCondition:; "limit": the two beforeDate:     *)
(* calls; "now": tryLock and tryLockWhenCondition:.                         *)
Request == [want : Values \cup {Any}, patience : {"forever", "limit", "now"}]
NoRequest == [want |-> Any, patience |-> "none"]

AInit == /\ holder = NoThread
         /\ condition \in Values
         /\ asked = [t \in Threads |-> NoRequest]

Ask(t) == /\ holder # t
          /\ asked[t] = NoRequest
          /\ \E r \in Request : asked' = [asked EXCEPT ![t] = r]
          /\ UNCHANGED <<holder, condition>>

Grant(t) == /\ asked[t] # NoRequest
            /\ holder = NoThread
            /\ asked[t].want \in {Any, condition}
            /\ holder' = t
            /\ asked' = [asked EXCEPT ![t] = NoRequest]
            /\ UNCHANGED condition

Refuse(t) == /\ asked[t].patience \in {"limit", "now"}
             /\ asked' = [asked EXCEPT ![t] = NoRequest]
             /\ UNCHANGED <<holder, condition>>

SetCondition(t) == /\ holder = t
                   /\ condition' \in Values
                   /\ UNCHANGED <<holder, asked>>

Release(t) == /\ holder = t
              /\ holder' = NoThread
              /\ UNCHANGED <<condition, asked>>

ANext == \E t \in Threads :
           Ask(t) \/ Grant(t) \/ Refuse(t) \/ SetCondition(t) \/ Release(t)

(* A free lock is not kept from a thread that waits for the very condition  *)
(* it has: no wake-up is lost.                                              *)
AFairness == \A t \in Threads : WF_avars(Grant(t))

ASafeSpec == AInit /\ [][ANext]_avars
ASpec == ASafeSpec /\ AFairness
==========================================================================
