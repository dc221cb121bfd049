------------------------ MODULE NSNotificationQueue ------------------------
(***************************************************************************)
(* NSNotificationQueue.m: the notification queues of a thread.  The run    *)
(* loop makes passes over them (GSPrivateNotifyASAP, GSPrivateNotifyIdle); *)
(* what a pass posts calls observers, which may use the queues again, make *)
(* queues, let them die and run the loop again, that is, begin an inner    *)
(* pass.                                                                   *)
(***************************************************************************)
EXTENDS Integers, Sequences, FiniteSets, SequencesExt, Subsequences

CONSTANTS
  Queues, Names, Objects, Modes,
  NoMode,      \* the current mode of a run loop that is not running
  MaskChoices, \* the coalesce masks the program uses
  ModeChoices, \* and the modes it gives
  MaxEntries,  \* bound: notifications enqueued
  MaxPasses    \* bound: passes inside each other

ASSUME NoModeAssumption == NoMode \notin Modes
ASSUME BoundsAssumption == MaxEntries \in Nat /\ MaxPasses \in Nat

VARIABLES
  list,     \* the queues registered in the thread, the default one first
  queued,   \* _asapQueue and _idleQueue of each queue, the head first
  passes,   \* the passes in progress, the innermost last
  serial,   \* how many notifications were enqueued
  posted,   \* which of them were posted, in order
  fate      \* of the thread: running, hung in a loop that does not end, or
            \* with a list element in use that was freed

qvars == <<list, queued, passes, serial, posted, fate>>

Styles == {"asap", "idle"}
Masks == SUBSET {"name", "sender"}  \* {} is NSNotificationNoCoalescing
ASSUME ChoicesAssumption == MaskChoices \subseteq Masks
                            /\ ModeChoices \subseteq SUBSET Modes
Notification == [name : Names, object : Objects]
Entry == [id : 1 .. MaxEntries, note : Notification, modes : SUBSET Modes,
          mask : Masks]

(* A pass goes along the list; it is at a queue whose batch it posts.  since *)
(* is the number of notifications enqueued before it began.                 *)
Pass == [style : Styles, mode : Modes, at : Queues, batch : Seq(Entry),
         since : 0 .. MaxEntries]

QTypeOK ==
  /\ list \in Seq(Queues) /\ IsInjective(list)
  /\ queued \in [Styles -> [Queues -> Seq(Entry)]]
  /\ passes \in Seq(Pass) /\ Len(passes) <= MaxPasses
  /\ serial \in 0 .. MaxEntries
  /\ posted \in Seq(1 .. serial)
  /\ fate \in {"running", "hung", "freed"}

Nothing ==
  /\ queued = [s \in Styles |-> [q \in Queues |-> <<>>]]
  /\ passes = <<>> /\ serial = 0 /\ posted = <<>>
  /\ fate = "running"

QInit == list = <<>> /\ Nothing

Alive == fate = "running"
Registered(q) == q \in ToSet(list)
Position(q) == CHOOSE i \in 1 .. Len(list) : list[i] = q

--------------------------------------------------------------------------
(* initWithNotificationCenter: (and +defaultQueue) register a queue.        *)

Create(q) ==
  /\ Alive
  /\ ~ Registered(q) /\ \A i \in 1 .. Len(passes) : passes[i].at # q
  /\ list' = Append(list, q)
  /\ UNCHANGED <<queued, passes, serial, posted, fate>>

(* dealloc, and unregisterQueue:.  The element of the first or the second   *)
(* queue is released with its next one still in it, and its own dealloc     *)
(* releases all that come after it while the list is kept through them.     *)
(* The loop that looks for a later element than the second does not         *)
(* advance.  So only the last queue, if it is the first or the second, can  *)
(* be taken from the list and leave it whole.                               *)
Unregister(q) ==
  LET i == Position(q) IN
  IF i > 2 THEN fate' = "hung" /\ UNCHANGED list
  ELSE IF i < Len(list) THEN fate' = "freed" /\ UNCHANGED list
  ELSE list' = RemoveAt(list, i) /\ UNCHANGED fate

Dealloc(q) ==
  /\ Alive
  /\ Registered(q)
  /\ Unregister(q)
  /\ queued' = [s \in Styles |-> [queued[s] EXCEPT ![q] = <<>>]]
  /\ UNCHANGED <<passes, serial, posted>>

(* dequeueNotificationsMatching:coalesceMask:, on both queues.              *)
Matches(n, e, mask) ==
  /\ mask # {}
  /\ "name" \in mask => e.note.name = n.name
  /\ "sender" \in mask => e.note.object = n.object

Without_first(q, n, mask) ==  \* mutant: looks in the ASAP queue only
  [queued EXCEPT !["asap"][q] = Only(@, {e \in ToSet(@) : ~ Matches(n, e, mask)})]

Without(q, n, mask) ==
  [s \in Styles |-> [queued[s] EXCEPT ![q] =
                       Only(@, {e \in ToSet(@) : ~ Matches(n, e, mask)})]]

Dequeue(q, n, mask) ==
  /\ Alive
  /\ Registered(q)
  /\ queued' = Without(q, n, mask)
  /\ UNCHANGED <<list, passes, serial, posted, fate>>

(* enqueueNotification:postingStyle:coalesceMask:forModes:.  NSPostNow      *)
(* posts at once or not at all.                                             *)
Enqueue(q, n, style, mask, modes, current) ==
  /\ Alive
  /\ Registered(q)
  /\ serial < MaxEntries
  /\ serial' = serial + 1
  /\ LET rest == Without(q, n, mask)
         e == [id |-> serial', note |-> n, modes |-> modes, mask |-> mask]
     IN IF style = "now"
        THEN /\ queued' = rest
             /\ posted' = IF current \in modes \cup {NoMode}
                          THEN Append(posted, e.id) ELSE posted
        ELSE /\ queued' = [rest EXCEPT ![style][q] = Append(@, e)]
             /\ UNCHANGED posted
  /\ UNCHANGED <<list, passes, fate>>

--------------------------------------------------------------------------
(* notify: the entries for the mode are all taken out before any is posted. *)
Due_last(s, q, m) ==  \* mutant: tail to head
  Reverse(Only(queued[s][q], {e \in ToSet(queued[s][q]) : m \in e.modes}))
Due(s, q, m) == Only(queued[s][q], {e \in ToSet(queued[s][q]) : m \in e.modes})

Rest_all(s, q, m) == queued[s][q]  \* mutant: not removed before posting
Rest(s, q, m) == Only(queued[s][q], {e \in ToSet(queued[s][q]) : m \notin e.modes})

(* The places on the list, from the i-th, where there is something to post. *)
Places_one(s, m, i) ==  \* mutant: only the first queue of the list
  {j \in i .. 1 : j <= Len(list) /\ Due(s, list[j], m) # <<>>}
Places(s, m, i) == {j \in i .. Len(list) : Due(s, list[j], m) # <<>>}

(* A pass that has come to the i-th place goes on; outer are the others.    *)
Serve(s, m, i, outer, since) ==
  IF Places(s, m, i) = {}
  THEN passes' = outer /\ UNCHANGED <<queued, posted>>
  ELSE LET q == list[CHOOSE j \in Places(s, m, i) :
                       \A k \in Places(s, m, i) : j <= k]
           due == Due(s, q, m)
       IN /\ queued' = [queued EXCEPT ![s][q] = Rest(s, q, m)]
          /\ posted' = Append(posted, Head(due).id)
          /\ passes' = Append(outer, [style |-> s, mode |-> m, at |-> q,
                                      batch |-> Tail(due), since |-> since])

(* GSPrivateNotifyASAP, GSPrivateNotifyIdle.                                *)
Begin(s, m) ==
  /\ Alive
  /\ Len(passes) < MaxPasses
  /\ Places(s, m, 1) # {}
  /\ Serve(s, m, 1, passes, serial)
  /\ UNCHANGED <<list, serial, fate>>

(* An observer has returned.                                                *)
Continue_inner ==  \* mutant: an inner pass ends the outer ones
  /\ Alive
  /\ passes # <<>>
  /\ LET p == Last(passes) IN
     IF p.batch # <<>>
     THEN /\ posted' = Append(posted, Head(p.batch).id)
          /\ passes' = [passes EXCEPT ![Len(passes)].batch = Tail(@)]
          /\ UNCHANGED <<queued, fate>>
     ELSE passes' = <<>> /\ UNCHANGED <<queued, posted, fate>>
  /\ UNCHANGED <<list, serial>>

Continue ==
  /\ Alive
  /\ passes # <<>>
  /\ LET p == Last(passes) IN
     IF p.batch # <<>>
     THEN /\ posted' = Append(posted, Head(p.batch).id)
          /\ passes' = [passes EXCEPT ![Len(passes)].batch = Tail(@)]
          /\ UNCHANGED <<queued, fate>>
     ELSE IF Registered(p.at)
     THEN Serve(p.style, p.mode, Position(p.at) + 1, Front(passes), p.since)
          /\ UNCHANGED fate
     ELSE fate' = "freed" /\ UNCHANGED <<queued, posted, passes>>
  /\ UNCHANGED <<list, serial>>

(* GSPrivateNotifyMore.                                                     *)
More(m) == Places("idle", m, 1) # {}

Next ==
  \/ \E q \in Queues : Create(q) \/ Dealloc(q)
  \/ \E q \in Queues, n \in Notification, mask \in MaskChoices :
       \/ Dequeue(q, n, mask)
       \/ \E style \in Styles \cup {"now"}, modes \in ModeChoices,
             current \in Modes \cup {NoMode} :
            Enqueue(q, n, style, mask, modes, current)
  \/ \E s \in Styles, m \in Modes : Begin(s, m)
  \/ Continue

Spec == QInit /\ [][Next]_qvars

--------------------------------------------------------------------------
Ids(entries) == {e.id : e \in ToSet(entries)}
InQueue == UNION {Ids(queued[s][q]) : s \in Styles, q \in Queues}
InBatch == UNION {Ids(passes[i].batch) : i \in 1 .. Len(passes)}

(* However passes and calls are nested, a notification is in one place, and *)
(* is posted once at most ("we will not get problems with another notif()   *)
(* trying to use the same items", 616-620).                                 *)
PostedOnce ==
  /\ IsInjective(posted)
  /\ (InQueue \cup InBatch) \cap ToSet(posted) = {}
  /\ InQueue \cap InBatch = {}

(* A pass, and one inside it, lose nothing: what they take they post.       *)
PassLosesNone ==
  [][passes' # passes /\ Alive' =>
       InQueue \cup InBatch \subseteq (InQueue \cup InBatch \cup ToSet(posted))']_qvars

(* 392-400, 510-512: while a queue holds a notification it holds no older   *)
(* one that this one was to be coalesced with, in either list.              *)
Coalesced ==
  \A q \in Queues, s, r \in Styles :
    \A e \in ToSet(queued[s][q]), d \in ToSet(queued[r][q]) :
      d.id < e.id => ~ Matches(e.note, d, e.mask)

(* 273: a queue posts "its oldest notification": a pass posts none while an *)
(* older one of the same queue and style, allowed in its mode, stays queued *)
(* or is behind it in the batch.                                            *)
PostsOldest ==
  [][\A i \in 1 .. Len(passes') :
       LET p == passes'[i] IN
       posted' # posted /\ i = Len(passes') /\ serial' = serial =>
         /\ \A j \in Ids(p.batch) : Last(posted') < j
         /\ \A e \in ToSet(queued'[p.style][p.at]) :
              p.mode \in e.modes => Last(posted') < e.id]_qvars

(* A pass comes to every queue of the thread, whatever observers do to the  *)
(* list meanwhile: when it ends, what was due when it began is not queued.  *)
PassServesAll ==
  [][Len(passes') < Len(passes) =>
       LET p == Last(passes) IN
       \A i \in 1 .. Len(list') : \A e \in ToSet(queued'[p.style][list'[i]]) :
         p.mode \in e.modes => e.id > p.since]_qvars
=============================================================================
