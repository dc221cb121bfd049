-------------------------- MODULE NSRunLoop_proofs --------------------------
(***************************************************************************)
(* Theorems of NSNotificationQueue, for any queues, names, objects and     *)
(* modes, any choice of masks and any bounds: a notification is posted     *)
(* once at most, coalescing leaves none it should have removed, and a pass *)
(* loses nothing, posts the oldest first and comes to every queue.  Then   *)
(* theorems of NSRunLoop, whose passes it makes, for any modes,            *)
(* descriptors, timers, performers and queues and any nesting of runs.     *)
(***************************************************************************)
EXTENDS NSRunLoop, Subsequences_proofs

(* The entries of a queue and of a batch are in the order in which they     *)
(* were enqueued.                                                           *)
Increasing(seq) == \A i, j \in 1 .. Len(seq) : i < j => seq[i].id < seq[j].id

(* Q, P, n and po stand for queued, passes, serial and posted, or for       *)
(* values they have within a step.                                          *)
QueuesSound(Q, n) ==
  \A s \in Styles, q \in Queues :
    Increasing(Q[s][q]) /\ \A k \in Ids(Q[s][q]) : k \in 1 .. n

BatchesSound(P, n) ==
  \A i \in 1 .. Len(P) :
    /\ Increasing(P[i].batch) /\ P[i].since <= n
    /\ \A k \in Ids(P[i].batch) : k \in 1 .. n

(* A notification is in one queue, in one batch or among the posted ones.   *)
QueuesApart(Q, po) ==
  /\ \A s, r \in Styles, q, p \in Queues :
       <<s, q>> # <<r, p>> => \A k \in Ids(Q[s][q]) : k \notin Ids(Q[r][p])
  /\ \A s \in Styles, q \in Queues : \A k \in Ids(Q[s][q]) : k \notin ToSet(po)

BatchesApart(Q, P, po) ==
  \A i \in 1 .. Len(P) :
    \A k \in Ids(P[i].batch) :
      /\ \A j \in 1 .. Len(P) : i # j => k \notin Ids(P[j].batch)
      /\ \A s \in Styles, q \in Queues : k \notin Ids(Q[s][q])
      /\ k \notin ToSet(po)

(* What a pass finds in its queue when it has begun the batch is younger.   *)
Behind(Q, P) ==
  \A i \in 1 .. Len(P) : \A e \in ToSet(Q[P[i].style][P[i].at]) :
    P[i].mode \in e.modes => \A k \in Ids(P[i].batch) : k < e.id

Uncoalesced(Q) ==
  \A q \in Queues, s, r \in Styles :
    \A e \in ToSet(Q[s][q]), d \in ToSet(Q[r][q]) :
      d.id < e.id => ~ Matches(e.note, d, e.mask)

Types(Q, P, n, po) ==
  /\ Q \in [Styles -> [Queues -> Seq(Entry)]]
  /\ P \in Seq(Pass)
  /\ n \in 0 .. MaxEntries
  /\ po \in Seq(1 .. n) /\ IsInjective(po)

Sound(Q, P, n, po) ==
  /\ Types(Q, P, n, po)
  /\ QueuesSound(Q, n) /\ BatchesSound(P, n)
  /\ QueuesApart(Q, po) /\ BatchesApart(Q, P, po)
  /\ Behind(Q, P) /\ Uncoalesced(Q)

(* A pass leaves nothing behind it that was due when it began.              *)
Visited(li, Q, P) ==
  \A i \in 1 .. Len(P) : \A j, k \in 1 .. Len(li) :
    k <= j /\ li[j] = P[i].at =>
      \A e \in ToSet(Q[P[i].style][li[k]]) :
        P[i].mode \in e.modes => P[i].since < e.id

IInv ==
  /\ list \in Seq(Queues) /\ IsInjective(list)
  /\ fate \in {"running", "hung", "freed"}
  /\ Sound(queued, passes, serial, posted)
  /\ Visited(list, queued, passes)

--------------------------------------------------------------------------
(* What becomes of a sequence of entries when some are taken out.           *)
Part(a, b) ==
  /\ a \in Seq(Entry)
  /\ Increasing(b) => Increasing(a)
  /\ ToSet(a) \subseteq ToSet(b)

LEMMA PartIds ==
  ASSUME NEW a, NEW b, Part(a, b)
  PROVE  Ids(a) \subseteq Ids(b)
BY DEF Part, Ids

LEMMA EntryIds == \A e \in Entry : e.id \in 1 .. MaxEntries /\ e.id \in Nat
BY BoundsAssumption DEF Entry

LEMMA OnlyIsPart ==
  ASSUME NEW seq \in Seq(Entry), NEW S
  PROVE  Part(Only(seq, S), seq) /\ ToSet(Only(seq, S)) = ToSet(seq) \cap S
<1> DEFINE R == {p \in Entry \X Entry : p[1].id < p[2].id}
           r == Only(seq, S)
<1>1. r \in Seq(Entry) /\ ToSet(r) = ToSet(seq) \cap S
  BY OnlyKeeps
<1>2. ASSUME Increasing(seq) PROVE Increasing(r)
  <2>1. \A i, j \in 1 .. Len(seq) : i < j => <<seq[i], seq[j]>> \in R
    BY <1>2 DEF Increasing
  <2> HIDE DEF R
  <2>2. \A i, j \in 1 .. Len(r) : i < j => <<r[i], r[j]>> \in R
    BY <2>1, OnlyKeepsOrder
  <2> QED BY <2>2 DEF Increasing, R
<1> QED BY <1>1, <1>2 DEF Part

(* The first of a sequence in order is older than what follows.             *)
LEMMA TailIsPart ==
  ASSUME NEW seq \in Seq(Entry), seq # <<>>, Increasing(seq)
  PROVE  /\ Part(Tail(seq), seq) /\ Increasing(Tail(seq))
         /\ Head(seq) \in Entry /\ Head(seq) \in ToSet(seq)
         /\ ToSet(seq) = ToSet(Tail(seq)) \cup {Head(seq)}
         /\ \A k \in Ids(Tail(seq)) : Head(seq).id < k
<1> DEFINE r == Tail(seq)
<1>1. /\ r \in Seq(Entry) /\ Head(seq) \in Entry
      /\ ToSet(seq) = ToSet(r) \cup {Head(seq)}
  BY SetOfTail
<1>2. /\ Len(seq) \in Nat /\ Len(seq) >= 1 /\ Len(r) = Len(seq) - 1
      /\ Head(seq) = seq[1] /\ \A i \in 1 .. Len(r) : r[i] = seq[i + 1]
  OBVIOUS
<1> HIDE DEF r
<1>3. \A i \in 1 .. Len(r) : i + 1 \in 1 .. Len(seq) /\ 1 < i + 1 /\ 1 \in 1 .. Len(seq)
  BY <1>2
<1>4. Increasing(r)
  BY <1>2, <1>3 DEF Increasing
<1>5. ASSUME NEW k \in Ids(r) PROVE Head(seq).id < k
  <2>1. PICK i \in 1 .. Len(r) : r[i].id = k
    BY <1>1, InSetOf DEF Ids
  <2> QED BY <2>1, <1>2, <1>3 DEF Increasing
<1> QED BY <1>1, <1>4, <1>5 DEF Part, r

LEMMA AppendIncreases ==
  ASSUME NEW seq \in Seq(Entry), NEW e \in Entry, Increasing(seq),
         \A k \in Ids(seq) : k < e.id
  PROVE  /\ Append(seq, e) \in Seq(Entry) /\ Increasing(Append(seq, e))
         /\ ToSet(Append(seq, e)) = ToSet(seq) \cup {e}
         /\ Ids(Append(seq, e)) = Ids(seq) \cup {e.id}
<1> DEFINE r == Append(seq, e)
<1>1. r \in Seq(Entry) /\ ToSet(r) = ToSet(seq) \cup {e}
  BY SetOfAppend
<1>2. /\ Len(seq) \in Nat /\ Len(r) = Len(seq) + 1 /\ r[Len(seq) + 1] = e
      /\ \A i \in 1 .. Len(seq) : r[i] = seq[i]
  OBVIOUS
<1> HIDE DEF r
<1>3. \A i \in 1 .. Len(seq) : seq[i].id \in Ids(seq)
  BY InSetOf DEF Ids
<1>4. Increasing(r)
  <2> SUFFICES ASSUME NEW i \in 1 .. Len(r), NEW j \in 1 .. Len(r), i < j
               PROVE  r[i].id < r[j].id
    BY DEF Increasing
  <2>1. i \in 1 .. Len(seq) /\ (j \in 1 .. Len(seq) \/ j = Len(seq) + 1)
    BY <1>2
  <2> QED BY <2>1, <1>2, <1>3 DEF Increasing
<1>5. Ids(r) = Ids(seq) \cup {e.id}
  BY <1>1 DEF Ids
<1> QED BY <1>1, <1>4, <1>5 DEF r

--------------------------------------------------------------------------
LEMMA PassFields ==
  ASSUME NEW P \in Seq(Pass), NEW i \in 1 .. Len(P)
  PROVE  /\ P[i] \in Pass /\ P[i].style \in Styles /\ P[i].at \in Queues
         /\ P[i].batch \in Seq(Entry) /\ P[i].since \in 0 .. MaxEntries
<1>1. P[i] \in Pass
  OBVIOUS
<1> QED BY <1>1 DEF Pass

(* Taking entries out of queues keeps them sound.                           *)
LEMMA SoundShrinks ==
  ASSUME NEW Q, NEW P, NEW n, NEW po, Sound(Q, P, n, po), NEW Q2,
         Q2 \in [Styles -> [Queues -> Seq(Entry)]],
         \A s \in Styles, q \in Queues : Part(Q2[s][q], Q[s][q])
  PROVE  Sound(Q2, P, n, po)
<1>1. \A s \in Styles, q \in Queues : /\ Ids(Q2[s][q]) \subseteq Ids(Q[s][q])
                                      /\ ToSet(Q2[s][q]) \subseteq ToSet(Q[s][q])
                                      /\ Increasing(Q[s][q]) => Increasing(Q2[s][q])
  BY PartIds DEF Part
<1>2. Types(Q2, P, n, po)
  BY DEF Sound, Types
<1>3. QueuesSound(Q2, n)
  BY <1>1 DEF Sound, QueuesSound
<1>4. QueuesApart(Q2, po)
  <2>1. ASSUME NEW s \in Styles, NEW r \in Styles, NEW q \in Queues, NEW p \in Queues,
               <<s, q>> # <<r, p>>, NEW k \in Ids(Q2[s][q])
        PROVE  k \notin Ids(Q2[r][p])
    <3>1. k \in Ids(Q[s][q]) /\ Ids(Q2[r][p]) \subseteq Ids(Q[r][p])
      BY <1>1, <2>1
    <3>2. k \notin Ids(Q[r][p])
      BY <2>1, <3>1 DEF Sound, QueuesApart
    <3> QED BY <3>1, <3>2
  <2>2. ASSUME NEW s \in Styles, NEW q \in Queues, NEW k \in Ids(Q2[s][q])
        PROVE  k \notin ToSet(po)
    <3>1. k \in Ids(Q[s][q])
      BY <1>1
    <3> QED BY <3>1 DEF Sound, QueuesApart
  <2> QED BY <2>1, <2>2 DEF QueuesApart
<1>5. BatchesApart(Q2, P, po)
  BY <1>1 DEF Sound, BatchesApart
<1>6. Behind(Q2, P)
  <2>1. \A i \in 1 .. Len(P) : P[i].style \in Styles /\ P[i].at \in Queues
    BY PassFields DEF Sound, Types
  <2> QED BY <2>1, <1>1 DEF Sound, Behind
<1>7. Uncoalesced(Q2)
  BY <1>1 DEF Sound, Uncoalesced
<1> QED BY <1>2, <1>3, <1>4, <1>5, <1>6, <1>7 DEF Sound

(* A new notification is younger than all others.                           *)
LEMMA SoundCounts ==
  ASSUME NEW Q, NEW P, NEW n, NEW po, Sound(Q, P, n, po), n < MaxEntries
  PROVE  /\ Sound(Q, P, n + 1, po)
         /\ n + 1 \notin ToSet(po)
         /\ \A s \in Styles, q \in Queues : \A k \in Ids(Q[s][q]) : k < n + 1
         /\ \A i \in 1 .. Len(P) : \A k \in Ids(P[i].batch) : k < n + 1
<1>1. /\ n \in Nat /\ n + 1 \in 0 .. MaxEntries /\ po \in Seq(1 .. n)
      /\ 1 .. n \subseteq 1 .. (n + 1)
  BY BoundsAssumption DEF Sound, Types
<1>2. po \in Seq(1 .. (n + 1))
  BY <1>1
<1>3. n + 1 \notin ToSet(po)
  <2>1. ToSet(po) \subseteq 1 .. n
    BY <1>1, InSetOf
  <2> QED BY <2>1, <1>1
<1>4. Types(Q, P, n + 1, po)
  BY <1>1, <1>2 DEF Sound, Types
<1>5. QueuesSound(Q, n + 1)
  BY <1>1 DEF Sound, QueuesSound
<1>6. BatchesSound(P, n + 1)
  <2> SUFFICES ASSUME NEW i \in 1 .. Len(P)
               PROVE  /\ Increasing(P[i].batch) /\ P[i].since <= n + 1
                      /\ \A k \in Ids(P[i].batch) : k \in 1 .. (n + 1)
    BY DEF BatchesSound
  <2>1. P[i].since \in Nat
    BY PassFields DEF Sound, Types
  <2>2. Increasing(P[i].batch) /\ P[i].since <= n
    BY DEF Sound, BatchesSound
  <2>3. ASSUME NEW k \in Ids(P[i].batch) PROVE k \in 1 .. (n + 1)
    BY <1>1 DEF Sound, BatchesSound
  <2> QED BY <2>1, <2>2, <2>3, <1>1
<1>7. ASSUME NEW s \in Styles, NEW q \in Queues, NEW k \in Ids(Q[s][q])
      PROVE  k < n + 1
  <2>1. k \in 1 .. n
    BY DEF Sound, QueuesSound
  <2> QED BY <2>1, <1>1
<1>8. ASSUME NEW i \in 1 .. Len(P), NEW k \in Ids(P[i].batch)
      PROVE  k < n + 1
  <2>1. k \in 1 .. n
    BY DEF Sound, BatchesSound
  <2> QED BY <2>1, <1>1
<1> QED BY <1>3, <1>4, <1>5, <1>6, <1>7, <1>8 DEF Sound

(* Something that is nowhere yet, or no longer, is posted.                  *)
LEMMA SoundPosts ==
  ASSUME NEW Q, NEW P, NEW n, NEW po, Sound(Q, P, n, po), NEW k \in 1 .. n,
         k \notin ToSet(po),
         \A s \in Styles, q \in Queues : k \notin Ids(Q[s][q]),
         \A i \in 1 .. Len(P) : k \notin Ids(P[i].batch)
  PROVE  Sound(Q, P, n, Append(po, k))
<1>1. po \in Seq(1 .. n)
  BY DEF Sound, Types
<1>2. /\ Append(po, k) \in Seq(1 .. n) /\ IsInjective(Append(po, k))
      /\ ToSet(Append(po, k)) = ToSet(po) \cup {k}
  BY <1>1, SetOfAppend DEF Sound, Types
<1>3. Types(Q, P, n, Append(po, k))
  BY <1>2 DEF Sound, Types
<1>4. QueuesApart(Q, Append(po, k))
  BY <1>2 DEF Sound, QueuesApart
<1>5. BatchesApart(Q, P, Append(po, k))
  BY <1>2 DEF Sound, BatchesApart
<1> QED BY <1>3, <1>4, <1>5 DEF Sound

(* The youngest of all is put at the end of a queue.                        *)
WithEntry(Q, z, p, e) == [Q EXCEPT ![z][p] = Append(@, e)]

Appends(Q, Q2, n, z, p, e) ==
  /\ n < MaxEntries /\ z \in Styles /\ p \in Queues /\ e \in Entry /\ e.id = n + 1
  /\ \A r \in Styles : \A d \in ToSet(Q[r][p]) : ~ Matches(e.note, d, e.mask)
  /\ Q2 = WithEntry(Q, z, p, e)

LEMMA SoundAppends ==
  ASSUME NEW Q, NEW P, NEW n, NEW po, Sound(Q, P, n, po), NEW z, NEW p, NEW e, NEW Q2,
         Appends(Q, Q2, n, z, p, e)
  PROVE  /\ Sound(Q2, P, n + 1, po)
         /\ \A s \in Styles, q \in Queues : \A d \in ToSet(Q2[s][q]) :
              d \in ToSet(Q[s][q]) \/ d = e
<1>0. /\ n < MaxEntries /\ z \in Styles /\ p \in Queues /\ e \in Entry /\ e.id = n + 1
      /\ \A r \in Styles : \A d \in ToSet(Q[r][p]) : ~ Matches(e.note, d, e.mask)
      /\ Q2 = WithEntry(Q, z, p, e)
  BY DEF Appends
<1>1. /\ Sound(Q, P, n + 1, po) /\ n + 1 \notin ToSet(po)
      /\ \A s \in Styles, q \in Queues : \A k \in Ids(Q[s][q]) : k < n + 1
      /\ \A i \in 1 .. Len(P) : \A k \in Ids(P[i].batch) : k < n + 1
  BY <1>0, SoundCounts
<1>2. Q \in [Styles -> [Queues -> Seq(Entry)]] /\ n \in Nat
  BY DEF Sound, Types
<1>3. Increasing(Q[z][p]) /\ Q[z][p] \in Seq(Entry)
  BY <1>0, <1>2 DEF Sound, QueuesSound
<1>4. /\ Append(Q[z][p], e) \in Seq(Entry) /\ Increasing(Append(Q[z][p], e))
      /\ ToSet(Append(Q[z][p], e)) = ToSet(Q[z][p]) \cup {e}
      /\ Ids(Append(Q[z][p], e)) = Ids(Q[z][p]) \cup {n + 1}
  BY <1>0, <1>1, <1>3, AppendIncreases
<1>5. /\ Q2 \in [Styles -> [Queues -> Seq(Entry)]]
      /\ Q2[z][p] = Append(Q[z][p], e)
      /\ \A s \in Styles, q \in Queues : <<s, q>> # <<z, p>> => Q2[s][q] = Q[s][q]
  BY <1>0, <1>2, <1>4 DEF WithEntry
<1>6. ASSUME NEW s \in Styles, NEW q \in Queues
      PROVE  /\ Increasing(Q2[s][q])
             /\ \A k \in Ids(Q2[s][q]) :
                  k \in Ids(Q[s][q]) \/ (k = n + 1 /\ s = z /\ q = p)
             /\ \A d \in ToSet(Q2[s][q]) :
                  d \in ToSet(Q[s][q]) \/ (d = e /\ s = z /\ q = p)
  <2>1. CASE s = z /\ q = p
    BY <2>1, <1>4, <1>5
  <2>2. CASE ~ (s = z /\ q = p)
    <3>1. Q2[s][q] = Q[s][q]
      BY <2>2, <1>5
    <3>2. Increasing(Q[s][q])
      BY DEF Sound, QueuesSound
    <3> QED BY <3>1, <3>2
  <2> QED BY <2>1, <2>2
<1>7. /\ \A s \in Styles, q \in Queues : n + 1 \notin Ids(Q[s][q])
      /\ \A i \in 1 .. Len(P) : n + 1 \notin Ids(P[i].batch)
  <2>1. ~ n + 1 < n + 1
    BY <1>2
  <2> QED BY <1>1, <2>1
<1>8. Types(Q2, P, n + 1, po)
  BY <1>1, <1>5 DEF Sound, Types
<1>9. QueuesSound(Q2, n + 1)
  <2> SUFFICES ASSUME NEW s \in Styles, NEW q \in Queues
               PROVE  /\ Increasing(Q2[s][q])
                      /\ \A k \in Ids(Q2[s][q]) : k \in 1 .. (n + 1)
    BY DEF QueuesSound
  <2>1. \A k \in Ids(Q[s][q]) : k \in 1 .. (n + 1)
    BY <1>1 DEF Sound, QueuesSound
  <2>2. n + 1 \in 1 .. (n + 1)
    BY <1>2
  <2> QED BY <2>1, <2>2, <1>6
<1>10. QueuesApart(Q2, po)
  <2>1. ASSUME NEW s \in Styles, NEW r \in Styles, NEW q \in Queues, NEW o \in Queues,
               <<s, q>> # <<r, o>>, NEW k \in Ids(Q2[s][q])
        PROVE  k \notin Ids(Q2[r][o])
    <3>1. k \in Ids(Q[s][q]) => k \notin Ids(Q[r][o]) /\ k # n + 1
      BY <2>1, <1>1, <1>7 DEF Sound, QueuesApart
    <3>2. n + 1 \notin Ids(Q[r][o])
      BY <1>7
    <3> QED BY <3>1, <3>2, <2>1, <1>6
  <2>2. ASSUME NEW s \in Styles, NEW q \in Queues, NEW k \in Ids(Q2[s][q])
        PROVE  k \notin ToSet(po)
    <3>1. k \in Ids(Q[s][q]) => k \notin ToSet(po)
      BY <1>1 DEF Sound, QueuesApart
    <3> QED BY <3>1, <1>1, <1>6
  <2> QED BY <2>1, <2>2 DEF QueuesApart
<1>11. BatchesApart(Q2, P, po)
  <2> SUFFICES ASSUME NEW i \in 1 .. Len(P), NEW k \in Ids(P[i].batch)
               PROVE  /\ \A j \in 1 .. Len(P) : i # j => k \notin Ids(P[j].batch)
                      /\ \A s \in Styles, q \in Queues : k \notin Ids(Q2[s][q])
                      /\ k \notin ToSet(po)
    BY DEF BatchesApart
  <2>1. /\ \A j \in 1 .. Len(P) : i # j => k \notin Ids(P[j].batch)
        /\ \A s \in Styles, q \in Queues : k \notin Ids(Q[s][q])
        /\ k \notin ToSet(po)
    BY DEF Sound, BatchesApart
  <2>2. k # n + 1
    BY <1>7
  <2> QED BY <2>1, <2>2, <1>6
<1>12. Behind(Q2, P)
  <2> SUFFICES ASSUME NEW i \in 1 .. Len(P), NEW d \in ToSet(Q2[P[i].style][P[i].at]),
                      P[i].mode \in d.modes, NEW k \in Ids(P[i].batch)
               PROVE  k < d.id
    BY DEF Behind
  <2>1. P[i].style \in Styles /\ P[i].at \in Queues
    BY PassFields DEF Sound, Types
  <2>2. d \in ToSet(Q[P[i].style][P[i].at]) \/ d = e
    BY <2>1, <1>6
  <2> QED BY <2>2, <1>0, <1>1 DEF Sound, Behind
<1>13. Uncoalesced(Q2)
  <2> SUFFICES ASSUME NEW q \in Queues, NEW s \in Styles, NEW r \in Styles,
                      NEW a \in ToSet(Q2[s][q]), NEW d \in ToSet(Q2[r][q]), d.id < a.id
               PROVE  ~ Matches(a.note, d, a.mask)
    BY DEF Uncoalesced
  <2>1. CASE a \in ToSet(Q[s][q]) /\ d \in ToSet(Q[r][q])
    BY <2>1 DEF Sound, Uncoalesced
  <2>2. CASE a = e /\ q = p /\ d \in ToSet(Q[r][q])
    BY <2>2, <1>0
  <2>3. d # e
    <3>1. a \in ToSet(Q[s][q]) => a.id < n + 1
      BY <1>1 DEF Ids
    <3>2. a \in ToSet(Q[s][q]) \/ a = e
      BY <1>6
    <3>3. a \in ToSet(Q[s][q]) => a.id \in Nat
      BY <1>2, InSetOf, EntryIds
    <3> QED BY <3>1, <3>2, <3>3, <1>0, <1>2
  <2> QED BY <2>1, <2>2, <2>3, <1>6
<1>14. BatchesSound(P, n + 1)
  BY <1>1 DEF Sound
<1> QED BY <1>6, <1>8, <1>9, <1>10, <1>11, <1>12, <1>13, <1>14 DEF Sound

--------------------------------------------------------------------------
(* The innermost pass ends, or has no more of its batch to post.            *)
LEMMA SoundPops ==
  ASSUME NEW Q, NEW P, NEW n, NEW po, Sound(Q, P, n, po), P # <<>>
  PROVE  Sound(Q, Front(P), n, po)
<1> DEFINE F == Front(P)
<1>1. /\ F \in Seq(Pass) /\ Len(P) \in Nat /\ Len(F) = Len(P) - 1
      /\ \A i \in 1 .. Len(F) : i \in 1 .. Len(P) /\ F[i] = P[i]
  BY FrontIs DEF Sound, Types
<1> HIDE DEF F
<1>2. Types(Q, F, n, po)
  BY <1>1 DEF Sound, Types
<1>3. BatchesSound(F, n)
  BY <1>1 DEF Sound, BatchesSound
<1>4. BatchesApart(Q, F, po)
  BY <1>1 DEF Sound, BatchesApart
<1>5. Behind(Q, F)
  BY <1>1 DEF Sound, Behind
<1> QED BY <1>2, <1>3, <1>4, <1>5 DEF Sound, F

(* The next of the batch of the innermost pass is posted.                   *)
Advanced(P) == [P EXCEPT ![Len(P)].batch = Tail(@)]

Continues(P, R) == P # <<>> /\ Last(P).batch # <<>> /\ R = Advanced(P)

LEMMA SoundContinues ==
  ASSUME NEW Q, NEW P, NEW n, NEW po, Sound(Q, P, n, po), NEW R, Continues(P, R)
  PROVE  /\ Sound(Q, R, n, Append(po, Head(Last(P).batch).id))
         /\ R \in Seq(Pass) /\ Len(R) = Len(P) /\ R[Len(P)].batch = Tail(Last(P).batch)
         /\ \A i \in 1 .. Len(P) :
              /\ R[i].style = P[i].style /\ R[i].mode = P[i].mode
              /\ R[i].at = P[i].at /\ R[i].since = P[i].since
              /\ i # Len(P) => R[i].batch = P[i].batch
         /\ Ids(Last(P).batch) =
              Ids(Tail(Last(P).batch)) \cup {Head(Last(P).batch).id}
         /\ \A k \in Ids(Tail(Last(P).batch)) : Head(Last(P).batch).id < k
<1> DEFINE l == Len(P)
           b == Last(P).batch
           x == Head(b).id
<1>0. P # <<>> /\ b # <<>> /\ R = Advanced(P)
  BY DEF Continues
<1>1. l \in 1 .. Len(P) /\ P \in Seq(Pass) /\ b = P[l].batch /\ P[l] \in Pass
  BY <1>0 DEF Sound, Types, Last
<1>2. b \in Seq(Entry) /\ Increasing(b)
  BY <1>1, PassFields DEF Sound, BatchesSound
<1>3. /\ Part(Tail(b), b) /\ Increasing(Tail(b)) /\ Tail(b) \in Seq(Entry)
      /\ Head(b) \in ToSet(b) /\ \A k \in Ids(Tail(b)) : x < k
  BY <1>0, <1>2, TailIsPart DEF Part
<1>4. /\ R \in Seq(Pass) /\ Len(R) = l /\ Len(R) = Len(P)
      /\ R[l].batch = Tail(b)
      /\ \A i \in 1 .. Len(P) :
           /\ R[i].style = P[i].style /\ R[i].mode = P[i].mode
           /\ R[i].at = P[i].at /\ R[i].since = P[i].since
           /\ i # l => R[i].batch = P[i].batch
  <2>1. [P[l] EXCEPT !.batch = Tail(@)] \in Pass
    BY <1>1, <1>3 DEF Pass
  <2>2. R = [P EXCEPT ![l] = [P[l] EXCEPT !.batch = Tail(@)]]
    BY <1>0, <1>1 DEF Advanced
  <2>3. R \in Seq(Pass) /\ Len(R) = Len(P)
    BY <2>1, <2>2, <1>1
  <2>4. \A i \in 1 .. Len(P) : R[i] = IF i = l THEN [P[l] EXCEPT !.batch = Tail(@)] ELSE P[i]
    BY <2>2, <1>1
  <2>5. \A i \in 1 .. Len(P) : P[i] \in Pass
    BY <1>1
  <2> QED BY <2>3, <2>4, <2>5, <1>1 DEF Pass
<1>5. x \in Ids(b) /\ Ids(Tail(b)) \subseteq Ids(b)
  BY <1>3, PartIds DEF Ids
<1>6. /\ x \in 1 .. n /\ x \notin ToSet(po)
      /\ \A s \in Styles, q \in Queues : x \notin Ids(Q[s][q])
      /\ \A i \in 1 .. Len(P) : i # l => x \notin Ids(P[i].batch)
  <2>1. x \in Ids(P[l].batch)
    BY <1>1, <1>5
  <2> QED BY <2>1, <1>1 DEF Sound, BatchesSound, BatchesApart
<1>a. Ids(b) = Ids(Tail(b)) \cup {x}
  BY <1>0, <1>2, TailIsPart DEF Ids
<1> HIDE DEF l, b, x
<1>7. \A i \in 1 .. Len(P) : Ids(R[i].batch) \subseteq Ids(P[i].batch)
  BY <1>1, <1>4, <1>5
<1>8. \A i \in 1 .. Len(P) : x \notin Ids(R[i].batch)
  <2>1. x \notin Ids(Tail(b))
    <3>1. \A e \in ToSet(Tail(b)) : e.id \in Nat
      BY <1>3, InSetOf, EntryIds
    <3>2. \A k \in Ids(Tail(b)) : k \in Nat
      BY <3>1 DEF Ids
    <3> QED BY <3>2, <1>3
  <2> QED BY <2>1, <1>4, <1>6
<1>9. Types(Q, R, n, po)
  BY <1>4 DEF Sound, Types
<1>10. BatchesSound(R, n)
  <2> SUFFICES ASSUME NEW i \in 1 .. Len(P)
               PROVE  /\ Increasing(R[i].batch) /\ R[i].since <= n
                      /\ \A k \in Ids(R[i].batch) : k \in 1 .. n
    BY <1>4 DEF BatchesSound
  <2>1. Increasing(P[i].batch) /\ P[i].since <= n /\ \A k \in Ids(P[i].batch) : k \in 1 .. n
    BY DEF Sound, BatchesSound
  <2>2. Increasing(R[i].batch)
    <3>1. CASE i = l
      BY <3>1, <1>3, <1>4
    <3>2. CASE i # l
      BY <3>2, <2>1, <1>4
    <3> QED BY <3>1, <3>2
  <2> QED BY <2>1, <2>2, <1>4, <1>7
<1>11. BatchesApart(Q, R, po)
  <2> SUFFICES ASSUME NEW i \in 1 .. Len(P), NEW k \in Ids(R[i].batch)
               PROVE  /\ \A j \in 1 .. Len(P) : i # j => k \notin Ids(R[j].batch)
                      /\ \A s \in Styles, q \in Queues : k \notin Ids(Q[s][q])
                      /\ k \notin ToSet(po)
    BY <1>4 DEF BatchesApart
  <2>1. k \in Ids(P[i].batch)
    BY <1>7
  <2>2. /\ \A j \in 1 .. Len(P) : i # j => k \notin Ids(P[j].batch)
        /\ \A s \in Styles, q \in Queues : k \notin Ids(Q[s][q])
        /\ k \notin ToSet(po)
    BY <2>1 DEF Sound, BatchesApart
  <2> QED BY <2>2, <1>7
<1>12. Behind(Q, R)
  <2> SUFFICES ASSUME NEW i \in 1 .. Len(P), NEW e \in ToSet(Q[P[i].style][P[i].at]),
                      P[i].mode \in e.modes, NEW k \in Ids(R[i].batch)
               PROVE  k < e.id
    BY <1>4 DEF Behind
  <2>1. k \in Ids(P[i].batch)
    BY <1>7
  <2> QED BY <2>1 DEF Sound, Behind
<1>13. Sound(Q, R, n, po)
  BY <1>9, <1>10, <1>11, <1>12 DEF Sound
<1>14. Sound(Q, R, n, Append(po, x))
  BY <1>13, <1>6, <1>8, <1>4, SoundPosts
<1> QED BY <1>3, <1>4, <1>a, <1>14 DEF x, b, l

(* A pass takes what is due in a queue and posts the first of it.           *)
OfMode(seq, m) == Only(seq, {e \in ToSet(seq) : m \in e.modes})
OfOthers(seq, m) == Only(seq, {e \in ToSet(seq) : m \notin e.modes})

Replaces(Q2, Q, z, p, seq) ==
  /\ Q2 \in [Styles -> [Queues -> Seq(Entry)]] /\ Q2[z][p] = seq
  /\ \A s \in Styles, q \in Queues : <<s, q>> # <<z, p>> => Q2[s][q] = Q[s][q]

Serves(Q, Q2, n, f, take, rest) ==
  /\ f \in Pass /\ take # <<>>
  /\ take = OfMode(Q[f.style][f.at], f.mode) /\ rest = OfOthers(Q[f.style][f.at], f.mode)
  /\ Replaces(Q2, Q, f.style, f.at, rest) /\ f.batch = Tail(take) /\ f.since <= n

LEMMA SoundServes ==
  ASSUME NEW Q, NEW P, NEW n, NEW po, Sound(Q, P, n, po), NEW f,
         NEW take, NEW rest, NEW Q2, Serves(Q, Q2, n, f, take, rest)
  PROVE  /\ Sound(Q2, Append(P, f), n, Append(po, Head(take).id))
         /\ \A e \in ToSet(rest) : f.mode \notin e.modes
         /\ Part(rest, Q[f.style][f.at])
         /\ ToSet(Q[f.style][f.at]) = ToSet(rest) \cup ToSet(Tail(take)) \cup {Head(take)}
         /\ \A k \in Ids(Tail(take)) : Head(take).id < k
<1> DEFINE z == f.style
           p == f.at
           m == f.mode
           t == Tail(take)
           R == Append(P, f)
           x == Head(take).id
<1>0. /\ f \in Pass /\ z \in Styles /\ p \in Queues /\ m \in Modes
      /\ take # <<>> /\ take = OfMode(Q[z][p], m) /\ rest = OfOthers(Q[z][p], m)
      /\ Replaces(Q2, Q, z, p, rest) /\ f.batch = t /\ f.since <= n
  BY DEF Serves, Pass
<1> HIDE DEF z, p, m
<1>1. /\ Q \in [Styles -> [Queues -> Seq(Entry)]] /\ P \in Seq(Pass)
      /\ n \in 0 .. MaxEntries /\ n \in Nat /\ 1 .. n \subseteq Nat
  BY BoundsAssumption DEF Sound, Types
<1>2. Q[z][p] \in Seq(Entry) /\ Increasing(Q[z][p])
  BY <1>0, <1>1 DEF Sound, QueuesSound
<1>3. /\ Part(take, Q[z][p]) /\ Part(rest, Q[z][p])
      /\ ToSet(take) = ToSet(Q[z][p]) \cap {e \in ToSet(Q[z][p]) : m \in e.modes}
      /\ ToSet(rest) = ToSet(Q[z][p]) \cap {e \in ToSet(Q[z][p]) : m \notin e.modes}
  BY <1>0, <1>2, OnlyIsPart DEF OfMode, OfOthers
<1>4. take \in Seq(Entry) /\ Increasing(take) /\ rest \in Seq(Entry) /\ Increasing(rest)
  BY <1>2, <1>3 DEF Part
<1>5. /\ Part(t, take) /\ Increasing(t) /\ t \in Seq(Entry)
      /\ Head(take) \in Entry /\ Head(take) \in ToSet(take)
      /\ ToSet(take) = ToSet(t) \cup {Head(take)}
      /\ \A k \in Ids(t) : x < k
  BY <1>0, <1>4, TailIsPart DEF Part
<1>6. /\ \A e \in ToSet(rest) : m \notin e.modes
      /\ \A e \in ToSet(take) : m \in e.modes
      /\ ToSet(Q[z][p]) = ToSet(rest) \cup ToSet(take)
  BY <1>3
<1>8. /\ R \in Seq(Pass) /\ Len(P) \in Nat /\ Len(R) = Len(P) + 1
      /\ R[Len(P) + 1] = f /\ \A i \in 1 .. Len(P) : R[i] = P[i]
  BY <1>0, <1>1, AppendIs
<1>9. f.style = z /\ f.mode = m /\ f.at = p /\ f.batch = t /\ f.since <= n
  BY <1>0 DEF z, p, m
<1>10. /\ Q2 \in [Styles -> [Queues -> Seq(Entry)]] /\ Q2[z][p] = rest
       /\ \A s \in Styles, q \in Queues : <<s, q>> # <<z, p>> => Q2[s][q] = Q[s][q]
  BY <1>0 DEF Replaces
<1> HIDE DEF t, R, x
(* Entries with the same id in the queue are one entry.                     *)
<1>11. ASSUME NEW d \in ToSet(Q[z][p]), NEW e \in ToSet(Q[z][p]), d.id = e.id
       PROVE  d = e
  <2> DEFINE u == Q[z][p]
  <2>1. PICK i \in 1 .. Len(u), j \in 1 .. Len(u) : u[i] = d /\ u[j] = e
    BY <1>2, InSetOf
  <2>2. u[i].id \in Nat /\ u[j].id \in Nat
    BY <1>2, EntryIds
  <2>3. ~ i < j /\ ~ j < i
    BY <1>2, <1>11, <2>1, <2>2 DEF Increasing
  <2> QED BY <2>1, <2>3
<1>12. \A s \in Styles, q \in Queues : Part(Q2[s][q], Q[s][q])
  <2>1. \A s \in Styles, q \in Queues : Part(Q[s][q], Q[s][q])
    BY <1>1 DEF Part
  <2> QED BY <2>1, <1>3, <1>10
<1>13. Sound(Q2, P, n, po)
  BY <1>10, <1>12, SoundShrinks
(* What is due is in no queue any more, nor in a batch, nor was it posted.  *)
<1>14. ASSUME NEW k \in Ids(take)
       PROVE  /\ k \in 1 .. n /\ k \notin ToSet(po)
              /\ \A s \in Styles, q \in Queues : k \notin Ids(Q2[s][q])
              /\ \A i \in 1 .. Len(P) : k \notin Ids(P[i].batch)
  <2>1. k \in Ids(Q[z][p])
    BY <1>3, PartIds
  <2>2. k \in 1 .. n /\ k \notin ToSet(po)
    BY <2>1, <1>0 DEF Sound, QueuesSound, QueuesApart
  <2>3. \A i \in 1 .. Len(P) : k \notin Ids(P[i].batch)
    BY <2>1, <1>0 DEF Sound, BatchesApart
  <2>4. ASSUME NEW s \in Styles, NEW q \in Queues, <<s, q>> # <<z, p>>
        PROVE  k \notin Ids(Q2[s][q])
    <3>1. Q2[s][q] = Q[s][q]
      BY <2>4, <1>10
    <3>2. k \notin Ids(Q[s][q])
      BY <2>1, <2>4, <1>0 DEF Sound, QueuesApart
    <3> QED BY <3>1, <3>2
  <2>5. k \notin Ids(rest)
    <3> SUFFICES ASSUME k \in Ids(rest) PROVE FALSE
      OBVIOUS
    <3>1. PICK d \in ToSet(take), e \in ToSet(rest) : d.id = k /\ e.id = k
      BY <1>14 DEF Ids
    <3>2. d = e
      BY <3>1, <1>6, <1>11
    <3> QED BY <3>1, <3>2, <1>6
  <2>6. ASSUME NEW s \in Styles, NEW q \in Queues PROVE k \notin Ids(Q2[s][q])
    BY <2>4, <2>5, <1>10
  <2> QED BY <2>2, <2>3, <2>6
<1>15. x \in Ids(take) /\ Ids(t) \subseteq Ids(take)
  BY <1>5, PartIds DEF Ids, x
<1>16. x \notin Ids(t)
  <2>1. \A k \in Ids(t) : k \in Nat
    BY <1>1, <1>14, <1>15
  <2> QED BY <2>1, <1>5
<1>17. 1 .. Len(R) = 1 .. Len(P) \cup {Len(P) + 1} /\ Len(P) + 1 \notin 1 .. Len(P)
  BY <1>8
<1>18. Types(Q2, R, n, po)
  BY <1>8, <1>13 DEF Sound, Types
<1>19. BatchesSound(R, n)
  <2>1. \A i \in 1 .. Len(P) : /\ Increasing(R[i].batch) /\ R[i].since <= n
                               /\ \A k \in Ids(R[i].batch) : k \in 1 .. n
    BY <1>8 DEF Sound, BatchesSound
  <2>2. Increasing(f.batch) /\ f.since <= n /\ \A k \in Ids(f.batch) : k \in 1 .. n
    <3>1. \A k \in Ids(t) : k \in 1 .. n
      BY <1>14, <1>15
    <3> QED BY <3>1, <1>5, <1>9
  <2> QED BY <2>1, <2>2, <1>8, <1>17 DEF BatchesSound
<1>20. BatchesApart(Q2, R, po)
  <2> SUFFICES ASSUME NEW i \in 1 .. Len(R), NEW k \in Ids(R[i].batch)
               PROVE  /\ \A j \in 1 .. Len(R) : i # j => k \notin Ids(R[j].batch)
                      /\ \A s \in Styles, q \in Queues : k \notin Ids(Q2[s][q])
                      /\ k \notin ToSet(po)
    BY DEF BatchesApart
  <2>1. CASE i = Len(P) + 1
    <3>1. k \in Ids(take)
      BY <2>1, <1>8, <1>9, <1>15
    <3> QED BY <3>1, <2>1, <1>8, <1>14, <1>17
  <2>2. CASE i \in 1 .. Len(P)
    <3>1. k \in Ids(P[i].batch)
      BY <2>2, <1>8
    <3>2. /\ \A j \in 1 .. Len(P) : i # j => k \notin Ids(P[j].batch)
          /\ \A s \in Styles, q \in Queues : k \notin Ids(Q2[s][q])
          /\ k \notin ToSet(po)
      BY <3>1, <2>2, <1>13 DEF Sound, BatchesApart
    <3>3. k \notin Ids(R[Len(P) + 1].batch)
      BY <3>1, <2>2, <1>8, <1>9, <1>14, <1>15
    <3> QED BY <3>2, <3>3, <1>8, <1>17
  <2> QED BY <2>1, <2>2, <1>17
<1>21. Behind(Q2, R)
  <2> SUFFICES ASSUME NEW i \in 1 .. Len(R), NEW e \in ToSet(Q2[R[i].style][R[i].at]),
                      R[i].mode \in e.modes, NEW k \in Ids(R[i].batch)
               PROVE  k < e.id
    BY DEF Behind
  <2>1. CASE i = Len(P) + 1
    BY <2>1, <1>6, <1>8, <1>9, <1>10
  <2>2. CASE i \in 1 .. Len(P)
    BY <2>2, <1>8, <1>13 DEF Sound, Behind
  <2> QED BY <2>1, <2>2, <1>17
<1>22. Sound(Q2, R, n, po)
  BY <1>13, <1>18, <1>19, <1>20, <1>21 DEF Sound
<1>23. \A i \in 1 .. Len(R) : x \notin Ids(R[i].batch)
  <2>1. \A i \in 1 .. Len(P) : x \notin Ids(R[i].batch)
    BY <1>8, <1>14, <1>15
  <2> QED BY <2>1, <1>8, <1>9, <1>16, <1>17
<1>24. Sound(Q2, R, n, Append(po, x))
  BY <1>22, <1>23, <1>14, <1>15, SoundPosts
<1> QED BY <1>3, <1>5, <1>6, <1>24 DEF R, t, x, z, p, m

--------------------------------------------------------------------------
(* A queue whose due entries are none has none of the mode.                 *)
LEMMA DueIs ==
  ASSUME NEW Q, Q = queued, Q \in [Styles -> [Queues -> Seq(Entry)]],
         NEW z \in Styles, NEW q \in Queues, NEW m
  PROVE  /\ Due(z, q, m) \in Seq(Entry)
         /\ \A e : e \in ToSet(Due(z, q, m)) <=> e \in ToSet(queued[z][q]) /\ m \in e.modes
         /\ Due(z, q, m) = <<>> => \A e \in ToSet(queued[z][q]) : m \notin e.modes
<1>1. Q[z][q] \in Seq(Entry)
  OBVIOUS
<1>2. /\ Due(z, q, m) \in Seq(Entry)
      /\ ToSet(Due(z, q, m)) =
           ToSet(Q[z][q]) \cap {e \in ToSet(Q[z][q]) : m \in e.modes}
  BY <1>1, OnlyIsPart DEF Due, Part
<1> QED BY <1>2, SetOfEmpty

(* Either there was nothing more to post or the first that is due was.      *)
Served(z, m, outer, since) ==
  \/ /\ passes' = outer /\ UNCHANGED <<queued, posted>>
     /\ \A k \in 1 .. Len(list) : \A e \in ToSet(queued[z][list[k]]) :
          m \in e.modes => since < e.id
  \/ \E p \in Pass, k \in Nat :
       /\ passes' = Append(outer, p) /\ p.style = z /\ p.mode = m
       /\ posted' = Append(posted, k)
       /\ \A j \in Ids(p.batch) : k < j
       /\ \A e \in ToSet(queued'[z][p.at]) : m \notin e.modes
       /\ Ids(queued[z][p.at]) = Ids(queued'[z][p.at]) \cup Ids(p.batch) \cup {k}
       /\ \A s \in Styles, q \in Queues :
            <<s, q>> # <<z, p.at>> => queued'[s][q] = queued[s][q]

(* A pass that has come to the i-th place, having left nothing behind.      *)
LEMMA ServeIs ==
  ASSUME NEW z \in Styles, NEW m \in Modes, NEW i \in Nat \ {0}, NEW outer,
         NEW since \in 0 .. serial,
         list \in Seq(Queues), IsInjective(list),
         Sound(queued, outer, serial, posted), Visited(list, queued, outer),
         \A k \in 1 .. Len(list) : k < i =>
           \A e \in ToSet(queued[z][list[k]]) : m \in e.modes => since < e.id,
         Serve(z, m, i, outer, since)
  PROVE  /\ Sound(queued', passes', serial, posted')
         /\ Visited(list, queued', passes')
         /\ Served(z, m, outer, since)
<1>1. /\ queued \in [Styles -> [Queues -> Seq(Entry)]] /\ outer \in Seq(Pass)
      /\ serial \in 0 .. MaxEntries /\ serial \in Nat /\ Len(list) \in Nat
      /\ \A k \in 1 .. Len(list) : list[k] \in Queues
  BY BoundsAssumption DEF Sound, Types
<1>2. CASE Places(z, m, i) = {}
  <2>1. passes' = outer /\ UNCHANGED <<queued, posted>>
    BY <1>2 DEF Serve
  <2>2. ASSUME NEW k \in 1 .. Len(list), NEW e \in ToSet(queued[z][list[k]]),
               m \in e.modes
        PROVE  since < e.id
    <3>1. CASE k < i
      BY <3>1, <2>2
    <3>2. CASE ~ k < i
      <4>1. k \in i .. Len(list)
        BY <3>2, <1>1
      <4>2. Due(z, list[k], m) = <<>>
        BY <4>1, <1>2 DEF Places
      <4> QED BY <4>2, <2>2, <1>1, DueIs
    <3> QED BY <3>1, <3>2
  <2> QED BY <2>1, <2>2 DEF Served
<1>3. CASE Places(z, m, i) # {}
  <2> DEFINE x == CHOOSE j \in Places(z, m, i) : \A k \in Places(z, m, i) : j <= k
             q == list[x]
             take == Due(z, q, m)
             rest == Rest(z, q, m)
             p == [style |-> z, mode |-> m, at |-> q, batch |-> Tail(take),
                   since |-> since]
  <2>1. x \in Places(z, m, i) /\ \A k \in Places(z, m, i) : x <= k
    <3>1. Places(z, m, i) \in SUBSET (i .. Len(list)) /\ IsFiniteSet(i .. Len(list))
      BY <1>1, FS_Interval DEF Places
    <3>a. Places(z, m, i) \in SUBSET Nat /\ IsFiniteSet(Places(z, m, i))
      BY <3>1, <1>1, FS_Subset
    <3>2. \E j \in Places(z, m, i) : \A k \in Places(z, m, i) : j <= k
      BY <3>a, <1>3, LeastOf
    <3> QED BY <3>2
  <2>2. x \in i .. Len(list) /\ x \in 1 .. Len(list) /\ q \in Queues /\ take # <<>>
    BY <2>1, <1>1 DEF Places
  <2>3. /\ queued' = [queued EXCEPT ![z][q] = rest]
        /\ posted' = Append(posted, Head(take).id)
        /\ passes' = Append(outer, p)
    BY <1>3 DEF Serve
  <2>4. take = OfMode(queued[z][q], m) /\ rest = OfOthers(queued[z][q], m)
    BY DEF Due, Rest, OfMode, OfOthers
  <2>5. take \in Seq(Entry)
    BY <1>1, <2>2, DueIs
  <2> HIDE DEF take, rest, x, q
  <2>6. Tail(take) \in Seq(Entry) /\ Head(take).id \in Nat /\ rest \in Seq(Entry)
    <3>1. Part(rest, queued[z][q])
      BY <2>2, <2>4, <1>1, OnlyIsPart DEF OfOthers
    <3> QED BY <3>1, <2>2, <2>5, SetOfTail, EntryIds DEF Part
  <2>7. /\ p \in Pass /\ p.style = z /\ p.mode = m /\ p.at = q /\ p.batch = Tail(take)
        /\ p.since = since
    BY <1>1, <2>2, <2>6, BoundsAssumption DEF Pass
  <2>a. passes' = Append(outer, p)
    BY <2>3
  <2> HIDE DEF p
  <2>c. Replaces(queued', queued, z, q, rest)
    BY <1>1, <2>2, <2>3, <2>6 DEF Replaces
  <2>8. /\ queued'[z][q] = rest
        /\ \A s \in Styles, r \in Queues :
             <<s, r>> # <<z, q>> => queued'[s][r] = queued[s][r]
    BY <2>c DEF Replaces
  <2>b. p.since <= serial
    BY <1>1, <2>7
  <2>9. /\ Sound(queued', passes', serial, posted')
        /\ \A e \in ToSet(rest) : m \notin e.modes
        /\ Part(rest, queued[z][q])
        /\ ToSet(queued[z][q]) = ToSet(rest) \cup ToSet(Tail(take)) \cup {Head(take)}
        /\ \A k \in Ids(Tail(take)) : Head(take).id < k
    <3>1. /\ Sound(queued', Append(outer, p), serial, Append(posted, Head(take).id))
          /\ \A e \in ToSet(rest) : m \notin e.modes
          /\ Part(rest, queued[z][q])
          /\ ToSet(queued[z][q]) = ToSet(rest) \cup ToSet(Tail(take)) \cup {Head(take)}
          /\ \A k \in Ids(Tail(take)) : Head(take).id < k
      <4>1. Serves(queued, queued', serial, p, take, rest)
        BY <2>2, <2>4, <2>7, <2>b, <2>c DEF Serves
      <4> QED BY <4>1, <2>7, SoundServes
    <3> QED BY <3>1, <2>a, <2>3
  <2>10. \A s \in Styles, r \in Queues : ToSet(queued'[s][r]) \subseteq ToSet(queued[s][r])
    BY <2>9, <2>8 DEF Part
  <2>11. Ids(queued[z][q]) = Ids(queued'[z][q]) \cup Ids(p.batch) \cup {Head(take).id}
    BY <2>9, <2>7, <2>8 DEF Ids
  <2>12. Visited(list, queued', passes')
    <3> SUFFICES ASSUME NEW l \in 1 .. Len(passes'),
                        NEW j \in 1 .. Len(list), NEW k \in 1 .. Len(list),
                        k <= j, list[j] = passes'[l].at,
                        NEW e \in ToSet(queued'[passes'[l].style][list[k]]),
                        passes'[l].mode \in e.modes
                 PROVE  passes'[l].since < e.id
      BY DEF Visited
    <3>1. /\ l \in 1 .. Len(outer) \/ l = Len(outer) + 1
          /\ l \in 1 .. Len(outer) => passes'[l] = outer[l]
          /\ l = Len(outer) + 1 => passes'[l] = p
      <4>1. outer \in Seq(Pass) /\ p \in Pass /\ passes' = Append(outer, p)
        BY <1>1, <2>a, <2>7
      <4>2. /\ 1 .. Len(passes') = 1 .. Len(outer) \cup {Len(outer) + 1}
            /\ passes'[Len(outer) + 1] = p
            /\ \A n \in 1 .. Len(outer) : passes'[n] = outer[n]
        BY <4>1, AppendIs
      <4> QED BY <4>2
    <3>2. list[k] \in Queues
      BY <1>1
    <3>3. CASE l \in 1 .. Len(outer)
      <4>1. outer[l].style \in Styles
        BY <3>3, <1>1, PassFields
      <4>2. e \in ToSet(queued[outer[l].style][list[k]])
        BY <4>1, <3>1, <3>2, <3>3, <2>10
      <4> QED BY <4>2, <3>1, <3>3 DEF Visited
    <3>4. CASE l = Len(outer) + 1
      <4>1. j = x
        BY <3>1, <3>4, <2>2, <2>7, <1>1, InSetOf DEF q
      <4>2. e \in ToSet(queued[z][list[k]]) /\ m \in e.modes
        BY <3>1, <3>2, <3>4, <2>7, <2>10
      <4>3. k # x
        BY <4>2, <3>1, <3>4, <2>9, <2>7, <2>8 DEF q
      <4>4. k < i
        <5>1. Due(z, list[k], m) # <<>>
          BY <4>2, <3>2, <1>1, DueIs
        <5>2. k \in i .. Len(list) => x <= k
          BY <5>1, <2>1 DEF Places
        <5> QED BY <5>2, <4>1, <4>3, <1>1, <2>2
      <4> QED BY <4>2, <4>4, <3>1, <3>4, <2>7
    <3> QED BY <3>1, <3>3, <3>4
  <2>13. /\ passes' = Append(outer, p) /\ p.style = z /\ p.mode = m
         /\ posted' = Append(posted, Head(take).id)
         /\ \A j \in Ids(p.batch) : Head(take).id < j
         /\ \A e \in ToSet(queued'[z][p.at]) : m \notin e.modes
         /\ Ids(queued[z][p.at]) =
              Ids(queued'[z][p.at]) \cup Ids(p.batch) \cup {Head(take).id}
         /\ \A s \in Styles, r \in Queues :
              <<s, r>> # <<z, p.at>> => queued'[s][r] = queued[s][r]
    BY <2>a, <2>3, <2>9, <2>7, <2>8, <2>11
  <2> QED BY <2>9, <2>6, <2>7, <2>12, <2>13 DEF Served
<1> QED BY <1>2, <1>3

--------------------------------------------------------------------------
LEMMA VisitedShrinks ==
  ASSUME NEW li, NEW Q, NEW P \in Seq(Pass), Visited(li, Q, P), li \in Seq(Queues), NEW Q2,
         \A s \in Styles, q \in Queues : ToSet(Q2[s][q]) \subseteq ToSet(Q[s][q])
  PROVE  Visited(li, Q2, P)
<1> SUFFICES ASSUME NEW i \in 1 .. Len(P), NEW j \in 1 .. Len(li), NEW k \in 1 .. Len(li),
                    k <= j, li[j] = P[i].at,
                    NEW e \in ToSet(Q2[P[i].style][li[k]]), P[i].mode \in e.modes
             PROVE  P[i].since < e.id
  BY DEF Visited
<1>1. P[i].style \in Styles /\ li[k] \in Queues
  BY PassFields
<1>2. e \in ToSet(Q[P[i].style][li[k]])
  BY <1>1
<1> QED BY <1>2 DEF Visited

(* What dequeueing and coalescing leave.                                    *)
LEMMA WithoutIs ==
  ASSUME NEW q \in Queues, NEW n, NEW mask,
         queued \in [Styles -> [Queues -> Seq(Entry)]]
  PROVE  /\ Without(q, n, mask) \in [Styles -> [Queues -> Seq(Entry)]]
         /\ \A s \in Styles, r \in Queues : Part(Without(q, n, mask)[s][r], queued[s][r])
         /\ \A s \in Styles : \A d \in ToSet(Without(q, n, mask)[s][q]) :
              ~ Matches(n, d, mask)
<1> DEFINE left(s) == {e \in ToSet(queued[s][q]) : ~ Matches(n, e, mask)}
           w == Without(q, n, mask)
<1>1. ASSUME NEW s \in Styles
      PROVE  /\ Only(queued[s][q], left(s)) \in Seq(Entry)
             /\ Part(Only(queued[s][q], left(s)), queued[s][q])
             /\ ToSet(Only(queued[s][q], left(s))) = ToSet(queued[s][q]) \cap left(s)
  <2>1. queued[s][q] \in Seq(Entry)
    OBVIOUS
  <2> HIDE DEF left
  <2> QED BY <2>1, OnlyIsPart DEF Part
<1>2. w = [s \in Styles |-> [queued[s] EXCEPT ![q] = Only(@, left(s))]]
  BY DEF Without
<1>3. \A s \in Styles : \A d \in left(s) : ~ Matches(n, d, mask)
  OBVIOUS
<1> HIDE DEF left, w
<1>4. ASSUME NEW s \in Styles
      PROVE  /\ w[s] \in [Queues -> Seq(Entry)]
             /\ w[s][q] = Only(queued[s][q], left(s))
             /\ \A r \in Queues : r # q => w[s][r] = queued[s][r]
  BY <1>1, <1>2
<1>5. w \in [Styles -> [Queues -> Seq(Entry)]]
  BY <1>2, <1>4
<1>6. ASSUME NEW s \in Styles, NEW r \in Queues PROVE Part(w[s][r], queued[s][r])
  <2>1. Part(queued[s][r], queued[s][r])
    BY DEF Part
  <2> QED BY <2>1, <1>1, <1>4
<1>7. ASSUME NEW s \in Styles, NEW d \in ToSet(w[s][q]) PROVE ~ Matches(n, d, mask)
  BY <1>1, <1>3, <1>4
<1> QED BY <1>5, <1>6, <1>7 DEF w

LEMMA PositionIs ==
  ASSUME list \in Seq(Queues), NEW q, Registered(q)
  PROVE  /\ Position(q) \in 1 .. Len(list) /\ list[Position(q)] = q
         /\ Len(list) \in Nat /\ Position(q) \in Nat \ {0}
<1>1. Len(list) \in Nat /\ \E i \in 1 .. Len(list) : list[i] = q
  BY InSetOf DEF Registered
<1>2. Position(q) \in 1 .. Len(list) /\ list[Position(q)] = q
  BY <1>1 DEF Position
<1> QED BY <1>1, <1>2

--------------------------------------------------------------------------
LEMMA CreateKeeps == ASSUME IInv, NEW q \in Queues, Create(q) PROVE IInv'
<1>1. /\ list' = Append(list, q) /\ UNCHANGED <<queued, passes, serial, posted, fate>>
      /\ q \notin ToSet(list) /\ \A i \in 1 .. Len(passes) : passes[i].at # q
  BY DEF Create, Registered
<1>2. list' \in Seq(Queues) /\ IsInjective(list')
  BY <1>1, SetOfAppend DEF IInv
<1>3. Visited(list', queued, passes)
  <2> SUFFICES ASSUME NEW i \in 1 .. Len(passes), NEW j \in 1 .. Len(list'),
                      NEW k \in 1 .. Len(list'), k <= j, list'[j] = passes[i].at,
                      NEW e \in ToSet(queued[passes[i].style][list'[k]]),
                      passes[i].mode \in e.modes
               PROVE  passes[i].since < e.id
    BY DEF Visited
  <2>1. /\ Len(list) \in Nat /\ Len(list') = Len(list) + 1 /\ list'[Len(list) + 1] = q
        /\ \A l \in 1 .. Len(list) : list'[l] = list[l]
    BY <1>1, AppendIs DEF IInv
  <2>2. j # Len(list) + 1
    BY <1>1, <2>1
  <2>3. j \in 1 .. Len(list) /\ k \in 1 .. Len(list)
    BY <2>1, <2>2
  <2>4. list'[j] = list[j] /\ list'[k] = list[k]
    BY <2>1, <2>3
  <2> QED BY <2>3, <2>4 DEF IInv, Visited
<1> QED BY <1>1, <1>2, <1>3 DEF IInv

LEMMA DeallocKeeps == ASSUME IInv, NEW q \in Queues, Dealloc(q) PROVE IInv'
<1>1. /\ Registered(q) /\ Unregister(q) /\ UNCHANGED <<passes, serial, posted>>
      /\ queued' = [s \in Styles |-> [queued[s] EXCEPT ![q] = <<>>]]
      /\ fate = "running"
  BY DEF Dealloc, Alive
<1>2. /\ queued \in [Styles -> [Queues -> Seq(Entry)]] /\ passes \in Seq(Pass)
      /\ list \in Seq(Queues) /\ IsInjective(list)
  BY DEF IInv, Sound, Types
<1>3. queued' \in [Styles -> [Queues -> Seq(Entry)]]
  BY <1>1, <1>2
<1>4. ASSUME NEW s \in Styles, NEW r \in Queues PROVE Part(queued'[s][r], queued[s][r])
  <2>1. Part(queued[s][r], queued[s][r])
    BY <1>2 DEF Part
  <2>2. Part(<<>>, queued[s][r])
    BY <1>2, SetOfEmpty DEF Part, Increasing
  <2>3. queued'[s][r] = IF r = q THEN <<>> ELSE queued[s][r]
    BY <1>1, <1>2
  <2> QED BY <2>1, <2>2, <2>3
<1>5. Sound(queued', passes', serial', posted')
  BY <1>1, <1>3, <1>4, SoundShrinks DEF IInv
<1>6. Visited(list, queued', passes)
  <2>1. \A s \in Styles, r \in Queues : ToSet(queued'[s][r]) \subseteq ToSet(queued[s][r])
    BY <1>4 DEF Part
  <2> QED BY <2>1, <1>2, VisitedShrinks DEF IInv
<1>7. CASE UNCHANGED list
  BY <1>1, <1>2, <1>5, <1>6, <1>7 DEF IInv, Unregister
<1>8. CASE list' = RemoveAt(list, Position(q)) /\ UNCHANGED fate
  <2> DEFINE x == Position(q)
  <2>1. x \in 1 .. Len(list) /\ Len(list) \in Nat
    BY <1>1, <1>2, PositionIs
  <2> HIDE DEF x
  <2>2. /\ list' \in Seq(Queues) /\ IsInjective(list') /\ Len(list') = Len(list) - 1
        /\ \A k \in 1 .. Len(list') : list'[k] = IF k < x THEN list[k] ELSE list[k + 1]
    BY <2>1, <1>2, <1>8, RemoveAtIs DEF x
  <2>3. Visited(list', queued', passes)
    <3> SUFFICES ASSUME NEW i \in 1 .. Len(passes), NEW j \in 1 .. Len(list'),
                        NEW k \in 1 .. Len(list'), k <= j, list'[j] = passes[i].at,
                        NEW e \in ToSet(queued'[passes[i].style][list'[k]]),
                        passes[i].mode \in e.modes
                 PROVE  passes[i].since < e.id
      BY DEF Visited
    <3> DEFINE a == IF j < x THEN j ELSE j + 1
               b == IF k < x THEN k ELSE k + 1
    <3>1. a \in 1 .. Len(list) /\ b \in 1 .. Len(list) /\ b <= a
      BY <2>1, <2>2
    <3>2. list'[j] = list[a] /\ list'[k] = list[b]
      BY <2>2
    <3> HIDE DEF a, b
    <3> QED BY <3>1, <3>2, <1>6 DEF Visited
  <2> QED BY <2>2, <2>3, <1>1, <1>5, <1>8 DEF IInv
<1> QED BY <1>1, <1>7, <1>8 DEF Unregister

LEMMA DequeueKeeps ==
  ASSUME IInv, NEW q \in Queues, NEW n, NEW mask, Dequeue(q, n, mask)
  PROVE  IInv'
<1>1. queued' = Without(q, n, mask) /\ UNCHANGED <<list, passes, serial, posted, fate>>
  BY DEF Dequeue
<1>2. queued \in [Styles -> [Queues -> Seq(Entry)]] /\ passes \in Seq(Pass)
  BY DEF IInv, Sound, Types
<1>3. /\ queued' \in [Styles -> [Queues -> Seq(Entry)]]
      /\ \A s \in Styles, r \in Queues : Part(queued'[s][r], queued[s][r])
  BY <1>1, <1>2, WithoutIs
<1>4. Sound(queued', passes, serial, posted)
  BY <1>3, SoundShrinks DEF IInv
<1>5. Visited(list, queued', passes)
  BY <1>2, <1>3, VisitedShrinks DEF IInv, Part
<1> QED BY <1>1, <1>4, <1>5 DEF IInv

LEMMA EnqueueKeeps ==
  ASSUME IInv, NEW q \in Queues, NEW n \in Notification, NEW style \in Styles \cup {"now"},
         NEW mask \in MaskChoices, NEW modes \in ModeChoices, NEW current,
         Enqueue(q, n, style, mask, modes, current)
  PROVE  IInv'
<1> DEFINE rest == Without(q, n, mask)
           e == [id |-> serial + 1, note |-> n, modes |-> modes, mask |-> mask]
<1>1. /\ serial < MaxEntries /\ serial' = serial + 1 /\ UNCHANGED <<list, passes, fate>>
      /\ \/ /\ style = "now" /\ queued' = rest
            /\ posted' = Append(posted, serial + 1) \/ posted' = posted
         \/ /\ style # "now" /\ queued' = [rest EXCEPT ![style][q] = Append(@, e)]
            /\ posted' = posted
  BY DEF Enqueue
<1>2. /\ queued \in [Styles -> [Queues -> Seq(Entry)]] /\ passes \in Seq(Pass)
      /\ serial \in 0 .. MaxEntries /\ serial \in Nat
      /\ list \in Seq(Queues) /\ IsInjective(list)
  BY BoundsAssumption DEF IInv, Sound, Types
<1>3. e \in Entry /\ e.id = serial + 1 /\ e.note = n /\ e.mask = mask
  BY <1>1, <1>2, BoundsAssumption, ChoicesAssumption DEF Entry
<1> HIDE DEF rest, e
<1>4. /\ rest \in [Styles -> [Queues -> Seq(Entry)]]
      /\ \A s \in Styles, r \in Queues : Part(rest[s][r], queued[s][r])
      /\ \A s \in Styles : \A d \in ToSet(rest[s][q]) : ~ Matches(n, d, mask)
  BY <1>2, WithoutIs DEF rest
<1>5. Sound(rest, passes, serial, posted)
  BY <1>4, SoundShrinks DEF IInv
<1>6. Visited(list, rest, passes)
  BY <1>2, <1>4, VisitedShrinks DEF IInv, Part
<1>7. /\ Sound(rest, passes, serial + 1, posted)
      /\ serial + 1 \notin ToSet(posted)
      /\ \A s \in Styles, r \in Queues : \A k \in Ids(rest[s][r]) : k < serial + 1
      /\ \A i \in 1 .. Len(passes) : \A k \in Ids(passes[i].batch) : k < serial + 1
  BY <1>1, <1>5, SoundCounts
<1>8. CASE style = "now" /\ queued' = rest /\ posted' = posted
  BY <1>1, <1>2, <1>6, <1>7, <1>8 DEF IInv
<1>9. CASE style = "now" /\ queued' = rest /\ posted' = Append(posted, serial + 1)
  <2>1. serial + 1 \in 1 .. (serial + 1) /\ ~ serial + 1 < serial + 1
    BY <1>2
  <2>2. Sound(rest, passes, serial + 1, posted')
    BY <2>1, <1>7, <1>9, SoundPosts
  <2> QED BY <2>2, <1>1, <1>2, <1>6, <1>9 DEF IInv
<1>10. CASE style # "now" /\ queued' = [rest EXCEPT ![style][q] = Append(@, e)]
            /\ posted' = posted
  <2>1. style \in Styles
    BY <1>10
  <2>2. /\ Sound(queued', passes, serial + 1, posted)
        /\ \A s \in Styles, r \in Queues : \A d \in ToSet(queued'[s][r]) :
             d \in ToSet(rest[s][r]) \/ d = e
    <3>1. Appends(rest, queued', serial, style, q, e)
      BY <1>1, <1>3, <1>4, <1>10, <2>1 DEF Appends, WithEntry
    <3> QED BY <3>1, <1>5, SoundAppends
  <2>3. Visited(list, queued', passes)
    <3> SUFFICES ASSUME NEW i \in 1 .. Len(passes), NEW j \in 1 .. Len(list),
                        NEW k \in 1 .. Len(list), k <= j, list[j] = passes[i].at,
                        NEW d \in ToSet(queued'[passes[i].style][list[k]]),
                        passes[i].mode \in d.modes
                 PROVE  passes[i].since < d.id
      BY DEF Visited
    <3>1. passes[i].style \in Styles /\ list[k] \in Queues
          /\ passes[i].since \in 0 .. MaxEntries
      BY <1>2, PassFields
    <3>2. passes[i].since <= serial
      BY DEF IInv, Sound, BatchesSound
    <3>3. CASE d = e
      BY <3>1, <3>2, <3>3, <1>2, <1>3
    <3>4. CASE d \in ToSet(rest[passes[i].style][list[k]])
      BY <3>4, <1>6 DEF Visited
    <3> QED BY <3>1, <3>3, <3>4, <2>2
  <2> QED BY <2>2, <2>3, <1>1, <1>2, <1>10 DEF IInv
<1> QED BY <1>1, <1>8, <1>9, <1>10

(* A pass begins with the first place of the list, one goes on with the     *)
(* place after its queue.                                                   *)
LEMMA BeginServes ==
  ASSUME IInv, NEW s \in Styles, NEW m \in Modes, Begin(s, m)
  PROVE  /\ Serve(s, m, 1, passes, serial) /\ serial \in 0 .. serial
         /\ \A k \in 1 .. Len(list) : k < 1 =>
              \A e \in ToSet(queued[s][list[k]]) : m \in e.modes => serial < e.id
         /\ UNCHANGED <<list, serial, fate>>
         /\ passes' # passes
<1>1. serial \in Nat /\ Len(list) \in Nat /\ passes \in Seq(Pass)
  BY BoundsAssumption DEF IInv, Sound, Types
<1>2. \A k \in 1 .. Len(list) : ~ k < 1
  BY <1>1
<1>3. passes' # passes
  <2>1. PICK p : passes' = Append(passes, p)
    BY DEF Begin, Serve
  <2> QED BY <2>1, <1>1
<1> QED BY <1>1, <1>2, <1>3 DEF Begin

LEMMA ContinueServes ==
  ASSUME IInv, Continue, Last(passes).batch = <<>>, Registered(Last(passes).at)
  PROVE  LET p == Last(passes)
             i == Position(p.at) + 1
         IN /\ p \in Pass /\ p.style \in Styles /\ p.mode \in Modes
            /\ i \in Nat \ {0} /\ p.since \in 0 .. serial
            /\ Sound(queued, Front(passes), serial, posted)
            /\ Visited(list, queued, Front(passes))
            /\ \A k \in 1 .. Len(list) : k < i =>
                 \A e \in ToSet(queued[p.style][list[k]]) : p.mode \in e.modes => p.since < e.id
            /\ Serve(p.style, p.mode, i, Front(passes), p.since)
            /\ passes # <<>> /\ UNCHANGED <<list, serial, fate>>
<1> DEFINE l == Len(passes)
           p == Last(passes)
           x == Position(p.at)
<1>1. passes # <<>> /\ Serve(p.style, p.mode, x + 1, Front(passes), p.since)
      /\ UNCHANGED <<list, serial, fate>>
  BY DEF Continue
<1>2. passes \in Seq(Pass) /\ list \in Seq(Queues) /\ serial \in Nat
  BY BoundsAssumption DEF IInv, Sound, Types
<1>3. l \in 1 .. l /\ l \in Nat /\ p = passes[l] /\ p \in Pass
  BY <1>1, <1>2 DEF Last
<1>4. p.style \in Styles /\ p.mode \in Modes /\ p.since \in 0 .. MaxEntries
  BY <1>3 DEF Pass
<1>5. x \in 1 .. Len(list) /\ list[x] = p.at /\ x \in Nat /\ Len(list) \in Nat
  BY <1>2, PositionIs
<1>6. p.since \in 0 .. serial
  <2>1. p.since <= serial
    BY <1>3 DEF IInv, Sound, BatchesSound
  <2> QED BY <2>1, <1>2, <1>4
<1>7. Sound(queued, Front(passes), serial, posted)
  BY <1>1, SoundPops DEF IInv
<1>8. Visited(list, queued, Front(passes))
  <2>1. \A i \in 1 .. Len(Front(passes)) :
          i \in 1 .. Len(passes) /\ Front(passes)[i] = passes[i]
    BY <1>1, <1>2, FrontIs
  <2> QED BY <2>1 DEF IInv, Visited
<1> HIDE DEF l, p, x
<1>9. ASSUME NEW k \in 1 .. Len(list), k < x + 1,
             NEW e \in ToSet(queued[p.style][list[k]]), p.mode \in e.modes
      PROVE  p.since < e.id
  <2>1. k <= x
    BY <1>5, <1>9
  <2> QED BY <2>1, <1>3, <1>5, <1>9 DEF IInv, Visited, l
<1> QED BY <1>1, <1>3, <1>4, <1>5, <1>6, <1>7, <1>8, <1>9 DEF p, x

LEMMA ContinueKeeps == ASSUME IInv, Continue PROVE IInv'
<1> DEFINE p == Last(passes)
<1>1. passes # <<>> /\ UNCHANGED <<list, serial>> /\ fate = "running"
  BY DEF Continue, Alive
<1>2. list \in Seq(Queues) /\ IsInjective(list) /\ passes \in Seq(Pass)
  BY DEF IInv, Sound, Types
<1>3. CASE p.batch # <<>>
  <2>1. /\ posted' = Append(posted, Head(p.batch).id) /\ UNCHANGED <<queued, fate>>
        /\ passes' = [passes EXCEPT ![Len(passes)].batch = Tail(@)]
    BY <1>3 DEF Continue
  <2>a. Continues(passes, passes') /\ Sound(queued, passes, serial, posted)
    BY <2>1, <1>1, <1>3 DEF Continues, Advanced, IInv
  <2>2. /\ Sound(queued, passes', serial, posted')
        /\ Len(passes') = Len(passes)
        /\ \A i \in 1 .. Len(passes) :
              /\ passes'[i].style = passes[i].style /\ passes'[i].mode = passes[i].mode
              /\ passes'[i].at = passes[i].at /\ passes'[i].since = passes[i].since
    BY <2>a, <2>1, SoundContinues
  <2>3. Visited(list, queued, passes')
    BY <2>2 DEF IInv, Visited
  <2> QED BY <2>1, <2>2, <2>3, <1>1, <1>2 DEF IInv
<1>4. CASE p.batch = <<>> /\ Registered(p.at)
  <2>1. /\ Sound(queued', passes', serial, posted') /\ Visited(list, queued', passes')
    BY <1>2, <1>4, ContinueServes, ServeIs
  <2> QED BY <2>1, <1>1, <1>2, <1>4, ContinueServes DEF IInv
<1>5. CASE p.batch = <<>> /\ ~ Registered(p.at)
  BY <1>1, <1>2, <1>5 DEF IInv, Continue
<1> QED BY <1>3, <1>4, <1>5

LEMMA InvKept == IInv /\ [Next]_qvars => IInv'
<1> SUFFICES ASSUME IInv, [Next]_qvars PROVE IInv'
  OBVIOUS
<1>1. ASSUME NEW s \in Styles, NEW m \in Modes, Begin(s, m) PROVE IInv'
  <2>1. /\ list \in Seq(Queues) /\ IsInjective(list) /\ fate \in {"running", "hung", "freed"}
        /\ Sound(queued, passes, serial, posted) /\ Visited(list, queued, passes)
    BY DEF IInv
  <2>2. /\ Serve(s, m, 1, passes, serial) /\ serial \in 0 .. serial
        /\ \A k \in 1 .. Len(list) : k < 1 =>
             \A e \in ToSet(queued[s][list[k]]) : m \in e.modes => serial < e.id
        /\ UNCHANGED <<list, serial, fate>>
    BY <1>1, BeginServes
  <2>3. /\ Sound(queued', passes', serial, posted') /\ Visited(list, queued', passes')
    BY <2>1, <2>2, ServeIs
  <2> QED BY <2>1, <2>2, <2>3 DEF IInv
<1>2. CASE UNCHANGED qvars
  BY <1>2 DEF qvars, IInv
<1> QED
  BY <1>1, <1>2, CreateKeeps, DeallocKeeps, DequeueKeeps, EnqueueKeeps, ContinueKeeps
  DEF Next

LEMMA NothingInv == Nothing /\ list \in Seq(Queues) /\ IsInjective(list) => IInv
<1> SUFFICES ASSUME Nothing, list \in Seq(Queues), IsInjective(list) PROVE IInv
  OBVIOUS
<1>1. /\ queued = [s \in Styles |-> [q \in Queues |-> <<>>]]
      /\ passes = <<>> /\ serial = 0 /\ posted = <<>> /\ fate = "running"
  BY DEF Nothing
<1>2. \A s \in Styles, q \in Queues : queued[s][q] = <<>>
  BY <1>1
<1>3. Ids(<<>>) = {} /\ ToSet(<<>>) = {} /\ IsInjective(<<>>) /\ Increasing(<<>>)
  BY SetOfEmpty DEF Ids, Increasing
<1>4. Types(queued, passes, serial, posted)
  BY <1>1, <1>3, BoundsAssumption DEF Types
<1>5. QueuesSound(queued, serial) /\ QueuesApart(queued, posted) /\ Uncoalesced(queued)
  BY <1>2, <1>3 DEF QueuesSound, QueuesApart, Uncoalesced
<1>6. BatchesSound(passes, serial) /\ BatchesApart(queued, passes, posted)
      /\ Behind(queued, passes) /\ Visited(list, queued, passes)
  BY <1>1 DEF BatchesSound, BatchesApart, Behind, Visited
<1> QED BY <1>1, <1>3, <1>4, <1>5, <1>6 DEF IInv, Sound

LEMMA QueuesInvariant == Spec => []IInv
<1>1. QInit => IInv
  BY NothingInv, SetOfEmpty DEF QInit
<1> QED BY <1>1, InvKept, PTL DEF Spec

--------------------------------------------------------------------------
(* Only Begin and Continue change the passes, and of the others only what   *)
(* enqueues posts.                                                          *)
LEMMA OtherSteps ==
  ASSUME IInv, Next
  PROVE  \/ \E s \in Styles, m \in Modes : Begin(s, m)
         \/ Continue
         \/ UNCHANGED passes /\ (posted' = posted \/ serial' # serial)
<1>1. ASSUME NEW q \in Queues, Create(q) \/ Dealloc(q) PROVE UNCHANGED <<passes, posted>>
  BY <1>1 DEF Create, Dealloc
<1>2. ASSUME NEW q, NEW n, NEW mask, Dequeue(q, n, mask) PROVE UNCHANGED <<passes, posted>>
  BY <1>2 DEF Dequeue
<1>3. ASSUME NEW q, NEW n, NEW style, NEW mask, NEW modes, NEW current,
             Enqueue(q, n, style, mask, modes, current)
      PROVE  UNCHANGED passes /\ serial' # serial
  <2>1. UNCHANGED passes /\ serial' = serial + 1
    BY <1>3 DEF Enqueue
  <2>2. serial \in Nat
    BY BoundsAssumption DEF IInv, Sound, Types
  <2> QED BY <2>1, <2>2
<1> QED BY <1>1, <1>2, <1>3 DEF Next

PassesFit == Len(passes) <= MaxPasses

LEMMA PassesBounded == IInv /\ PassesFit /\ [Next]_qvars => PassesFit'
<1> SUFFICES ASSUME IInv, [Next]_qvars, Len(passes) <= MaxPasses
             PROVE  Len(passes') <= MaxPasses
  BY DEF PassesFit
<1>1. passes \in Seq(Pass) /\ Len(passes) \in Nat /\ MaxPasses \in Nat
  BY BoundsAssumption DEF IInv, Sound, Types
<1>2. ASSUME NEW s \in Styles, NEW m \in Modes, Begin(s, m)
      PROVE  Len(passes') <= MaxPasses
  <2>1. PICK p : passes' = Append(passes, p)
    BY <1>2 DEF Begin, Serve
  <2> QED BY <2>1, <1>1, <1>2 DEF Begin
<1>3. ASSUME Continue PROVE Len(passes') <= MaxPasses
  <2>1. /\ Front(passes) \in Seq(Pass) /\ Len(Front(passes)) = Len(passes) - 1
    BY <1>1, <1>3, FrontIs DEF Continue
  <2>2. CASE Last(passes).batch # <<>>
    BY <2>2, <1>1, <1>3 DEF Continue
  <2>3. CASE Last(passes).batch = <<>> /\ Registered(Last(passes).at)
    <3>1. passes' = Front(passes) \/ \E p : passes' = Append(Front(passes), p)
      BY <2>3, <1>3 DEF Continue, Serve
    <3> QED BY <3>1, <2>1, <1>1
  <2>4. CASE Last(passes).batch = <<>> /\ ~ Registered(Last(passes).at)
    BY <2>4, <1>3 DEF Continue
  <2> QED BY <2>2, <2>3, <2>4
<1>4. CASE UNCHANGED qvars
  BY <1>4 DEF qvars
<1> QED BY <1>2, <1>3, <1>4, OtherSteps

(* The variables of the notification queues have their types: above all,    *)
(* the list of a thread names a queue once.                                 *)
THEOREM QueuesTypeOK == Spec => []QTypeOK
<1>1. QInit => PassesFit
  BY BoundsAssumption DEF QInit, Nothing, PassesFit
<1>2. IInv /\ PassesFit => QTypeOK
  BY DEF IInv, Sound, Types, PassesFit, QTypeOK
<1> QED BY <1>1, <1>2, PassesBounded, QueuesInvariant, PTL DEF Spec

LEMMA InvPostedOnce == IInv => PostedOnce
<1> SUFFICES ASSUME IInv PROVE PostedOnce
  OBVIOUS
<1>1. IsInjective(posted)
  BY DEF IInv, Sound, Types
<1>2. ASSUME NEW k \in InQueue PROVE k \notin ToSet(posted) /\ k \notin InBatch
  <2>1. PICK s \in Styles, q \in Queues : k \in Ids(queued[s][q])
    BY DEF InQueue
  <2>2. k \notin ToSet(posted)
    BY <2>1 DEF IInv, Sound, QueuesApart
  <2>3. \A i \in 1 .. Len(passes) : k \notin Ids(passes[i].batch)
    BY <2>1 DEF IInv, Sound, BatchesApart
  <2> QED BY <2>2, <2>3 DEF InBatch
<1>3. ASSUME NEW k \in InBatch PROVE k \notin ToSet(posted)
  BY DEF InBatch, IInv, Sound, BatchesApart
<1> QED BY <1>1, <1>2, <1>3 DEF PostedOnce

(* However passes and calls are nested, a notification is in one queue, in  *)
(* one batch or posted, and it is posted once at most (NSNotificationQueue.m *)
(* 616-620).                                                                *)
THEOREM NotificationsPostedOnce == Spec => []PostedOnce
BY InvPostedOnce, QueuesInvariant, PTL

LEMMA InvCoalesced == IInv => Coalesced
BY DEF IInv, Sound, Uncoalesced, Coalesced

(* While a queue holds a notification it holds no older one, in either      *)
(* list, that this one was to be coalesced with (392-400, 510-512).         *)
THEOREM NotificationsCoalesced == Spec => []Coalesced
BY InvCoalesced, QueuesInvariant, PTL

(* What a step of a pass does: it begins with the first place, posts the    *)
(* next of its batch, goes on to the next place or, its queue gone, stops.  *)
LEMMA PassSteps ==
  ASSUME IInv, Next, passes' # passes \/ (posted' # posted /\ serial' = serial)
  PROVE  /\ UNCHANGED <<list, serial>>
         /\ \/ \E s \in Styles, m \in Modes : Served(s, m, passes, serial)
            \/ /\ Continues(passes, passes') /\ UNCHANGED queued
               /\ posted' = Append(posted, Head(Last(passes).batch).id)
            \/ LET p == Last(passes) IN
               /\ passes # <<>> /\ p.batch = <<>> /\ p.style \in Styles
               /\ Served(p.style, p.mode, Front(passes), p.since)
<1>1. ASSUME NEW s \in Styles, NEW m \in Modes, Begin(s, m)
      PROVE  UNCHANGED <<list, serial>> /\ Served(s, m, passes, serial)
  <2>1. UNCHANGED <<list, serial>>
    BY <1>1, BeginServes
  <2>2. /\ list \in Seq(Queues) /\ IsInjective(list)
        /\ Sound(queued, passes, serial, posted) /\ Visited(list, queued, passes)
    BY DEF IInv
  <2>3. /\ Serve(s, m, 1, passes, serial) /\ serial \in 0 .. serial
        /\ \A k \in 1 .. Len(list) : k < 1 =>
             \A e \in ToSet(queued[s][list[k]]) : m \in e.modes => serial < e.id
    BY <1>1, BeginServes
  <2> QED BY <2>1, <2>2, <2>3, ServeIs
<1>2. ASSUME Continue, Last(passes).batch # <<>>
      PROVE  /\ UNCHANGED <<list, serial>>
             /\ Continues(passes, passes') /\ UNCHANGED queued
             /\ posted' = Append(posted, Head(Last(passes).batch).id)
  BY <1>2 DEF Continue, Continues, Advanced
<1>3. ASSUME Continue, Last(passes).batch = <<>>, Registered(Last(passes).at)
      PROVE  /\ UNCHANGED <<list, serial>>
             /\ passes # <<>> /\ Last(passes).style \in Styles
             /\ Served(Last(passes).style, Last(passes).mode, Front(passes),
                       Last(passes).since)
  <2>1. /\ UNCHANGED <<list, serial>> /\ passes # <<>> /\ Last(passes).style \in Styles
    BY <1>3, ContinueServes
  <2>2. list \in Seq(Queues) /\ IsInjective(list)
    BY DEF IInv
  <2> QED BY <2>1, <2>2, <1>3, ContinueServes, ServeIs
<1>4. ASSUME Continue
      PROVE  Last(passes).batch # <<>> \/ Registered(Last(passes).at)
             \/ UNCHANGED <<passes, posted>>
  BY <1>4 DEF Continue
<1> QED
  BY <1>1, <1>2, <1>3, <1>4, OtherSteps

(* Serving a place loses no notification.                                   *)
LEMMA ServedLosesNone ==
  ASSUME IInv, NEW z \in Styles, NEW m, NEW outer \in Seq(Pass), NEW since,
         Served(z, m, outer, since)
  PROVE  /\ \A k \in InQueue : k \in InQueue' \/ k \in InBatch' \/ k \in ToSet(posted')
         /\ \A i \in 1 .. Len(outer) : Ids(outer[i].batch) \subseteq InBatch'
         /\ ToSet(posted) \subseteq ToSet(posted')
<1>1. CASE passes' = outer /\ UNCHANGED <<queued, posted>>
  BY <1>1 DEF InQueue, InBatch
<1>2. ASSUME NEW p \in Pass, NEW j \in Nat,
             passes' = Append(outer, p), posted' = Append(posted, j),
             Ids(queued[z][p.at]) = Ids(queued'[z][p.at]) \cup Ids(p.batch) \cup {j},
             \A s \in Styles, q \in Queues :
               <<s, q>> # <<z, p.at>> => queued'[s][q] = queued[s][q]
      PROVE  /\ \A k \in InQueue : k \in InQueue' \/ k \in InBatch' \/ k \in ToSet(posted')
             /\ \A i \in 1 .. Len(outer) : Ids(outer[i].batch) \subseteq InBatch'
             /\ ToSet(posted) \subseteq ToSet(posted')
  <2>1. p.at \in Queues
    BY DEF Pass
  <2>2. posted \in Seq(1 .. serial) /\ posted \in Seq(Nat)
    BY BoundsAssumption DEF IInv, Sound, Types
  <2>3. ToSet(posted') = ToSet(posted) \cup {j}
    BY <2>2, <1>2, SetOfAppend
  <2>4. /\ 1 .. Len(passes') = 1 .. Len(outer) \cup {Len(outer) + 1}
        /\ passes'[Len(outer) + 1] = p
        /\ \A i \in 1 .. Len(outer) : passes'[i] = outer[i]
    BY <1>2, AppendIs
  <2>5. Ids(p.batch) \subseteq InBatch'
    BY <2>4 DEF InBatch
  <2>6. \A i \in 1 .. Len(outer) : Ids(outer[i].batch) \subseteq InBatch'
    BY <2>4 DEF InBatch
  <2>7. ASSUME NEW k \in InQueue
        PROVE  k \in InQueue' \/ k \in InBatch' \/ k \in ToSet(posted')
    <3>1. PICK s \in Styles, q \in Queues : k \in Ids(queued[s][q])
      BY DEF InQueue
    <3>2. CASE <<s, q>> # <<z, p.at>>
      BY <3>1, <3>2, <1>2 DEF InQueue
    <3>3. CASE s = z /\ q = p.at
      <4>1. k \in Ids(queued'[z][p.at]) => k \in InQueue'
        BY <2>1 DEF InQueue
      <4> QED BY <4>1, <3>1, <3>3, <2>3, <2>5, <1>2
    <3> QED BY <3>2, <3>3
  <2> QED BY <2>3, <2>6, <2>7
<1> QED BY <1>1, <1>2 DEF Served

(* A pass, step by step, loses nothing.                                     *)
LEMMA LosesNone == []IInv /\ [][Next]_qvars => PassLosesNone
<1>1. ASSUME IInv, Next, passes' # passes
      PROVE  InQueue \cup InBatch \subseteq (InQueue \cup InBatch \cup ToSet(posted))'
  <2>1. passes \in Seq(Pass) /\ posted \in Seq(1 .. serial)
    BY <1>1 DEF IInv, Sound, Types
  <2>2. ASSUME NEW s \in Styles, NEW m \in Modes, Served(s, m, passes, serial)
        PROVE  InQueue \cup InBatch \subseteq (InQueue \cup InBatch \cup ToSet(posted))'
    <3>1. /\ \A k \in InQueue : k \in InQueue' \/ k \in InBatch' \/ k \in ToSet(posted')
          /\ \A i \in 1 .. Len(passes) : Ids(passes[i].batch) \subseteq InBatch'
      BY <1>1, <2>1, <2>2, ServedLosesNone
    <3>2. InBatch \subseteq InBatch'
      BY <3>1 DEF InBatch
    <3> QED BY <3>1, <3>2
  <2>3. ASSUME Continues(passes, passes'), UNCHANGED queued,
               posted' = Append(posted, Head(Last(passes).batch).id)
        PROVE  InQueue \cup InBatch \subseteq (InQueue \cup InBatch \cup ToSet(posted))'
    <3> DEFINE b == Last(passes).batch
               x == Head(b).id
    <3>0. Sound(queued, passes, serial, posted)
      BY <1>1 DEF IInv
    <3>4. Len(passes) \in 1 .. Len(passes) /\ b = passes[Len(passes)].batch
      BY <2>1, <2>3 DEF Continues, Last
    <3>1. Len(passes') = Len(passes) /\ passes'[Len(passes)].batch = Tail(b)
      BY <3>0, <2>3, SoundContinues
    <3>2. \A i \in 1 .. Len(passes) : i # Len(passes) => passes'[i].batch = passes[i].batch
      BY <3>0, <2>3, SoundContinues
    <3>3. Ids(b) = Ids(Tail(b)) \cup {x}
      BY <3>0, <2>3, SoundContinues
    <3>a. posted' = Append(posted, x)
      BY <2>3
    <3> HIDE DEF b, x
    <3>6. x \in 1 .. serial
      <4>1. x \in Ids(passes[Len(passes)].batch)
        BY <3>3, <3>4
      <4> QED BY <1>1, <3>4, <4>1 DEF IInv, Sound, BatchesSound
    <3>7. ToSet(posted') = ToSet(posted) \cup {x}
      <4>1. posted \in Seq(Nat) /\ x \in Nat
        BY <3>6, <2>1, <1>1, BoundsAssumption DEF IInv, Sound, Types
      <4> QED BY <4>1, <3>a, SetOfAppend
    <3>5. ASSUME NEW k \in InBatch PROVE k \in InBatch' \/ k \in ToSet(posted')
      <4>1. PICK i \in 1 .. Len(passes) : k \in Ids(passes[i].batch)
        BY DEF InBatch
      <4>2. k \in Ids(passes'[i].batch) => k \in InBatch'
        BY <3>1 DEF InBatch
      <4>3. k \in Ids(passes'[i].batch) \/ k = x
        <5>1. CASE i = Len(passes)
          BY <5>1, <4>1, <3>1, <3>3, <3>4
        <5>2. CASE i # Len(passes)
          BY <5>2, <4>1, <3>2
        <5> QED BY <5>1, <5>2
      <4> QED BY <4>2, <4>3, <3>7
    <3> QED BY <3>5, <2>3 DEF InQueue
  <2>4. ASSUME passes # <<>>, Last(passes).batch = <<>>, Last(passes).style \in Styles,
               Served(Last(passes).style, Last(passes).mode, Front(passes),
                      Last(passes).since)
        PROVE  InQueue \cup InBatch \subseteq (InQueue \cup InBatch \cup ToSet(posted))'
    <3>1. /\ Front(passes) \in Seq(Pass) /\ Len(Front(passes)) = Len(passes) - 1
          /\ \A i \in 1 .. Len(Front(passes)) :
               i \in 1 .. Len(passes) /\ Front(passes)[i] = passes[i]
      BY <2>1, <2>4, FrontIs
    <3>2. /\ \A k \in InQueue : k \in InQueue' \/ k \in InBatch' \/ k \in ToSet(posted')
          /\ \A i \in 1 .. Len(Front(passes)) :
               Ids(Front(passes)[i].batch) \subseteq InBatch'
      BY <1>1, <2>4, <3>1, ServedLosesNone
    <3>3. ASSUME NEW k \in InBatch PROVE k \in InBatch'
      <4>1. PICK i \in 1 .. Len(passes) : k \in Ids(passes[i].batch)
        BY DEF InBatch
      <4>2. Ids(<<>>) = {}
        BY SetOfEmpty DEF Ids
      <4>3. i # Len(passes)
        BY <4>1, <4>2, <2>4 DEF Last
      <4>4. i \in 1 .. Len(Front(passes))
        BY <4>3, <3>1, <2>1
      <4> QED BY <4>1, <4>4, <3>1, <3>2
    <3> QED BY <3>2, <3>3
  <2> QED BY <1>1, <2>2, <2>3, <2>4, PassSteps
<1>2. IInv /\ [Next]_qvars =>
        [passes' # passes /\ Alive' =>
           InQueue \cup InBatch \subseteq (InQueue \cup InBatch \cup ToSet(posted))']_qvars
  BY <1>1 DEF qvars
<1> QED BY <1>2, PTL DEF PassLosesNone

(* A pass, and one inside it, lose nothing: what they take out of a queue   *)
(* they post (notify, 603-640).                                             *)
THEOREM PassesLoseNothing == Spec => PassLosesNone
BY QueuesInvariant, LosesNone, PTL DEF Spec

(* It posts the oldest next.                                                *)
LEMMA PostsOldestNext == []IInv /\ [][Next]_qvars => PostsOldest
<1>1. ASSUME IInv, Next, posted' # posted, serial' = serial
      PROVE  LET p == Last(passes') IN
             /\ \A j \in Ids(p.batch) : Last(posted') < j
             /\ \A e \in ToSet(queued'[p.style][p.at]) :
                  p.mode \in e.modes => Last(posted') < e.id
  <2>1. passes \in Seq(Pass) /\ posted \in Seq(1 .. serial) /\ Sound(queued, passes, serial, posted)
    BY <1>1 DEF IInv, Sound, Types
  <2>2. ASSUME NEW k, posted' = Append(posted, k) PROVE Last(posted') = k
    BY <2>1, <2>2 DEF Last
  <2>3. ASSUME NEW z, NEW m, NEW outer \in Seq(Pass), NEW since,
               Served(z, m, outer, since)
        PROVE  LET p == Last(passes') IN
               /\ \A j \in Ids(p.batch) : Last(posted') < j
               /\ \A e \in ToSet(queued'[p.style][p.at]) :
                    p.mode \in e.modes => Last(posted') < e.id
    <3>1. PICK p \in Pass, k \in Nat :
            /\ passes' = Append(outer, p) /\ p.style = z /\ p.mode = m
            /\ posted' = Append(posted, k)
            /\ \A j \in Ids(p.batch) : k < j
            /\ \A e \in ToSet(queued'[z][p.at]) : m \notin e.modes
      BY <1>1, <2>3 DEF Served
    <3>2. Last(passes') = p
      BY <3>1 DEF Last
    <3> QED BY <3>1, <3>2, <2>2
  <2>4. ASSUME Continues(passes, passes'), UNCHANGED queued,
               posted' = Append(posted, Head(Last(passes).batch).id)
        PROVE  LET p == Last(passes') IN
               /\ \A j \in Ids(p.batch) : Last(posted') < j
               /\ \A e \in ToSet(queued'[p.style][p.at]) :
                    p.mode \in e.modes => Last(posted') < e.id
    <3> DEFINE l == Len(passes)
               b == Last(passes).batch
               x == Head(b).id
    <3>1. l \in 1 .. l /\ l \in Nat /\ Last(passes) = passes[l] /\ b = passes[l].batch
      BY <2>1, <2>4 DEF Continues, Last
    <3>2. passes' \in Seq(Pass) /\ Len(passes') = l /\ passes'[l].batch = Tail(b)
      BY <2>1, <2>4, SoundContinues
    <3>3. \A i \in 1 .. l : /\ passes'[i].style = passes[i].style
                            /\ passes'[i].mode = passes[i].mode
                            /\ passes'[i].at = passes[i].at
      BY <2>1, <2>4, SoundContinues
    <3>4. Ids(b) = Ids(Tail(b)) \cup {x}
      BY <2>1, <2>4, SoundContinues
    <3>5. \A k \in Ids(Tail(b)) : x < k
      BY <2>1, <2>4, SoundContinues
    <3>6. Last(posted') = x
      BY <2>2, <2>4
    <3>7. Last(passes') = passes'[l]
      BY <3>1, <3>2 DEF Last
    <3> HIDE DEF l, b, x
    <3>8. \A e \in ToSet(queued[passes[l].style][passes[l].at]) :
            passes[l].mode \in e.modes => x < e.id
      <4>1. x \in Ids(passes[l].batch)
        BY <3>1, <3>4
      <4> QED BY <4>1, <3>1, <2>1 DEF Sound, Behind, l
    <3> QED BY <3>1, <3>2, <3>3, <3>5, <3>6, <3>7, <3>8, <2>4
  <2>6. CASE \E s \in Styles, m \in Modes : Served(s, m, passes, serial)
    BY <2>1, <2>3, <2>6
  <2>7. CASE passes # <<>> /\ Served(Last(passes).style, Last(passes).mode,
                                     Front(passes), Last(passes).since)
    <3>1. Front(passes) \in Seq(Pass)
      BY <2>1, <2>7, FrontIs
    <3> QED BY <3>1, <2>3, <2>7
  <2> QED BY <1>1, <2>4, <2>6, <2>7, PassSteps
<1>2. ASSUME IInv, [Next]_qvars, posted' # posted, serial' = serial,
             NEW i \in 1 .. Len(passes'), i = Len(passes')
      PROVE  LET p == passes'[i] IN
             /\ \A j \in Ids(p.batch) : Last(posted') < j
             /\ \A e \in ToSet(queued'[p.style][p.at]) :
                  p.mode \in e.modes => Last(posted') < e.id
  <2>1. Next
    BY <1>2 DEF qvars
  <2>2. passes'[i] = Last(passes')
    BY <1>2 DEF Last
  <2> QED BY <1>1, <1>2, <2>1, <2>2
<1>3. IInv /\ [Next]_qvars =>
        [\A i \in 1 .. Len(passes') :
           LET p == passes'[i] IN
           posted' # posted /\ i = Len(passes') /\ serial' = serial =>
             /\ \A j \in Ids(p.batch) : Last(posted') < j
             /\ \A e \in ToSet(queued'[p.style][p.at]) :
                  p.mode \in e.modes => Last(posted') < e.id]_qvars
  BY <1>2
<1> QED BY <1>3, PTL DEF PostsOldest

(* A pass posts no notification while an older one of the same queue and    *)
(* style that its mode allows stays queued or behind it in the batch ("post *)
(* its oldest notification", 273).                                          *)
THEOREM PassesPostOldest == Spec => PostsOldest
BY QueuesInvariant, PostsOldestNext, PTL DEF Spec

(* It ends when nothing is left that was due.                               *)
LEMMA ServesAll == []IInv /\ [][Next]_qvars => PassServesAll
<1>1. ASSUME IInv, Next, Len(passes') < Len(passes)
      PROVE  LET p == Last(passes) IN
             \A i \in 1 .. Len(list') : \A e \in ToSet(queued'[p.style][list'[i]]) :
               p.mode \in e.modes => e.id > p.since
  <2>1. /\ passes \in Seq(Pass) /\ Len(passes) \in Nat
        /\ Sound(queued, passes, serial, posted) /\ list \in Seq(Queues)
        /\ queued \in [Styles -> [Queues -> Seq(Entry)]]
    BY <1>1 DEF IInv, Sound, Types
  <2>2. passes' # passes
    BY <1>1, <2>1
  <2>3. ASSUME NEW s, NEW m, Served(s, m, passes, serial) PROVE FALSE
    <3>1. PICK p : passes' = Append(passes, p)
      BY <2>2, <2>3 DEF Served
    <3> QED BY <3>1, <1>1, <2>1
  <2>4. ASSUME Continues(passes, passes') PROVE FALSE
    <3>1. Len(passes') = Len(passes)
      BY <2>1, <2>4, SoundContinues
    <3> QED BY <3>1, <1>1, <2>1
  <2>5. ASSUME passes # <<>>, Last(passes).style \in Styles, UNCHANGED list,
               Served(Last(passes).style, Last(passes).mode, Front(passes),
                      Last(passes).since)
        PROVE  \A i \in 1 .. Len(list') :
                 \A e \in ToSet(queued'[Last(passes).style][list'[i]]) :
                   Last(passes).mode \in e.modes => e.id > Last(passes).since
    <3>1. Front(passes) \in Seq(Pass) /\ Len(Front(passes)) = Len(passes) - 1
      BY <2>1, <2>5, FrontIs
    <3>2. ~ \E p : passes' = Append(Front(passes), p)
      BY <3>1, <1>1, <2>1
    <3>3. /\ UNCHANGED queued
          /\ \A k \in 1 .. Len(list) : \A e \in ToSet(queued[Last(passes).style][list[k]]) :
               Last(passes).mode \in e.modes => Last(passes).since < e.id
      BY <3>2, <2>5 DEF Served
    <3>4. Last(passes).since \in Nat
      <4>1. Len(passes) \in 1 .. Len(passes) /\ Last(passes) = passes[Len(passes)]
        BY <2>1, <2>5 DEF Last
      <4> QED BY <4>1, <2>1, PassFields, BoundsAssumption
    <3>5. ASSUME NEW k \in 1 .. Len(list), NEW e \in ToSet(queued[Last(passes).style][list[k]]),
                 Last(passes).mode \in e.modes
          PROVE  e.id > Last(passes).since
      <4>1. e \in Entry
        BY <2>1, <2>5, InSetOf
      <4>2. e.id \in Nat /\ Last(passes).since < e.id
        BY <4>1, <3>3, <3>5 DEF Entry
      <4> QED BY <4>2, <3>4
    <3> QED BY <3>3, <3>5, <2>5
  <2> QED BY <1>1, <2>2, <2>3, <2>4, <2>5, PassSteps
<1>2. IInv /\ [Next]_qvars =>
        [Len(passes') < Len(passes) =>
           LET p == Last(passes) IN
           \A i \in 1 .. Len(list') : \A e \in ToSet(queued'[p.style][list'[i]]) :
             p.mode \in e.modes => e.id > p.since]_qvars
  BY <1>1
<1> QED BY <1>2, PTL DEF PassServesAll

(* When a pass ends, what was due when it began is in no queue of the       *)
(* thread, whatever the observers did to the list meanwhile.                *)
THEOREM PassesServeAll == Spec => PassServesAll
BY QueuesInvariant, ServesAll, PTL DEF Spec

--------------------------------------------------------------------------
(* The run loop.                                                            *)
(* F stands for frames, or for a value it has after a step.                 *)
Waiting == {"accept", "before", "poll", "asleep"}
Polls == {"poll", "asleep"}
Events == {"event", "dispatched"}
Early == {"timers", "fired", "update", "limit"}

LTypes ==
  /\ currentMode \in Modes \cup {NoMode}
  /\ watchers \in [Modes -> SUBSET Fds] /\ fdMap \in [Modes -> SUBSET Fds]
  /\ performers \in [Modes -> Seq(Performers)]
  /\ timers \in [Modes -> Seq(Timers)]
  /\ valid \subseteq Timers /\ due \subseteq Timers /\ ready \subseteq Fds
  /\ completed \in [Modes -> BOOLEAN] /\ contextStack \subseteq Modes
  /\ frames \in Seq(Frame)

(* A run restores the mode of the run it is in.                             *)
Nested(F, current) ==
  /\ current = IF F = <<>> THEN NoMode ELSE F[Len(F)].mode
  /\ \A i \in 1 .. Len(F) : F[i].saved = IF i = 1 THEN NoMode ELSE F[i - 1].mode

(* What fires is not in the array it was taken from, nor fires twice there. *)
TimersApart(F, T) ==
  /\ \A m \in Modes : IsInjective(T[m])
  /\ \A i \in 1 .. Len(F) : F[i].timer # NoTimer =>
       /\ F[i].timer \notin ToSet(T[F[i].mode])
       /\ \A j \in 1 .. Len(F) :
            i # j /\ F[i].timer = F[j].timer => F[i].mode # F[j].mode

(* A run that is to wait knows of the timers of its mode, and of those that *)
(* runs inside it will put back.                                            *)
Heeded(F, T, V) ==
  \A i \in 1 .. Len(F) : F[i].pc \in Waiting =>
    /\ \A t \in ToSet(T[F[i].mode]) : t \in V => t \in F[i].limits \cup F[i].late
    /\ \A j \in 1 .. Len(F) : i < j /\ F[j].mode = F[i].mode /\ F[j].timer \in V =>
         F[j].timer \in F[i].limits \cup F[i].late

(* A performer is in one batch, or in the arrays of some modes.             *)
PerformersApart(F, R) ==
  /\ \A m \in Modes : IsInjective(R[m])
  /\ \A i \in 1 .. Len(F) :
       /\ IsInjective(F[i].batch)
       /\ \A p \in ToSet(F[i].batch) :
            /\ \A m \in Modes : p \notin ToSet(R[m])
            /\ \A j \in 1 .. Len(F) : i # j => p \notin ToSet(F[j].batch)

(* A run that looks at the results of its poll finds input for what is      *)
(* still in its map, unless a run inside it polls in the same mode or has.  *)
Handled(F, map, done, stack, input, n) ==
  \A i \in 1 .. Len(F) :
    /\ F[i].pc \in Events =>
         /\ F[i].polled
         /\ \/ done[F[i].mode]
            \/ \E j \in 1 .. Len(F) : i < j /\ F[j].mode = F[i].mode /\ F[j].polled
            \/ /\ F[i].mode \in stack
               /\ \A f \in F[i].left : f \in map[F[i].mode] => f \in input
    /\ F[i].pc \in Polls =>
         /\ i = Len(F) /\ F[i].mode \in stack /\ F[i].polled
         /\ ~ F[i].user /\ n = F[i].depth
    /\ F[i].pc = "event" => ~ F[i].user
    /\ F[i].pc \in Early => ~ F[i].polled

LInv ==
  /\ LTypes /\ IInv /\ PassesFit
  /\ Nested(frames, currentMode)
  /\ TimersApart(frames, timers) /\ Heeded(frames, timers, valid)
  /\ PerformersApart(frames, performers)
  /\ Handled(frames, fdMap, completed, contextStack, ready, Len(passes))

(* What a step leaves alone in a run.                                       *)
Plain(f, g) ==
  /\ g.mode = f.mode /\ g.saved = f.saved /\ g.depth = f.depth
  /\ g.timer = f.timer /\ g.limits = f.limits /\ f.late \subseteq g.late
  /\ g.pc \in Waiting => f.pc \in Waiting

Alike(F, G) == /\ G \in Seq(Frame) /\ Len(G) = Len(F)
               /\ \A i \in 1 .. Len(F) : Plain(F[i], G[i])
SameBatches(F, G) == \A i \in 1 .. Len(F) : G[i].batch = F[i].batch

--------------------------------------------------------------------------
LEMMA FrameFields ==
  ASSUME NEW F \in Seq(Frame), NEW i \in 1 .. Len(F)
  PROVE  /\ F[i] \in Frame /\ F[i].mode \in Modes /\ F[i].timer \in Timers \cup {NoTimer}
         /\ F[i].batch \in Seq(Performers) /\ F[i].left \subseteq Fds
<1>1. F[i] \in Frame
  OBVIOUS
<1> QED BY <1>1 DEF Frame

LEMMA TopIs ==
  ASSUME frames \in Seq(Frame), frames # <<>>
  PROVE  /\ Len(frames) \in Nat /\ Len(frames) \in 1 .. Len(frames)
         /\ Top = frames[Len(frames)] /\ Top \in Frame
BY DEF Top, Last

(* The innermost run goes on, the others are as they were.                  *)
LEMMA BecomesIs ==
  ASSUME frames \in Seq(Frame), frames # <<>>, NEW g \in Frame, Becomes(g)
  PROVE  /\ frames' \in Seq(Frame) /\ Len(frames') = Len(frames)
         /\ frames'[Len(frames)] = g /\ frames' # <<>>
         /\ \A i \in 1 .. Len(frames) : i # Len(frames) => frames'[i] = frames[i]
BY DEF Becomes

LEMMA PlainBecomes ==
  ASSUME frames \in Seq(Frame), frames # <<>>, NEW g \in Frame, Becomes(g), Plain(Top, g)
  PROVE  Alike(frames, frames')
<1>1. \A i \in 1 .. Len(frames) : frames[i].late \subseteq frames[i].late
  OBVIOUS
<1> QED BY <1>1, TopIs, BecomesIs DEF Alike, Plain

--------------------------------------------------------------------------
LEMMA NestedKept ==
  ASSUME NEW F \in Seq(Frame), NEW G \in Seq(Frame), Len(G) = Len(F),
         \A i \in 1 .. Len(F) : G[i].mode = F[i].mode /\ G[i].saved = F[i].saved,
         NEW c, Nested(F, c)
  PROVE  Nested(G, c)
<1>1. Len(F) \in Nat /\ (F = <<>> <=> G = <<>>)
  OBVIOUS
<1>3. \A i \in 1 .. Len(F) : i # 1 => i - 1 \in 1 .. Len(F)
  BY <1>1
<1>4. F # <<>> => Len(F) \in 1 .. Len(F)
  BY <1>1
<1> QED BY <1>1, <1>3, <1>4 DEF Nested

LEMMA ApartKept ==
  ASSUME NEW F \in Seq(Frame), NEW G, Len(G) = Len(F),
         \A i \in 1 .. Len(F) : /\ G[i].mode = F[i].mode
                                /\ G[i].timer = F[i].timer \/ G[i].timer = NoTimer,
         NEW T, NEW T2, TimersApart(F, T),
         \A m \in Modes : IsInjective(T2[m]) /\ ToSet(T2[m]) \subseteq ToSet(T[m])
  PROVE  TimersApart(G, T2)
<1> SUFFICES ASSUME NEW i \in 1 .. Len(F), G[i].timer # NoTimer
             PROVE  /\ G[i].timer \notin ToSet(T2[G[i].mode])
                    /\ \A j \in 1 .. Len(F) :
                         i # j /\ G[i].timer = G[j].timer => G[i].mode # G[j].mode
  BY DEF TimersApart
<1>1. F[i].mode \in Modes /\ G[i].mode = F[i].mode /\ G[i].timer = F[i].timer
  BY FrameFields
<1>2. /\ F[i].timer \notin ToSet(T[F[i].mode])
      /\ \A j \in 1 .. Len(F) : i # j /\ F[i].timer = F[j].timer => F[i].mode # F[j].mode
  BY <1>1 DEF TimersApart
<1>3. G[i].timer \notin ToSet(T2[G[i].mode])
  BY <1>1, <1>2
<1>4. ASSUME NEW j \in 1 .. Len(F), i # j, G[i].timer = G[j].timer
      PROVE  G[i].mode # G[j].mode
  BY <1>1, <1>2, <1>4
<1> QED BY <1>3, <1>4

LEMMA HeededKept ==
  ASSUME NEW F \in Seq(Frame), NEW G, Len(G) = Len(F),
         NEW T, NEW T2, NEW V, NEW W \in SUBSET V, NoTimer \notin V, Heeded(F, T, V),
         \A m \in Modes : ToSet(T2[m]) \subseteq ToSet(T[m]),
         \A i \in 1 .. Len(F) :
           /\ G[i].mode = F[i].mode
           /\ G[i].timer = F[i].timer \/ G[i].timer = NoTimer
           /\ G[i].pc \in Waiting =>
                \/ /\ F[i].pc \in Waiting
                   /\ F[i].limits \subseteq G[i].limits /\ F[i].late \subseteq G[i].late
                \/ /\ \A t \in ToSet(T2[F[i].mode]) : t \in W => t \in G[i].limits
                   /\ i = Len(F)
  PROVE  Heeded(G, T2, W)
<1> SUFFICES ASSUME NEW i \in 1 .. Len(F), G[i].pc \in Waiting
             PROVE  /\ \A t \in ToSet(T2[F[i].mode]) : t \in W => t \in G[i].limits \cup G[i].late
                    /\ \A j \in 1 .. Len(F) : i < j /\ F[j].mode = F[i].mode /\ G[j].timer \in W =>
                         G[j].timer \in G[i].limits \cup G[i].late
  BY DEF Heeded
<1>1. F[i].mode \in Modes /\ Len(F) \in Nat
  BY FrameFields
<1>2. CASE /\ F[i].pc \in Waiting
           /\ F[i].limits \subseteq G[i].limits /\ F[i].late \subseteq G[i].late
  <2>1. /\ \A t \in ToSet(T[F[i].mode]) : t \in V => t \in F[i].limits \cup F[i].late
        /\ \A j \in 1 .. Len(F) : i < j /\ F[j].mode = F[i].mode /\ F[j].timer \in V =>
             F[j].timer \in F[i].limits \cup F[i].late
    BY <1>2 DEF Heeded
  <2>2. \A j \in 1 .. Len(F) : G[j].timer \in W => G[j].timer = F[j].timer
    OBVIOUS
  <2> QED BY <2>1, <2>2, <1>1, <1>2
<1>3. CASE /\ \A t \in ToSet(T2[F[i].mode]) : t \in W => t \in G[i].limits
           /\ i = Len(F)
  <2>1. \A j \in 1 .. Len(F) : ~ i < j
    BY <1>1, <1>3
  <2> QED BY <2>1, <1>3
<1> QED BY <1>2, <1>3

LEMMA PerformersKept ==
  ASSUME NEW F, NEW G, Len(G) = Len(F), SameBatches(F, G), NEW R, PerformersApart(F, R)
  PROVE  PerformersApart(G, R)
BY DEF SameBatches, PerformersApart

(* The innermost run goes on or is left, and does not poll.                 *)
SameEvents(F, G) ==
  \A i \in 1 .. Len(F) :
    /\ G[i].mode = F[i].mode /\ G[i].depth = F[i].depth
    /\ G[i].polled = F[i].polled /\ G[i].left \subseteq F[i].left
    /\ G[i].pc \in Events => F[i].pc \in Events
    /\ G[i].pc \in Early => F[i].pc \in Early
    /\ G[i].pc = "event" => ~ G[i].user

LEMMA HandledKept ==
  ASSUME NEW F \in Seq(Frame), NEW G, Len(G) = Len(F), SameEvents(F, G),
         NEW map, NEW done, NEW stack, NEW input, NEW n,
         Handled(F, map, done, stack, input, n),
         NEW map2, NEW done2, NEW input2, NEW n2,
         \A m \in Modes : map2[m] \subseteq map[m],
         \A m \in Modes : done[m] => done2[m],
         input \subseteq input2,
         \A i \in 1 .. Len(F) : G[i].pc \in Polls =>
           F[i].pc \in Polls /\ ~ G[i].user /\ n2 = n
  PROVE  Handled(G, map2, done2, stack, input2, n2)
<1> SUFFICES ASSUME NEW i \in 1 .. Len(F)
             PROVE
    /\ G[i].pc \in Events =>
         /\ F[i].polled
         /\ \/ done2[F[i].mode]
            \/ \E j \in 1 .. Len(F) : i < j /\ F[j].mode = F[i].mode /\ F[j].polled
            \/ /\ F[i].mode \in stack
               /\ \A f \in G[i].left : f \in map2[F[i].mode] => f \in input2
    /\ G[i].pc \in Polls =>
         /\ i = Len(F) /\ F[i].mode \in stack /\ F[i].polled
         /\ ~ G[i].user /\ n2 = F[i].depth
    /\ G[i].pc = "event" => ~ G[i].user
    /\ G[i].pc \in Early => ~ F[i].polled
  BY DEF Handled, SameEvents
<1>1. F[i].mode \in Modes
  BY FrameFields
<1>2. /\ F[i].pc \in Events =>
         /\ F[i].polled
         /\ \/ done[F[i].mode]
            \/ \E j \in 1 .. Len(F) : i < j /\ F[j].mode = F[i].mode /\ F[j].polled
            \/ /\ F[i].mode \in stack
               /\ \A f \in F[i].left : f \in map[F[i].mode] => f \in input
      /\ F[i].pc \in Polls =>
         /\ i = Len(F) /\ F[i].mode \in stack /\ F[i].polled
         /\ ~ F[i].user /\ n = F[i].depth
      /\ F[i].pc \in Early => ~ F[i].polled
  BY DEF Handled
<1>3. /\ G[i].left \subseteq F[i].left
      /\ G[i].pc \in Events => F[i].pc \in Events
      /\ G[i].pc \in Early => F[i].pc \in Early
      /\ G[i].pc = "event" => ~ G[i].user
  BY DEF SameEvents
<1>4. ASSUME G[i].pc \in Events
      PROVE  /\ F[i].polled
             /\ \/ done2[F[i].mode]
                \/ \E j \in 1 .. Len(F) : i < j /\ F[j].mode = F[i].mode /\ F[j].polled
                \/ /\ F[i].mode \in stack
                   /\ \A f \in G[i].left : f \in map2[F[i].mode] => f \in input2
  <2>1. F[i].pc \in Events
    BY <1>3, <1>4
  <2>2. CASE done[F[i].mode]
    BY <2>1, <2>2, <1>1, <1>2
  <2>3. CASE \E j \in 1 .. Len(F) : i < j /\ F[j].mode = F[i].mode /\ F[j].polled
    BY <2>1, <2>3, <1>2
  <2>4. CASE F[i].mode \in stack /\ \A f \in F[i].left : f \in map[F[i].mode] => f \in input
    BY <2>1, <2>4, <1>1, <1>2, <1>3
  <2> QED BY <2>1, <2>2, <2>3, <2>4, <1>2
<1>5. ASSUME G[i].pc \in Polls
      PROVE  /\ i = Len(F) /\ F[i].mode \in stack /\ F[i].polled
             /\ ~ G[i].user /\ n2 = F[i].depth
  BY <1>5, <1>2
<1> QED BY <1>2, <1>3, <1>4, <1>5

--------------------------------------------------------------------------
(* The steps of the loop are steps of the notification queues, or leave     *)
(* them alone.                                                              *)
LEMMA NotifyIs ==
  ASSUME LTypes, Alive, frames # <<>>, NEW s \in Styles, Notify(s),
         UNCHANGED <<list, serial, fate>>
  PROVE  [Next]_qvars
<1>1. Top.mode \in Modes
  BY TopIs DEF LTypes, Frame
<1>2. CASE Places(s, Top.mode, 1) = {}
  BY <1>2 DEF Notify, notes, qvars
<1>3. CASE Places(s, Top.mode, 1) # {}
  <2>1. Begin(s, Top.mode)
    BY <1>3 DEF Notify, Begin
  <2> QED BY <2>1, <1>1 DEF Next
<1> QED BY <1>2, <1>3

LEMMA LoopSteps == LTypes /\ Loop => [Next]_qvars
<1> SUFFICES ASSUME LTypes, Loop PROVE [Next]_qvars
  OBVIOUS
<1>1. CASE FireTimer \/ UpdateTimer \/ Limit
  BY <1>1 DEF FireTimer, UpdateTimer, Limit
<1>2. ASSUME NEW from, NEW to, TakePerformers(from, to) PROVE [Next]_qvars
  BY <1>2 DEF TakePerformers
<1>3. ASSUME NEW pc, Perform(pc) PROVE [Next]_qvars
  BY <1>3 DEF Perform
<1>4. CASE Poll \/ PollReady \/ Wait \/ EventsDone
  BY <1>4 DEF Poll, PollReady, Wait, EventsDone
<1>5. ASSUME NEW f, Dispatch(f) PROVE [Next]_qvars
  BY <1>5 DEF Dispatch
<1>6. CASE Return \/ Raise
  BY <1>6 DEF Return, Raise, End
<1>7. CASE FiredTimer
  BY <1>7, NotifyIs DEF FiredTimer, At, Styles
<1>8. CASE NotifyAlone
  BY <1>8, NotifyIs DEF NotifyAlone, At, Styles
<1>9. CASE IdleAlone
  BY <1>9, NotifyIs DEF IdleAlone, At, Styles
<1>10. CASE PollQuiet
  BY <1>10, NotifyIs DEF PollQuiet, At, Styles
<1>11. CASE Dispatched
  BY <1>11, NotifyIs DEF Dispatched, At, Styles
<1>12. CASE LastDone
  BY <1>12, NotifyIs DEF LastDone, At, Styles
<1>13. CASE ContinuePass
  BY <1>13 DEF ContinuePass, Next
<1> QED
  BY <1>1, <1>2, <1>3, <1>4, <1>5, <1>6, <1>7, <1>8, <1>9, <1>10, <1>11, <1>12, <1>13 DEF Loop

LEMMA CallSteps == LTypes /\ Calls => [Next]_qvars
<1> SUFFICES ASSUME LTypes, Calls PROVE [Next]_qvars
  OBVIOUS
<1>1. ASSUME NEW m, RunMode(m) \/ AcceptInput(m) PROVE [Next]_qvars
  BY <1>1 DEF RunMode, AcceptInput, Enter
<1>2. ASSUME NEW m, NEW f, AddWatcher(f, m) \/ RemoveWatcher(f, m) PROVE [Next]_qvars
  BY <1>2 DEF AddWatcher, RemoveWatcher
<1>3. ASSUME NEW t, Invalidate(t) \/ SetFireDate(t) PROVE [Next]_qvars
  BY <1>3 DEF Invalidate, SetFireDate
<1>4. ASSUME NEW t, NEW m, AddTimer(t, m) PROVE [Next]_qvars
  BY <1>4 DEF AddTimer
<1>5. ASSUME NEW p, CancelPerformSelector(p) PROVE [Next]_qvars
  BY <1>5 DEF CancelPerformSelector
<1>6. ASSUME NEW p, NEW modes, PerformSelector(p, modes) PROVE [Next]_qvars
  BY <1>6 DEF PerformSelector
<1>7. ASSUME NEW q \in Queues, NEW n \in Notification, NEW style \in Styles \cup {"now"},
             NEW mask \in MaskChoices, NEW modes \in ModeChoices,
             EnqueueNotification(q, n, style, mask, modes)
      PROVE  [Next]_qvars
  <2>1. /\ Enqueue(q, n, style, mask, modes, currentMode)
        /\ currentMode \in Modes \cup {NoMode}
    BY <1>7 DEF EnqueueNotification, LTypes
  <2> QED BY <2>1 DEF Next
<1> QED BY <1>1, <1>2, <1>3, <1>4, <1>5, <1>6, <1>7 DEF Calls

LEMMA QueueSteps == LTypes /\ [LoopNext]_vars => [Next]_qvars
<1>1. Around => UNCHANGED qvars
  BY DEF Around, Tick, Arrive
<1>2. UNCHANGED vars => UNCHANGED qvars
  BY DEF vars
<1> QED BY <1>1, <1>2, LoopSteps, CallSteps DEF LoopNext

--------------------------------------------------------------------------
(* Steps of the innermost run that change neither arrays nor batches.       *)
Keeps ==
  /\ frames' \in Seq(Frame)
  /\ Nested(frames', currentMode')
  /\ TimersApart(frames', timers') /\ Heeded(frames', timers', valid')
  /\ PerformersApart(frames', performers')

HandledNext ==
  Handled(frames', fdMap', completed', contextStack', ready', Len(passes'))

LEMMA TopFrames ==
  ASSUME LInv, frames # <<>>, NEW g \in Frame, Becomes(g), Plain(Top, g),
         UNCHANGED <<currentMode, timers>>, valid' \subseteq valid
  PROVE  /\ frames' \in Seq(Frame)
         /\ Nested(frames', currentMode')
         /\ TimersApart(frames', timers') /\ Heeded(frames', timers', valid')
<1>1. /\ frames \in Seq(Frame) /\ Nested(frames, currentMode)
      /\ TimersApart(frames, timers) /\ Heeded(frames, timers, valid)
  BY DEF LInv, LTypes
<1>2. Alike(frames, frames') /\ frames' \in Seq(Frame) /\ Len(frames') = Len(frames)
  BY <1>1, PlainBecomes, BecomesIs
<1>3. Nested(frames', currentMode)
  BY <1>1, <1>2, NestedKept DEF Alike, Plain
<1>4. TimersApart(frames', timers)
  <2>1. \A m \in Modes : IsInjective(timers[m])
    BY <1>1 DEF TimersApart
  <2> QED BY <2>1, <1>1, <1>2, ApartKept DEF Alike, Plain
<1>5. Heeded(frames', timers, valid')
  <2>1. NoTimer \notin valid /\ valid' \in SUBSET valid
    BY TimersAssumption DEF LInv, LTypes
  <2>2. \A i \in 1 .. Len(frames) :
          /\ frames'[i].mode = frames[i].mode /\ frames'[i].timer = frames[i].timer
          /\ frames'[i].pc \in Waiting => frames[i].pc \in Waiting
          /\ frames[i].limits \subseteq frames'[i].limits
          /\ frames[i].late \subseteq frames'[i].late
    BY <1>2 DEF Alike, Plain
  <2> QED BY <2>1, <2>2, <1>1, <1>2, HeededKept
<1> QED BY <1>2, <1>3, <1>4, <1>5

LEMMA TopMoves ==
  ASSUME LInv, frames # <<>>, NEW g \in Frame, Becomes(g), Plain(Top, g),
         g.batch = Top.batch, UNCHANGED <<currentMode, performers, timers>>,
         valid' \subseteq valid
  PROVE  Keeps
<1>1. frames \in Seq(Frame) /\ PerformersApart(frames, performers)
  BY DEF LInv, LTypes
<1>2. SameBatches(frames, frames') /\ Len(frames') = Len(frames)
  BY <1>1, TopIs, BecomesIs DEF SameBatches
<1>3. PerformersApart(frames', performers)
  BY <1>1, <1>2, PerformersKept
<1> QED BY <1>3, TopFrames DEF Keeps

Onward(f, g) ==
  /\ g.mode = f.mode /\ g.depth = f.depth
  /\ g.polled = f.polled /\ g.left \subseteq f.left
  /\ g.pc \in Events => f.pc \in Events
  /\ g.pc \in Early => f.pc \in Early
  /\ g.pc = "event" => ~ g.user

LEMMA TopHandled ==
  ASSUME LInv, frames # <<>>, NEW g \in Frame, Becomes(g), Onward(Top, g),
         g.pc \in Polls => /\ Top.pc \in Polls /\ ~ g.user
                           /\ Len(passes') = Len(passes),
         \A m \in Modes : fdMap'[m] \subseteq fdMap[m],
         \A m \in Modes : completed[m] => completed'[m],
         contextStack' = contextStack, ready \subseteq ready'
  PROVE  HandledNext
<1>1. /\ frames \in Seq(Frame)
      /\ Handled(frames, fdMap, completed, contextStack, ready, Len(passes))
  BY DEF LInv, LTypes
<1>2. /\ Len(frames') = Len(frames) /\ frames'[Len(frames)] = g
      /\ \A i \in 1 .. Len(frames) : i # Len(frames) => frames'[i] = frames[i]
      /\ Top = frames[Len(frames)] /\ Len(frames) \in 1 .. Len(frames)
  BY <1>1, BecomesIs, TopIs
<1>3. SameEvents(frames, frames')
  <2>1. \A i \in 1 .. Len(frames) : frames[i].pc = "event" => ~ frames[i].user
    BY <1>1 DEF Handled
  <2>2. \A i \in 1 .. Len(frames) : frames[i].left \subseteq frames[i].left
    OBVIOUS
  <2> QED BY <2>1, <2>2, <1>2 DEF SameEvents, Onward
<1>4. \A i \in 1 .. Len(frames) : frames'[i].pc \in Polls =>
        frames[i].pc \in Polls /\ ~ frames'[i].user /\ Len(passes') = Len(passes)
  <2>1. \A i \in 1 .. Len(frames) : i # Len(frames) => frames[i].pc \notin Polls
    BY <1>1 DEF Handled
  <2> QED BY <2>1, <1>2
<1> QED BY <1>1, <1>2, <1>3, <1>4, HandledKept DEF HandledNext

LEMMA WaitKeeps == ASSUME LInv, Wait PROVE Keeps /\ HandledNext
<1> DEFINE g == [Top EXCEPT !.pc = "asleep"]
<1>1. At("poll") /\ Becomes(g) /\ UNCHANGED <<qvars, currentMode, tables, polls>>
  BY DEF Wait
<1>2. frames # <<>> /\ Top \in Frame /\ Top.pc = "poll" /\ ~ Top.user
  <2>1. frames # <<>> /\ Top.pc = "poll" /\ frames \in Seq(Frame)
    BY <1>1 DEF At, LInv, LTypes
  <2> QED BY <2>1, TopIs DEF LInv, Handled, Polls
<1>3. /\ g \in Frame /\ Plain(Top, g) /\ Onward(Top, g) /\ g.batch = Top.batch
      /\ ~ g.user
  BY <1>2 DEF Frame, Plain, Onward, Waiting, Events, Early
<1> HIDE DEF g
<1>4. Keeps
  BY <1>1, <1>2, <1>3, TopMoves DEF tables
<1>5. HandledNext
  BY <1>1, <1>2, <1>3, TopHandled DEF Polls, tables, polls, qvars
<1> QED BY <1>4, <1>5

--------------------------------------------------------------------------
(* The steps that only notify.                                              *)
LEMMA NotifyAloneKeeps == ASSUME LInv, NotifyAlone PROVE Keeps /\ HandledNext
<1> DEFINE g == [Top EXCEPT !.pc = "alone", !.user = FALSE]
<1>1. At("before") /\ Becomes(g) /\ UNCHANGED <<currentMode, tables, polls>>
  BY DEF NotifyAlone
<1>2. frames # <<>> /\ Top \in Frame /\ Top.pc = "before"
  BY <1>1, TopIs DEF At, LInv, LTypes
<1>3. /\ g \in Frame /\ Plain(Top, g) /\ Onward(Top, g) /\ g.batch = Top.batch
      /\ g.pc \notin Polls
  BY <1>2 DEF Frame, Plain, Onward, Waiting, Events, Early, Polls
<1> HIDE DEF g
<1> QED BY <1>1, <1>2, <1>3, TopMoves, TopHandled DEF tables, polls

LEMMA IdleAloneKeeps == ASSUME LInv, IdleAlone PROVE Keeps /\ HandledNext
<1> DEFINE g == [Top EXCEPT !.pc = "after"]
<1>1. At("alone") /\ Becomes(g) /\ UNCHANGED <<currentMode, tables, polls>>
  BY DEF IdleAlone
<1>2. frames # <<>> /\ Top \in Frame /\ Top.pc = "alone"
  BY <1>1, TopIs DEF At, LInv, LTypes
<1>3. /\ g \in Frame /\ Plain(Top, g) /\ Onward(Top, g) /\ g.batch = Top.batch
      /\ g.pc \notin Polls
  BY <1>2 DEF Frame, Plain, Onward, Waiting, Events, Early, Polls
<1> HIDE DEF g
<1> QED BY <1>1, <1>2, <1>3, TopMoves, TopHandled DEF tables, polls

LEMMA DispatchedKeeps == ASSUME LInv, Dispatched PROVE Keeps /\ HandledNext
<1> DEFINE g == [Top EXCEPT !.pc = "event", !.user = FALSE]
<1>1. At("dispatched") /\ Becomes(g) /\ UNCHANGED <<currentMode, tables, polls>>
  BY DEF Dispatched
<1>2. frames # <<>> /\ Top \in Frame /\ Top.pc = "dispatched"
  BY <1>1, TopIs DEF At, LInv, LTypes
<1>3. /\ g \in Frame /\ Plain(Top, g) /\ Onward(Top, g) /\ g.batch = Top.batch
      /\ g.pc \notin Polls
  BY <1>2 DEF Frame, Plain, Onward, Waiting, Events, Early, Polls
<1> HIDE DEF g
<1> QED BY <1>1, <1>2, <1>3, TopMoves, TopHandled DEF tables, polls

LEMMA LastDoneKeeps == ASSUME LInv, LastDone PROVE Keeps /\ HandledNext
<1> DEFINE g == [Top EXCEPT !.pc = "return", !.user = FALSE]
<1>1. At("last") /\ Becomes(g) /\ UNCHANGED <<currentMode, tables, polls>>
  BY DEF LastDone
<1>2. frames # <<>> /\ Top \in Frame /\ Top.pc = "last"
  BY <1>1, TopIs DEF At, LInv, LTypes
<1>3. /\ g \in Frame /\ Plain(Top, g) /\ Onward(Top, g) /\ g.batch = Top.batch
      /\ g.pc \notin Polls
  BY <1>2 DEF Frame, Plain, Onward, Waiting, Events, Early, Polls
<1> HIDE DEF g
<1> QED BY <1>1, <1>2, <1>3, TopMoves, TopHandled DEF tables, polls

LEMMA PollQuietKeeps == ASSUME LInv, PollQuiet PROVE Keeps /\ HandledNext
<1> DEFINE g == [Top EXCEPT !.pc = "after"]
<1>1. /\ At("poll") \/ At("asleep")
      /\ Becomes(g) /\ UNCHANGED <<currentMode, tables, fdMap, contextStack>>
      /\ completed' = [completed EXCEPT ![Top.mode] = TRUE]
  BY DEF PollQuiet
<1>2. frames # <<>> /\ Top \in Frame
  BY <1>1, TopIs DEF At, LInv, LTypes
<1>3. /\ g \in Frame /\ Plain(Top, g) /\ Onward(Top, g) /\ g.batch = Top.batch
      /\ g.pc \notin Polls
  BY <1>2 DEF Frame, Plain, Onward, Waiting, Events, Early, Polls
<1>4. \A m \in Modes : completed[m] => completed'[m]
  BY <1>1 DEF LInv, LTypes
<1> HIDE DEF g
<1> QED BY <1>1, <1>2, <1>3, <1>4, TopMoves, TopHandled DEF tables

LEMMA EventsDoneKeeps == ASSUME LInv, EventsDone PROVE Keeps /\ HandledNext
<1> DEFINE g == [Top EXCEPT !.pc = "after", !.left = {}]
<1>1. /\ At("event")
      /\ Becomes(g) /\ UNCHANGED <<currentMode, tables, fdMap, contextStack>>
      /\ completed' = [completed EXCEPT ![Top.mode] = TRUE]
  BY DEF EventsDone
<1>2. frames # <<>> /\ Top \in Frame
  BY <1>1, TopIs DEF At, LInv, LTypes
<1>3. /\ g \in Frame /\ Plain(Top, g) /\ Onward(Top, g) /\ g.batch = Top.batch
      /\ g.pc \notin Polls
  BY <1>2 DEF Frame, Plain, Onward, Waiting, Events, Early, Polls
<1>4. \A m \in Modes : completed[m] => completed'[m]
  BY <1>1 DEF LInv, LTypes
<1> HIDE DEF g
<1> QED BY <1>1, <1>2, <1>3, <1>4, TopMoves, TopHandled DEF tables

LEMMA FiredTimerKeeps == ASSUME LInv, FiredTimer PROVE Keeps /\ HandledNext
<1> DEFINE g == [Top EXCEPT !.pc = "update", !.user = FALSE]
<1>1. /\ At("fired") /\ Becomes(g) /\ UNCHANGED <<currentMode, performers, timers, ready, polls>>
      /\ valid' \subseteq valid
  BY DEF FiredTimer
<1>2. frames # <<>> /\ Top \in Frame /\ Top.pc = "fired"
  BY <1>1, TopIs DEF At, LInv, LTypes
<1>3. /\ g \in Frame /\ Plain(Top, g) /\ Onward(Top, g) /\ g.batch = Top.batch
      /\ g.pc \notin Polls
  BY <1>2 DEF Frame, Plain, Onward, Waiting, Events, Early, Polls
<1> HIDE DEF g
<1> QED BY <1>1, <1>2, <1>3, TopMoves, TopHandled DEF polls

--------------------------------------------------------------------------
(* The innermost run polls: runs around it in the same mode will find that  *)
(* it has, those in other modes find what they would have found.            *)
LEMMA PollingHandled ==
  ASSUME LInv, frames # <<>>, NEW g \in Frame, Becomes(g), Plain(Top, g),
         g.polled, g.pc \in Polls \cup Events, g.pc # "event" \/ ~ g.user,
         \A m \in Modes : m # Top.mode =>
           /\ completed[m] => completed'[m]
           /\ m \in contextStack => m \in contextStack'
           /\ \A f : ~ completed[m] /\ m \in contextStack /\ f \in fdMap'[m] =>
                /\ f \in fdMap[m]
                /\ f \in ready => f \in ready',
         Top.mode \in contextStack',
         g.pc \in Events => \A f \in g.left : f \in fdMap'[Top.mode] => f \in ready',
         g.pc \in Polls => ~ g.user /\ Len(passes') = Top.depth
  PROVE  HandledNext
<1> DEFINE l == Len(frames)
<1>1. /\ frames \in Seq(Frame)
      /\ Handled(frames, fdMap, completed, contextStack, ready, Len(passes))
  BY DEF LInv, LTypes
<1>2. /\ Len(frames') = l /\ frames'[l] = g /\ l \in Nat
      /\ \A i \in 1 .. l : i # l => frames'[i] = frames[i]
      /\ Top = frames[l] /\ l \in 1 .. l
      /\ g.mode = Top.mode /\ g.depth = Top.depth
  BY <1>1, BecomesIs, TopIs DEF Plain
<1> HIDE DEF l
<1>3. ASSUME NEW i \in 1 .. l, i # l
      PROVE
    /\ frames[i].pc \in Events =>
         /\ frames[i].polled
         /\ \/ completed'[frames[i].mode]
            \/ \E j \in 1 .. l : i < j /\ frames'[j].mode = frames[i].mode /\ frames'[j].polled
            \/ /\ frames[i].mode \in contextStack'
               /\ \A f \in frames[i].left : f \in fdMap'[frames[i].mode] => f \in ready'
    /\ frames[i].pc \notin Polls
    /\ frames[i].pc = "event" => ~ frames[i].user
    /\ frames[i].pc \in Early => ~ frames[i].polled
  <2>1. frames[i].pc \notin Polls /\ (frames[i].pc = "event" => ~ frames[i].user)
        /\ (frames[i].pc \in Early => ~ frames[i].polled)
    BY <1>1, <1>3 DEF Handled, l
  <2>2. ASSUME frames[i].pc \in Events
        PROVE  /\ frames[i].polled
               /\ \/ completed'[frames[i].mode]
                  \/ \E j \in 1 .. l : i < j /\ frames'[j].mode = frames[i].mode /\ frames'[j].polled
                  \/ /\ frames[i].mode \in contextStack'
                     /\ \A f \in frames[i].left : f \in fdMap'[frames[i].mode] => f \in ready'
    <3> DEFINE m == frames[i].mode
    <3>1. m \in Modes
      BY <1>1, FrameFields DEF l
    <3>2. /\ frames[i].polled
          /\ \/ completed[m]
             \/ \E j \in 1 .. l : i < j /\ frames[j].mode = m /\ frames[j].polled
             \/ m \in contextStack /\ \A f \in frames[i].left : f \in fdMap[m] => f \in ready
      BY <1>1, <2>2 DEF Handled, l
    <3> HIDE DEF m
    <3>3. CASE m = Top.mode
      <4>1. i < l
        BY <1>2, <1>3
      <4> QED BY <4>1, <3>2, <3>3, <1>2 DEF m
    <3>4. CASE m # Top.mode
      <4>1. CASE completed[m]
        BY <4>1, <3>1, <3>2, <3>4 DEF m
      <4>2. CASE \E j \in 1 .. l : i < j /\ frames[j].mode = m /\ frames[j].polled
        <5>1. PICK j \in 1 .. l : i < j /\ frames[j].mode = m /\ frames[j].polled
          BY <4>2
        <5>2. j # l
          BY <5>1, <3>4, <1>2
        <5>3. frames'[j] = frames[j]
          BY <5>2, <1>2
        <5> QED BY <5>1, <5>3, <3>2 DEF m
      <4>3. CASE /\ ~ completed[m] /\ m \in contextStack
                 /\ \A f \in frames[i].left : f \in fdMap[m] => f \in ready
        BY <4>3, <3>1, <3>2, <3>4 DEF m
      <4> QED BY <4>1, <4>2, <4>3, <3>2
    <3> QED BY <3>3, <3>4
  <2> QED BY <2>1, <2>2
<1>4. /\ g.pc \in Events =>
           /\ g.polled /\ g.mode \in contextStack'
           /\ \A f \in g.left : f \in fdMap'[g.mode] => f \in ready'
      /\ g.pc \in Polls => /\ g.mode \in contextStack' /\ g.polled
                           /\ ~ g.user /\ Len(passes') = g.depth
      /\ g.pc = "event" => ~ g.user
      /\ g.pc \notin Early
  BY <1>2 DEF Early, Polls, Events
<1> SUFFICES ASSUME NEW i \in 1 .. l
             PROVE
    /\ frames'[i].pc \in Events =>
         /\ frames'[i].polled
         /\ \/ completed'[frames'[i].mode]
            \/ \E j \in 1 .. l : i < j /\ frames'[j].mode = frames'[i].mode /\ frames'[j].polled
            \/ /\ frames'[i].mode \in contextStack'
               /\ \A f \in frames'[i].left : f \in fdMap'[frames'[i].mode] => f \in ready'
    /\ frames'[i].pc \in Polls =>
         /\ i = l /\ frames'[i].mode \in contextStack' /\ frames'[i].polled
         /\ ~ frames'[i].user /\ Len(passes') = frames'[i].depth
    /\ frames'[i].pc = "event" => ~ frames'[i].user
    /\ frames'[i].pc \in Early => ~ frames'[i].polled
  BY <1>2 DEF HandledNext, Handled
<1>5. CASE i = l
  BY <1>5, <1>2, <1>4
<1>6. CASE i # l
  <2>1. frames'[i] = frames[i]
    BY <1>6, <1>2
  <2> QED BY <2>1, <1>3, <1>6
<1> QED BY <1>5, <1>6

LEMMA PollKeeps == ASSUME LInv, Poll PROVE Keeps /\ HandledNext
<1> DEFINE g == [Top EXCEPT !.pc = "poll", !.polled = TRUE, !.user = FALSE]
<1>1. /\ At("before") /\ Becomes(g) /\ UNCHANGED <<qvars, currentMode, tables, completed>>
      /\ contextStack' = contextStack \cup {Top.mode}
      /\ fdMap' = [fdMap EXCEPT ![Top.mode] = watchers[Top.mode]]
  BY DEF Poll
<1>2. frames # <<>> /\ Top \in Frame /\ Top.pc = "before" /\ Len(passes) = Top.depth
  BY <1>1, TopIs DEF At, LInv, LTypes
<1>3. /\ g \in Frame /\ Plain(Top, g) /\ g.batch = Top.batch
      /\ g.polled /\ g.pc \in Polls /\ g.pc \notin Events /\ g.pc # "event" /\ ~ g.user
  BY <1>2 DEF Frame, Plain, Waiting, Events, Polls
<1>4. \A m \in Modes : m # Top.mode => fdMap'[m] = fdMap[m]
  BY <1>1 DEF LInv, LTypes
<1> HIDE DEF g
<1>5. Keeps
  BY <1>1, <1>2, <1>3, TopMoves DEF tables
<1>6. HandledNext
  <2>1. Top.mode \in contextStack' /\ contextStack \subseteq contextStack'
    BY <1>1
  <2>2. Len(passes') = Top.depth /\ ready' = ready /\ completed' = completed
    BY <1>1, <1>2 DEF qvars, tables
  <2> QED BY <1>1, <1>2, <1>3, <1>4, <2>1, <2>2, PollingHandled
<1> QED BY <1>5, <1>6

LEMMA PollReadyKeeps == ASSUME LInv, PollReady PROVE Keeps /\ HandledNext
<1> DEFINE g == [Top EXCEPT !.pc = "event", !.left = Input]
<1>1. /\ At("poll") \/ At("asleep")
      /\ Becomes(g) /\ UNCHANGED <<qvars, currentMode, tables, fdMap, contextStack>>
      /\ completed' = [completed EXCEPT ![Top.mode] = FALSE]
  BY DEF PollReady
<1>2. frames # <<>> /\ Top \in Frame /\ Top.pc \in Polls
  BY <1>1, TopIs DEF At, LInv, LTypes, Polls
<1>3. Top.polled /\ Top.mode \in contextStack /\ ~ Top.user
  BY <1>2, TopIs DEF LInv, LTypes, Handled
<1>4. /\ g \in Frame /\ Plain(Top, g) /\ g.batch = Top.batch
      /\ g.polled /\ g.pc \in Events /\ g.pc \notin Polls /\ ~ g.user
      /\ g.left = Input
  BY <1>2, <1>3 DEF Frame, Plain, Waiting, Events, Polls, Input, LInv, LTypes
<1>5. \A m \in Modes : m # Top.mode => (completed[m] => completed'[m])
  BY <1>1 DEF LInv, LTypes
<1> HIDE DEF g
<1>6. Keeps
  BY <1>1, <1>2, <1>4, TopMoves DEF tables
<1>7. HandledNext
  <2>1. /\ \A f \in g.left : f \in ready'
        /\ contextStack' = contextStack /\ ready' = ready /\ fdMap' = fdMap
    BY <1>1, <1>4 DEF Input, tables
  <2> QED BY <1>1, <1>2, <1>3, <1>4, <1>5, <2>1, PollingHandled
<1> QED BY <1>6, <1>7

(* What a run finds among its results has input, if it is still in its map. *)
LEMMA InputOfTop ==
  ASSUME LInv, frames # <<>>, Top.pc = "event", ~ completed[Top.mode]
  PROVE  /\ Top.polled /\ Top.mode \in contextStack /\ ~ Top.user
         /\ \A f \in Top.left : f \in fdMap[Top.mode] => f \in ready
<1> DEFINE l == Len(frames)
<1>1. l \in Nat /\ l \in 1 .. l /\ Top = frames[l]
  BY TopIs DEF LInv, LTypes
<1>2. \A j \in 1 .. l : ~ l < j
  BY <1>1
<1>3. Handled(frames, fdMap, completed, contextStack, ready, Len(passes))
  BY DEF LInv
<1> QED BY <1>1, <1>2, <1>3 DEF Handled, Events

LEMMA DispatchKeeps ==
  ASSUME LInv, NEW f \in Fds, Dispatch(f) PROVE Keeps /\ HandledNext
<1> DEFINE called == f \in fdMap[Top.mode]
           g == [Top EXCEPT !.pc = "dispatched", !.left = @ \ {f}, !.user = called]
<1>1. /\ At("event") /\ ~ completed[Top.mode] /\ f \in Top.left
      /\ Becomes(g) /\ UNCHANGED <<qvars, currentMode, performers, timers, valid,
                                   completed, contextStack>>
      /\ fdMap' = IF called THEN EndEvent(f) ELSE fdMap
      /\ ready' \in IF called THEN {ready, ready \ {f}} ELSE {ready}
  BY DEF Dispatch
<1>2. frames # <<>> /\ Top \in Frame /\ Top.pc = "event"
  BY <1>1, TopIs DEF At, LInv, LTypes
<1>3. /\ Top.polled /\ Top.mode \in contextStack
      /\ \A h \in Top.left : h \in fdMap[Top.mode] => h \in ready
  BY <1>1, <1>2, InputOfTop
<1>4. /\ g \in Frame /\ Plain(Top, g) /\ g.batch = Top.batch
      /\ g.polled /\ g.pc \in Events /\ g.pc \notin Polls /\ g.pc # "event"
      /\ g.left = Top.left \ {f}
  <2>1. called \in BOOLEAN
    OBVIOUS
  <2> HIDE DEF called
  <2> QED BY <2>1, <1>2, <1>3 DEF Frame, Plain, Waiting, Events, Polls
<1>5. /\ \A h : h \in ready /\ h # f => h \in ready'
      /\ ~ called => ready' = ready
  BY <1>1
<1>6. \A m \in Modes : fdMap'[m] \subseteq fdMap[m]
  BY <1>1 DEF EndEvent
<1>7. called => \A m \in Modes : m # Top.mode /\ m \in contextStack /\ ~ completed[m] =>
        f \notin fdMap'[m]
  BY <1>1 DEF EndEvent
<1> HIDE DEF called, g
<1>8. Keeps
  BY <1>1, <1>2, <1>4, TopMoves
<1>9. HandledNext
  <2>1. \A h \in g.left : h \in fdMap'[Top.mode] => h \in ready'
    BY <1>2, <1>3, <1>4, <1>5, <1>6 DEF Frame
  <2>2. ASSUME NEW m \in Modes, m # Top.mode, NEW h, ~ completed[m],
               m \in contextStack, h \in fdMap'[m]
        PROVE  /\ h \in fdMap[m]
               /\ h \in ready => h \in ready'
    BY <2>2, <1>5, <1>6, <1>7
  <2>3. contextStack' = contextStack /\ completed' = completed
    BY <1>1
  <2> QED BY <1>1, <1>2, <1>3, <1>4, <2>1, <2>2, <2>3, PollingHandled
<1> QED BY <1>8, <1>9

--------------------------------------------------------------------------
(* A run is begun inside the others.                                        *)
LEMMA EnterKeeps ==
  ASSUME LInv, NEW m \in Modes, NEW pc \in {"timers", "accept"},
         NEW late \in SUBSET Timers, Enter(m, pc, late), pc = "timers" \/ late = Timers
  PROVE  Keeps /\ HandledNext
<1> DEFINE g == [pc |-> pc, mode |-> m, saved |-> currentMode,
                 batch |-> <<>>, left |-> {}, timer |-> NoTimer, moved |-> FALSE,
                 limits |-> {}, expired |-> FALSE, late |-> late,
                 depth |-> Len(passes), polled |-> FALSE, user |-> FALSE]
           l == Len(frames)
<1>1. /\ Program /\ frames' = Append(frames, g) /\ currentMode' = m
      /\ UNCHANGED <<qvars, tables, polls>>
  BY DEF Enter
<1>2. /\ frames \in Seq(Frame) /\ currentMode \in Modes \cup {NoMode}
      /\ Nested(frames, currentMode)
      /\ TimersApart(frames, timers) /\ Heeded(frames, timers, valid)
      /\ PerformersApart(frames, performers)
      /\ Handled(frames, fdMap, completed, contextStack, ready, Len(passes))
      /\ valid \subseteq Timers /\ timers \in [Modes -> Seq(Timers)]
  BY DEF LInv, LTypes
<1>3. Len(passes) \in 0 .. MaxPasses
  BY BoundsAssumption DEF LInv, IInv, Sound, Types, PassesFit
<1>4. /\ g \in Frame /\ g.pc = pc /\ g.mode = m /\ g.saved = currentMode
      /\ g.batch = <<>> /\ g.timer = NoTimer /\ g.late = late /\ ~ g.polled
      /\ ~ g.user
  BY <1>2, <1>3 DEF Frame
<1>5. IsInjective(g.batch) /\ ToSet(g.batch) = {}
  BY <1>4, SetOfEmpty
<1> HIDE DEF g
<1>6. /\ frames' \in Seq(Frame) /\ l \in Nat /\ Len(frames') = l + 1
      /\ frames'[l + 1] = g /\ (\A i \in 1 .. l : frames'[i] = frames[i])
      /\ 1 .. (l + 1) = 1 .. l \cup {l + 1} /\ l + 1 \notin 1 .. l
      /\ frames' # <<>>
  <2>1. \A r : r = Append(frames, g) =>
          /\ r \in Seq(Frame) /\ l \in Nat /\ Len(r) = l + 1
          /\ r[l + 1] = g /\ (\A i \in 1 .. l : r[i] = frames[i])
          /\ 1 .. Len(r) = 1 .. l \cup {l + 1} /\ l + 1 \notin 1 .. l
    BY <1>2, <1>4, AppendIs
  <2>2. Append(frames, g) # <<>>
    BY <2>1
  <2> QED BY <2>1, <2>2, <1>1
<1>7. Nested(frames', currentMode')
  <2>1. l # 0 => l \in 1 .. l /\ frames # <<>>
    BY <1>2, <1>6
  <2>2. l = 0 <=> frames = <<>>
    BY <1>2
  <2>3. \A i \in 1 .. l : i # 1 => i - 1 \in 1 .. l
    BY <1>6
  <2>4. \A i \in 1 .. l : frames[i].saved = IF i = 1 THEN NoMode ELSE frames[i - 1].mode
    BY <1>2 DEF Nested
  <2>5. \A i \in 1 .. l : frames'[i].saved = IF i = 1 THEN NoMode ELSE frames'[i - 1].mode
    BY <2>3, <2>4, <1>6
  <2>6. g.saved = IF l + 1 = 1 THEN NoMode ELSE frames[l].mode
    BY <2>2, <1>2, <1>4, <1>6 DEF Nested
  <2>7. g.saved = IF l + 1 = 1 THEN NoMode ELSE frames'[(l + 1) - 1].mode
    BY <2>1, <2>6, <1>6
  <2> QED BY <2>5, <2>7, <1>1, <1>4, <1>6 DEF Nested
<1>8. TimersApart(frames', timers')
  <2>1. \A i \in 1 .. (l + 1) :
          frames'[i].timer # NoTimer => i \in 1 .. l /\ frames'[i] = frames[i]
    BY <1>4, <1>6
  <2> QED BY <2>1, <1>1, <1>2, <1>6 DEF TimersApart, tables
<1>9. Heeded(frames', timers', valid')
  <2>1. UNCHANGED <<timers, valid>> /\ g.timer \notin valid
    BY <1>1, <1>2, <1>4, TimersAssumption DEF tables
  <2>2. ASSUME NEW i \in 1 .. l, frames[i].pc \in Waiting
        PROVE  /\ \A t \in ToSet(timers[frames[i].mode]) :
                    t \in valid => t \in frames[i].limits \cup frames[i].late
               /\ \A j \in 1 .. (l + 1) :
                    i < j /\ frames'[j].mode = frames[i].mode /\ frames'[j].timer \in valid =>
                      frames'[j].timer \in frames[i].limits \cup frames[i].late
    BY <2>1, <2>2, <1>2, <1>6 DEF Heeded
  <2>3. ASSUME g.pc \in Waiting
        PROVE  /\ \A t \in ToSet(timers[m]) : t \in g.limits \cup g.late
               /\ \A j \in 1 .. (l + 1) : ~ l + 1 < j
    <3>1. g.late = Timers
      BY <2>3, <1>4 DEF Waiting
    <3>2. ToSet(timers[m]) \subseteq Timers
      BY <1>2, InSetOf
    <3> QED BY <3>1, <3>2, <1>6
  <2> QED BY <2>1, <2>2, <2>3, <1>4, <1>6 DEF Heeded
<1>10. PerformersApart(frames', performers')
  <2>1. performers' = performers
    BY <1>1 DEF tables
  <2> QED BY <2>1, <1>2, <1>4, <1>5, <1>6 DEF PerformersApart
<1>11. HandledNext
  <2>1. UNCHANGED <<fdMap, completed, contextStack, ready, passes>>
    BY <1>1 DEF tables, polls, qvars
  <2>2. ASSUME NEW i \in 1 .. l
        PROVE  frames[i].pc \notin Polls
    <3>1. frames # <<>> /\ Top = frames[l]
      BY <1>2, <1>6, TopIs
    <3>2. Top.user \/ Len(passes) # Top.depth
      <4>1. Top.user \/ Len(passes) > Top.depth
        BY <3>1, <1>1 DEF Program
      <4>2. Top.depth \in Nat
        BY <3>1, <1>2, TopIs, BoundsAssumption DEF Frame
      <4> QED BY <4>1, <4>2, <1>3
    <3> QED BY <3>1, <3>2, <1>2 DEF Handled
  <2>3. g.pc \notin Polls \cup Events
    BY <1>4 DEF Polls, Events
  <2>4. ASSUME NEW i \in 1 .. l
        PROVE
          /\ frames[i].pc \in Events =>
               /\ frames[i].polled
               /\ \/ completed[frames[i].mode]
                  \/ \E j \in 1 .. (l + 1) :
                       i < j /\ frames'[j].mode = frames[i].mode /\ frames'[j].polled
                  \/ /\ frames[i].mode \in contextStack
                     /\ \A f \in frames[i].left : f \in fdMap[frames[i].mode] => f \in ready
          /\ frames[i].pc = "event" => ~ frames[i].user
          /\ frames[i].pc \in Early => ~ frames[i].polled
    <3>1. \A j \in 1 .. l : j \in 1 .. (l + 1) /\ frames'[j] = frames[j]
      BY <1>6
    <3>2. frames[i].pc \in Events =>
               /\ frames[i].polled
               /\ \/ completed[frames[i].mode]
                  \/ \E j \in 1 .. l :
                       i < j /\ frames[j].mode = frames[i].mode /\ frames[j].polled
                  \/ /\ frames[i].mode \in contextStack
                     /\ \A f \in frames[i].left : f \in fdMap[frames[i].mode] => f \in ready
      BY <1>2 DEF Handled
    <3>3. /\ frames[i].pc = "event" => ~ frames[i].user
          /\ frames[i].pc \in Early => ~ frames[i].polled
      BY <1>2 DEF Handled
    <3> QED BY <3>1, <3>2, <3>3
  <2>5. \A i \in 1 .. (l + 1) : (i = l + 1 /\ frames'[i] = g)
                                \/ (i \in 1 .. l /\ frames'[i] = frames[i])
    BY <1>6
  <2>6. g.pc # "event"
    BY <1>4
  <2> QED BY <2>1, <2>2, <2>3, <2>4, <2>5, <2>6, <1>4, <1>6 DEF HandledNext, Handled, Events
<1> QED BY <1>6, <1>7, <1>8, <1>9, <1>10, <1>11 DEF Keeps

--------------------------------------------------------------------------
(* The innermost run is over.                                               *)
LEMMA PopKeeps ==
  ASSUME LInv, frames # <<>>, frames' = Front(frames), currentMode' = Top.saved,
         UNCHANGED performers,
         TimersApart(frames, timers'), Heeded(frames, timers', valid')
  PROVE  Keeps
<1> DEFINE l == Len(frames)
<1>1. /\ frames \in Seq(Frame) /\ Nested(frames, currentMode)
      /\ PerformersApart(frames, performers)
  BY DEF LInv, LTypes
<1>2. /\ frames' \in Seq(Frame) /\ l \in Nat /\ Len(frames') = l - 1
      /\ \A i \in 1 .. Len(frames') : i \in 1 .. l /\ frames'[i] = frames[i]
      /\ l \in 1 .. l /\ Top = frames[l]
  BY <1>1, FrontIs, TopIs
<1>3. Nested(frames', currentMode')
  <2>1. frames' = <<>> <=> l = 1
    BY <1>2
  <2>2. l # 1 => l - 1 \in 1 .. Len(frames')
    BY <1>2
  <2>3. \A i \in 1 .. Len(frames') : i # 1 => i - 1 \in 1 .. Len(frames')
    BY <1>2
  <2>4. \A i \in 1 .. l : frames[i].saved = IF i = 1 THEN NoMode ELSE frames[i - 1].mode
    BY <1>1 DEF Nested
  <2>5. \A i \in 1 .. Len(frames') :
          frames'[i].saved = IF i = 1 THEN NoMode ELSE frames'[i - 1].mode
    BY <2>3, <2>4, <1>2
  <2>6. currentMode' = IF frames' = <<>> THEN NoMode ELSE frames'[Len(frames')].mode
    BY <2>1, <2>2, <2>4, <1>2
  <2> QED BY <2>5, <2>6 DEF Nested
<1>4. TimersApart(frames', timers')
  BY <1>2 DEF TimersApart
<1>5. Heeded(frames', timers', valid')
  BY <1>2 DEF Heeded
<1>6. PerformersApart(frames', performers')
  <2>1. \A m \in Modes : IsInjective(performers'[m])
    BY <1>1 DEF PerformersApart
  <2>2. ASSUME NEW i \in 1 .. Len(frames')
        PROVE  /\ IsInjective(frames[i].batch)
               /\ \A p \in ToSet(frames[i].batch) :
                    /\ \A m \in Modes : p \notin ToSet(performers'[m])
                    /\ \A j \in 1 .. Len(frames) : i # j => p \notin ToSet(frames[j].batch)
    BY <1>1, <1>2 DEF PerformersApart
  <2>3. \A i \in 1 .. Len(frames') : i \in 1 .. Len(frames) /\ frames'[i] = frames[i]
    BY <1>2
  <2> HIDE DEF l
  <2>4. ASSUME NEW i \in 1 .. Len(frames')
        PROVE  /\ IsInjective(frames'[i].batch)
               /\ \A p \in ToSet(frames'[i].batch) :
                    /\ \A m \in Modes : p \notin ToSet(performers'[m])
                    /\ \A j \in 1 .. Len(frames') : i # j => p \notin ToSet(frames'[j].batch)
    BY <2>2, <2>3
  <2> QED BY <2>1, <2>4 DEF PerformersApart
<1> QED BY <1>2, <1>3, <1>4, <1>5, <1>6 DEF Keeps

(* It has polled: then runs around it find that its mode was.               *)
LEMMA PopHandled ==
  ASSUME LInv, frames # <<>>, frames' = Front(frames), UNCHANGED <<fdMap, ready>>,
         \A m \in Modes : completed[m] => completed'[m],
         Top.polled => completed'[Top.mode],
         \A m \in Modes : m \in contextStack /\ m \notin contextStack' =>
           m = Top.mode /\ Top.polled
  PROVE  HandledNext
<1> DEFINE l == Len(frames)
<1>1. /\ frames \in Seq(Frame)
      /\ Handled(frames, fdMap, completed, contextStack, ready, Len(passes))
  BY DEF LInv, LTypes
<1>2. /\ frames' \in Seq(Frame) /\ l \in Nat /\ Len(frames') = l - 1
      /\ \A i \in 1 .. Len(frames') : i \in 1 .. l /\ frames'[i] = frames[i]
      /\ Top = frames[l]
  BY <1>1, FrontIs, TopIs
<1> HIDE DEF l
<1>3. ASSUME NEW i \in 1 .. Len(frames')
      PROVE
        /\ frames[i].pc \in Events =>
             /\ frames[i].polled
             /\ \/ completed'[frames[i].mode]
                \/ \E j \in 1 .. Len(frames') :
                     i < j /\ frames'[j].mode = frames[i].mode /\ frames'[j].polled
                \/ /\ frames[i].mode \in contextStack'
                   /\ \A f \in frames[i].left : f \in fdMap[frames[i].mode] => f \in ready
        /\ frames[i].pc \notin Polls
        /\ frames[i].pc = "event" => ~ frames[i].user
        /\ frames[i].pc \in Early => ~ frames[i].polled
  <2> DEFINE m == frames[i].mode
  <2>1. i \in 1 .. l /\ i # l
    BY <1>2
  <2>2. m \in Modes
    BY <2>1, <1>1, FrameFields DEF l
  <2>3. /\ frames[i].pc \notin Polls
        /\ frames[i].pc = "event" => ~ frames[i].user
        /\ frames[i].pc \in Early => ~ frames[i].polled
    BY <2>1, <1>1 DEF Handled, l
  <2>4. frames[i].pc \in Events =>
          /\ frames[i].polled
          /\ \/ completed[m]
             \/ \E j \in 1 .. l : i < j /\ frames[j].mode = m /\ frames[j].polled
             \/ m \in contextStack /\ \A f \in frames[i].left : f \in fdMap[m] => f \in ready
    BY <2>1, <1>1 DEF Handled, l
  <2> HIDE DEF m
  <2>5. ASSUME NEW j \in 1 .. l, i < j, frames[j].mode = m, frames[j].polled
        PROVE  \/ completed'[m]
               \/ \E k \in 1 .. Len(frames') : i < k /\ frames'[k].mode = m /\ frames'[k].polled
    <3>1. CASE j = l
      BY <3>1, <2>5, <1>2
    <3>2. CASE j # l
      <4>1. j \in 1 .. Len(frames')
        BY <3>2, <1>2
      <4> QED BY <4>1, <2>5, <1>2
    <3> QED BY <3>1, <3>2
  <2>6. m \in contextStack /\ m \notin contextStack' => completed'[m]
    BY <2>2
  <2>7. completed[m] => completed'[m]
    BY <2>2
  <2> QED BY <2>3, <2>4, <2>5, <2>6, <2>7 DEF m
<1> QED BY <1>2, <1>3 DEF HandledNext, Handled

LEMMA EndKeeps == ASSUME LInv, Return \/ Raise PROVE Keeps /\ HandledNext
<1>1. frames # <<>> /\ End
  BY DEF Return, Raise, At
<1>2. /\ frames' = Front(frames) /\ currentMode' = Top.saved
      /\ UNCHANGED <<qvars, tables, fdMap>>
      /\ IF Top.polled
         THEN /\ completed' = [completed EXCEPT ![Top.mode] = TRUE]
              /\ contextStack' = contextStack \ {Top.mode}
         ELSE UNCHANGED <<completed, contextStack>>
  BY <1>1 DEF End, Restored
<1>3. Keeps
  <2>1. TimersApart(frames, timers') /\ Heeded(frames, timers', valid')
    BY <1>2 DEF LInv, tables
  <2> QED BY <2>1, <1>1, <1>2, PopKeeps DEF tables
<1>4. HandledNext
  <2>1. Top.mode \in Modes /\ completed \in [Modes -> BOOLEAN]
    BY <1>1, TopIs DEF LInv, LTypes, Frame
  <2>2. \A m \in Modes : completed[m] => completed'[m]
    BY <2>1, <1>2
  <2>3. Top.polled => completed'[Top.mode]
    BY <2>1, <1>2
  <2>4. \A m \in Modes : m \in contextStack /\ m \notin contextStack' =>
           m = Top.mode /\ Top.polled
    BY <1>2
  <2> QED BY <2>2, <2>3, <2>4, <1>1, <1>2, PopHandled DEF tables
<1> QED BY <1>3, <1>4

--------------------------------------------------------------------------
(* The arrays of timers.                                                    *)
LEMMA TimerFacts ==
  ASSUME LInv
  PROVE  /\ frames \in Seq(Frame) /\ timers \in [Modes -> Seq(Timers)]
         /\ NoTimer \notin valid /\ valid \subseteq Timers
         /\ Nested(frames, currentMode)
         /\ TimersApart(frames, timers) /\ Heeded(frames, timers, valid)
         /\ PerformersApart(frames, performers)
BY TimersAssumption DEF LInv, LTypes

LEMMA LimitKeeps ==
  ASSUME LInv, Limit
  PROVE  Keeps /\ HandledNext /\ timers' \in [Modes -> Seq(Timers)]
<1> DEFINE m == Top.mode
           g == [Top EXCEPT !.pc = "accept", !.limits = Limits(m),
                            !.expired = Limits(m) \cap due # {}, !.late = {}]
<1>1. /\ At("limit") /\ timers' = [timers EXCEPT ![m] = Only(@, valid)]
      /\ UNCHANGED <<qvars, watchers, performers, valid, due, ready, polls>>
      /\ \/ frames' = Front(frames) /\ currentMode' = Top.saved
         \/ Becomes(g) /\ UNCHANGED currentMode
  BY DEF Limit
<1>2. /\ frames # <<>> /\ Top \in Frame /\ Top.pc = "limit" /\ m \in Modes
      /\ Len(frames) \in 1 .. Len(frames) /\ Top = frames[Len(frames)]
  <2>1. frames # <<>> /\ Top.pc = "limit" /\ frames \in Seq(Frame)
    BY <1>1 DEF At, LInv, LTypes
  <2> QED BY <2>1, TopIs, FrameFields
<1>3. ~ Top.polled
  BY <1>2 DEF LInv, Handled, Early
<1>4. /\ Only(timers[m], valid) \in Seq(Timers)
      /\ ToSet(Only(timers[m], valid)) = ToSet(timers[m]) \cap valid
      /\ IsInjective(timers[m]) => IsInjective(Only(timers[m], valid))
  BY <1>2, TimerFacts, OnlyKeeps
<1>5. /\ timers' \in [Modes -> Seq(Timers)]
      /\ timers'[m] = Only(timers[m], valid)
      /\ \A n \in Modes : n # m => timers'[n] = timers[n]
  BY <1>1, <1>2, <1>4, TimerFacts
<1>6. \A n \in Modes : IsInjective(timers'[n]) /\ ToSet(timers'[n]) \subseteq ToSet(timers[n])
  <2>1. \A n \in Modes : IsInjective(timers[n])
    BY TimerFacts DEF TimersApart
  <2> QED BY <2>1, <1>4, <1>5
<1>7. CASE frames' = Front(frames) /\ currentMode' = Top.saved
  <2>1. TimersApart(frames, timers')
    BY <1>6, TimerFacts, ApartKept
  <2>2. Heeded(frames, timers', valid')
    <3>1. \A i \in 1 .. Len(frames) : frames[i].limits \subseteq frames[i].limits
                                      /\ frames[i].late \subseteq frames[i].late
      OBVIOUS
    <3>2. valid' \in SUBSET valid
      BY <1>1
    <3> QED BY <3>1, <3>2, <1>6, TimerFacts, HeededKept
  <2>3. Keeps
    BY <2>1, <2>2, <1>1, <1>2, <1>7, PopKeeps
  <2>4. HandledNext
    BY <1>1, <1>2, <1>3, <1>7, PopHandled DEF polls
  <2> QED BY <2>3, <2>4, <1>5
<1>8. CASE Becomes(g) /\ UNCHANGED currentMode
  <2>1. Limits(m) \subseteq Timers /\ Limits(m) = ToSet(timers'[m]) \cap valid
    BY <1>4, <1>5, TimerFacts DEF Limits
  <2>2. /\ g \in Frame /\ g.mode = Top.mode /\ g.saved = Top.saved /\ g.timer = Top.timer
        /\ g.limits = Limits(m) /\ g.batch = Top.batch /\ Onward(Top, g) /\ g.pc \notin Polls
    BY <1>2, <2>1 DEF Frame, Onward, Events, Early, Polls
  <2> HIDE DEF g
  <2>3. /\ frames' \in Seq(Frame) /\ Len(frames') = Len(frames)
        /\ frames'[Len(frames)] = g
        /\ \A i \in 1 .. Len(frames) : i # Len(frames) => frames'[i] = frames[i]
    BY <1>2, <1>8, <2>2, TimerFacts, BecomesIs
  <2>4. \A i \in 1 .. Len(frames) :
          /\ frames'[i].mode = frames[i].mode /\ frames'[i].saved = frames[i].saved
          /\ frames'[i].timer = frames[i].timer /\ frames'[i].batch = frames[i].batch
    BY <2>2, <2>3, <1>2
  <2>5. Nested(frames', currentMode')
    BY <2>3, <2>4, <1>8, TimerFacts, NestedKept
  <2>6. TimersApart(frames', timers')
    <3>1. frames \in Seq(Frame) /\ TimersApart(frames, timers)
      BY TimerFacts
    <3>2. Len(frames') = Len(frames)
      BY <2>3
    <3>3. \A i \in 1 .. Len(frames) :
            /\ frames'[i].mode = frames[i].mode
            /\ frames'[i].timer = frames[i].timer \/ frames'[i].timer = NoTimer
      BY <2>4
    <3> QED BY <3>1, <3>2, <3>3, <1>6, ApartKept
  <2>7. Heeded(frames', timers', valid')
    <3>1. \A i \in 1 .. Len(frames) :
            \/ /\ frames'[i].pc = frames[i].pc
               /\ frames[i].limits \subseteq frames'[i].limits
               /\ frames[i].late \subseteq frames'[i].late
            \/ /\ \A t \in ToSet(timers'[frames[i].mode]) : t \in valid => t \in frames'[i].limits
               /\ i = Len(frames)
      BY <2>1, <2>2, <2>3, <1>2
    <3>2. valid' \in SUBSET valid /\ Len(frames') = Len(frames)
      BY <1>1, <2>3
    <3>3. \A i \in 1 .. Len(frames) :
           /\ frames'[i].mode = frames[i].mode
           /\ frames'[i].timer = frames[i].timer \/ frames'[i].timer = NoTimer
           /\ frames'[i].pc \in Waiting =>
                \/ /\ frames[i].pc \in Waiting
                   /\ frames[i].limits \subseteq frames'[i].limits
                   /\ frames[i].late \subseteq frames'[i].late
                \/ /\ \A t \in ToSet(timers'[frames[i].mode]) :
                        t \in valid' => t \in frames'[i].limits
                   /\ i = Len(frames)
      BY <3>1, <2>4, <1>1
    <3> QED BY <3>2, <3>3, <1>6, TimerFacts, HeededKept
  <2>8. PerformersApart(frames', performers')
    BY <2>3, <2>4, <1>1, TimerFacts, PerformersKept DEF SameBatches
  <2>9. HandledNext
    BY <2>2, <1>1, <1>2, <1>8, TopHandled DEF polls
  <2> QED BY <2>3, <2>5, <2>6, <2>7, <2>8, <2>9, <1>5 DEF Keeps
<1> QED BY <1>1, <1>7, <1>8

(* A timer that fires is taken out of the array of its mode.                *)
LEMMA FireTimerKeeps ==
  ASSUME LInv, FireTimer
  PROVE  Keeps /\ HandledNext /\ timers' \in [Modes -> Seq(Timers)]
<1> DEFINE m == Top.mode
           fire == {i \in 1 .. Len(timers[m]) : timers[m][i] \in valid \cap due}
           k == CHOOSE j \in fire : \A i \in fire : j <= i
           l == Len(frames)
<1>1. /\ At("timers")
      /\ UNCHANGED <<qvars, currentMode, watchers, performers, valid, due, ready, polls>>
  BY DEF FireTimer
<1>2. /\ frames # <<>> /\ Top \in Frame /\ Top.pc = "timers" /\ m \in Modes
      /\ l \in 1 .. l /\ Top = frames[l] /\ l \in Nat
  <2>1. frames # <<>> /\ Top.pc = "timers" /\ frames \in Seq(Frame)
    BY <1>1 DEF At, LInv, LTypes
  <2> QED BY <2>1, TopIs, FrameFields
<1>3. CASE fire = {}
  <2> DEFINE g == [Top EXCEPT !.pc = "limit"]
  <2>1. Becomes(g) /\ UNCHANGED timers
    BY <1>3 DEF FireTimer
  <2>2. /\ g \in Frame /\ Plain(Top, g) /\ Onward(Top, g) /\ g.batch = Top.batch
        /\ g.pc \notin Polls
    BY <1>2 DEF Frame, Plain, Onward, Waiting, Events, Early, Polls
  <2> HIDE DEF g
  <2>3. timers' \in [Modes -> Seq(Timers)]
    BY <2>1, TimerFacts
  <2> QED BY <2>1, <2>2, <2>3, <1>1, <1>2, TopMoves, TopHandled DEF polls
<1>4. CASE fire # {}
  <2> DEFINE t == timers[m][k]
             g == [Top EXCEPT !.pc = "fired", !.timer = t, !.moved = FALSE, !.user = TRUE]
  <2>1. timers' = [timers EXCEPT ![m] = RemoveAt(@, k)] /\ Becomes(g)
    BY <1>4 DEF FireTimer, Removed
  <2>2. k \in fire
    <3>1. Len(timers[m]) \in Nat
      BY <1>2, TimerFacts
    <3>2. fire \in SUBSET (1 .. Len(timers[m])) /\ IsFiniteSet(1 .. Len(timers[m]))
      BY <3>1, FS_Interval
    <3>3. fire \in SUBSET Nat /\ IsFiniteSet(fire)
      BY <3>1, <3>2, FS_Subset
    <3> HIDE DEF fire
    <3>4. \E j \in fire : \A i \in fire : j <= i
      BY <3>3, <1>4, LeastOf
    <3> QED BY <3>4
  <2>3. k \in 1 .. Len(timers[m]) /\ t \in valid /\ t \in ToSet(timers[m])
        /\ timers[m] \in Seq(Timers) /\ IsInjective(timers[m]) /\ t \in Timers
    <3>1. k \in 1 .. Len(timers[m]) /\ t \in valid
      BY <2>2
    <3>2. timers[m] \in Seq(Timers) /\ IsInjective(timers[m])
      BY <1>2, TimerFacts DEF TimersApart
    <3> HIDE DEF k
    <3> QED BY <3>1, <3>2, InSetOf, TimerFacts
  <2> HIDE DEF k, fire
  <2>4. /\ RemoveAt(timers[m], k) \in Seq(Timers)
        /\ IsInjective(RemoveAt(timers[m], k))
        /\ ToSet(RemoveAt(timers[m], k)) = ToSet(timers[m]) \ {t}
    BY <2>3, RemoveAtIs
  <2>5. /\ timers' \in [Modes -> Seq(Timers)]
        /\ timers'[m] = RemoveAt(timers[m], k)
        /\ \A n \in Modes : n # m => timers'[n] = timers[n]
    BY <2>1, <2>4, <1>2, TimerFacts
  <2>6. /\ g \in Frame /\ g.mode = m /\ g.saved = Top.saved /\ g.timer = t
        /\ g.batch = Top.batch /\ Onward(Top, g) /\ g.pc \notin Polls /\ g.pc \notin Waiting
    BY <1>2, <2>3 DEF Frame, Onward, Events, Early, Polls, Waiting
  <2> HIDE DEF g, t
  <2>7. /\ frames' \in Seq(Frame) /\ Len(frames') = l /\ frames'[l] = g
        /\ \A i \in 1 .. l : i # l => frames'[i] = frames[i]
    BY <1>2, <2>1, <2>6, TimerFacts, BecomesIs
  <2>8. \A i \in 1 .. l :
          /\ frames'[i].mode = frames[i].mode /\ frames'[i].saved = frames[i].saved
          /\ frames'[i].batch = frames[i].batch
    BY <2>6, <2>7, <1>2
  <2> HIDE DEF l, m
  <2>9. Nested(frames', currentMode')
    BY <2>7, <2>8, <1>1, TimerFacts, NestedKept DEF l
  <2>a. \A n \in Modes : IsInjective(timers'[n]) /\ ToSet(timers'[n]) \subseteq ToSet(timers[n])
    <3>1. \A n \in Modes : IsInjective(timers[n])
      BY TimerFacts DEF TimersApart
    <3> QED BY <3>1, <2>4, <2>5
  <2>b. ASSUME NEW i \in 1 .. l, i # l, frames[i].timer = t PROVE frames[i].mode # m
    <3>1. frames[i].timer # NoTimer
      BY <2>b, <2>3, TimerFacts
    <3>2. frames[i].timer \notin ToSet(timers[frames[i].mode])
      BY <3>1, TimerFacts DEF TimersApart, l
    <3> QED BY <3>2, <2>3, <2>b
  <2>c. TimersApart(frames', timers')
    <3>1. ASSUME NEW i \in 1 .. l, frames'[i].timer # NoTimer
          PROVE  /\ frames'[i].timer \notin ToSet(timers'[frames'[i].mode])
                 /\ \A j \in 1 .. l : i # j /\ frames'[i].timer = frames'[j].timer =>
                      frames'[i].mode # frames'[j].mode
      <4>1. CASE i = l
        <5>1. t \notin ToSet(timers'[m])
          BY <2>4, <2>5
        <5> QED BY <5>1, <4>1, <2>6, <2>7, <2>b
      <4>2. CASE i # l
        <5>1. frames[i].mode \in Modes
          BY TimerFacts, FrameFields DEF l
        <5>2. /\ frames[i].timer \notin ToSet(timers[frames[i].mode])
              /\ \A j \in 1 .. l : i # j /\ frames[i].timer = frames[j].timer =>
                   frames[i].mode # frames[j].mode
          BY <3>1, <4>2, <2>7, TimerFacts DEF TimersApart, l
        <5>3. frames[i].timer = t => frames[i].mode # m
          BY <4>2, <2>b
        <5>4. ASSUME NEW j \in 1 .. l, i # j, frames[i].timer = frames'[j].timer
              PROVE  frames[i].mode # frames'[j].mode
          <6>1. CASE j = l
            BY <6>1, <5>3, <5>4, <2>6, <2>7
          <6>2. CASE j # l
            BY <6>2, <5>2, <5>4, <2>7
          <6> QED BY <6>1, <6>2
        <5>5. frames[i].timer \notin ToSet(timers'[frames[i].mode])
          BY <5>1, <5>2, <2>a
        <5> QED BY <5>4, <5>5, <4>2, <2>7
      <4> QED BY <4>1, <4>2
    <3> QED BY <3>1, <2>7, <2>a DEF TimersApart
  <2>d. Heeded(frames', timers', valid')
    <3>1. ASSUME NEW i \in 1 .. l, frames'[i].pc \in Waiting
          PROVE  /\ \A x \in ToSet(timers'[frames'[i].mode]) :
                      x \in valid => x \in frames'[i].limits \cup frames'[i].late
                 /\ \A j \in 1 .. l :
                      i < j /\ frames'[j].mode = frames'[i].mode /\ frames'[j].timer \in valid =>
                        frames'[j].timer \in frames'[i].limits \cup frames'[i].late
      <4>1. i # l /\ frames'[i] = frames[i] /\ frames[i].mode \in Modes
        <5>1. i # l
          BY <3>1, <2>6, <2>7
        <5> QED BY <5>1, <2>7, TimerFacts, FrameFields DEF l
      <4>2. /\ \A x \in ToSet(timers[frames[i].mode]) :
                 x \in valid => x \in frames[i].limits \cup frames[i].late
            /\ \A j \in 1 .. l :
                 i < j /\ frames[j].mode = frames[i].mode /\ frames[j].timer \in valid =>
                   frames[j].timer \in frames[i].limits \cup frames[i].late
        BY <3>1, <4>1, TimerFacts DEF Heeded, l
      <4>3. frames[i].mode = m => t \in frames[i].limits \cup frames[i].late
        BY <4>2, <2>3
      <4>4. ASSUME NEW j \in 1 .. l, i < j, frames'[j].mode = frames[i].mode,
                   frames'[j].timer \in valid
            PROVE  frames'[j].timer \in frames[i].limits \cup frames[i].late
        <5>1. CASE j = l
          BY <5>1, <4>3, <4>4, <2>6, <2>7
        <5>2. CASE j # l
          BY <5>2, <4>2, <4>4, <2>7
        <5> QED BY <5>1, <5>2
      <4>5. ToSet(timers'[frames[i].mode]) \subseteq ToSet(timers[frames[i].mode])
        BY <4>1, <2>a
      <4> QED BY <4>1, <4>2, <4>4, <4>5
    <3> QED BY <3>1, <2>7, <1>1 DEF Heeded
  <2>e. PerformersApart(frames', performers')
    BY <2>7, <2>8, <1>1, TimerFacts, PerformersKept DEF SameBatches, l
  <2>f. HandledNext
    BY <2>1, <2>6, <1>1, <1>2, TopHandled DEF polls
  <2> QED BY <2>5, <2>7, <2>9, <2>c, <2>d, <2>e, <2>f DEF Keeps
<1> QED BY <1>3, <1>4

(* Steps that change what the runs note about timers, and nothing else.     *)
LEMMA NotesKeep ==
  ASSUME LInv, frames' \in Seq(Frame), Len(frames') = Len(frames),
         SameEvents(frames, frames'),
         \A i \in 1 .. Len(frames) :
           /\ frames'[i].saved = frames[i].saved /\ frames'[i].batch = frames[i].batch
           /\ frames'[i].pc \in Polls => frames[i].pc \in Polls /\ ~ frames'[i].user,
         UNCHANGED <<currentMode, performers, passes, fdMap, completed, contextStack>>,
         ready \subseteq ready'
  PROVE  /\ Nested(frames', currentMode') /\ PerformersApart(frames', performers')
         /\ HandledNext
<1>1. \A i \in 1 .. Len(frames) : frames'[i].mode = frames[i].mode
  BY DEF SameEvents
<1>2. Nested(frames', currentMode)
  BY <1>1, TimerFacts, NestedKept
<1>3. PerformersApart(frames', performers)
  BY TimerFacts, PerformersKept DEF SameBatches
<1>4. /\ \A m \in Modes : fdMap'[m] \subseteq fdMap[m]
      /\ \A m \in Modes : completed[m] => completed'[m]
  OBVIOUS
<1>5. Handled(frames, fdMap, completed, contextStack, ready, Len(passes))
  BY DEF LInv
<1>6. HandledNext
  BY <1>4, <1>5, TimerFacts, HandledKept DEF HandledNext
<1> QED BY <1>2, <1>3, <1>6

(* A timer whose handler has returned goes back into the array.             *)
LEMMA UpdateTimerKeeps ==
  ASSUME LInv, UpdateTimer
  PROVE  Keeps /\ HandledNext /\ timers' \in [Modes -> Seq(Timers)]
<1> DEFINE m == Top.mode
           t == Top.timer
           g == [Top EXCEPT !.pc = "limit", !.timer = NoTimer, !.moved = FALSE]
           l == Len(frames)
<1>1. /\ At("update")
      /\ UNCHANGED <<qvars, currentMode, watchers, performers, valid, ready, polls>>
  BY DEF UpdateTimer
<1>2. /\ frames # <<>> /\ Top \in Frame /\ Top.pc = "update" /\ m \in Modes
      /\ l \in 1 .. l /\ Top = frames[l] /\ l \in Nat
  <2>1. frames # <<>> /\ Top.pc = "update" /\ frames \in Seq(Frame)
    BY <1>1 DEF At, LInv, LTypes
  <2> QED BY <2>1, TopIs, FrameFields
<1>3. /\ g \in Frame /\ g.mode = m /\ g.saved = Top.saved /\ g.timer = NoTimer
      /\ g.batch = Top.batch /\ Onward(Top, g) /\ g.pc \notin Polls /\ g.pc \notin Waiting
  BY <1>2 DEF Frame, Onward, Events, Early, Polls, Waiting
<1>4. UNCHANGED <<currentMode, performers, passes, fdMap, completed, contextStack, ready, valid>>
  BY <1>1 DEF qvars, polls
<1>5. CASE t \notin valid
  <2>1. Becomes(g) /\ UNCHANGED timers
    BY <1>5 DEF UpdateTimer
  <2> HIDE DEF g, l, m, t
  <2>2. /\ frames' \in Seq(Frame) /\ Len(frames') = l /\ frames'[l] = g
        /\ \A i \in 1 .. l : i # l => frames'[i] = frames[i]
    BY <1>2, <1>3, <2>1, TimerFacts, BecomesIs DEF l
  <2>3. \A i \in 1 .. l :
          /\ frames'[i].mode = frames[i].mode
          /\ frames'[i].timer = frames[i].timer \/ frames'[i].timer = NoTimer
    BY <2>2, <1>2, <1>3 DEF m
  <2>4. \A i \in 1 .. l : frames'[i].saved = frames[i].saved /\ frames'[i].batch = frames[i].batch
    BY <2>2, <1>2, <1>3
  <2>5. Nested(frames', currentMode')
    BY <2>2, <2>3, <2>4, <1>4, TimerFacts, NestedKept DEF l
  <2>6. \A n \in Modes : IsInjective(timers[n])
    BY TimerFacts DEF TimersApart
  <2>7. TimersApart(frames', timers')
    BY <2>1, <2>2, <2>3, <2>6, TimerFacts, ApartKept DEF l
  <2>8. Heeded(frames', timers', valid')
    <3>1. \A i \in 1 .. l :
            /\ frames'[i].mode = frames[i].mode
            /\ frames'[i].timer = frames[i].timer \/ frames'[i].timer = NoTimer
            /\ frames'[i].pc \in Waiting =>
                 /\ frames[i].pc \in Waiting
                 /\ frames[i].limits \subseteq frames'[i].limits
                 /\ frames[i].late \subseteq frames'[i].late
      BY <2>2, <2>3, <1>3
    <3>2. valid' \in SUBSET valid
      BY <1>4
    <3> QED BY <3>1, <3>2, <2>1, <2>2, TimerFacts, HeededKept DEF l
  <2>9. PerformersApart(frames', performers')
    BY <2>2, <2>4, <1>4, TimerFacts, PerformersKept DEF SameBatches, l
  <2>10. HandledNext
    BY <2>1, <1>2, <1>3, <1>4, TopHandled
  <2>11. timers' \in [Modes -> Seq(Timers)]
    BY <2>1, TimerFacts
  <2> QED BY <2>2, <2>5, <2>7, <2>8, <2>9, <2>10, <2>11 DEF Keeps
<1>6. CASE t \in valid
  <2>1. /\ timers' = [timers EXCEPT ![m] = Append(@, t)]
        /\ frames' = [i \in 1 .. l |-> IF i = l THEN g
                        ELSE [frames[i] EXCEPT
                                !.moved = @ \/ (~ Top.moved /\ frames[i].timer = t)]]
    BY <1>6 DEF UpdateTimer
  <2>2. ASSUME NEW i \in 1 .. l
        PROVE  frames'[i] \in Frame /\ (i = l => frames'[i] = g)
               /\ (i # l =>
                    /\ frames'[i].mode = frames[i].mode /\ frames'[i].saved = frames[i].saved
                    /\ frames'[i].timer = frames[i].timer
                    /\ frames'[i].batch = frames[i].batch /\ frames'[i].pc = frames[i].pc
                    /\ frames'[i].limits = frames[i].limits /\ frames'[i].late = frames[i].late
                    /\ frames'[i].depth = frames[i].depth /\ frames'[i].left = frames[i].left
                    /\ frames'[i].polled = frames[i].polled /\ frames'[i].user = frames[i].user)
    <3>1. CASE i = l
      BY <3>1, <2>1, <1>3
    <3>2. CASE i # l
      <4>1. frames[i] \in Frame
        BY TimerFacts
      <4>2. frames'[i] = [frames[i] EXCEPT
                            !.moved = @ \/ (~ Top.moved /\ frames[i].timer = t)]
        BY <3>2, <2>1
      <4> HIDE DEF g, l, m
      <4>3. (frames[i].moved \/ (~ Top.moved /\ frames[i].timer = t)) \in BOOLEAN
        OBVIOUS
      <4> QED BY <4>1, <4>2, <4>3, <3>2 DEF Frame
    <3> QED BY <3>1, <3>2
  <2> HIDE DEF g
  <2>3. frames' \in Seq(Frame) /\ Len(frames') = l
    BY <2>1, <2>2, <1>2
  <2>4. /\ t # NoTimer /\ t \in Timers /\ timers[m] \in Seq(Timers) /\ IsInjective(timers[m])
        /\ t \notin ToSet(timers[m])
        /\ \A i \in 1 .. l : i # l /\ frames[i].timer = t => frames[i].mode # m
    <3>1. t # NoTimer /\ t \in Timers /\ timers[m] \in Seq(Timers)
      BY <1>2, <1>6, TimerFacts
    <3> QED BY <3>1, <1>2, TimerFacts DEF TimersApart
  <2>5. /\ Append(timers[m], t) \in Seq(Timers) /\ IsInjective(Append(timers[m], t))
        /\ ToSet(Append(timers[m], t)) = ToSet(timers[m]) \cup {t}
    BY <2>4, SetOfAppend
  <2>6. /\ timers' \in [Modes -> Seq(Timers)]
        /\ timers'[m] = Append(timers[m], t)
        /\ \A n \in Modes : n # m => timers'[n] = timers[n]
    BY <2>1, <2>5, <1>2, TimerFacts
  <2> HIDE DEF l, m, t
  <2>7. /\ Nested(frames', currentMode') /\ PerformersApart(frames', performers')
        /\ HandledNext
    <3>1. SameEvents(frames, frames')
      <4>1. \A i \in 1 .. l : frames[i].left \subseteq frames[i].left
        OBVIOUS
      <4>2. \A i \in 1 .. l : frames[i].pc = "event" => ~ frames[i].user
        BY DEF LInv, Handled, l
      <4>3. \A i \in 1 .. l : i # l \/ Onward(frames[i], frames'[i])
        BY <2>2, <1>2, <1>3
      <4> QED BY <4>1, <4>2, <4>3, <2>2 DEF SameEvents, Onward, l
    <3>2. \A i \in 1 .. l :
           /\ frames'[i].saved = frames[i].saved /\ frames'[i].batch = frames[i].batch
           /\ frames'[i].pc \in Polls => frames[i].pc \in Polls /\ ~ frames'[i].user
      <4>1. \A i \in 1 .. l : frames[i].pc \in Polls => ~ frames[i].user
        BY DEF LInv, Handled, l
      <4> QED BY <4>1, <2>2, <1>2, <1>3
    <3> QED BY <3>1, <3>2, <2>3, <1>4, NotesKeep DEF l
  <2>8. TimersApart(frames', timers')
    <3>1. ASSUME NEW i \in 1 .. l, frames'[i].timer # NoTimer
          PROVE  /\ frames'[i].timer \notin ToSet(timers'[frames'[i].mode])
                 /\ \A j \in 1 .. l : i # j /\ frames'[i].timer = frames'[j].timer =>
                      frames'[i].mode # frames'[j].mode
      <4>1. /\ i # l /\ frames'[i].timer = frames[i].timer /\ frames'[i].mode = frames[i].mode
            /\ frames[i].mode \in Modes
        <5>1. frames[i].mode \in Modes
          BY TimerFacts, FrameFields DEF l
        <5> QED BY <5>1, <3>1, <2>2, <1>3
      <4>2. /\ frames[i].timer \notin ToSet(timers[frames[i].mode])
            /\ \A j \in 1 .. l : i # j /\ frames[i].timer = frames[j].timer =>
                 frames[i].mode # frames[j].mode
        BY <3>1, <4>1, TimerFacts DEF TimersApart, l
      <4>3. frames[i].timer = t => frames[i].mode # m
        BY <4>1, <2>4
      <4>4. frames[i].timer \notin ToSet(timers'[frames[i].mode])
        BY <4>1, <4>2, <4>3, <2>5, <2>6
      <4>5. ASSUME NEW j \in 1 .. l, i # j, frames[i].timer = frames'[j].timer
            PROVE  frames[i].mode # frames'[j].mode
        <5>1. j # l
          BY <3>1, <4>1, <4>5, <2>2, <1>3
        <5> QED BY <5>1, <4>2, <4>5, <2>2
      <4> QED BY <4>1, <4>4, <4>5
    <3>2. \A n \in Modes : IsInjective(timers'[n])
      BY <2>5, <2>6, TimerFacts DEF TimersApart
    <3> QED BY <3>1, <3>2, <2>3 DEF TimersApart
  <2>9. Heeded(frames', timers', valid')
    <3>1. ASSUME NEW i \in 1 .. l, frames'[i].pc \in Waiting
          PROVE  /\ \A x \in ToSet(timers'[frames'[i].mode]) :
                      x \in valid => x \in frames'[i].limits \cup frames'[i].late
                 /\ \A j \in 1 .. l :
                      i < j /\ frames'[j].mode = frames'[i].mode /\ frames'[j].timer \in valid =>
                        frames'[j].timer \in frames'[i].limits \cup frames'[i].late
      <4>1. /\ i # l /\ frames'[i].pc = frames[i].pc /\ frames'[i].mode = frames[i].mode
            /\ frames'[i].limits = frames[i].limits /\ frames'[i].late = frames[i].late
            /\ frames[i].mode \in Modes
        <5>1. frames[i].mode \in Modes
          BY TimerFacts, FrameFields DEF l
        <5>2. i # l
          BY <3>1, <2>2, <1>2, <1>3
        <5> QED BY <5>1, <5>2, <2>2
      <4>2. /\ \A x \in ToSet(timers[frames[i].mode]) :
                 x \in valid => x \in frames[i].limits \cup frames[i].late
            /\ \A j \in 1 .. l :
                 i < j /\ frames[j].mode = frames[i].mode /\ frames[j].timer \in valid =>
                   frames[j].timer \in frames[i].limits \cup frames[i].late
        BY <3>1, <4>1, TimerFacts DEF Heeded, l
      <4>3. frames[i].mode = m => t \in frames[i].limits \cup frames[i].late
        <5>1. i < l
          BY <4>1, <1>2
        <5>2. frames[l].mode = m /\ frames[l].timer = t
          BY <1>2 DEF m, t
        <5> QED BY <5>1, <5>2, <4>2, <1>2, <1>6
      <4>4. \A j \in 1 .. l : frames'[j].timer \in valid =>
              frames'[j].timer = frames[j].timer /\ frames'[j].mode = frames[j].mode
        BY <2>2, <1>3, TimerFacts
      <4>5. \A x \in ToSet(timers'[frames[i].mode]) :
              x \in ToSet(timers[frames[i].mode]) \/ (x = t /\ frames[i].mode = m)
        <5>1. CASE frames[i].mode = m
          BY <5>1, <2>5, <2>6
        <5>2. CASE frames[i].mode # m
          BY <5>2, <4>1, <2>6
        <5> QED BY <5>1, <5>2
      <4> QED BY <4>1, <4>2, <4>3, <4>4, <4>5
    <3> QED BY <3>1, <2>3, <1>4 DEF Heeded
  <2> QED BY <2>3, <2>6, <2>7, <2>8, <2>9 DEF Keeps
<1> QED BY <1>5, <1>6

--------------------------------------------------------------------------
(* Performers are taken out of the arrays, fired and cancelled.             *)
LEMMA PerformersShrink ==
  ASSUME NEW F, NEW G, Len(G) = Len(F), NEW R, NEW R2, PerformersApart(F, R),
         \A i \in 1 .. Len(F) : /\ IsInjective(G[i].batch)
                                /\ ToSet(G[i].batch) \subseteq ToSet(F[i].batch),
         \A m \in Modes : IsInjective(R2[m]) /\ ToSet(R2[m]) \subseteq ToSet(R[m])
  PROVE  PerformersApart(G, R2)
<1> SUFFICES ASSUME NEW i \in 1 .. Len(F), NEW p \in ToSet(G[i].batch)
             PROVE  /\ \A m \in Modes : p \notin ToSet(R2[m])
                    /\ \A j \in 1 .. Len(F) : i # j => p \notin ToSet(G[j].batch)
  BY DEF PerformersApart
<1>1. /\ \A m \in Modes : p \notin ToSet(R[m])
      /\ \A j \in 1 .. Len(F) : i # j => p \notin ToSet(F[j].batch)
  BY DEF PerformersApart
<1> QED BY <1>1

LEMMA PerformersFacts ==
  ASSUME LInv
  PROVE  /\ performers \in [Modes -> Seq(Performers)]
         /\ PerformersApart(frames, performers)
         /\ \A m \in Modes : IsInjective(performers[m])
         /\ \A i \in 1 .. Len(frames) : IsInjective(frames[i].batch)
BY DEF LInv, LTypes, PerformersApart

LEMMA OnlySome ==
  ASSUME NEW R \in [Modes -> Seq(Performers)], NEW S, NEW m \in Modes, IsInjective(R[m])
  PROVE  /\ Only(R[m], S) \in Seq(Performers) /\ IsInjective(Only(R[m], S))
         /\ ToSet(Only(R[m], S)) = ToSet(R[m]) \cap S
BY OnlyKeeps

LEMMA TakePerformersKeeps ==
  ASSUME LInv, NEW from, NEW to \in {"before", "last"}, TakePerformers(from, to),
         to # "before" \/ from = "accept"
  PROVE  Keeps /\ HandledNext /\ performers' \in [Modes -> Seq(Performers)]
<1> DEFINE m == Top.mode
           g == [Top EXCEPT !.pc = to, !.batch = performers[m], !.user = FALSE]
           l == Len(frames)
<1>1. /\ At(from) /\ performers' = Remaining(m) /\ Becomes(g)
      /\ UNCHANGED <<qvars, currentMode, watchers, timers, valid, due, ready, polls>>
  BY DEF TakePerformers
<1>2. /\ frames # <<>> /\ Top \in Frame /\ Top.pc = from /\ m \in Modes
      /\ l \in 1 .. l /\ Top = frames[l] /\ l \in Nat
  <2>1. frames # <<>> /\ Top.pc = from /\ frames \in Seq(Frame)
    BY <1>1 DEF At, LInv, LTypes
  <2> QED BY <2>1, TopIs, FrameFields
<1>3. performers[m] \in Seq(Performers)
  BY <1>2, PerformersFacts
<1>4. /\ g \in Frame /\ Plain(Top, g) /\ Onward(Top, g) /\ g.batch = performers[m]
      /\ g.pc \notin Polls
  BY <1>2, <1>3 DEF Frame, Plain, Onward, Waiting, Events, Early, Polls
<1> HIDE DEF g
<1>5. /\ Len(frames') = l /\ frames'[l] = g
      /\ \A i \in 1 .. l : i # l => frames'[i] = frames[i]
  BY <1>1, <1>2, <1>4, TimerFacts, BecomesIs
<1>6. ASSUME NEW n \in Modes
      PROVE  /\ performers'[n] \in Seq(Performers) /\ IsInjective(performers'[n])
             /\ ToSet(performers'[n]) = ToSet(performers[n]) \cap (Performers \ ToSet(performers[m]))
  <2> DEFINE S == Performers \ ToSet(performers[m])
  <2>1. performers'[n] = Only(performers[n], S)
    BY <1>1 DEF Remaining
  <2>2. performers \in [Modes -> Seq(Performers)] /\ IsInjective(performers[n])
    BY PerformersFacts
  <2> HIDE DEF S
  <2>3. /\ Only(performers[n], S) \in Seq(Performers) /\ IsInjective(Only(performers[n], S))
        /\ ToSet(Only(performers[n], S)) = ToSet(performers[n]) \cap S
    BY <2>2, OnlySome
  <2> QED BY <2>1, <2>3 DEF S
<1>7. performers' \in [Modes -> Seq(Performers)]
  <2>1. performers' = [n \in Modes |-> performers'[n]]
    BY <1>1 DEF Remaining
  <2> QED BY <2>1, <1>6
<1> HIDE DEF l, m
<1>8. PerformersApart(frames', performers')
  <2>1. ASSUME NEW i \in 1 .. l, i # l
        PROVE  /\ IsInjective(frames[i].batch)
               /\ \A p \in ToSet(frames[i].batch) :
                    /\ \A n \in Modes : p \notin ToSet(performers[n])
                    /\ \A j \in 1 .. l : i # j => p \notin ToSet(frames[j].batch)
    BY PerformersFacts DEF PerformersApart, l
  <2>2. ASSUME NEW i \in 1 .. l, NEW p \in ToSet(frames'[i].batch)
        PROVE  /\ \A n \in Modes : p \notin ToSet(performers'[n])
               /\ \A j \in 1 .. l : i # j => p \notin ToSet(frames'[j].batch)
    <3>1. CASE i = l
      <4>1. p \in ToSet(performers[m])
        BY <3>1, <2>2, <1>4, <1>5
      <4>2. \A j \in 1 .. l : i # j => p \notin ToSet(frames'[j].batch)
        BY <4>1, <3>1, <2>1, <1>2, <1>5
      <4> QED BY <4>1, <4>2, <1>6
    <3>2. CASE i # l
      <4>1. frames'[i] = frames[i] /\ p \in ToSet(frames[i].batch)
        BY <3>2, <2>2, <1>5
      <4>2. /\ \A n \in Modes : p \notin ToSet(performers[n])
            /\ \A j \in 1 .. l : i # j => p \notin ToSet(frames[j].batch)
        BY <4>1, <3>2, <2>1
      <4>3. p \notin ToSet(frames'[l].batch)
        BY <4>2, <1>2, <1>4, <1>5
      <4> QED BY <4>2, <4>3, <1>5, <1>6
    <3> QED BY <3>1, <3>2
  <2>3. ASSUME NEW i \in 1 .. l PROVE IsInjective(frames'[i].batch)
    BY <2>1, <1>2, <1>4, <1>5, PerformersFacts
  <2> QED BY <2>2, <2>3, <1>5, <1>6 DEF PerformersApart
<1>9. Keeps
  BY <1>1, <1>2, <1>4, <1>8, TopFrames DEF Keeps
<1>10. HandledNext
  BY <1>1, <1>2, <1>4, TopHandled DEF polls
<1> QED BY <1>7, <1>9, <1>10

LEMMA PerformKeeps ==
  ASSUME LInv, NEW pc \in {"before", "last"}, Perform(pc) PROVE Keeps /\ HandledNext
<1> DEFINE b == Top.batch
           g == [Top EXCEPT !.batch = Tail(@), !.user = TRUE]
           l == Len(frames)
<1>1. At(pc) /\ b # <<>> /\ Becomes(g) /\ UNCHANGED <<qvars, currentMode, tables, polls>>
  BY DEF Perform
<1>2. /\ frames # <<>> /\ Top \in Frame /\ Top.pc = pc /\ b \in Seq(Performers)
      /\ l \in 1 .. l /\ Top = frames[l] /\ l \in Nat
  <2>1. frames # <<>> /\ Top.pc = pc /\ frames \in Seq(Frame)
    BY <1>1 DEF At, LInv, LTypes
  <2> QED BY <2>1, TopIs, FrameFields
<1>3. /\ Tail(b) \in Seq(Performers) /\ ToSet(Tail(b)) \subseteq ToSet(b)
      /\ IsInjective(Tail(b))
  BY <1>1, <1>2, SetOfTail, PerformersFacts
<1>4. /\ g \in Frame /\ Plain(Top, g) /\ Onward(Top, g) /\ g.batch = Tail(b)
      /\ g.pc \notin Polls
  BY <1>2, <1>3 DEF Frame, Plain, Onward, Waiting, Events, Early, Polls
<1> HIDE DEF g
<1>5. /\ Len(frames') = l /\ frames'[l] = g
      /\ \A i \in 1 .. l : i # l => frames'[i] = frames[i]
  BY <1>1, <1>2, <1>4, TimerFacts, BecomesIs
<1>6. \A i \in 1 .. l : /\ IsInjective(frames'[i].batch)
                        /\ ToSet(frames'[i].batch) \subseteq ToSet(frames[i].batch)
  BY <1>2, <1>3, <1>4, <1>5, PerformersFacts
<1>7. \A m \in Modes : IsInjective(performers[m]) /\ ToSet(performers[m]) \subseteq ToSet(performers[m])
  BY PerformersFacts
<1>8. PerformersApart(frames', performers')
  <2>1. performers' = performers
    BY <1>1 DEF tables
  <2> QED BY <2>1, <1>5, <1>6, <1>7, PerformersFacts, PerformersShrink
<1>9. Keeps
  BY <1>1, <1>2, <1>4, <1>8, TopFrames DEF Keeps, tables
<1>10. HandledNext
  BY <1>1, <1>2, <1>4, TopHandled DEF tables, polls
<1> QED BY <1>9, <1>10

--------------------------------------------------------------------------
(* What the program calls, and what happens around the thread.              *)
LEMMA StillKeeps ==
  ASSUME LInv, UNCHANGED <<frames, currentMode, timers, performers>>,
         valid' \subseteq valid
  PROVE  Keeps
<1>1. Heeded(frames, timers, valid')
  <2>1. Heeded(frames, timers, valid)
    BY DEF LInv
  <2> QED BY <2>1 DEF Heeded
<1> QED BY <1>1, TimerFacts DEF Keeps

LEMMA StillHandled ==
  ASSUME LInv, UNCHANGED <<frames, completed, contextStack>>,
         \A m \in Modes : fdMap'[m] \subseteq fdMap[m], ready \subseteq ready',
         \A i \in 1 .. Len(frames) : frames[i].pc \in Polls => Len(passes') = Len(passes)
  PROVE  HandledNext
<1>1. Handled(frames, fdMap, completed, contextStack, ready, Len(passes))
  BY DEF LInv
<1>2. SameEvents(frames, frames)
  <2>1. \A i \in 1 .. Len(frames) : frames[i].left \subseteq frames[i].left
    OBVIOUS
  <2> QED BY <2>1, <1>1 DEF Handled, SameEvents
<1>3. \A i \in 1 .. Len(frames) : frames[i].pc \in Polls =>
        frames[i].pc \in Polls /\ ~ frames[i].user /\ Len(passes') = Len(passes)
  BY <1>1 DEF Handled
<1>4. \A m \in Modes : completed[m] => completed'[m]
  OBVIOUS
<1>5. Handled(frames, fdMap', completed', contextStack, ready', Len(passes'))
  BY <1>1, <1>2, <1>3, <1>4, TimerFacts, HandledKept
<1> QED BY <1>5 DEF HandledNext

(* While the program runs, no run of the loop is polling.                   *)
LEMMA NothingPolls ==
  ASSUME LInv, frames # <<>> => Top.user \/ Len(passes) > Top.depth
  PROVE  \A i \in 1 .. Len(frames) : frames[i].pc \notin Polls
<1> SUFFICES ASSUME NEW i \in 1 .. Len(frames) PROVE frames[i].pc \notin Polls
  OBVIOUS
<1>1. frames # <<>> /\ Top = frames[Len(frames)]
  <2>1. frames # <<>>
    BY TimerFacts
  <2> QED BY <2>1, TimerFacts, TopIs
<1>2. Top.user \/ Len(passes) # Top.depth
  <2>1. Top.depth \in Nat /\ Len(passes) \in Nat
    BY <1>1, TimerFacts, TopIs, BoundsAssumption DEF Frame, LInv, IInv, Sound, Types
  <2> QED BY <2>1, <1>1
<1> QED BY <1>1, <1>2 DEF LInv, Handled

LEMMA WatcherKeeps ==
  ASSUME LInv, NEW f, NEW m, AddWatcher(f, m) \/ RemoveWatcher(f, m)
  PROVE  Keeps /\ HandledNext
<1>1. /\ UNCHANGED <<qvars, currentMode, performers, timers, valid, ready,
                     completed, contextStack, frames>>
      /\ fdMap' \in {fdMap, [fdMap EXCEPT ![m] = @ \ {f}]}
  BY DEF AddWatcher, RemoveWatcher, polls
<1>2. \A n \in Modes : fdMap'[n] \subseteq fdMap[n]
  BY <1>1 DEF LInv, LTypes
<1>3. Keeps
  BY <1>1, StillKeeps
<1>4. HandledNext
  BY <1>1, <1>2, StillHandled DEF qvars
<1> QED BY <1>3, <1>4

LEMMA InvalidateKeeps == ASSUME LInv, NEW t, Invalidate(t) PROVE Keeps /\ HandledNext
<1>1. /\ UNCHANGED <<qvars, currentMode, performers, timers, ready, polls, frames>>
      /\ valid' \subseteq valid
  BY DEF Invalidate
<1>2. \A m \in Modes : fdMap'[m] \subseteq fdMap[m]
  BY <1>1 DEF polls
<1>3. Keeps
  BY <1>1, StillKeeps
<1>4. HandledNext
  BY <1>1, <1>2, StillHandled DEF qvars, polls
<1> QED BY <1>3, <1>4

LEMMA ArriveKeeps == ASSUME LInv, NEW f, Arrive(f) PROVE Keeps /\ HandledNext
<1>1. /\ UNCHANGED <<qvars, currentMode, performers, timers, valid, polls, frames>>
      /\ ready \subseteq ready'
  BY DEF Arrive
<1>2. \A m \in Modes : fdMap'[m] \subseteq fdMap[m]
  BY <1>1 DEF polls
<1>3. Keeps
  BY <1>1, StillKeeps
<1>4. HandledNext
  BY <1>1, <1>2, StillHandled DEF qvars, polls
<1> QED BY <1>3, <1>4

LEMMA NotificationKeeps ==
  ASSUME LInv, UNCHANGED loopVars, frames # <<>> => Top.user \/ Len(passes) > Top.depth
  PROVE  Keeps /\ HandledNext
<1>1. UNCHANGED <<currentMode, performers, timers, valid, ready, fdMap, completed,
                  contextStack, frames>>
  BY DEF loopVars, tables, polls
<1>2. \A m \in Modes : fdMap'[m] \subseteq fdMap[m]
  BY <1>1
<1>3. Keeps
  BY <1>1, StillKeeps
<1>4. HandledNext
  BY <1>1, <1>2, StillHandled, NothingPolls
<1> QED BY <1>3, <1>4

LEMMA CancelKeeps ==
  ASSUME LInv, NEW p, CancelPerformSelector(p)
  PROVE  Keeps /\ HandledNext /\ performers' \in [Modes -> Seq(Performers)]
<1> DEFINE S == Performers \ {p}
<1>1. /\ UNCHANGED <<qvars, currentMode, timers, valid, ready, polls, frames>>
      /\ performers' = [m \in Modes |-> Only(performers[m], S)]
  BY DEF CancelPerformSelector
<1> HIDE DEF S
<1>2. ASSUME NEW m \in Modes
      PROVE  /\ Only(performers[m], S) \in Seq(Performers)
             /\ IsInjective(Only(performers[m], S))
             /\ ToSet(Only(performers[m], S)) \subseteq ToSet(performers[m])
  <2>1. performers \in [Modes -> Seq(Performers)] /\ IsInjective(performers[m])
    BY PerformersFacts
  <2>2. ToSet(Only(performers[m], S)) = ToSet(performers[m]) \cap S
    BY <2>1, OnlySome
  <2> QED BY <2>1, <2>2, OnlySome
<1>3. \A m \in Modes : /\ IsInjective(performers'[m])
                       /\ ToSet(performers'[m]) \subseteq ToSet(performers[m])
  BY <1>1, <1>2
<1>4. \A i \in 1 .. Len(frames) : /\ IsInjective(frames[i].batch)
                                  /\ ToSet(frames[i].batch) \subseteq ToSet(frames[i].batch)
  BY PerformersFacts
<1>5. PerformersApart(frames, performers')
  BY <1>3, <1>4, PerformersFacts, PerformersShrink
<1>6. Keeps
  BY <1>1, <1>5, TimerFacts DEF Keeps
<1>7. \A m \in Modes : fdMap'[m] \subseteq fdMap[m]
  BY <1>1 DEF polls
<1>8. HandledNext
  BY <1>1, <1>7, StillHandled DEF qvars, polls
<1> QED BY <1>1, <1>2, <1>6, <1>8

LEMMA InsertedIs ==
  ASSUME NEW p \in Performers, NEW seq \in Seq(Performers), IsInjective(seq),
         p \notin ToSet(seq)
  PROVE  /\ Inserted(p, seq) \in Seq(Performers) /\ IsInjective(Inserted(p, seq))
         /\ ToSet(Inserted(p, seq)) = ToSet(seq) \cup {p}
<1> DEFINE L == {x \in Performers : Order[x] <= Order[p]}
           H == {x \in Performers : Order[x] > Order[p]}
           a == Only(seq, L)
           b == Only(seq, H)
<1>1. ToSet(seq) \subseteq Performers
  BY InSetOf
<1>2. L \cup H = Performers /\ L \cap H = {}
  <2>1. \A x \in Performers : Order[x] \in Nat
    BY OrderAssumption
  <2> QED BY <2>1
<1> HIDE DEF L, H
<1>3. /\ a \in Seq(Performers) /\ IsInjective(a) /\ ToSet(a) = ToSet(seq) \cap L
      /\ b \in Seq(Performers) /\ IsInjective(b) /\ ToSet(b) = ToSet(seq) \cap H
  BY OnlyKeeps
<1> HIDE DEF a, b
<1>4. /\ <<p>> \in Seq(Performers) /\ ToSet(<<p>>) = {p} /\ IsInjective(<<p>>)
  BY DEF ToSet, IsInjective
<1> DEFINE c == <<p>>
           d == a \o c
<1> HIDE DEF c
<1>5. d \in Seq(Performers) /\ IsInjective(d) /\ ToSet(d) = ToSet(a) \cup {p}
  <2>1. c \in Seq(Performers) /\ ToSet(c) = {p} /\ IsInjective(c)
    BY <1>4 DEF c
  <2>2. ToSet(a) \cap ToSet(c) = {}
    BY <2>1, <1>3
  <2>3. d \in Seq(Performers) /\ ToSet(d) = ToSet(a) \cup ToSet(c)
    BY <2>1, <1>3, SetOfConcat
  <2>4. IsInjective(d)
    BY <2>1, <2>2, <1>3, SetOfConcat
  <2> QED BY <2>1, <2>3, <2>4
<1> HIDE DEF d
<1>6. ToSet(d) \cap ToSet(b) = {}
  BY <1>2, <1>3, <1>5
<1>7. d \o b \in Seq(Performers) /\ ToSet(d \o b) = ToSet(d) \cup ToSet(b)
  BY <1>3, <1>5, SetOfConcat
<1>8. IsInjective(d \o b)
  BY <1>3, <1>5, <1>6, SetOfConcat
<1>9. Inserted(p, seq) = d \o b
  BY DEF Inserted, a, b, c, d, L, H
<1> QED BY <1>1, <1>2, <1>3, <1>5, <1>7, <1>8, <1>9

LEMMA PerformSelectorKeeps ==
  ASSUME LInv, NEW p \in Performers, NEW modes, PerformSelector(p, modes)
  PROVE  Keeps /\ HandledNext /\ performers' \in [Modes -> Seq(Performers)]
<1>1. /\ UNCHANGED <<qvars, currentMode, timers, valid, ready, polls, frames>>
      /\ performers' = [m \in Modes |-> IF m \in modes THEN Inserted(p, performers[m])
                                        ELSE performers[m]]
      /\ \A m \in Modes : p \notin ToSet(performers[m])
      /\ \A i \in 1 .. Len(frames) : p \notin ToSet(frames[i].batch)
  BY DEF PerformSelector, Scheduled
<1>2. ASSUME NEW m \in Modes
      PROVE  /\ performers'[m] \in Seq(Performers) /\ IsInjective(performers'[m])
             /\ ToSet(performers'[m]) \subseteq ToSet(performers[m]) \cup {p}
  <2>1. /\ performers[m] \in Seq(Performers) /\ IsInjective(performers[m])
        /\ p \notin ToSet(performers[m])
    BY <1>1, PerformersFacts
  <2>2. /\ Inserted(p, performers[m]) \in Seq(Performers)
        /\ IsInjective(Inserted(p, performers[m]))
        /\ ToSet(Inserted(p, performers[m])) = ToSet(performers[m]) \cup {p}
    BY <2>1, InsertedIs
  <2>3. performers'[m] = IF m \in modes THEN Inserted(p, performers[m]) ELSE performers[m]
    BY <1>1
  <2> QED BY <2>1, <2>2, <2>3
<1>3. performers' \in [Modes -> Seq(Performers)]
  BY <1>1, <1>2
<1>4. PerformersApart(frames, performers')
  <2>1. ASSUME NEW i \in 1 .. Len(frames), NEW x \in ToSet(frames[i].batch), NEW m \in Modes
        PROVE  x \notin ToSet(performers'[m])
    <3>1. x \notin ToSet(performers[m]) /\ x # p
      BY <1>1, PerformersFacts DEF PerformersApart
    <3> QED BY <3>1, <1>2
  <2> QED BY <2>1, <1>2, PerformersFacts DEF PerformersApart
<1>5. Keeps
  BY <1>1, <1>4, TimerFacts DEF Keeps
<1>6. \A m \in Modes : fdMap'[m] \subseteq fdMap[m]
  BY <1>1 DEF polls
<1>7. HandledNext
  BY <1>1, <1>6, StillHandled DEF qvars, polls
<1> QED BY <1>3, <1>5, <1>7

(* The steps that only note something about timers in every run.            *)
Noted(f, g) ==
  /\ g \in Frame /\ g.pc = f.pc /\ g.mode = f.mode /\ g.saved = f.saved
  /\ g.batch = f.batch /\ g.left = f.left /\ g.timer = f.timer
  /\ g.limits = f.limits /\ f.late \subseteq g.late
  /\ g.depth = f.depth /\ g.polled = f.polled /\ g.user = f.user

LEMMA NotedKeep ==
  ASSUME LInv, frames' = [i \in 1 .. Len(frames) |-> frames'[i]],
         \A i \in 1 .. Len(frames) : Noted(frames[i], frames'[i]),
         UNCHANGED <<currentMode, performers, passes, fdMap, completed, contextStack, ready>>
  PROVE  /\ frames' \in Seq(Frame) /\ Len(frames') = Len(frames)
         /\ Nested(frames', currentMode') /\ PerformersApart(frames', performers')
         /\ HandledNext
<1>1. Len(frames) \in Nat
  BY TimerFacts
<1>2. frames' \in Seq(Frame) /\ Len(frames') = Len(frames)
  <2>1. \A i \in 1 .. Len(frames) : frames'[i] \in Frame
    BY DEF Noted
  <2> QED BY <2>1, <1>1
<1>3. Handled(frames, fdMap, completed, contextStack, ready, Len(passes))
  BY DEF LInv
<1>4. SameEvents(frames, frames')
  <2>1. \A i \in 1 .. Len(frames) : frames'[i].left \subseteq frames[i].left
    BY DEF Noted
  <2> QED BY <2>1, <1>3 DEF Handled, SameEvents, Noted
<1>5. \A i \in 1 .. Len(frames) :
        /\ frames'[i].saved = frames[i].saved /\ frames'[i].batch = frames[i].batch
        /\ frames'[i].pc \in Polls => frames[i].pc \in Polls /\ ~ frames'[i].user
  BY <1>3 DEF Handled, Noted
<1>6. ready \subseteq ready'
  OBVIOUS
<1> QED BY <1>2, <1>4, <1>5, <1>6, NotesKeep

LEMMA NotedTimers ==
  ASSUME LInv, frames' \in Seq(Frame), Len(frames') = Len(frames),
         \A i \in 1 .. Len(frames) : Noted(frames[i], frames'[i]),
         UNCHANGED <<timers, valid>>
  PROVE  TimersApart(frames', timers') /\ Heeded(frames', timers', valid')
<1>1. TimersApart(frames, timers) /\ Heeded(frames, timers, valid)
  BY TimerFacts
<1>2. TimersApart(frames', timers)
  BY <1>1 DEF TimersApart, Noted
<1>3. Heeded(frames', timers, valid)
  <2> SUFFICES ASSUME NEW i \in 1 .. Len(frames), frames[i].pc \in Waiting
               PROVE
        /\ \A t \in ToSet(timers[frames[i].mode]) :
             t \in valid => t \in frames'[i].limits \cup frames'[i].late
        /\ \A j \in 1 .. Len(frames) :
             i < j /\ frames[j].mode = frames[i].mode /\ frames[j].timer \in valid =>
               frames[j].timer \in frames'[i].limits \cup frames'[i].late
    BY DEF Heeded, Noted
  <2>1. frames[i].limits \cup frames[i].late \subseteq frames'[i].limits \cup frames'[i].late
    BY DEF Noted
  <2> QED BY <2>1, <1>1 DEF Heeded
<1> QED BY <1>2, <1>3

LEMMA SetFireDateKeeps == ASSUME LInv, NEW t, SetFireDate(t) PROVE Keeps /\ HandledNext
<1>1. /\ frames' = [i \in 1 .. Len(frames) |->
                      [frames[i] EXCEPT !.moved = @ \/ frames[i].timer = t]]
      /\ UNCHANGED <<qvars, currentMode, performers, timers, valid, ready, polls>>
  BY DEF SetFireDate
<1>2. ASSUME NEW i \in 1 .. Len(frames) PROVE Noted(frames[i], frames'[i])
  <2>1. frames[i] \in Frame
    BY TimerFacts
  <2>2. frames'[i] = [frames[i] EXCEPT !.moved = @ \/ frames[i].timer = t]
    BY <1>1
  <2>3. (frames[i].moved \/ frames[i].timer = t) \in BOOLEAN
    OBVIOUS
  <2>4. frames'[i] \in Frame /\ frames[i].late \subseteq frames'[i].late
    BY <2>1, <2>2, <2>3 DEF Frame
  <2> QED BY <2>1, <2>2, <2>4 DEF Frame, Noted
<1>3. frames' = [i \in 1 .. Len(frames) |-> frames'[i]]
  BY <1>1
<1>4. /\ frames' \in Seq(Frame) /\ Len(frames') = Len(frames)
      /\ Nested(frames', currentMode') /\ PerformersApart(frames', performers')
      /\ HandledNext
  BY <1>1, <1>2, <1>3, NotedKeep DEF qvars, polls
<1>5. TimersApart(frames', timers') /\ Heeded(frames', timers', valid')
  BY <1>1, <1>2, <1>4, NotedTimers
<1> QED BY <1>4, <1>5 DEF Keeps

LEMMA TickKeeps == ASSUME LInv, NEW t, Tick(t) PROVE Keeps /\ HandledNext
<1>1. /\ frames' = [i \in 1 .. Len(frames) |->
                      [frames[i] EXCEPT !.expired = @ \/ t \in frames[i].limits]]
      /\ UNCHANGED <<qvars, currentMode, performers, timers, valid, ready, polls>>
  BY DEF Tick
<1>2. ASSUME NEW i \in 1 .. Len(frames) PROVE Noted(frames[i], frames'[i])
  <2>1. frames[i] \in Frame
    BY TimerFacts
  <2>2. frames'[i] = [frames[i] EXCEPT !.expired = @ \/ t \in frames[i].limits]
    BY <1>1
  <2>3. (frames[i].expired \/ t \in frames[i].limits) \in BOOLEAN
    OBVIOUS
  <2>4. frames'[i] \in Frame /\ frames[i].late \subseteq frames'[i].late
    BY <2>1, <2>2, <2>3 DEF Frame
  <2> QED BY <2>1, <2>2, <2>4 DEF Frame, Noted
<1>3. frames' = [i \in 1 .. Len(frames) |-> frames'[i]]
  BY <1>1
<1>4. /\ frames' \in Seq(Frame) /\ Len(frames') = Len(frames)
      /\ Nested(frames', currentMode') /\ PerformersApart(frames', performers')
      /\ HandledNext
  BY <1>1, <1>2, <1>3, NotedKeep DEF qvars, polls
<1>5. TimersApart(frames', timers') /\ Heeded(frames', timers', valid')
  BY <1>1, <1>2, <1>4, NotedTimers
<1> QED BY <1>4, <1>5 DEF Keeps

(* A timer that is added is late for the runs in progress.                  *)
LEMMA AddTimerKeeps ==
  ASSUME LInv, NEW t \in Timers, NEW m \in Modes, AddTimer(t, m)
  PROVE  Keeps /\ HandledNext /\ timers' \in [Modes -> Seq(Timers)]
<1>1. /\ t \in valid /\ t \notin ToSet(timers[m])
      /\ timers' = [timers EXCEPT ![m] = Append(@, t)]
      /\ frames' = [i \in 1 .. Len(frames) |-> [frames[i] EXCEPT !.late = @ \cup {t}]]
      /\ UNCHANGED <<qvars, currentMode, performers, valid, ready, polls>>
      /\ \A i \in 1 .. Len(frames) : frames[i].timer = t => frames[i].mode # m
  BY DEF AddTimer, Firing
<1>2. ASSUME NEW i \in 1 .. Len(frames)
      PROVE  Noted(frames[i], frames'[i]) /\ t \in frames'[i].late
  <2>1. frames[i] \in Frame
    BY TimerFacts
  <2>2. frames'[i] = [frames[i] EXCEPT !.late = @ \cup {t}]
    BY <1>1
  <2>3. /\ frames'[i] \in Frame /\ frames[i].late \subseteq frames'[i].late
        /\ t \in frames'[i].late
    BY <2>1, <2>2 DEF Frame
  <2> QED BY <2>1, <2>2, <2>3 DEF Frame, Noted
<1>3. frames' = [i \in 1 .. Len(frames) |-> frames'[i]]
  BY <1>1
<1>4. /\ frames' \in Seq(Frame) /\ Len(frames') = Len(frames)
      /\ Nested(frames', currentMode') /\ PerformersApart(frames', performers')
      /\ HandledNext
  BY <1>1, <1>2, <1>3, NotedKeep DEF qvars, polls
<1>5. /\ timers[m] \in Seq(Timers) /\ IsInjective(timers[m])
      /\ Append(timers[m], t) \in Seq(Timers) /\ IsInjective(Append(timers[m], t))
      /\ ToSet(Append(timers[m], t)) = ToSet(timers[m]) \cup {t}
  <2>1. timers[m] \in Seq(Timers) /\ IsInjective(timers[m])
    BY TimerFacts DEF TimersApart
  <2> QED BY <2>1, <1>1, SetOfAppend
<1>6. /\ timers' \in [Modes -> Seq(Timers)]
      /\ timers'[m] = Append(timers[m], t)
      /\ \A n \in Modes : n # m => timers'[n] = timers[n]
  BY <1>1, <1>5, TimerFacts
<1>7. ASSUME NEW n \in Modes
      PROVE  /\ IsInjective(timers'[n])
             /\ \A x \in ToSet(timers'[n]) : x \in ToSet(timers[n]) \/ (x = t /\ n = m)
  <2>1. CASE n = m
    BY <2>1, <1>5, <1>6
  <2>2. CASE n # m
    BY <2>2, <1>6, TimerFacts DEF TimersApart
  <2> QED BY <2>1, <2>2
<1>8. ASSUME NEW i \in 1 .. Len(frames)
      PROVE  /\ frames[i].mode \in Modes /\ frames'[i].mode = frames[i].mode
             /\ frames'[i].timer = frames[i].timer /\ frames'[i].pc = frames[i].pc
             /\ frames[i].limits \cup frames[i].late \subseteq frames'[i].limits \cup frames'[i].late
  <2>1. frames[i].mode \in Modes
    BY TimerFacts, FrameFields
  <2> QED BY <2>1, <1>2 DEF Noted
<1>9. TimersApart(frames', timers')
  <2>1. ASSUME NEW i \in 1 .. Len(frames), frames[i].timer # NoTimer
        PROVE  frames[i].timer \notin ToSet(timers'[frames[i].mode])
    <3>1. frames[i].timer \notin ToSet(timers[frames[i].mode])
      BY <2>1, TimerFacts DEF TimersApart
    <3> QED BY <3>1, <1>1, <1>7, <1>8
  <2>2. \A i, j \in 1 .. Len(frames) :
          frames[i].timer # NoTimer /\ i # j /\ frames[i].timer = frames[j].timer =>
            frames[i].mode # frames[j].mode
    BY TimerFacts DEF TimersApart
  <2> QED BY <2>1, <2>2, <1>4, <1>7, <1>8 DEF TimersApart
<1>10. Heeded(frames', timers', valid')
  <2>1. ASSUME NEW i \in 1 .. Len(frames), frames[i].pc \in Waiting
        PROVE  /\ \A x \in ToSet(timers'[frames[i].mode]) :
                    x \in valid => x \in frames'[i].limits \cup frames'[i].late
               /\ \A j \in 1 .. Len(frames) :
                    i < j /\ frames[j].mode = frames[i].mode /\ frames[j].timer \in valid =>
                      frames[j].timer \in frames'[i].limits \cup frames'[i].late
    <3>1. /\ \A x \in ToSet(timers[frames[i].mode]) :
               x \in valid => x \in frames[i].limits \cup frames[i].late
          /\ \A j \in 1 .. Len(frames) :
               i < j /\ frames[j].mode = frames[i].mode /\ frames[j].timer \in valid =>
                 frames[j].timer \in frames[i].limits \cup frames[i].late
      BY <2>1, TimerFacts DEF Heeded
    <3> QED BY <3>1, <1>2, <1>7, <1>8
  <2>2. valid' = valid /\ Len(frames') = Len(frames)
    BY <1>1, <1>4
  <2>3. \A i \in 1 .. Len(frames') : i \in 1 .. Len(frames) /\ frames'[i].mode = frames[i].mode
          /\ frames'[i].timer = frames[i].timer /\ frames'[i].pc = frames[i].pc
    BY <2>2, <1>8
  <2> QED BY <2>1, <2>2, <2>3 DEF Heeded
<1> QED BY <1>4, <1>6, <1>9, <1>10 DEF Keeps

--------------------------------------------------------------------------
(* The invariant, step by step.                                             *)
ArraysNext == /\ performers' \in [Modes -> Seq(Performers)]
              /\ timers' \in [Modes -> Seq(Timers)]

LEMMA ArraysKept == LInv /\ UNCHANGED <<performers, timers>> => ArraysNext
BY DEF LInv, LTypes, ArraysNext

LEMMA LoopKeeps == ASSUME LInv, Loop PROVE Keeps /\ HandledNext /\ ArraysNext
<1>1. CASE FireTimer
  <2>1. UNCHANGED performers
    BY <1>1 DEF FireTimer
  <2> QED BY <2>1, <1>1, FireTimerKeeps, PerformersFacts DEF ArraysNext
<1>2. CASE FiredTimer
  <2>1. UNCHANGED <<performers, timers>>
    BY <1>2 DEF FiredTimer
  <2> QED BY <2>1, <1>2, FiredTimerKeeps, ArraysKept
<1>3. CASE UpdateTimer
  <2>1. UNCHANGED performers
    BY <1>3 DEF UpdateTimer
  <2> QED BY <2>1, <1>3, UpdateTimerKeeps, PerformersFacts DEF ArraysNext
<1>4. CASE Limit
  <2>1. UNCHANGED performers
    BY <1>4 DEF Limit
  <2> QED BY <2>1, <1>4, LimitKeeps, PerformersFacts DEF ArraysNext
<1>5. ASSUME NEW from, NEW to \in {"before", "last"}, TakePerformers(from, to),
             to # "before" \/ from = "accept"
      PROVE  Keeps /\ HandledNext /\ ArraysNext
  <2>1. UNCHANGED timers
    BY <1>5 DEF TakePerformers
  <2> QED BY <2>1, <1>5, TakePerformersKeeps, TimerFacts DEF ArraysNext
<1>6. ASSUME NEW pc \in {"before", "last"}, Perform(pc)
      PROVE  Keeps /\ HandledNext /\ ArraysNext
  <2>1. UNCHANGED <<performers, timers>>
    BY <1>6 DEF Perform, tables
  <2> QED BY <2>1, <1>6, PerformKeeps, ArraysKept
<1>7. CASE NotifyAlone
  BY <1>7, NotifyAloneKeeps, ArraysKept DEF NotifyAlone, tables
<1>8. CASE IdleAlone
  BY <1>8, IdleAloneKeeps, ArraysKept DEF IdleAlone, tables
<1>9. CASE Poll
  BY <1>9, PollKeeps, ArraysKept DEF Poll, tables
<1>10. CASE PollReady
  BY <1>10, PollReadyKeeps, ArraysKept DEF PollReady, tables
<1>11. CASE Wait
  BY <1>11, WaitKeeps, ArraysKept DEF Wait, tables
<1>12. CASE PollQuiet
  BY <1>12, PollQuietKeeps, ArraysKept DEF PollQuiet, tables
<1>13. ASSUME NEW f \in Fds, Dispatch(f) PROVE Keeps /\ HandledNext /\ ArraysNext
  <2>1. UNCHANGED <<performers, timers>>
    BY <1>13 DEF Dispatch
  <2> QED BY <2>1, <1>13, DispatchKeeps, ArraysKept
<1>14. CASE Dispatched
  BY <1>14, DispatchedKeeps, ArraysKept DEF Dispatched, tables
<1>15. CASE EventsDone
  BY <1>15, EventsDoneKeeps, ArraysKept DEF EventsDone, tables
<1>16. CASE LastDone
  BY <1>16, LastDoneKeeps, ArraysKept DEF LastDone, tables
<1>17. CASE Return \/ Raise
  BY <1>17, EndKeeps, ArraysKept DEF Return, Raise, End, tables
<1>18. CASE ContinuePass
  <2>1. UNCHANGED loopVars /\ Len(passes) > Top.depth
    BY <1>18 DEF ContinuePass
  <2> QED BY <2>1, NotificationKeeps, ArraysKept DEF loopVars, tables
<1>19. CASE TakePerformers("accept", "before") \/ TakePerformers("after", "last")
  BY <1>5, <1>19
<1>20. CASE Perform("before") \/ Perform("last")
  BY <1>6, <1>20
<1> QED
  BY <1>1, <1>2, <1>3, <1>4, <1>7, <1>8, <1>9, <1>10, <1>11, <1>12, <1>13,
     <1>14, <1>15, <1>16, <1>17, <1>18, <1>19, <1>20 DEF Loop

LEMMA CallsKeep == ASSUME LInv, Calls PROVE Keeps /\ HandledNext /\ ArraysNext
<1>1. ASSUME NEW m \in Modes, RunMode(m) \/ AcceptInput(m)
      PROVE  Keeps /\ HandledNext /\ ArraysNext
  <2>1. ASSUME NEW pc \in {"timers", "accept"}, NEW late \in SUBSET Timers,
               Enter(m, pc, late), pc = "timers" \/ late = Timers
        PROVE  Keeps /\ HandledNext /\ ArraysNext
    <3>1. UNCHANGED <<performers, timers>>
      BY <2>1 DEF Enter, tables
    <3> QED BY <2>1, <3>1, EnterKeeps, ArraysKept
  <2>2. CASE RunMode(m)
    BY <2>1, <2>2 DEF RunMode
  <2>3. CASE AcceptInput(m)
    BY <2>1, <2>3 DEF AcceptInput
  <2> QED BY <1>1, <2>2, <2>3
<1>2. ASSUME NEW m \in Modes, NEW f \in Fds, AddWatcher(f, m) \/ RemoveWatcher(f, m)
      PROVE  Keeps /\ HandledNext /\ ArraysNext
  <2>1. UNCHANGED <<performers, timers>>
    BY <1>2 DEF AddWatcher, RemoveWatcher
  <2> QED BY <2>1, <1>2, WatcherKeeps, ArraysKept
<1>3. ASSUME NEW t \in Timers, Invalidate(t) PROVE Keeps /\ HandledNext /\ ArraysNext
  <2>1. UNCHANGED <<performers, timers>>
    BY <1>3 DEF Invalidate
  <2> QED BY <2>1, <1>3, InvalidateKeeps, ArraysKept
<1>4. ASSUME NEW t \in Timers, SetFireDate(t) PROVE Keeps /\ HandledNext /\ ArraysNext
  <2>1. UNCHANGED <<performers, timers>>
    BY <1>4 DEF SetFireDate
  <2> QED BY <2>1, <1>4, SetFireDateKeeps, ArraysKept
<1>5. ASSUME NEW t \in Timers, NEW m \in Modes, AddTimer(t, m)
      PROVE  Keeps /\ HandledNext /\ ArraysNext
  <2>1. UNCHANGED performers
    BY <1>5 DEF AddTimer
  <2> QED BY <2>1, <1>5, AddTimerKeeps, PerformersFacts DEF ArraysNext
<1>6. ASSUME NEW p \in Performers, CancelPerformSelector(p)
      PROVE  Keeps /\ HandledNext /\ ArraysNext
  <2>1. UNCHANGED timers
    BY <1>6 DEF CancelPerformSelector
  <2> QED BY <2>1, <1>6, CancelKeeps, TimerFacts DEF ArraysNext
<1>7. ASSUME NEW p \in Performers, NEW modes, PerformSelector(p, modes)
      PROVE  Keeps /\ HandledNext /\ ArraysNext
  <2>1. UNCHANGED timers
    BY <1>7 DEF PerformSelector
  <2> QED BY <2>1, <1>7, PerformSelectorKeeps, TimerFacts DEF ArraysNext
<1>8. ASSUME NEW q, NEW n, NEW style, NEW mask, NEW modes,
             EnqueueNotification(q, n, style, mask, modes)
      PROVE  Keeps /\ HandledNext /\ ArraysNext
  <2>1. UNCHANGED loopVars /\ (frames # <<>> => Top.user \/ Len(passes) > Top.depth)
    BY <1>8 DEF EnqueueNotification, Program
  <2> QED BY <2>1, NotificationKeeps, ArraysKept DEF loopVars, tables
<1> QED BY <1>1, <1>2, <1>3, <1>4, <1>5, <1>6, <1>7, <1>8 DEF Calls

LEMMA StepKeeps == ASSUME LInv, [LoopNext]_vars PROVE Keeps /\ HandledNext /\ ArraysNext
<1>1. ASSUME NEW t, Tick(t) PROVE Keeps /\ HandledNext /\ ArraysNext
  <2>1. UNCHANGED <<performers, timers>>
    BY <1>1 DEF Tick
  <2> QED BY <2>1, <1>1, TickKeeps, ArraysKept
<1>2. ASSUME NEW f, Arrive(f) PROVE Keeps /\ HandledNext /\ ArraysNext
  <2>1. UNCHANGED <<performers, timers>>
    BY <1>2 DEF Arrive
  <2> QED BY <2>1, <1>2, ArriveKeeps, ArraysKept
<1>3. CASE UNCHANGED vars
  <2>1. UNCHANGED <<frames, currentMode, performers, timers, valid, completed, contextStack,
                    fdMap, ready, passes>>
    BY <1>3 DEF vars, qvars, loopVars, tables, polls
  <2>2. \A m \in Modes : fdMap'[m] \subseteq fdMap[m]
    BY <2>1
  <2> QED BY <2>1, <2>2, StillKeeps, StillHandled, ArraysKept
<1> QED BY <1>1, <1>2, <1>3, LoopKeeps, CallsKeep DEF LoopNext, Around

--------------------------------------------------------------------------
OtherTypes ==
  /\ watchers \in [Modes -> SUBSET Fds] /\ fdMap \in [Modes -> SUBSET Fds]
  /\ valid \subseteq Timers /\ due \subseteq Timers /\ ready \subseteq Fds
  /\ completed \in [Modes -> BOOLEAN] /\ contextStack \subseteq Modes

LEMMA OtherTypesKept == ASSUME LInv, [LoopNext]_vars PROVE OtherTypes'
<1>1. OtherTypes
  BY DEF LInv, LTypes, OtherTypes
<1>2. ASSUME NEW pc, At(pc) PROVE Top.mode \in Modes
  <2>1. frames # <<>>
    BY <1>2 DEF At
  <2> QED BY <2>1, TimerFacts, TopIs DEF Frame
<1>3. CASE Loop
  <2>1. CASE \/ FireTimer \/ UpdateTimer \/ Limit \/ FiredTimer
    BY <2>1, <1>1 DEF FireTimer, UpdateTimer, Limit, FiredTimer, OtherTypes, polls
  <2>2. CASE \/ NotifyAlone \/ IdleAlone \/ Wait \/ Dispatched \/ LastDone
    BY <2>2, <1>1 DEF NotifyAlone, IdleAlone, Wait, Dispatched, LastDone, OtherTypes,
                      polls, tables
  <2>3. CASE Poll
    BY <2>3, <1>1, <1>2 DEF Poll, OtherTypes, tables
  <2>4. CASE PollReady \/ PollQuiet \/ EventsDone
    BY <2>4, <1>1, <1>2 DEF PollReady, PollQuiet, EventsDone, OtherTypes, tables
  <2>5. ASSUME NEW f \in Fds, Dispatch(f) PROVE OtherTypes'
    <3>1. EndEvent(f) \in [Modes -> SUBSET Fds]
      BY <1>1 DEF EndEvent, OtherTypes
    <3> QED BY <3>1, <2>5, <1>1 DEF Dispatch, OtherTypes
  <2>6. CASE Return \/ Raise
    BY <2>6, <1>1, <1>2 DEF Return, Raise, End, OtherTypes, tables
  <2>7. CASE ContinuePass
    BY <2>7, <1>1 DEF ContinuePass, loopVars, tables, polls, OtherTypes
  <2>8. ASSUME NEW a, NEW b, TakePerformers(a, b) \/ Perform(a) PROVE OtherTypes'
    BY <2>8, <1>1 DEF TakePerformers, Perform, OtherTypes, tables, polls
  <2> QED BY <1>3, <2>1, <2>2, <2>3, <2>4, <2>5, <2>6, <2>7, <2>8 DEF Loop
<1>4. CASE Calls
  <2>1. ASSUME NEW m, RunMode(m) \/ AcceptInput(m) PROVE OtherTypes'
    BY <2>1, <1>1 DEF RunMode, AcceptInput, Enter, OtherTypes, tables, polls
  <2>2. ASSUME NEW f \in Fds, NEW m \in Modes, AddWatcher(f, m) \/ RemoveWatcher(f, m)
        PROVE  OtherTypes'
    BY <2>2, <1>1 DEF AddWatcher, RemoveWatcher, OtherTypes, polls
  <2>3. ASSUME NEW t \in Timers, Invalidate(t) \/ SetFireDate(t) PROVE OtherTypes'
    BY <2>3, <1>1 DEF Invalidate, SetFireDate, OtherTypes, polls
  <2>4. ASSUME NEW t, NEW m, AddTimer(t, m) PROVE OtherTypes'
    BY <2>4, <1>1 DEF AddTimer, OtherTypes, polls
  <2>5. ASSUME NEW p, NEW modes, CancelPerformSelector(p) \/ PerformSelector(p, modes)
        PROVE  OtherTypes'
    BY <2>5, <1>1 DEF CancelPerformSelector, PerformSelector, OtherTypes, polls
  <2>6. ASSUME NEW q, NEW n, NEW style, NEW mask, NEW modes,
               EnqueueNotification(q, n, style, mask, modes)
        PROVE  OtherTypes'
    BY <2>6, <1>1 DEF EnqueueNotification, loopVars, tables, polls, OtherTypes
  <2> QED BY <1>4, <2>1, <2>2, <2>3, <2>4, <2>5, <2>6 DEF Calls
<1>5. ASSUME NEW t \in Timers, Tick(t) PROVE OtherTypes'
  BY <1>5, <1>1 DEF Tick, OtherTypes, polls
<1>6. ASSUME NEW f \in Fds, Arrive(f) PROVE OtherTypes'
  BY <1>6, <1>1 DEF Arrive, OtherTypes, polls
<1>7. CASE UNCHANGED vars
  BY <1>7, <1>1 DEF vars, loopVars, tables, polls, OtherTypes
<1> QED BY <1>3, <1>4, <1>5, <1>6, <1>7 DEF LoopNext, Around

LEMMA LastMode ==
  ASSUME NEW F \in Seq(Frame), F # <<>>
  PROVE  F[Len(F)].mode \in Modes
<1>1. Len(F) \in 1 .. Len(F)
  OBVIOUS
<1> QED BY <1>1, FrameFields

LEMMA LoopInvKept == LInv /\ [LoopNext]_vars => LInv'
<1> SUFFICES ASSUME LInv, [LoopNext]_vars PROVE LInv'
  OBVIOUS
<1>1. Keeps /\ HandledNext /\ ArraysNext /\ OtherTypes'
  BY StepKeeps, OtherTypesKept
<1>2. (IInv /\ PassesFit)'
  <2>1. [Next]_qvars /\ IInv /\ PassesFit
    BY QueueSteps DEF LInv
  <2> QED BY <2>1, InvKept, PassesBounded
<1>3. frames' # <<>> => frames'[Len(frames')].mode \in Modes
  BY <1>1, LastMode DEF Keeps
<1>4. LTypes'
  BY <1>1, <1>3 DEF Keeps, Nested, ArraysNext, OtherTypes, LTypes
<1> QED BY <1>1, <1>2, <1>4 DEF Keeps, HandledNext, LInv

--------------------------------------------------------------------------
LEMMA LoopInvInit == Init => LInv
<1> SUFFICES ASSUME Init PROVE LInv
  OBVIOUS
<1>1. PICK q \in Queues : list = <<q>>
  BY DEF Init
<1>2. list \in Seq(Queues) /\ IsInjective(list)
  BY <1>1 DEF IsInjective
<1>3. IInv /\ PassesFit
  BY <1>2, NothingInv, BoundsAssumption DEF Init, Nothing, PassesFit
<1>4. /\ frames = <<>> /\ currentMode = NoMode /\ valid = Timers /\ due = {} /\ ready = {}
      /\ fdMap = [m \in Modes |-> {}] /\ completed = [m \in Modes |-> FALSE]
      /\ contextStack = {} /\ watchers \in [Modes -> SUBSET Fds]
  BY DEF Init
<1>5. ASSUME NEW T, NEW R \in [Modes -> {<<>>} \cup {<<t>> : t \in T}]
      PROVE  R \in [Modes -> Seq(T)] /\ \A m \in Modes : IsInjective(R[m])
  <2>1. ASSUME NEW m \in Modes PROVE R[m] \in Seq(T) /\ IsInjective(R[m])
    <3>1. CASE R[m] = <<>>
      BY <3>1, SetOfEmpty
    <3>2. ASSUME NEW t \in T, R[m] = <<t>> PROVE R[m] \in Seq(T) /\ IsInjective(R[m])
      BY <3>2 DEF IsInjective
    <3> QED BY <3>1, <3>2
  <2> QED BY <2>1
<1>6. /\ performers \in [Modes -> Seq(Performers)] /\ \A m \in Modes : IsInjective(performers[m])
      /\ timers \in [Modes -> Seq(Timers)] /\ \A m \in Modes : IsInjective(timers[m])
  <2>1. /\ performers \in [Modes -> {<<>>} \cup {<<p>> : p \in Performers}]
        /\ timers \in [Modes -> {<<>>} \cup {<<t>> : t \in Timers}]
    BY DEF Init
  <2> QED BY <2>1, <1>5
<1>7. LTypes
  BY <1>4, <1>6 DEF LTypes
<1>8. Nested(frames, currentMode)
  BY <1>4 DEF Nested
<1>9. TimersApart(frames, timers) /\ PerformersApart(frames, performers)
  BY <1>4, <1>6 DEF TimersApart, PerformersApart
<1>10. /\ Heeded(frames, timers, valid)
       /\ Handled(frames, fdMap, completed, contextStack, ready, Len(passes))
  BY <1>4 DEF Heeded, Handled
<1> QED BY <1>3, <1>7, <1>8, <1>9, <1>10 DEF LInv

LEMMA LoopInvariant == LoopSpec => []LInv
BY LoopInvInit, LoopInvKept, PTL DEF LoopSpec

(* Code called by the loop finds the mode of the innermost run, and after   *)
(* every way out of a run, a raise among them, that of the run around it.   *)
THEOREM LoopModeRestored == LoopSpec => []ModeRestored
<1>1. LInv => ModeRestored
  BY TopIs DEF LInv, LTypes, Nested, ModeRestored
<1> QED BY <1>1, LoopInvariant, PTL

(* However deep runs are nested, a timer does not fire in a mode inside its *)
(* own handler.                                                             *)
THEOREM LoopTimersNotReentered == LoopSpec => []TimerNotReentered
<1>1. LInv => TimerNotReentered
  BY DEF LInv, TimersApart, TimerNotReentered
<1> QED BY <1>1, LoopInvariant, PTL

(* A thread sleeps no longer than the valid timers of its mode allow, those *)
(* added since it computed its limit date excepted.                         *)
THEOREM LoopTimersHeeded == LoopSpec => []TimersHeeded
<1>1. LInv => TimersHeeded
  <2> SUFFICES ASSUME LInv, At("asleep")
               PROVE  \A t \in ToSet(timers[Top.mode]) : t \in valid => t \in Top.limits \cup Top.late
    BY DEF TimersHeeded, Limits
  <2>1. Len(frames) \in 1 .. Len(frames) /\ Top = frames[Len(frames)] /\ Top.pc = "asleep"
    BY TimerFacts, TopIs DEF At
  <2> QED BY <2>1, TimerFacts DEF Heeded, Waiting
<1> QED BY <1>1, LoopInvariant, PTL

(* A performer given several modes is in the arrays or in one batch of one  *)
(* run, and there once: it fires once.                                      *)
THEOREM LoopPerformsOnce == LoopSpec => []PerformedOnce
<1>1. LInv => PerformedOnce
  BY DEF LInv, PerformersApart, PerformedOnce
<1> QED BY <1>1, LoopInvariant, PTL

(* Whatever the run loop and the code it calls do, the notification queues  *)
(* keep their promises: the steps of the loop are steps of theirs.          *)
THEOREM LoopKeepsQueues == LoopSpec => [](PostedOnce /\ Coalesced)
<1>1. LInv => IInv
  BY DEF LInv
<1> QED BY <1>1, LoopInvariant, InvPostedOnce, InvCoalesced, PTL

(* Passes begun by the loop, and inside each other, lose no notification,   *)
(* post the oldest first and leave none that was due.                       *)
THEOREM LoopServesQueues == LoopSpec => PassLosesNone /\ PostsOldest /\ PassServesAll
<1>1. LInv /\ [LoopNext]_vars => IInv /\ [Next]_qvars
  BY QueueSteps DEF LInv
<1>2. LoopSpec => []IInv /\ [][Next]_qvars
  BY <1>1, LoopInvariant, PTL DEF LoopSpec
<1> QED BY <1>2, LosesNone, PostsOldestNext, ServesAll, PTL

--------------------------------------------------------------------------
LEMMA LastOf ==
  ASSUME NEW g, frames # <<>>, frames \in Seq(Frame), frames' \in Seq(Frame), Becomes(g)
  PROVE  Len(frames') = Len(frames) /\ Last(frames') = g
BY DEF Becomes, Last

(* What each step does to the number of runs.                               *)
LEMMA RunsCounted ==
  ASSUME LInv, LoopNext
  PROVE  \/ Len(frames') = Len(frames)
         \/ Len(frames') = Len(frames) - 1 /\ Loop
         \/ Len(frames') = Len(frames) + 1 /\ Len(frames) < MaxFrames
<1>1. frames \in Seq(Frame) /\ frames' \in Seq(Frame)
  BY TimerFacts, StepKeeps DEF Keeps
<1>2. ASSUME NEW pc, At(pc) PROVE frames # <<>>
  BY <1>2 DEF At
<1>3. ASSUME NEW g, frames # <<>>, Becomes(g) PROVE Len(frames') = Len(frames)
  BY <1>1, <1>3, LastOf
<1>4. ASSUME frames # <<>>, frames' = Front(frames) PROVE Len(frames') = Len(frames) - 1
  BY <1>1, <1>4, FrontIs
<1>5. CASE Loop
  <2>1. CASE FireTimer
    BY <2>1, <1>2, <1>3 DEF FireTimer
  <2>2. CASE FiredTimer
    BY <2>2, <1>2, <1>3 DEF FiredTimer
  <2>3. CASE UpdateTimer
    <3>1. \/ \E g : Becomes(g)
          \/ \E u : frames' = [i \in 1 .. Len(frames) |-> u[i]]
      <4>1. CASE Top.timer \in valid
        <5> DEFINE u == [i \in 1 .. Len(frames) |-> frames'[i]]
        <5>1. frames' = u
          BY <2>3, <4>1 DEF UpdateTimer
        <5>2. \A i \in 1 .. Len(frames) : u[i] = frames'[i]
          OBVIOUS
        <5> QED BY <5>1
      <4>2. CASE Top.timer \notin valid
        BY <2>3, <4>2 DEF UpdateTimer
      <4> QED BY <4>1, <4>2
    <3>2. ASSUME NEW u, frames' = [i \in 1 .. Len(frames) |-> u[i]]
          PROVE  Len(frames') = Len(frames)
      BY <3>2, <1>1
    <3> QED BY <3>1, <3>2, <2>3, <1>2, <1>3 DEF UpdateTimer
  <2>4. CASE Limit
    BY <2>4, <1>2, <1>3, <1>4, <1>5 DEF Limit
  <2>5. ASSUME NEW from, NEW to, TakePerformers(from, to) PROVE Len(frames') = Len(frames)
    BY <2>5, <1>2, <1>3 DEF TakePerformers
  <2>6. ASSUME NEW pc, Perform(pc) PROVE Len(frames') = Len(frames)
    BY <2>6, <1>2, <1>3 DEF Perform
  <2>7. CASE NotifyAlone \/ IdleAlone \/ Poll \/ Wait \/ Dispatched \/ EventsDone \/ LastDone
    BY <2>7, <1>2, <1>3 DEF NotifyAlone, IdleAlone, Poll, Wait, Dispatched, EventsDone, LastDone
  <2>8. CASE PollReady \/ PollQuiet
    BY <2>8, <1>2, <1>3 DEF PollReady, PollQuiet
  <2>9. ASSUME NEW f, Dispatch(f) PROVE Len(frames') = Len(frames)
    BY <2>9, <1>2, <1>3 DEF Dispatch
  <2>10. CASE Return \/ Raise
    BY <2>10, <1>2, <1>4, <1>5 DEF Return, Raise, End
  <2>11. CASE ContinuePass
    BY <2>11 DEF ContinuePass, loopVars
  <2> QED BY <1>5, <2>1, <2>2, <2>3, <2>4, <2>5, <2>6, <2>7, <2>8, <2>9, <2>10, <2>11 DEF Loop
<1>6. CASE Calls
  <2>1. ASSUME NEW m, NEW pc, NEW late, Enter(m, pc, late)
        PROVE  Len(frames') = Len(frames) + 1 /\ Len(frames) < MaxFrames
    BY <2>1, <1>1 DEF Enter
  <2>2. ASSUME NEW t, NEW m, AddTimer(t, m) PROVE Len(frames') = Len(frames)
    BY <2>2, <1>1 DEF AddTimer
  <2>3. ASSUME NEW t, SetFireDate(t) PROVE Len(frames') = Len(frames)
    BY <2>3, <1>1 DEF SetFireDate
  <2>4. ASSUME NEW f, NEW m, AddWatcher(f, m) \/ RemoveWatcher(f, m)
        PROVE  frames' = frames
    BY <2>4 DEF AddWatcher, RemoveWatcher
  <2>5. ASSUME NEW t, Invalidate(t) PROVE frames' = frames
    BY <2>5 DEF Invalidate
  <2>6. ASSUME NEW p, NEW modes, CancelPerformSelector(p) \/ PerformSelector(p, modes)
        PROVE  frames' = frames
    BY <2>6 DEF CancelPerformSelector, PerformSelector
  <2>7. ASSUME NEW q, NEW n, NEW style, NEW mask, NEW modes,
               EnqueueNotification(q, n, style, mask, modes)
        PROVE  frames' = frames
    BY <2>7 DEF EnqueueNotification, loopVars
  <2> QED BY <1>6, <2>1, <2>2, <2>3, <2>4, <2>5, <2>6, <2>7 DEF Calls, RunMode, AcceptInput
<1>7. CASE Around
  BY <1>1, <1>7 DEF Around, Tick, Arrive
<1> QED BY <1>5, <1>6, <1>7 DEF LoopNext

(* The variables of the loop have their types, and runs and calls are       *)
(* bounded.                                                                 *)
THEOREM LoopTypeOK == LoopSpec => []TypeOK
<1> DEFINE Bounded == Len(frames) <= MaxFrames /\ calls \in 0 .. MaxCalls
<1>1. Init => Bounded
  BY LoopBoundsAssumption DEF Init
<1>2. LInv /\ Bounded /\ [LoopNext]_vars => Bounded'
  <2> SUFFICES ASSUME LInv, Bounded, [LoopNext]_vars PROVE Bounded'
    OBVIOUS
  <2>1. CASE UNCHANGED vars
    BY <2>1 DEF vars, loopVars
  <2>2. CASE LoopNext
    <3>1. Len(frames') <= MaxFrames
      <4>1. Len(frames) \in Nat
        BY TimerFacts
      <4> QED BY <4>1, <2>2, RunsCounted, LoopBoundsAssumption
    <3>2. Calls => calls < MaxCalls
      BY DEF Calls, RunMode, AcceptInput, Enter, AddWatcher, RemoveWatcher, Invalidate,
             SetFireDate, AddTimer, CancelPerformSelector, PerformSelector,
             EnqueueNotification, Program
    <3>3. calls' \in 0 .. MaxCalls
      BY <3>2, <2>2, LoopBoundsAssumption DEF LoopNext
    <3> QED BY <3>1, <3>3
  <2> QED BY <2>1, <2>2
<1>3. LInv /\ Bounded => TypeOK
  <2>1. LInv => QTypeOK
    BY DEF LInv, IInv, Sound, Types, PassesFit, QTypeOK
  <2> QED BY <2>1 DEF LInv, LTypes, TimersApart, TypeOK
<1> QED BY <1>1, <1>2, <1>3, LoopInvariant, PTL DEF LoopSpec

--------------------------------------------------------------------------
(* A run that looks at its results calls the program only to dispatch one.  *)
LEMMA OnlyDispatchCalls ==
  ASSUME LInv, LoopNext, frames # <<>>, Len(frames') = Len(frames), Top.pc = "event",
         Last(frames').user
  PROVE  \E f \in Fds : Dispatch(f)
<1>1. /\ frames \in Seq(Frame) /\ frames' \in Seq(Frame)
      /\ Len(frames) \in 1 .. Len(frames) /\ Top = frames[Len(frames)] /\ Top \in Frame
  BY TimerFacts, TopIs, StepKeeps DEF Keeps
<1>2. ~ Top.user
  BY <1>1 DEF LInv, Handled
<1>3. ASSUME NEW pc, At(pc) PROVE pc = "event"
  BY <1>3 DEF At
<1>4. UNCHANGED frames => FALSE
  BY <1>1, <1>2 DEF Top
<1>5. CASE Loop
  <2>1. ~ (FireTimer \/ FiredTimer \/ UpdateTimer \/ Limit)
    BY <1>3 DEF FireTimer, FiredTimer, UpdateTimer, Limit
  <2>2. ~ (TakePerformers("accept", "before") \/ TakePerformers("after", "last"))
    BY <1>3 DEF TakePerformers
  <2>3. ~ (Perform("before") \/ Perform("last"))
    BY <1>3 DEF Perform
  <2>4. ~ (NotifyAlone \/ IdleAlone \/ Poll \/ PollReady \/ Wait \/ PollQuiet)
    BY <1>3 DEF NotifyAlone, IdleAlone, Poll, PollReady, Wait, PollQuiet
  <2>5. ~ (Dispatched \/ LastDone \/ Return \/ Raise)
    BY <1>3 DEF Dispatched, LastDone, Return, Raise
  <2>6. ~ EventsDone
    <3> SUFFICES ASSUME EventsDone PROVE FALSE
      OBVIOUS
    <3>1. Becomes([Top EXCEPT !.pc = "after", !.left = {}])
      BY DEF EventsDone
    <3>2. Last(frames') = [Top EXCEPT !.pc = "after", !.left = {}]
      BY <3>1, <1>1, LastOf
    <3> QED BY <3>2, <1>1, <1>2 DEF Frame
  <2>7. ~ ContinuePass
    BY <1>4 DEF ContinuePass, loopVars
  <2> QED BY <1>5, <2>1, <2>2, <2>3, <2>4, <2>5, <2>6, <2>7 DEF Loop
<1>6. CASE Calls
  <2>1. ASSUME NEW m, NEW pc, NEW late, Enter(m, pc, late) PROVE FALSE
    BY <2>1, <1>1 DEF Enter
  <2>2. ASSUME NEW u, NEW i, i = Len(frames), frames'[i] = u, u.user = frames[i].user
        PROVE  FALSE
    BY <2>2, <1>1, <1>2 DEF Last
  <2>3. ASSUME NEW t, NEW m, AddTimer(t, m) PROVE FALSE
    <3>1. frames'[Len(frames)] = [frames[Len(frames)] EXCEPT !.late = @ \cup {t}]
      BY <2>3, <1>1 DEF AddTimer
    <3>2. frames'[Len(frames)].user = frames[Len(frames)].user
      BY <3>1, <1>1 DEF Frame
    <3> QED BY <3>2, <2>2
  <2>4. ASSUME NEW t, SetFireDate(t) PROVE FALSE
    <3>1. frames'[Len(frames)] =
            [frames[Len(frames)] EXCEPT !.moved = @ \/ frames[Len(frames)].timer = t]
      BY <2>4, <1>1 DEF SetFireDate
    <3>2. frames'[Len(frames)].user = frames[Len(frames)].user
      BY <3>1, <1>1 DEF Frame
    <3> QED BY <3>2, <2>2
  <2>5. ASSUME NEW f, NEW m, AddWatcher(f, m) \/ RemoveWatcher(f, m) PROVE FALSE
    BY <2>5, <1>4 DEF AddWatcher, RemoveWatcher
  <2>6. ASSUME NEW t, Invalidate(t) PROVE FALSE
    BY <2>6, <1>4 DEF Invalidate
  <2>7. ASSUME NEW p, NEW modes, CancelPerformSelector(p) \/ PerformSelector(p, modes)
        PROVE  FALSE
    BY <2>7, <1>4 DEF CancelPerformSelector, PerformSelector
  <2>8. ASSUME NEW q, NEW n, NEW style, NEW mask, NEW modes,
               EnqueueNotification(q, n, style, mask, modes)
        PROVE  FALSE
    BY <2>8, <1>4 DEF EnqueueNotification, loopVars
  <2> QED BY <1>6, <2>1, <2>3, <2>4, <2>5, <2>6, <2>7, <2>8 DEF Calls, RunMode, AcceptInput
<1>7. CASE Around
  BY <1>3, <1>4, <1>7 DEF Around, Tick, Arrive
<1> QED BY <1>5, <1>6, <1>7 DEF LoopNext

(* A handler is called for a descriptor only while it has input: what an    *)
(* inner run has handled the outer ones, whose results still hold it, do    *)
(* not (endEvent:for:, 60-66, endPoll, 152-157).                            *)
THEOREM LoopCallsForInput == LoopSpec => NoStaleEvent
<1>1. ASSUME LInv, LoopNext, frames # <<>>, Len(frames') = Len(frames), Top.pc = "event",
             Last(frames').user
      PROVE  Top.left \ Last(frames').left \subseteq ready
  <2>1. PICK f \in Fds : Dispatch(f)
    BY <1>1, OnlyDispatchCalls
  <2> DEFINE called == f \in fdMap[Top.mode]
             g == [Top EXCEPT !.pc = "dispatched", !.left = @ \ {f}, !.user = called]
  <2>2. ~ completed[Top.mode] /\ f \in Top.left /\ Becomes(g)
    BY <2>1 DEF Dispatch
  <2>3. Last(frames') = g
    <3>1. frames \in Seq(Frame) /\ frames' \in Seq(Frame)
      BY <1>1, TimerFacts, StepKeeps DEF Keeps
    <3> QED BY <3>1, <2>2, <1>1, LastOf
  <2>4. g.user = called /\ g.left = Top.left \ {f}
    <3>1. Top \in Frame
      BY <1>1, TimerFacts, TopIs
    <3> QED BY <3>1 DEF Frame
  <2>5. f \in fdMap[Top.mode] => f \in ready
    BY <1>1, <2>2, InputOfTop
  <2> QED BY <1>1, <2>3, <2>4, <2>5
<1>2. LInv /\ [LoopNext]_vars =>
        [frames # <<>> /\ Len(frames') = Len(frames) /\ Top.pc = "event"
           /\ Last(frames').user
         => Top.left \ Last(frames').left \subseteq ready]_vars
  BY <1>1
<1> QED BY <1>2, LoopInvariant, PTL DEF LoopSpec, NoStaleEvent
=============================================================================
